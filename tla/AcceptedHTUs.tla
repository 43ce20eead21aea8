---------------------------- MODULE AcceptedHTUs ----------------------------
(***************************************************************************)
(* The URLs a DPoP proof may be bound to, per route: buildExtraHTUs in     *)
(* routes/router.go, NewValidator and Validate in dpop/dpop.go.  A         *)
(* URL is what url.Parse makes of it: whether it parses, the host, and its *)
(* path as the segments between slashes (a path that ends with a slash     *)
(* ends with an empty segment).                                            *)
(***************************************************************************)
EXTENDS Integers, SequencesExt

\* An empty segment.
NoSegment == ""

\* PublicURL + "/credential", then ISSUER_DPOP_ACCEPTED_HTU (Init in
\* routes/router.go).
ConfiguredHTUs(publicURL, accepted) ==
  << [publicURL EXCEPT !.path = Append(publicURL.path, "credential")] >> \o accepted

\* Mutant of TrimmedPath: the trailing slashes stay.
UntrimmedPath(path) == path

\* strings.TrimRight(parsed.Path, "/").
TrimmedPath(path) ==
  LET kept == {n \in DOMAIN path : path[n] # NoSegment}
  IN  SubSeq(path, 1, IF kept = {} THEN 0 ELSE CHOOSE n \in kept : \A m \in kept : m <= n)

\* "/" and the last path segment, which is empty for a URL without a path.
LocalPath(url) ==
  LET path == TrimmedPath(url.path) IN IF path = << >> THEN NoSegment ELSE Last(path)

\* buildExtraHTUs: the URLs grouped by the route their last segment names.  A
\* group is the set of their places in the list, which order it.  Unparsable URLs
\* are skipped.
buildExtraHTUs(externalHTUs) ==
  LET parsed == {i \in DOMAIN externalHTUs : externalHTUs[i].parses}
  IN  [route \in {LocalPath(externalHTUs[i]) : i \in parsed} |->
         {i \in parsed : LocalPath(externalHTUs[i]) = route}]

\* NewValidator with the groups of these URLs and no AcceptedHTUs or
\* DynamicHTURoutes: the set of URLs of each route, as they were written.
NewValidator(externalHTUs) ==
  LET extra == buildExtraHTUs(externalHTUs)
  IN  [route \in DOMAIN extra |-> {externalHTUs[i] : i \in extra[route]}]

\* The test of htu in Validate: the text of the claim is looked up among the
\* URLs of the route, and a route without URLs accepts nothing.
HTUAccepted(htus, route, htu) == route \in DOMAIN htus /\ htu \in htus[route]
-----------------------------------------------------------------------------

\* The endpoint a URL is for: its last segment that is not empty, if any.
NamesEndpoint(url, route) ==
  IF route = NoSegment THEN \A n \in DOMAIN url.path : url.path[n] = NoSegment
  ELSE \E n \in DOMAIN url.path :
         url.path[n] = route /\ \A m \in DOMAIN url.path : m > n => url.path[m] = NoSegment
=============================================================================
