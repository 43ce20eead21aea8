---------------------------- MODULE PureFunctions ----------------------------
(***************************************************************************)
(* The pure functions of the issuer against what they are for.  A step     *)
(* picks a function and an input for it; the invariants compare what the   *)
(* function answers with a definition of its own.                          *)
(***************************************************************************)
EXTENDS Integers, StatusListBits, HolderIdentifier, CredentialClaims, RequestParsing,
        AcceptedHTUs

CONSTANTS
  Lists,        \* decompressed status lists
  Indexes,      \* indexes looked up
  Widths,       \* entry widths
  Identifiers,  \* person identifiers
  Tokens,       \* introspected tokens: whether they have claims, and which
  Forms,        \* forms of an offer, as functions
  Bodies,       \* credential requests
  Settings,     \* values of ISSUER_COUNTRY and ISSUER_ISSUING_AUTHORITY
  PublicURLs,   \* values of ISSUER_PUBLIC_URL
  URLLists,     \* values of ISSUER_DPOP_ACCEPTED_HTU
  Routes        \* last segments of routes

\* What url.Parse makes of a URL.
URLs == [parses : BOOLEAN, host : STRING, path : Seq(Routes)]

\* What a request gives: an object, an array of objects, or neither.
Requests ==
  [shape : {"map", "array", "other"}, single : STRING,
   objects : Seq([jwt : Seq(STRING), attestation : Seq(STRING), rest : Seq(STRING),
                  lists : BOOLEAN])]

ASSUME InputAssumption ==
  /\ Lists \subseteq Seq(0 .. 255) /\ Indexes \subseteq Int /\ Widths \subseteq Int
  /\ Identifiers \subseteq Seq(Pieces)
  /\ Settings \subseteq {"config", "empty"}
  /\ Bodies \subseteq {b \in Requests : b.shape = "map" => Len(b.objects) = 1}
  /\ PublicURLs \subseteq {u \in URLs : u.parses} /\ URLLists \subseteq Seq(URLs)
  /\ "credential" \in Routes

VARIABLES
  picked,  \* the function picked, or "none"
  input    \* its input

vars == <<picked, input>>

Init == picked = "none" /\ input = << >>

Choose(function, inputs) ==
  /\ picked = "none"
  /\ picked' = function
  /\ input' \in inputs

StatusLookup ==
  Choose("isIndexListed", [list : Lists, index : Indexes, width : Widths])

IdentifierSplit == Choose("splitHolderIdentifier", [identifier : Identifiers])

ClaimsBuilt ==
  Choose("buildPIDClaims",
         [token : Tokens, form : Forms, country : Settings, authority : Settings])

ProofsCollected == Choose("UnmarshalJSON", Bodies)

HTUsGrouped == Choose("buildExtraHTUs", [publicURL : PublicURLs, accepted : URLLists])

Answered == picked # "none" /\ UNCHANGED vars

Next ==
  \/ StatusLookup \/ IdentifierSplit \/ ClaimsBuilt \/ ProofsCollected
  \/ HTUsGrouped \/ Answered

Spec == Init /\ [][Next]_vars

-----------------------------------------------------------------------------

\* isIndexListed reports an entry as listed exactly when it lies wholly in the
\* list and one of its bits is set, for every index and width, aligned to
\* bytes or not; of an entry wider than an integer only the bits the integer
\* holds count, so that one with nothing but higher bits set reads as not
\* listed.  Only a negative index or a width that is not positive is an error.
ListedMatchesEntry ==
  picked = "isIndexListed" =>
    LET answer == isIndexListed(input.list, input.index, input.width)
    IN  IF input.index < 0 \/ input.width <= 0 THEN answer = "error"
        ELSE answer = "listed" <=> EntryIsSet(input.list, input.index, input.width)

\* An identifier with the scheme PNOLV loses the scheme and nothing else, and
\* one without a hyphen is left alone (splitHolderIdentifier).
KnownSchemeSplit ==
  picked = "splitHolderIdentifier" =>
    LET id == input.identifier
        split == splitHolderIdentifier(id)
    IN  /\ HasScheme(id) => /\ split.type = "PNOLV"
                            /\ << "PNOLV", "-" >> \o split.value = id
        /\ "-" \notin ToSet(id) => split = [type |-> "person_code", value |-> id]

\* openid4vci/issuance.go:65: an identifier without a recognized scheme prefix
\* is reported as person_code with the value unchanged.
UnknownSchemeUnchanged ==
  picked = "splitHolderIdentifier" /\ ~HasScheme(input.identifier) =>
      splitHolderIdentifier(input.identifier) =
        [type |-> "person_code", value |-> input.identifier]

\* A PID carries only texts, whatever the token and the form hold, an expiry
\* date always, and issuer details unless no one supplies them
\* (buildPIDClaims over merged user data).
PIDClaimsAreTexts ==
  picked = "buildPIDClaims" =>
    LET u == UserData(input.token, input.form)
        pid == buildPIDClaims(u, input.country, input.authority)
    IN  /\ \A key \in DOMAIN pid : pid[key] \in {"text", "empty"} \union Supplied
        /\ pid["expiry_date"] # "empty" /\ pid["issuance_date"] # "empty"
        /\ "issuing_authority" \notin DOMAIN pid => input.authority = "empty"
        /\ pid["issuing_country"] = "empty" => input.country = "empty"

\* No name of the session's bookkeeping is disclosed in a generic credential,
\* whether it came with the token or with the form; every other entry is.
InternalNamesNeverMinted ==
  picked = "buildPIDClaims" =>
    LET minted == DOMAIN genericClaims(UserData(input.token, input.form))
    IN  /\ minted \intersect {"sub", "session_id", "username", "scope", "status"} = {}
        /\ (DOMAIN input.form) \ genericExcludedClaims \subseteq minted

Occurrences(seq, t) == Cardinality({i \in DOMAIN seq : seq[i] = t})

\* The texts given under both keys of all objects of a body.
Given(body) ==
  FlattenSeq([i \in DOMAIN body.objects |->
                body.objects[i].jwt \o body.objects[i].attestation])

\* Whichever format a request uses, every proof it gives is verified exactly as
\* often as it is given, and the singular proof counts only when there is no
\* other; only a map that has anything but a list of texts under some key,
\* whichever key it is, gives none (UnmarshalJSON, then the precedence in
\* credential).
NoProofLost ==
  picked = "UnmarshalJSON" =>
    LET given  == Given(input)
        texts  == ToSet(given) \ {Empty, NotText}
        single == {input.single} \ {Empty}
        proofs == proofJWTs(input)
    IN  IF input.shape = "other" \/ (input.shape = "map" /\ ~MapDecodes(input.objects[1]))
        THEN ToSet(proofs) = single
        ELSE /\ \A t \in texts : Occurrences(proofs, t) = Occurrences(given, t)
             /\ ToSet(proofs) \ {Empty} \subseteq IF texts = {} THEN single ELSE texts

\* A DPoP proof is accepted at a route exactly if the URL it is bound to is
\* configured and names that endpoint, whatever slashes end it; in particular
\* the credential endpoint of the metadata is accepted at /credential, and no
\* URL is accepted at two routes (buildExtraHTUs, NewValidator).
HTUBoundToEndpoint ==
  picked = "buildExtraHTUs" =>
    LET configured == ToSet(ConfiguredHTUs(input.publicURL, input.accepted))
        htus == NewValidator(ConfiguredHTUs(input.publicURL, input.accepted))
        endpoint == ConfiguredHTUs(input.publicURL, << >>)[1]
        Accepted(route) == {u \in configured : HTUAccepted(htus, route, u)}
    IN  /\ \A route \in Routes :
             Accepted(route) = {u \in configured : u.parses /\ NamesEndpoint(u, route)}
        /\ endpoint \in Accepted("credential")
        /\ \A r1, r2 \in Routes : r1 # r2 => Accepted(r1) \intersect Accepted(r2) = {}

\* credential/pid.go:21: a PID carries the claims its metadata declares
\* mandatory.
MandatoryClaimsMinted ==
  picked = "buildPIDClaims" =>
    LET u == UserData(input.token, input.form)
    IN  MandatoryPIDClaims \subseteq DOMAIN u =>
          MandatoryPIDClaims \subseteq DOMAIN buildPIDClaims(u, input.country, input.authority)
=============================================================================
