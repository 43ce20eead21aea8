--------------------------- MODULE RequestParsing ---------------------------
(***************************************************************************)
(* Which proofs a credential request carries: UnmarshalJSON of             *)
(* CredentialRequest (routes/request/request.go) and the choice between    *)
(* its result and the legacy singular proof at the top of credential       *)
(* (routes/credential.go).  Under each of the keys "jwt" and "attestation" *)
(* an object has the sequence of what it holds there: nothing if the key   *)
(* is missing or null, one item if it holds a text of its own.  rest is    *)
(* what it holds under its other keys, and lists tells whether it holds    *)
(* lists only.  A null in a list counts as an empty text.                  *)
(***************************************************************************)
EXTENDS Integers, SequencesExt

Empty == "empty"        \* the empty text
NotText == "not text"   \* a JSON value that is not a text

\* A map from any keys to lists of texts.
MapDecodes(object) ==
  /\ object.lists
  /\ NotText \notin ToSet(object.jwt \o object.attestation) \union ToSet(object.rest)

\* A map that decodes gives what it holds under the two keys as it is, and one
\* that does not gives nothing.
MapProofs(object) ==
  IF MapDecodes(object) THEN object.jwt \o object.attestation ELSE << >>

\* The non-empty texts among these items, in their order.
Texts(items) ==
  LET kept[n \in 0 .. Len(items)] ==
        IF n = 0 THEN << >>
        ELSE IF items[n] \in {Empty, NotText} THEN kept[n - 1]
        ELSE Append(kept[n - 1], items[n])
  IN  kept[Len(items)]

\* Mutant of ObjectProofs: the attestations of an object are passed over.
ObjectProofsJWT(object) == Texts(object.jwt)

\* The non-empty texts under the two keys of an object.
ObjectProofs(object) == Texts(object.jwt \o object.attestation)

ArrayProofs(objects) == FlattenSeq([i \in DOMAIN objects |-> ObjectProofs(objects[i])])

\* Any other shape of "proofs", or none, yields no proof and no error.
UnmarshalJSON(body) ==
  IF body.shape = "map" THEN MapProofs(body.objects[1])
  ELSE IF body.shape = "array" THEN ArrayProofs(body.objects)
  ELSE << >>

\* The proofs of a request, or none: then it is refused.
proofJWTs(body) ==
  IF UnmarshalJSON(body) # << >> THEN UnmarshalJSON(body)
  ELSE IF body.single # Empty THEN << body.single >> ELSE << >>
=============================================================================
