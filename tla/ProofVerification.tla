-------------------------- MODULE ProofVerification --------------------------
(***************************************************************************)
(* How POST /credential turns the proofs of a request into proof results   *)
(* (the IDAuth branch of credential in routes/credential.go): for each     *)
(* proof the embedded key attestation is validated (ValidateWUA in         *)
(* openid4vci/wua_validate.go, with a call to the wallet provider's status *)
(* list), the proof's signature and key are verified, and one result is    *)
(* made per attested key (credential/proof.go); at the end a credential    *)
(* type may require that every result is attested.                         *)
(*                                                                         *)
(* The handler keeps all of this in its own locals, so one request is      *)
(* modelled.  What runs beside it is the clock, which the handler reads    *)
(* anew at each look at an attestation's exp, and the wallet provider,     *)
(* which may revoke a wallet unit meanwhile.  Encodings, certificate       *)
(* chains and signatures are summed up by what they decide.                *)
(***************************************************************************)
EXTENDS Integers, Sequences

CONSTANTS
  Keys,         \* keys the handler can use: EC, P-256, coordinates that decode
  BadKey,       \* an attested key the handler cannot use
  NoKey,        \* no key
  Attestations, \* the key attestations in circulation
  NoAttestation,
  Proofs,       \* the proof JWTs in circulation
  MaxProofs,    \* bound on the proofs of a request
  MaxTime       \* bound on the clock

\* genuine: typ, certificate chain and signature pass; high: the key storage
\* level is iso_18045_high; exp: 0 if absent; status: refers to a status list.
AttestationShape ==
  [genuine : BOOLEAN, high : BOOLEAN, exp : Nat, status : BOOLEAN,
   keys : Seq(Keys \union {BadKey})]

\* kind: how the proof carries its key; wellFormed: three parts, ES256 and, unless
\* it is itself an attestation, a key on the curve; signer: the key its signature
\* verifies under.
ProofShape ==
  [kind : {"jwk", "header", "attestation", "none"}, wellFormed : BOOLEAN,
   jwk : Keys \union {NoKey}, signer : Keys, att : Attestations \union {NoAttestation}]

ASSUME ProofAssumption ==
  /\ Attestations \subseteq AttestationShape
  /\ NoAttestation \notin AttestationShape /\ NoKey \notin Keys /\ BadKey \notin Keys
  /\ Proofs \subseteq ProofShape
  /\ \A p \in Proofs : /\ p.kind \in {"header", "attestation"} <=> p.att # NoAttestation
                       /\ p.kind = "jwk" <=> p.jwk # NoKey
ASSUME BoundAssumption == MaxProofs \in Nat \ {0} /\ MaxTime \in Nat

VARIABLES
  now,       \* the issuer's clock
  revoked,   \* the attestations whose wallet unit is listed as revoked
  enforced,  \* the setting wua_verification_enforced
  pc,        \* where the handler is
  requires,  \* whether the credential type requires key attestation
  proofs,    \* the proofs of the request
  at,        \* the proof the loop is at
  first,     \* what VerifyProofSignature returned for it
  batch,     \* the entry the loop over its attested keys is at, and when these
             \* were parsed
  results,   \* the proof results so far
  validated, \* history: the attestations that passed ValidateWUA
  stale      \* history: the attestations revoked before the request began

environment == <<now, revoked, enforced>>
requestVars == <<requires, proofs, stale>>
vars == <<now, revoked, enforced, pc, requires, proofs, at, first, batch, results, validated, stale>>

\* One verified holder key and whether it is attested; history: of which proof
\* it is, which of its attested keys, and when the attestation was parsed.
Results ==
  [key : Keys, attested : BOOLEAN, of : 1 .. MaxProofs, entry : Nat \ {0},
   parsed : 0 .. MaxTime]
NoResult == [key |-> NoKey, attested |-> FALSE, of |-> 1, entry |-> 1, parsed |-> 0]

Busy == {"attestation", "status", "verify", "expand", "keys", "gate"}
Ended == {"issuing", "rejected"}

proof == proofs[at]

Init ==
  /\ now = 0
  /\ revoked = {}
  /\ enforced \in BOOLEAN
  /\ pc = "idle"
  /\ requires = FALSE
  /\ proofs = << >>
  /\ at = 1
  /\ first = NoResult
  /\ batch = [entry |-> 1, parsed |-> 0]
  /\ results = << >>
  /\ validated = {}
  /\ stale = {}

-----------------------------------------------------------------------------

\* No usable body or proof, no introspection, or an unknown credential type.
Refuse ==
  /\ pc = "idle"
  /\ pc' = "rejected"
  /\ UNCHANGED <<environment, requestVars, at, first, batch, results, validated>>

\* requires: key_attestations_required in the metadata of the credential type.
Begin ==
  /\ pc = "idle"
  /\ \E n \in 1 .. MaxProofs : proofs' \in [1 .. n -> Proofs]
  /\ requires' \in BOOLEAN
  /\ stale' = revoked
  /\ pc' = "attestation"
  /\ UNCHANGED <<environment, at, first, batch, results, validated>>

\* Mutant of Unverified: the setting read the wrong way round.
UnverifiedInverted == pc' = IF enforced THEN "verify" ELSE "rejected"

\* validateProofKeyAttestation on a failed validation: rejected if enforced,
\* else only logged.
Unverified == pc' = IF enforced THEN "rejected" ELSE "verify"

NothingAttested ==
  /\ pc = "attestation"
  /\ proof.att = NoAttestation
  /\ pc' = "verify"
  /\ UNCHANGED <<environment, requestVars, at, first, batch, results, validated>>

\* What ValidateWUA checks on the attestation itself; it must have an exp.
Genuine(a) == a.genuine /\ a.exp # 0 /\ now < a.exp /\ a.high

\* ValidateWUA up to the status list, which only some attestations refer to.
ValidateWUA ==
  /\ pc = "attestation"
  /\ proof.att # NoAttestation
  /\ IF ~Genuine(proof.att)
     THEN Unverified /\ UNCHANGED validated
     ELSE IF proof.att.status
          THEN pc' = "status" /\ UNCHANGED validated
          ELSE pc' = "verify" /\ validated' = validated \union {proof.att}
  /\ UNCHANGED <<environment, requestVars, at, first, batch, results>>

\* Mutant of StatusRevoked: a listed entry is taken for a valid one.
StatusBitInverted ==
  /\ pc = "status"
  /\ proof.att \in revoked
  /\ pc' = "verify"
  /\ validated' = validated \union {proof.att}
  /\ UNCHANGED <<environment, requestVars, at, first, batch, results>>

StatusClear ==
  /\ pc = "status"
  /\ proof.att \notin revoked
  /\ pc' = "verify"
  /\ validated' = validated \union {proof.att}
  /\ UNCHANGED <<environment, requestVars, at, first, batch, results>>

StatusRevoked ==
  /\ pc = "status"
  /\ proof.att \in revoked
  /\ Unverified
  /\ UNCHANGED <<environment, requestVars, at, first, batch, results, validated>>

\* Mutant of StatusUnavailable: the validation starts over.
StatusRetried ==
  /\ pc = "status"
  /\ pc' = "attestation"
  /\ UNCHANGED <<environment, requestVars, at, first, batch, results, validated>>

\* The list could not be fetched, parsed or verified.
StatusUnavailable ==
  /\ pc = "status"
  /\ Unverified
  /\ UNCHANGED <<environment, requestVars, at, first, batch, results, validated>>

-----------------------------------------------------------------------------

\* Mutant of Parses: the keys of an expired attestation are still read.
ParsesExpired(a) == a.high /\ a.keys # << >>

\* parseAttestedKeys: no signature is looked at, and a missing exp is allowed.
Parses(a) == (a.exp # 0 => now < a.exp) /\ a.high /\ a.keys # << >>

\* The holder key a proof names: its jwk, or its first attested key.
HolderKey(p) == IF p.kind = "jwk" THEN p.jwk ELSE p.att.keys[1]

\* Mutant of Verifies: the signature of a WUA-bound proof is not checked.
VerifiesAttestedUnsigned(p) ==
  /\ p.wellFormed /\ p.kind # "none"
  /\ p.kind # "jwk" => Parses(p.att)
  /\ HolderKey(p) # BadKey
  /\ p.kind = "jwk" => p.signer = HolderKey(p)

\* VerifyProofSignature.  A proof that is itself an attestation is signed by
\* the wallet provider: its signature is not checked here.
Verifies(p) ==
  /\ p.wellFormed /\ p.kind # "none"
  /\ p.kind # "jwk" => Parses(p.att)
  /\ HolderKey(p) # BadKey
  /\ p.kind # "attestation" => p.signer = HolderKey(p)

VerifySignature ==
  /\ pc = "verify"
  /\ IF Verifies(proof)
     THEN /\ first' = [key |-> HolderKey(proof), attested |-> proof.kind # "jwk",
                       of |-> at, entry |-> 1, parsed |-> now]
          /\ pc' = "expand"
     ELSE pc' = "rejected" /\ UNCHANGED first
  /\ UNCHANGED <<environment, requestVars, at, batch, results, validated>>

\* The next proof's turn comes, or the gate.
NextProof ==
  IF at = Len(proofs)
  THEN pc' = "gate" /\ UNCHANGED at
  ELSE pc' = "attestation" /\ at' = at + 1

\* VerifyProofSignatureAll: the attestation is parsed again; if it expired
\* meanwhile, or has one key, what VerifyProofSignature returned is all there is.
Batched == proof.att # NoAttestation /\ Parses(proof.att) /\ Len(proof.att.keys) > 1

SingleKey ==
  /\ pc = "expand"
  /\ ~Batched
  /\ results' = Append(results, first)
  /\ NextProof
  /\ UNCHANGED <<environment, requestVars, first, batch, validated>>

BeginBatch ==
  /\ pc = "expand"
  /\ Batched
  /\ batch' = [entry |-> 1, parsed |-> now]
  /\ pc' = "keys"
  /\ UNCHANGED <<environment, requestVars, at, first, results, validated>>

\* Mutant of AppendKey: entries that cannot be used are not skipped.
AppendKeyUnchecked(k) ==
  results' = Append(results, [key |-> k, attested |-> TRUE, of |-> at,
                              entry |-> batch.entry, parsed |-> batch.parsed])

\* One result for each attested key that can be used.
AppendKey(k) ==
  IF k = BadKey THEN UNCHANGED results
  ELSE results' =
         Append(results, [key |-> k, attested |-> TRUE, of |-> at,
                          entry |-> batch.entry, parsed |-> batch.parsed])

\* One pass of the loop over the attested keys.
AttestedKey ==
  /\ pc = "keys"
  /\ AppendKey(proof.att.keys[batch.entry])
  /\ IF batch.entry < Len(proof.att.keys)
     THEN batch' = [batch EXCEPT !.entry = @ + 1] /\ UNCHANGED <<pc, at>>
     ELSE NextProof /\ UNCHANGED batch
  /\ UNCHANGED <<environment, requestVars, first, validated>>

\* Mutant of AllAttested: only the first result is looked at.
FirstAttested == results[1].attested

AllAttested == \A i \in DOMAIN results : results[i].attested

\* The whole request is refused if one result lacks a required attestation.
Gate ==
  /\ pc = "gate"
  /\ pc' = IF requires /\ ~AllAttested THEN "rejected" ELSE "issuing"
  /\ UNCHANGED <<environment, requestVars, at, first, batch, results, validated>>

-----------------------------------------------------------------------------

\* The wallet provider revokes a wallet unit.
Revoke ==
  /\ \E a \in Attestations \ revoked : a.status /\ revoked' = revoked \union {a}
  /\ UNCHANGED <<now, enforced, pc, requestVars, at, first, batch, results, validated>>

Tick ==
  /\ now < MaxTime
  /\ now' = now + 1
  /\ UNCHANGED <<revoked, enforced, pc, requestVars, at, first, batch, results, validated>>

Finished ==
  /\ pc \in Ended
  /\ UNCHANGED vars

\* One step of the handler.
Handle ==
  \/ NothingAttested \/ ValidateWUA
  \/ StatusClear \/ StatusRevoked \/ StatusUnavailable
  \/ VerifySignature \/ SingleKey \/ BeginBatch \/ AttestedKey \/ Gate

Next == Refuse \/ Begin \/ Handle \/ Revoke \/ Tick \/ Finished

Spec == Init /\ [][Next]_vars

\* The handler is scheduled and the status list call returns.
FairSpec == Spec /\ WF_vars(Handle)

-----------------------------------------------------------------------------

\* Every variable has its type; every result holds a usable key.
TypeOK ==
  /\ now \in 0 .. MaxTime
  /\ revoked \subseteq Attestations /\ stale \subseteq revoked
  /\ enforced \in BOOLEAN
  /\ pc \in {"idle"} \union Busy \union Ended
  /\ requires \in BOOLEAN
  /\ proofs \in Seq(Proofs) /\ Len(proofs) <= MaxProofs
  /\ at \in 1 .. MaxProofs
  /\ first \in Results \union {NoResult}
  /\ batch \in [entry : Nat \ {0}, parsed : 0 .. MaxTime]
  /\ results \in Seq(Results)
  /\ validated \subseteq Attestations

\* The attestation a result's key was taken from.
AttestationOf(r) == proofs[r.of].att

\* With enforcement on, a request reaches issuance only if each attestation
\* its results rest on passed ValidateWUA in this request, status list
\* included (validateProofKeyAttestation before VerifyProofSignatureAll).
EnforcedMeansValidated ==
  enforced /\ pc = "issuing" =>
    \A i \in DOMAIN results :
      results[i].attested => AttestationOf(results[i]) \in validated

\* With enforcement on, no credential is issued to a key of a wallet unit that
\* was on its status list before the request came.
RevokedBeforeIsRefused ==
  enforced /\ pc = "issuing" =>
    \A i \in DOMAIN results :
      results[i].attested => AttestationOf(results[i]) \notin stale

\* No result rests on an attestation that had expired when the key was taken
\* from it, though the handler parses it twice and the clock moves in between.
AttestedKeysWereLive ==
  \A i \in DOMAIN results : results[i].attested =>
    LET exp == AttestationOf(results[i]).exp IN exp # 0 => results[i].parsed < exp

\* Of the results rs, those of proof n.
Of(rs, n) == {i \in DOMAIN rs : rs[i].of = n}

\* The entries they stand for; a key of the proof's own counts as entry 1.
Entries(rs, n) == {rs[i].entry : i \in Of(rs, n)}

\* The entries of an attestation that hold a key the handler can use.
Usable(a) == {e \in DOMAIN a.keys : a.keys[e] # BadKey}

\* The key of entry e of a proof.
KeyAt(p, e) == IF p.kind = "jwk" THEN p.jwk ELSE p.att.keys[e]

\* Each result of proof n, which is p, holds the key of its entry, no entry
\* comes twice, and they come in order.
InOrder(rs, n, p) ==
  /\ \A i \in Of(rs, n) : /\ rs[i].attested <=> p.kind # "jwk"
                          /\ rs[i].key = KeyAt(p, rs[i].entry)
  /\ \A i, j \in Of(rs, n) : i < j => rs[i].entry < rs[j].entry

\* The first entry, whose key signed the proof unless it is itself an
\* attestation, is always there; of an attestation all usable entries are, unless
\* it has expired by time.
Complete(rs, n, p, time) ==
  /\ 1 \in Entries(rs, n)
  /\ p.kind # "attestation" => p.signer = KeyAt(p, 1)
  /\ \/ Entries(rs, n) = IF p.kind = "jwk" THEN {1} ELSE Usable(p.att)
     \/ Entries(rs, n) = {1} /\ p.att # NoAttestation /\ p.att.exp # 0 /\ time >= p.att.exp

\* The results the gate sees cover every proof in order, a key listed or proved
\* twice as often as that, so that it is given as many credentials; the first result of
\* a proof is the key it names, which signed it unless the proof is itself an
\* attestation; the others are the further usable keys of its attestation, all
\* of them or, if it expired between the two parses, none.
ResultsFollowProofs ==
  pc \in {"gate", "issuing"} =>
    /\ \A i, j \in DOMAIN results : i < j => results[i].of <= results[j].of
    /\ \A n \in DOMAIN proofs : InOrder(results, n, proofs[n]) /\ Complete(results, n, proofs[n], now)

\* A credential type that requires key attestation is issued only to keys that
\* an attestation of a high storage level vouched for while it was live, in
\* every proof of the request; with enforcement on the attestation is also
\* genuine, has an exp and was not on its status list before the request.
RequiredAttestationHeld ==
  pc = "issuing" /\ requires =>
    \A i \in DOMAIN results :
      LET r == results[i]
          a == AttestationOf(r)
      IN  /\ a # NoAttestation /\ r.attested /\ a.high
          /\ a.exp # 0 => r.parsed < a.exp
          /\ enforced => a.genuine /\ a.exp # 0 /\ a \notin stale

\* credential/registry.go:25: KeyAttestationVerified is true when the holder
\* key was extracted from a verified key attestation.
AttestedMeansVerified ==
  \A i \in DOMAIN results :
    results[i].attested => AttestationOf(results[i]) \in validated

\* A request that is being verified is passed to issuance or rejected.
EveryRequestDecided == (pc \in Busy) ~> (pc \in Ended)

-----------------------------------------------------------------------------
(***************************************************************************)
(* The strengthening that makes the invariants above inductive             *)
(* (ProofVerificationProofs): what the handler knows of the attestation it *)
(* is at, and what it knew of the one each result was taken from.          *)
(***************************************************************************)

\* What a result rests on.
Sound(r) ==
  /\ r.of \in 1 .. Len(proofs)
  /\ r.attested => /\ AttestationOf(r) \in Attestations /\ AttestationOf(r).high
                   /\ AttestationOf(r).exp # 0 => r.parsed < AttestationOf(r).exp
                   /\ enforced => AttestationOf(r) \in validated

ResultDiscipline ==
  /\ pc = "idle" => validated = {} /\ results = << >>
  /\ \A i \in DOMAIN results : Sound(results[i])
  /\ pc = "issuing" /\ requires => AllAttested

\* What passed ValidateWUA was not on its status list before the request.
PassedDiscipline ==
  /\ \A a \in revoked : a.status
  /\ \A a \in validated : a.genuine /\ a.high /\ a.exp # 0 /\ a \notin stale

\* Where the loop is: before the keys of an attestation are used it passed, or
\* enforcement is off.
LoopDiscipline ==
  /\ pc = "idle" => at = 1
  /\ pc \in Busy \ {"gate"} => at \in 1 .. Len(proofs)
  /\ pc = "status" => /\ proof.att \in Attestations
                      /\ proof.att.genuine /\ proof.att.high /\ proof.att.exp # 0
  /\ pc \in {"verify", "expand", "keys"} /\ enforced /\ proof.att # NoAttestation =>
       proof.att \in validated
  /\ pc \in {"expand", "keys"} => first \in Results /\ Sound(first)
  /\ pc = "keys" => /\ proof.att \in Attestations /\ proof.att.high
                    /\ proof.att.exp # 0 => batch.parsed < proof.att.exp
                    /\ batch.entry \in DOMAIN proof.att.keys

RestInv == TypeOK /\ ResultDiscipline /\ PassedDiscipline /\ LoopDiscipline

\* What VerifyProofSignature established of the proof the loop is at.
Named(p) ==
  /\ p.kind # "attestation" => p.signer = KeyAt(p, 1)
  /\ p.kind # "jwk" => 1 \in Usable(p.att)

\* Which results there are: those of the proofs before the one the loop is at
\* are complete, its own cover the entries the inner loop has passed, and there
\* are none of later proofs.
CoverDiscipline ==
  /\ \A i, j \in DOMAIN results : i < j => results[i].of <= results[j].of
  /\ \A i \in DOMAIN results : results[i].of <= at
  /\ pc \in Busy \ {"gate"} =>
       \A n \in 1 .. at - 1 : InOrder(results, n, proofs[n]) /\ Complete(results, n, proofs[n], now)
  /\ pc \in Busy \ {"gate", "keys"} => Of(results, at) = {}
  /\ pc \in {"gate", "issuing"} =>
       \A n \in DOMAIN proofs : InOrder(results, n, proofs[n]) /\ Complete(results, n, proofs[n], now)
  /\ pc = "expand" => /\ Named(proof) /\ first.of = at /\ first.entry = 1
                      /\ first.key = KeyAt(proof, 1)
                      /\ first.attested <=> proof.kind # "jwk"
  /\ pc = "keys" => /\ Named(proof) /\ proof.kind # "jwk" /\ InOrder(results, at, proof)
                    /\ Entries(results, at) = {e \in Usable(proof.att) : e < batch.entry}

IInv == RestInv /\ CoverDiscipline
=============================================================================
