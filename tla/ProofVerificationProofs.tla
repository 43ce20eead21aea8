----------------------- MODULE ProofVerificationProofs -----------------------
(***************************************************************************)
(* Proofs about ProofVerification for any attestations and proofs in       *)
(* circulation and any number of proofs in a request.  RestInv is about    *)
(* what each result rests on: what the handler knows of the attestation it *)
(* is at; a result keeps that knowledge, since proofs and setting stay and *)
(* validated only grows.  CoverDiscipline is about what the results amount *)
(* to: those of each proof behind the loop, in order and complete.  Both   *)
(* together are inductive.                                                 *)
(***************************************************************************)
EXTENDS ProofVerification, TLAPS

USE ProofAssumption, BoundAssumption

\* An attestation in circulation has a record's fields.
LEMMA AttestationFields ==
  ASSUME NEW a \in Attestations
  PROVE  /\ a.genuine \in BOOLEAN /\ a.high \in BOOLEAN /\ a.status \in BOOLEAN
         /\ a.exp \in Nat /\ a.keys \in Seq(Keys \union {BadKey})
         /\ a # NoAttestation
  BY DEF AttestationShape

\* A proof carries an attestation exactly if its kind says so.
LEMMA ProofFields ==
  ASSUME NEW p \in Proofs
  PROVE  /\ p.kind \in {"jwk", "header", "attestation", "none"}
         /\ p.att \in Attestations \union {NoAttestation}
         /\ p.kind \in {"header", "attestation"} <=> p.att # NoAttestation
         /\ p.kind = "jwk" => p.jwk \in Keys
  BY DEF ProofShape

\* The proof the loop is at is one in circulation.
LEMMA ProofAtHand ==
  ASSUME TypeOK, at \in 1 .. Len(proofs)
  PROVE  proof \in Proofs
  BY DEF TypeOK, proof

\* The invariant holds at the start: nothing was verified yet.
LEMMA InitRestInv == Init => RestInv
<1> SUFFICES ASSUME Init PROVE RestInv
  OBVIOUS
<1>a. proofs \in Seq(Proofs) /\ Len(proofs) <= MaxProofs /\ results \in Seq(Results)
  BY DEF Init
<1>b. batch \in [entry : Nat \ {0}, parsed : 0 .. MaxTime]
  BY DEF Init
<1>c. now \in 0 .. MaxTime /\ at \in 1 .. MaxProofs
  BY DEF Init
<1>d. /\ revoked \subseteq Attestations /\ stale \subseteq revoked
      /\ validated \subseteq Attestations
      /\ pc \in {"idle"} \union Busy \union Ended
      /\ first \in Results \union {NoResult}
      /\ enforced \in BOOLEAN /\ requires \in BOOLEAN
  BY DEF Init
<1>1. TypeOK
  BY <1>a, <1>b, <1>c, <1>d DEF TypeOK
<1>2. ResultDiscipline /\ PassedDiscipline /\ LoopDiscipline
  BY DEF Init, ResultDiscipline, PassedDiscipline, LoopDiscipline, Busy
<1> QED
  BY <1>1, <1>2 DEF RestInv

\* What a result rests on stays true while the request and the setting are the
\* same and no validation is forgotten.
LEMMA ResultsKept ==
  ASSUME RestInv, UNCHANGED <<requestVars, enforced, results>>, pc # "idle", pc' # "idle",
         pc' # "issuing", validated \subseteq validated'
  PROVE  ResultDiscipline'
<1>1. \A i \in DOMAIN results' : Sound(results[i])'
  BY DEF RestInv, ResultDiscipline, requestVars, Sound, AttestationOf
<1> QED
  BY <1>1 DEF ResultDiscipline

\* The invariant survives the two answers to a request's arrival.
LEMMA BeginRestInv ==
  ASSUME RestInv, Refuse \/ Begin
  PROVE  RestInv'
<1> USE DEF RestInv
<1>1. CASE Refuse
  <2> USE <1>1 DEF Refuse, environment, requestVars
  <2>1. TypeOK'
    BY DEF TypeOK, Ended
  <2>2. ResultDiscipline' /\ PassedDiscipline' /\ LoopDiscipline'
    BY DEF ResultDiscipline, PassedDiscipline, LoopDiscipline, Busy
  <2> QED
    BY <2>1, <2>2
<1>2. CASE Begin
  <2> USE DEF Begin, environment
  <2>1. PICK n \in 1 .. MaxProofs : proofs' \in [1 .. n -> Proofs]
    BY <1>2
  <2>2. proofs' \in Seq(Proofs) /\ Len(proofs') = n
    BY <2>1
  <2>3. TypeOK'
    BY <1>2, <2>2 DEF TypeOK, Busy
  <2>4. ResultDiscipline' /\ PassedDiscipline'
    BY <1>2 DEF ResultDiscipline, PassedDiscipline
  <2>5. LoopDiscipline'
    BY <1>2, <2>2 DEF LoopDiscipline, TypeOK
  <2> QED
    BY <2>3, <2>4, <2>5
<1> QED
  BY <1>1, <1>2

\* A result that rests on what it should may be appended.
LEMMA ResultAppended ==
  ASSUME RestInv, UNCHANGED <<requestVars, enforced, validated>>, pc # "idle", pc' # "idle",
         pc' # "issuing", NEW r \in Results, Sound(r), results' = Append(results, r)
  PROVE  ResultDiscipline' /\ results' \in Seq(Results)
<1>1. /\ results' \in Seq(Results)
      /\ DOMAIN results = 1 .. Len(results) /\ Len(results) \in Nat
      /\ DOMAIN results' = 1 .. Len(results) + 1
      /\ \A i \in DOMAIN results : results'[i] = results[i]
      /\ results'[Len(results) + 1] = r
  BY DEF RestInv, TypeOK
<1>2. \A i \in DOMAIN results' : i \in DOMAIN results \/ results'[i] = r
  BY <1>1
<1>3. \A i \in DOMAIN results' : Sound(results'[i])
  BY <1>1, <1>2 DEF RestInv, ResultDiscipline
<1>4. \A i \in DOMAIN results' : Sound(results[i])'
  BY <1>3 DEF requestVars, Sound, AttestationOf
<1> QED
  BY <1>1, <1>4 DEF ResultDiscipline

\* The invariant survives the validation of an attestation.
LEMMA ValidationRestInv ==
  ASSUME RestInv, NothingAttested \/ ValidateWUA \/ StatusClear \/ StatusRevoked \/ StatusUnavailable
  PROVE  RestInv'
<1> USE DEF RestInv
<1>1. /\ UNCHANGED <<now, revoked, enforced, requires, proofs, stale, at, first, batch, results>>
      /\ pc \in {"attestation", "status"}
      /\ pc' \in {"status", "verify", "rejected"}
      /\ proof' = proof
  BY DEF NothingAttested, ValidateWUA, StatusClear, StatusRevoked, StatusUnavailable,
         Unverified, environment, requestVars, proof
<1>2. proof \in Proofs /\ at \in 1 .. Len(proofs)
  BY <1>1, ProofAtHand DEF LoopDiscipline, Busy
<1>3. proof.att # NoAttestation => proof.att \in Attestations
  BY <1>2, ProofFields
<1>4. \/ validated' = validated
      \/ /\ validated' = validated \union {proof.att} /\ proof.att \in Attestations
         /\ proof.att.genuine /\ proof.att.high /\ proof.att.exp # 0
         /\ proof.att \notin revoked
  <2>1. CASE ValidateWUA
    BY <2>1, <1>3 DEF ValidateWUA, Genuine, PassedDiscipline
  <2>2. CASE StatusClear
    BY <2>2 DEF StatusClear, LoopDiscipline
  <2> QED
    BY <2>1, <2>2 DEF NothingAttested, StatusRevoked, StatusUnavailable
<1>5. TypeOK'
  BY <1>1, <1>4 DEF TypeOK, Busy, Ended
<1>6. ResultDiscipline'
  BY <1>1, <1>4, ResultsKept DEF requestVars
<1>7. PassedDiscipline'
  BY <1>1, <1>4 DEF PassedDiscipline, TypeOK
<1>8. /\ pc' = "verify" /\ enforced /\ proof.att # NoAttestation => proof.att \in validated'
      /\ pc' = "status" => /\ proof.att \in Attestations
                           /\ proof.att.genuine /\ proof.att.high /\ proof.att.exp # 0
  BY <1>3 DEF NothingAttested, ValidateWUA, Genuine, StatusClear, StatusRevoked,
              StatusUnavailable, Unverified
<1>9. LoopDiscipline'
  BY <1>1, <1>2, <1>8 DEF LoopDiscipline
<1> QED
  BY <1>5, <1>6, <1>7, <1>9

\* The invariant survives the check of a proof's signature.
LEMMA VerifyRestInv ==
  ASSUME RestInv, VerifySignature
  PROVE  RestInv'
<1> USE DEF RestInv
<1>1. /\ UNCHANGED <<now, revoked, enforced, requires, proofs, stale, at, batch, results, validated>>
      /\ pc = "verify" /\ pc' \in {"expand", "rejected"}
      /\ proof' = proof
  BY DEF VerifySignature, environment, requestVars, proof
<1>2. proof \in Proofs /\ at \in 1 .. Len(proofs) /\ proof = proofs[at]
  BY <1>1, ProofAtHand DEF LoopDiscipline, Busy, proof
<1>3. CASE Verifies(proof)
  <2> DEFINE r == [key |-> HolderKey(proof), attested |-> proof.kind # "jwk",
                   of |-> at, entry |-> 1, parsed |-> now]
  <2>1. pc' = "expand" /\ first' = r
    BY <1>3 DEF VerifySignature
  <2>2. HolderKey(proof) \in Keys
    <3>1. CASE proof.kind = "jwk"
      BY <3>1, <1>2, ProofFields DEF HolderKey
    <3>2. CASE proof.kind # "jwk"
      <4>1. proof.att \in Attestations /\ proof.att.keys # << >>
        BY <3>2, <1>2, <1>3, ProofFields DEF Verifies, Parses
      <4>2. proof.att.keys \in Seq(Keys \union {BadKey})
        BY <4>1, AttestationFields
      <4>3. proof.att.keys[1] \in Keys \union {BadKey}
        BY <4>1, <4>2
      <4> QED
        BY <3>2, <4>3, <1>3 DEF Verifies, HolderKey
    <3> QED
      BY <3>1, <3>2
  <2>3. r \in Results
    BY <2>2 DEF Results, TypeOK
  <2>4. Sound(r)
    <3>1. r.of = at /\ r.attested = (proof.kind # "jwk") /\ r.parsed = now
      OBVIOUS
    <3>2. AttestationOf(r) = proof.att
      BY <3>1, <1>2 DEF AttestationOf
    <3>3. proof.kind # "jwk" => /\ proof.att \in Attestations /\ proof.att.high
                                /\ proof.att.exp # 0 => now < proof.att.exp
                                /\ enforced => proof.att \in validated
      BY <1>1, <1>2, <1>3, ProofFields DEF Verifies, Parses, LoopDiscipline
    <3> QED
      BY <3>1, <3>2, <3>3, <1>2 DEF Sound
  <2> HIDE DEF r
  <2>5. Sound(first)'
    BY <2>1, <2>4, <1>1 DEF Sound, AttestationOf
  <2>6. TypeOK'
    BY <1>1, <2>1, <2>3 DEF TypeOK, Busy
  <2>7. ResultDiscipline' /\ PassedDiscipline'
    BY <1>1, <2>1, ResultsKept DEF requestVars, PassedDiscipline
  <2>8. LoopDiscipline'
    BY <1>1, <1>2, <2>1, <2>3, <2>5 DEF LoopDiscipline
  <2> QED
    BY <2>6, <2>7, <2>8
<1>4. CASE ~Verifies(proof)
  <2>1. pc' = "rejected" /\ first' = first
    BY <1>4 DEF VerifySignature
  <2>2. TypeOK'
    BY <1>1, <2>1 DEF TypeOK, Ended
  <2>3. ResultDiscipline' /\ PassedDiscipline'
    BY <1>1, <2>1, ResultsKept DEF requestVars, PassedDiscipline
  <2>4. LoopDiscipline'
    BY <2>1 DEF LoopDiscipline, Busy
  <2> QED
    BY <2>2, <2>3, <2>4
<1> QED
  BY <1>3, <1>4

\* The end of the loop body leaves the loop or goes to the next proof.
LEMMA NextProofDiscipline ==
  ASSUME RestInv, NextProof, at \in 1 .. Len(proofs), UNCHANGED proofs
  PROVE  /\ pc' \in {"gate", "attestation"}
         /\ at' \in 1 .. MaxProofs
         /\ LoopDiscipline'
<1>1. /\ pc' \in {"gate", "attestation"}
      /\ pc' = "attestation" => at' \in 1 .. Len(proofs)
      /\ at' = at \/ at' \in 1 .. Len(proofs)
  <2>1. Len(proofs) \in Nat /\ at \in Nat
    BY DEF RestInv, TypeOK
  <2> QED
    BY <2>1 DEF NextProof
<1>2. at' \in 1 .. MaxProofs
  <2>1. Len(proofs) \in Nat /\ Len(proofs) <= MaxProofs /\ at \in 1 .. MaxProofs
    BY DEF RestInv, TypeOK
  <2> QED
    BY <1>1, <2>1
<1>3. LoopDiscipline'
  BY <1>1 DEF LoopDiscipline, Busy
<1> QED
  BY <1>1, <1>2, <1>3

\* The invariant survives the steps that turn a verified proof into results.
LEMMA ExpandRestInv ==
  ASSUME RestInv, SingleKey \/ BeginBatch \/ AttestedKey
  PROVE  RestInv'
<1> USE DEF RestInv
<1>0. /\ UNCHANGED <<now, revoked, enforced, requires, proofs, stale, first, validated>>
      /\ at \in 1 .. Len(proofs) /\ pc \in {"expand", "keys"}
  BY DEF SingleKey, BeginBatch, AttestedKey, environment, requestVars, LoopDiscipline, Busy
<1>1. PassedDiscipline'
  BY <1>0 DEF PassedDiscipline
<1>2. proof \in Proofs /\ proof = proofs[at]
  BY <1>0, ProofAtHand DEF proof
<1>3. CASE SingleKey
  <2>1. results' = Append(results, first) /\ NextProof /\ batch' = batch /\ pc = "expand"
    BY <1>3 DEF SingleKey
  <2>2. first \in Results /\ Sound(first)
    BY <2>1 DEF LoopDiscipline
  <2>3. pc' \in {"gate", "attestation"} /\ at' \in 1 .. MaxProofs /\ LoopDiscipline'
    BY <2>1, <1>0, NextProofDiscipline
  <2>4. ResultDiscipline' /\ results' \in Seq(Results)
    BY <1>0, <2>1, <2>2, <2>3, ResultAppended DEF requestVars
  <2>5. TypeOK'
    BY <1>0, <2>1, <2>3, <2>4 DEF TypeOK, Busy
  <2> QED
    BY <1>1, <2>3, <2>4, <2>5
<1>4. CASE BeginBatch
  <2>1. /\ batch' = [entry |-> 1, parsed |-> now] /\ UNCHANGED <<at, results>>
        /\ pc = "expand" /\ pc' = "keys" /\ proof' = proof /\ Batched
    BY <1>4, <1>0 DEF BeginBatch, proof
  <2>2. /\ proof.att \in Attestations /\ proof.att.high
        /\ proof.att.exp # 0 => now < proof.att.exp
        /\ Len(proof.att.keys) > 1
    BY <2>1, <1>2, ProofFields DEF Batched, Parses
  <2>3. 1 \in DOMAIN proof.att.keys
    BY <2>2, AttestationFields
  <2>4. batch' \in [entry : Nat \ {0}, parsed : 0 .. MaxTime]
    BY <2>1 DEF TypeOK
  <2>5. TypeOK'
    BY <1>0, <2>1, <2>4 DEF TypeOK, Busy
  <2>6. ResultDiscipline'
    BY <1>0, <2>1, ResultsKept DEF requestVars
  <2>7. Sound(first)'
    BY <1>0, <2>1 DEF LoopDiscipline, Sound, AttestationOf
  <2>8. LoopDiscipline'
    BY <1>0, <2>1, <2>2, <2>3, <2>7 DEF LoopDiscipline
  <2> QED
    BY <1>1, <2>5, <2>6, <2>8
<1>5. CASE AttestedKey
  <2> DEFINE k == proof.att.keys[batch.entry]
             r == [key |-> k, attested |-> TRUE, of |-> at,
                   entry |-> batch.entry, parsed |-> batch.parsed]
  <2>1. /\ pc = "keys" /\ proof.att \in Attestations /\ proof.att.high
        /\ proof.att.exp # 0 => batch.parsed < proof.att.exp
        /\ batch.entry \in DOMAIN proof.att.keys
        /\ enforced => proof.att \in validated
        /\ Sound(first) /\ first \in Results
    BY <1>5, AttestationFields DEF AttestedKey, LoopDiscipline
  <2>2. proof.att.keys \in Seq(Keys \union {BadKey})
    BY <2>1, AttestationFields
  <2>3. k \in Keys \union {BadKey}
    BY <2>1, <2>2
  <2>4. IF k = BadKey THEN results' = results ELSE results' = Append(results, r)
    BY <1>5 DEF AttestedKey, AppendKey
  <2>5. k # BadKey => r \in Results /\ Sound(r)
    <3>1. AttestationOf(r) = proof.att
      BY <1>2 DEF AttestationOf
    <3>2. k # BadKey => r \in Results
      BY <2>3 DEF Results, TypeOK
    <3>3. Sound(r)
      BY <1>0, <2>1, <3>1 DEF Sound
    <3> QED
      BY <3>2, <3>3
  <2> HIDE DEF r, k
  <2>6. pc' \in {"keys", "gate", "attestation"} /\ at' \in 1 .. MaxProofs /\ LoopDiscipline'
        /\ batch' \in [entry : Nat \ {0}, parsed : 0 .. MaxTime]
    <3>1. CASE batch.entry < Len(proof.att.keys)
      <4>1. /\ batch' = [batch EXCEPT !.entry = @ + 1] /\ UNCHANGED <<pc, at>> /\ proof' = proof
        BY <3>1, <1>5, <1>0 DEF AttestedKey, proof
      <4>2. batch' \in [entry : Nat \ {0}, parsed : 0 .. MaxTime]
            /\ batch'.parsed = batch.parsed /\ batch'.entry = batch.entry + 1
        BY <4>1 DEF TypeOK
      <4>3. batch'.entry \in DOMAIN proof.att.keys
        BY <4>2, <3>1, <2>2, <2>1
      <4>4. Sound(first)'
        BY <1>0, <2>1 DEF Sound, AttestationOf
      <4>5. LoopDiscipline'
        BY <1>0, <2>1, <4>1, <4>2, <4>3, <4>4 DEF LoopDiscipline
      <4> QED
        BY <2>1, <4>1, <4>2, <4>5 DEF TypeOK
    <3>2. CASE ~(batch.entry < Len(proof.att.keys))
      <4>1. NextProof /\ batch' = batch
        BY <3>2, <1>5 DEF AttestedKey
      <4> QED
        BY <4>1, <1>0, NextProofDiscipline DEF TypeOK
    <3> QED
      BY <3>1, <3>2
  <2>7. ResultDiscipline' /\ results' \in Seq(Results)
    <3>1. CASE k = BadKey
      BY <3>1, <1>0, <2>4, <2>6, ResultsKept DEF requestVars, TypeOK
    <3>2. CASE k # BadKey
      BY <3>2, <1>0, <2>4, <2>5, <2>6, ResultAppended DEF requestVars
    <3> QED
      BY <3>1, <3>2
  <2>8. TypeOK'
    BY <1>0, <2>6, <2>7 DEF TypeOK, Busy
  <2> QED
    BY <1>1, <2>6, <2>7, <2>8
<1> QED
  BY <1>3, <1>4, <1>5

\* The invariant survives the gate.
LEMMA GateRestInv ==
  ASSUME RestInv, Gate
  PROVE  RestInv'
<1> USE DEF RestInv
<1>1. /\ UNCHANGED <<now, revoked, enforced, requires, proofs, stale, at, first, batch, results,
                     validated>>
      /\ pc = "gate" /\ pc' \in {"issuing", "rejected"}
      /\ pc' = "issuing" /\ requires => AllAttested
  BY DEF Gate, environment, requestVars
<1>2. TypeOK' /\ PassedDiscipline' /\ LoopDiscipline'
  BY <1>1 DEF TypeOK, Ended, PassedDiscipline, LoopDiscipline, Busy
<1>3. \A i \in DOMAIN results' : Sound(results[i])'
  BY <1>1 DEF ResultDiscipline, Sound, AttestationOf
<1>4. ResultDiscipline'
  BY <1>1, <1>3 DEF ResultDiscipline, AllAttested
<1> QED
  BY <1>2, <1>4

\* The invariant survives the clock and the wallet provider, at any time.
LEMMA EnvironmentRestInv ==
  ASSUME RestInv, Revoke \/ Tick \/ UNCHANGED vars
  PROVE  RestInv'
<1> USE DEF RestInv
<1>1. /\ UNCHANGED <<enforced, pc, requires, proofs, stale, at, first, batch, results, validated>>
      /\ proof' = proof
  BY DEF Revoke, Tick, vars, requestVars, proof
<1>2. now' \in 0 .. MaxTime /\ revoked \subseteq revoked' /\ revoked' \subseteq Attestations
      /\ \A a \in revoked' : a.status
  BY DEF Revoke, Tick, vars, TypeOK, PassedDiscipline
<1>3. TypeOK' /\ PassedDiscipline'
  BY <1>1, <1>2 DEF TypeOK, PassedDiscipline
<1>4. \A i \in DOMAIN results' : Sound(results[i])'
  BY <1>1 DEF ResultDiscipline, Sound, AttestationOf
<1>5. ResultDiscipline'
  BY <1>1, <1>4 DEF ResultDiscipline, AllAttested
<1>6. pc \in {"expand", "keys"} => Sound(first)'
  BY <1>1 DEF LoopDiscipline, Sound, AttestationOf
<1>7. LoopDiscipline'
  BY <1>1, <1>6 DEF LoopDiscipline
<1> QED
  BY <1>3, <1>5, <1>7

\* Every behaviour of the verification keeps what is known of each result.
THEOREM RestInvHolds == Spec => []RestInv
<1>1. RestInv /\ [Next]_vars => RestInv'
  BY BeginRestInv, ValidationRestInv, VerifyRestInv, ExpandRestInv, GateRestInv,
     EnvironmentRestInv
  DEF Next, Handle, Finished
<1> QED
  BY InitRestInv, <1>1, PTL DEF Spec

-----------------------------------------------------------------------------

\* A proof that is complete stays so while the clock moves.
LEMMA CompleteLater ==
  ASSUME NEW p \in Proofs, NEW rs, NEW n, NEW t1 \in Nat, NEW t2 \in Nat, t1 <= t2,
         Complete(rs, n, p, t1)
  PROVE  Complete(rs, n, p, t2)
<1>1. p.att # NoAttestation => p.att.exp \in Nat
  BY ProofFields, AttestationFields
<1>2. p.att # NoAttestation /\ t1 >= p.att.exp => t2 >= p.att.exp
  BY <1>1
<1> QED
  BY <1>2 DEF Complete

\* An appended result is one more of its own proof.
LEMMA Appended ==
  ASSUME NEW rs \in Seq(Results), NEW r \in Results, NEW rs2, rs2 = Append(rs, r)
  PROVE  /\ DOMAIN rs2 = DOMAIN rs \union {Len(rs) + 1}
         /\ \A i \in DOMAIN rs : i \in Nat /\ i < Len(rs) + 1 /\ rs2[i] = rs[i]
         /\ rs2[Len(rs) + 1] = r
         /\ Of(rs2, r.of) = Of(rs, r.of) \union {Len(rs) + 1}
<1>1. /\ DOMAIN rs = 1 .. Len(rs) /\ Len(rs) \in Nat
      /\ DOMAIN rs2 = 1 .. Len(rs) + 1
      /\ \A i \in DOMAIN rs : rs2[i] = rs[i]
      /\ rs2[Len(rs) + 1] = r
  OBVIOUS
<1>2. /\ DOMAIN rs2 = DOMAIN rs \union {Len(rs) + 1}
      /\ \A i \in DOMAIN rs : i \in Nat /\ i < Len(rs) + 1
  BY <1>1
<1>3. Of(rs2, r.of) = Of(rs, r.of) \union {Len(rs) + 1}
  BY <1>1, <1>2 DEF Of
<1> QED
  BY <1>1, <1>2, <1>3

\* It adds its entry to those of its proof.
LEMMA EntriesAppended ==
  ASSUME NEW rs \in Seq(Results), NEW r \in Results
  PROVE  Entries(Append(rs, r), r.of) = Entries(rs, r.of) \union {r.entry}
<1> DEFINE rs2 == Append(rs, r)
<1>1. /\ Of(rs2, r.of) = Of(rs, r.of) \union {Len(rs) + 1}
      /\ \A i \in Of(rs, r.of) : rs2[i] = rs[i]
      /\ rs2[Len(rs) + 1] = r
  BY Appended DEF Of
<1> HIDE DEF rs2
<1>2. Entries(rs2, r.of) = Entries(rs, r.of) \union {r.entry}
  <2>1. \A e : e \in Entries(rs2, r.of) <=> \E i \in Of(rs2, r.of) : rs2[i].entry = e
    BY DEF Entries
  <2>2. \A e : e \in Entries(rs, r.of) <=> \E i \in Of(rs, r.of) : rs[i].entry = e
    BY DEF Entries
  <2>3. ASSUME NEW e \in Entries(rs, r.of) PROVE e \in Entries(rs2, r.of)
    <3>1. PICK i \in Of(rs, r.of) : rs[i].entry = e
      BY <2>2, <2>3
    <3>2. i \in Of(rs2, r.of) /\ rs2[i] = rs[i]
      BY <1>1
    <3> QED
      BY <2>1, <3>1, <3>2
  <2>4. r.entry \in Entries(rs2, r.of)
    <3>1. Len(rs) + 1 \in Of(rs2, r.of)
      BY <1>1
    <3> QED
      BY <1>1, <2>1, <3>1
  <2>5. ASSUME NEW e \in Entries(rs2, r.of), e # r.entry PROVE e \in Entries(rs, r.of)
    <3>1. PICK i \in Of(rs2, r.of) : rs2[i].entry = e
      BY <2>1
    <3>2. i \in Of(rs, r.of)
      BY <1>1, <2>5, <3>1
    <3> QED
      BY <1>1, <2>2, <3>1, <3>2
  <2> QED
    BY <2>3, <2>4, <2>5
<1> QED
  BY <1>2 DEF rs2

\* A result of one proof does not disturb the others.
LEMMA OthersKept ==
  ASSUME NEW rs \in Seq(Results), NEW r \in Results, NEW rs2, rs2 = Append(rs, r),
         NEW n, n # r.of, NEW p, NEW time
  PROVE  /\ Of(rs2, n) = Of(rs, n)
         /\ InOrder(rs, n, p) => InOrder(rs2, n, p)
         /\ Complete(rs, n, p, time) => Complete(rs2, n, p, time)
<1>1. /\ DOMAIN rs2 = DOMAIN rs \union {Len(rs) + 1} /\ Len(rs) + 1 \notin DOMAIN rs
      /\ \A i \in DOMAIN rs : rs2[i] = rs[i]
      /\ rs2[Len(rs) + 1] = r
  OBVIOUS
<1>2. Of(rs2, n) = Of(rs, n) /\ \A i \in Of(rs, n) : rs2[i] = rs[i]
  BY <1>1 DEF Of
<1>3. ASSUME InOrder(rs, n, p) PROVE InOrder(rs2, n, p)
  <2>1. \A i \in Of(rs2, n) : i \in Of(rs, n) /\ rs2[i] = rs[i]
    BY <1>2
  <2> QED
    BY <1>3, <2>1 DEF InOrder
<1>4. Complete(rs, n, p, time) => Complete(rs2, n, p, time)
  <2>1. Entries(rs2, n) = Entries(rs, n)
    BY <1>2 DEF Entries
  <2> QED
    BY <2>1 DEF Complete
<1> QED
  BY <1>2, <1>3, <1>4

\* A result that continues its proof's entries keeps them in order.
LEMMA OrderExtended ==
  ASSUME NEW rs \in Seq(Results), NEW r \in Results, NEW rs2, rs2 = Append(rs, r),
         NEW p, InOrder(rs, r.of, p), \A e \in Entries(rs, r.of) : e < r.entry,
         r.attested <=> p.kind # "jwk", r.key = KeyAt(p, r.entry)
  PROVE  InOrder(rs2, r.of, p)
<1>1. /\ \A i \in Of(rs, r.of) : /\ rs2[i] = rs[i] /\ i \in Nat /\ i < Len(rs) + 1
                                 /\ rs[i].entry < r.entry
      /\ rs2[Len(rs) + 1] = r
      /\ Of(rs2, r.of) = Of(rs, r.of) \union {Len(rs) + 1}
  BY Appended DEF Of, Entries
<1>2. \A i \in Of(rs2, r.of) : /\ rs2[i].attested <=> p.kind # "jwk"
                               /\ rs2[i].key = KeyAt(p, rs2[i].entry)
  BY <1>1 DEF InOrder
<1>3. ASSUME NEW i \in Of(rs2, r.of), NEW j \in Of(rs2, r.of), i < j
      PROVE  rs2[i].entry < rs2[j].entry
  <2>1. i \in Of(rs, r.of)
    BY <1>1, <1>3
  <2>2. CASE j \in Of(rs, r.of)
    BY <1>1, <1>3, <2>1, <2>2 DEF InOrder
  <2>3. CASE j = Len(rs) + 1
    BY <1>1, <2>1, <2>3
  <2> QED
    BY <1>1, <2>2, <2>3
<1> QED
  BY <1>2, <1>3 DEF InOrder

\* The cover holds when a request begins or is refused.
LEMMA BeginCover ==
  ASSUME IInv, Refuse \/ Begin
  PROVE  CoverDiscipline'
<1>1. /\ pc' \in {"rejected", "attestation"} /\ results' = << >> /\ at' = 1
  BY DEF Refuse, Begin, requestVars, environment, IInv, RestInv, ResultDiscipline, LoopDiscipline
<1>2. \A n : Of(results', n) = {}
  BY <1>1 DEF Of
<1>3. 1 .. at' - 1 = {}
  BY <1>1
<1> QED
  BY <1>1, <1>2, <1>3 DEF CoverDiscipline, Busy

\* The cover survives the validation of an attestation, the gate, the clock and
\* the wallet provider: none of them makes a result.
LEMMA QuietCover ==
  ASSUME IInv,
         \/ NothingAttested \/ ValidateWUA \/ StatusClear \/ StatusRevoked \/ StatusUnavailable
         \/ Gate \/ Revoke \/ Tick \/ UNCHANGED vars
  PROVE  CoverDiscipline'
<1>1. /\ UNCHANGED <<proofs, results, at, first, batch>> /\ proof' = proof
      /\ now \in Nat /\ now' \in Nat /\ now <= now'
  BY DEF NothingAttested, ValidateWUA, StatusClear, StatusRevoked, StatusUnavailable, Gate,
         Revoke, Tick, vars, environment, requestVars, proof, IInv, RestInv, TypeOK
<1>2. \/ pc' = pc
      \/ pc \in {"attestation", "status"} /\ pc' \in {"status", "verify", "rejected"}
      \/ pc = "gate" /\ pc' \in {"issuing", "rejected"}
  BY DEF NothingAttested, ValidateWUA, StatusClear, StatusRevoked, StatusUnavailable, Gate,
         Revoke, Tick, vars, Unverified
<1>3. CoverDiscipline /\ TypeOK /\ LoopDiscipline
  BY DEF IInv, RestInv
<1>4. /\ pc' \in Busy \ {"gate"} => pc \in Busy \ {"gate"}
      /\ pc' \in Busy \ {"gate", "keys"} => pc \in Busy \ {"gate", "keys"}
      /\ pc' \in {"gate", "issuing"} => pc \in {"gate", "issuing"}
      /\ pc' \in {"expand", "keys"} => pc' = pc
  BY <1>2 DEF Busy
<1>5. \A n \in DOMAIN proofs : Complete(results, n, proofs[n], now) =>
                                 Complete(results, n, proofs[n], now')
  BY <1>1, <1>3, CompleteLater DEF TypeOK
<1>6. pc \in Busy \ {"gate"} => 1 .. at - 1 \subseteq DOMAIN proofs
  BY <1>3 DEF LoopDiscipline, TypeOK
<1>7. pc' \in Busy \ {"gate"} =>
        \A n \in 1 .. at - 1 : InOrder(results, n, proofs[n]) /\ Complete(results, n, proofs[n], now')
  BY <1>3, <1>4, <1>5, <1>6 DEF CoverDiscipline
<1>8. pc' \in {"gate", "issuing"} =>
        \A n \in DOMAIN proofs : InOrder(results, n, proofs[n]) /\ Complete(results, n, proofs[n], now')
  BY <1>3, <1>4, <1>5 DEF CoverDiscipline
<1> QED
  BY <1>1, <1>3, <1>4, <1>7, <1>8 DEF CoverDiscipline

\* VerifyProofSignature leaves the cover alone and names the proof's first key.
LEMMA VerifyCover ==
  ASSUME IInv, VerifySignature
  PROVE  CoverDiscipline'
<1>1. /\ UNCHANGED <<now, proofs, at, batch, results>> /\ proof' = proof /\ pc = "verify"
      /\ \/ pc' = "rejected"
         \/ /\ pc' = "expand" /\ Verifies(proof)
            /\ first' = [key |-> HolderKey(proof), attested |-> proof.kind # "jwk",
                         of |-> at, entry |-> 1, parsed |-> now]
  BY DEF VerifySignature, environment, requestVars, proof
<1>2. CoverDiscipline /\ TypeOK /\ LoopDiscipline
  BY DEF IInv, RestInv
<1>3. proof \in Proofs
  BY <1>1, <1>2, ProofAtHand DEF LoopDiscipline, Busy
<1>4. Verifies(proof) => Named(proof)
  <2> SUFFICES ASSUME Verifies(proof) PROVE Named(proof)
    OBVIOUS
  <2>1. HolderKey(proof) = KeyAt(proof, 1)
    BY DEF HolderKey, KeyAt
  <2>2. ASSUME proof.kind # "jwk" PROVE 1 \in Usable(proof.att)
    <3>1. /\ proof.att \in Attestations /\ proof.att.keys # << >>
          /\ proof.att.keys[1] # BadKey
      BY <1>3, <2>2, ProofFields DEF Verifies, Parses, HolderKey
    <3>2. 1 \in DOMAIN proof.att.keys
      BY <3>1, AttestationFields
    <3> QED
      BY <3>1, <3>2 DEF Usable
  <2> QED
    BY <2>1, <2>2 DEF Named, Verifies
<1>5. pc' = "expand" =>
        /\ Named(proof) /\ first'.of = at /\ first'.entry = 1
        /\ first'.key = KeyAt(proof, 1)
        /\ first'.attested <=> proof.kind # "jwk"
  <2>1. KeyAt(proof, 1) = HolderKey(proof)
    BY DEF HolderKey, KeyAt
  <2>2. pc' = "expand" => first'.attested = (proof.kind # "jwk")
    BY <1>1
  <2>3. pc' = "expand" => first'.of = at /\ first'.entry = 1 /\ first'.key = HolderKey(proof)
    BY <1>1
  <2> QED
    BY <1>1, <1>4, <2>1, <2>2, <2>3
<1>6. /\ Of(results, at) = {}
      /\ \A n \in 1 .. at - 1 : InOrder(results, n, proofs[n]) /\ Complete(results, n, proofs[n], now)
      /\ \A i, j \in DOMAIN results : i < j => results[i].of <= results[j].of
      /\ \A i \in DOMAIN results : results[i].of <= at
  BY <1>1, <1>2 DEF CoverDiscipline, Busy
<1>7. pc' = "expand" => Named(proof)'
  BY <1>1, <1>5 DEF Named
<1>8. pc' \in {"expand", "rejected"}
  BY <1>1
<1> QED
  BY <1>1, <1>5, <1>6, <1>7, <1>8 DEF CoverDiscipline

\* A result of the proof at hand keeps the order of the proofs and the cover of
\* those before it.
LEMMA CoverAppended ==
  ASSUME IInv, pc \in {"expand", "keys"}, NEW r \in Results, r.of = at,
         results' = Append(results, r)
  PROVE  /\ \A i, j \in DOMAIN results' : i < j => results'[i].of <= results'[j].of
         /\ \A i \in DOMAIN results' : results'[i].of <= at
         /\ \A n \in 1 .. at - 1 : /\ InOrder(results', n, proofs[n])
                                   /\ Complete(results', n, proofs[n], now)
<1>1. CoverDiscipline /\ TypeOK /\ results \in Seq(Results) /\ at \in Nat
  BY DEF IInv, RestInv, TypeOK
<1>2. /\ DOMAIN results' = DOMAIN results \union {Len(results) + 1} /\ Len(results) \in Nat
      /\ \A i \in DOMAIN results : i \in Nat /\ i < Len(results) + 1 /\ results'[i] = results[i]
      /\ results'[Len(results) + 1] = r
  BY <1>1
<1>3. \A i \in DOMAIN results' : results'[i].of <= at
  BY <1>1, <1>2 DEF CoverDiscipline
<1>4. ASSUME NEW i \in DOMAIN results', NEW j \in DOMAIN results', i < j
      PROVE  results'[i].of <= results'[j].of
  <2>1. i \in DOMAIN results
    BY <1>2, <1>4
  <2>2. CASE j \in DOMAIN results
    BY <1>1, <1>2, <1>4, <2>1, <2>2 DEF CoverDiscipline
  <2>3. CASE j = Len(results) + 1
    BY <1>2, <1>3, <2>3
  <2> QED
    BY <1>2, <2>2, <2>3
<1>5. ASSUME NEW n \in 1 .. at - 1
      PROVE  InOrder(results', n, proofs[n]) /\ Complete(results', n, proofs[n], now)
  <2>1. InOrder(results, n, proofs[n]) /\ Complete(results, n, proofs[n], now)
    BY <1>1 DEF CoverDiscipline, Busy
  <2>2. n # r.of
    BY <1>1
  <2> QED
    BY <1>1, <2>1, <2>2, OthersKept
<1> QED
  BY <1>3, <1>4, <1>5

\* When the results of the proof at hand are complete, the loop may go on.
LEMMA CoverNext ==
  ASSUME IInv, at \in 1 .. Len(proofs), NextProof, UNCHANGED <<proofs, now>>,
         \A i, j \in DOMAIN results' : i < j => results'[i].of <= results'[j].of,
         \A i \in DOMAIN results' : results'[i].of \in Nat /\ results'[i].of <= at,
         \A n \in 1 .. at : /\ InOrder(results', n, proofs[n])
                            /\ Complete(results', n, proofs[n], now)
  PROVE  CoverDiscipline'
<1>1. at \in Nat /\ Len(proofs) \in Nat /\ DOMAIN proofs = 1 .. Len(proofs)
  BY DEF IInv, RestInv, TypeOK
<1>2. CASE at = Len(proofs)
  <2>1. pc' = "gate" /\ at' = at
    BY <1>2 DEF NextProof
  <2> QED
    BY <1>1, <1>2, <2>1 DEF CoverDiscipline, Busy
<1>3. CASE at # Len(proofs)
  <2>1. pc' = "attestation" /\ at' = at + 1 /\ at' - 1 = at
    BY <1>1, <1>3 DEF NextProof
  <2>2. Of(results', at') = {}
    BY <1>1, <2>1 DEF Of
  <2>3. \A i \in DOMAIN results' : results'[i].of <= at'
    BY <1>1, <2>1
  <2> QED
    BY <2>1, <2>2, <2>3 DEF CoverDiscipline
<1> QED
  BY <1>2, <1>3

\* A proof that is not batched, or no longer, has the result of its first key.
LEMMA SingleCover ==
  ASSUME IInv, SingleKey
  PROVE  CoverDiscipline'
<1>1. /\ UNCHANGED <<proofs, now>> /\ pc = "expand" /\ ~Batched
      /\ results' = Append(results, first) /\ NextProof
  BY DEF SingleKey, environment, requestVars
<1>2. /\ CoverDiscipline /\ TypeOK /\ LoopDiscipline /\ results \in Seq(Results)
      /\ at \in 1 .. Len(proofs) /\ at \in Nat /\ first \in Results /\ Sound(first)
      /\ proof = proofs[at]
  BY <1>1 DEF IInv, RestInv, LoopDiscipline, TypeOK, Busy, proof
<1>3. proof \in Proofs
  BY <1>2, ProofAtHand
<1>4. /\ Named(proof) /\ first.of = at /\ first.entry = 1 /\ first.key = KeyAt(proof, 1)
      /\ Of(results, at) = {}
  BY <1>1, <1>2 DEF CoverDiscipline, Busy
<1>5. first.attested <=> proof.kind # "jwk"
  BY <1>1, <1>2 DEF CoverDiscipline
<1>6. InOrder(results, at, proof) /\ Entries(results, at) = {}
  BY <1>4 DEF InOrder, Entries
<1>7. InOrder(results', at, proof)
  <2>1. /\ InOrder(results, first.of, proof) /\ first.key = KeyAt(proof, first.entry)
        /\ \A e \in Entries(results, first.of) : e < first.entry
    BY <1>4, <1>6
  <2>2. InOrder(results', first.of, proof)
    BY <1>1, <1>2, <1>5, <2>1, OrderExtended
  <2> QED
    BY <1>4, <2>2
<1>8. Entries(results', at) = {1}
  <2>1. Entries(results', first.of) = Entries(results, first.of) \union {first.entry}
    BY <1>1, <1>2, EntriesAppended
  <2> QED
    BY <1>4, <1>6, <2>1
<1>9. proof.kind # "jwk" =>
        \/ Usable(proof.att) = {1}
        \/ proof.att # NoAttestation /\ proof.att.exp # 0 /\ now >= proof.att.exp
  <2> SUFFICES ASSUME proof.kind # "jwk"
               PROVE  \/ Usable(proof.att) = {1}
                      \/ proof.att # NoAttestation /\ proof.att.exp # 0 /\ now >= proof.att.exp
    OBVIOUS
  <2>1. proof.att \in Attestations /\ proof.att.high
    BY <1>2, <1>4, <1>5 DEF Sound, AttestationOf
  <2>2. /\ proof.att # NoAttestation /\ proof.att.exp \in Nat /\ now \in Nat
        /\ proof.att.keys \in Seq(Keys \union {BadKey})
    BY <1>2, <2>1, AttestationFields DEF TypeOK
  <2>3. 1 \in Usable(proof.att)
    BY <1>4 DEF Named
  <2>4. CASE Len(proof.att.keys) > 1
    <3>1. ~Parses(proof.att) /\ proof.att.keys # << >>
      BY <1>1, <2>2, <2>4 DEF Batched
    <3> QED
      BY <2>1, <2>2, <3>1 DEF Parses
  <2>5. CASE ~(Len(proof.att.keys) > 1)
    <3>1. DOMAIN proof.att.keys \subseteq {1}
      BY <2>2, <2>5
    <3> QED
      BY <2>3, <3>1 DEF Usable
  <2> QED
    BY <2>4, <2>5
<1>10. Complete(results', at, proof, now)
  BY <1>4, <1>8, <1>9 DEF Complete, Named
<1>11. /\ \A i, j \in DOMAIN results' : i < j => results'[i].of <= results'[j].of
       /\ \A i \in DOMAIN results' : results'[i].of <= at
       /\ \A n \in 1 .. at - 1 : /\ InOrder(results', n, proofs[n])
                                 /\ Complete(results', n, proofs[n], now)
  BY <1>1, <1>2, <1>4, CoverAppended
<1>12. results' \in Seq(Results)
  BY <1>1, <1>2
<1>13. \A i \in DOMAIN results' : results'[i].of \in Nat
  <2>1. \A i \in DOMAIN results' : results'[i] \in Results
    BY <1>12
  <2> QED
    BY <2>1 DEF Results
<1>14. \A n \in 1 .. at : /\ InOrder(results', n, proofs[n])
                          /\ Complete(results', n, proofs[n], now)
  <2>1. \A n \in 1 .. at : n \in 1 .. at - 1 \/ n = at
    BY <1>2
  <2> QED
    BY <1>2, <1>7, <1>10, <1>11, <2>1
<1> QED
  BY <1>1, <1>2, <1>11, <1>13, <1>14, CoverNext

\* The second parse starts with nothing covered.
LEMMA BatchCover ==
  ASSUME IInv, BeginBatch
  PROVE  CoverDiscipline'
<1>1. /\ UNCHANGED <<proofs, now, at, results>> /\ proof' = proof /\ pc = "expand" /\ Batched
      /\ pc' = "keys" /\ batch'.entry = 1
  BY DEF BeginBatch, environment, requestVars, proof
<1>2. /\ CoverDiscipline /\ TypeOK /\ LoopDiscipline /\ at \in 1 .. Len(proofs)
      /\ Named(proof) /\ Of(results, at) = {}
  BY <1>1 DEF IInv, RestInv, LoopDiscipline, CoverDiscipline, Busy
<1>3. proof \in Proofs
  BY <1>2, ProofAtHand
<1>4. proof.kind # "jwk" /\ proof.att \in Attestations
  BY <1>1, <1>3, ProofFields DEF Batched
<1>5. InOrder(results, at, proof) /\ Entries(results, at) = {}
  BY <1>2 DEF InOrder, Entries
<1>6. {e \in Usable(proof.att) : e < 1} = {}
  BY <1>4, AttestationFields DEF Usable
<1>7. Named(proof)'
  BY <1>1, <1>2 DEF Named
<1>8. \A n \in 1 .. at - 1 : InOrder(results, n, proofs[n]) /\ Complete(results, n, proofs[n], now)
  BY <1>1, <1>2 DEF CoverDiscipline, Busy
<1> QED
  BY <1>1, <1>2, <1>4, <1>5, <1>6, <1>7, <1>8 DEF CoverDiscipline

\* Each pass of the inner loop covers one more entry of the attestation.
LEMMA AttestedKeyCover ==
  ASSUME IInv, AttestedKey
  PROVE  CoverDiscipline'
<1> DEFINE a == proof.att
           entry == batch.entry
           r == [key |-> a.keys[entry], attested |-> TRUE, of |-> at,
                 entry |-> entry, parsed |-> batch.parsed]
<1>1. /\ UNCHANGED <<proofs, now>> /\ pc = "keys"
      /\ IF a.keys[entry] = BadKey THEN results' = results ELSE results' = Append(results, r)
      /\ IF entry < Len(a.keys)
         THEN batch' = [batch EXCEPT !.entry = @ + 1] /\ UNCHANGED <<pc, at>>
         ELSE NextProof
  BY DEF AttestedKey, AppendKey, environment, requestVars
<1>2. /\ CoverDiscipline /\ TypeOK /\ LoopDiscipline /\ results \in Seq(Results)
      /\ at \in 1 .. Len(proofs) /\ at \in Nat /\ proof = proofs[at]
      /\ a \in Attestations /\ entry \in DOMAIN a.keys
  BY <1>1 DEF IInv, RestInv, LoopDiscipline, TypeOK, Busy, proof
<1>3. /\ Named(proof) /\ proof.kind # "jwk" /\ InOrder(results, at, proof)
      /\ Entries(results, at) = {e \in Usable(a) : e < entry}
      /\ \A n \in 1 .. at - 1 : InOrder(results, n, proofs[n]) /\ Complete(results, n, proofs[n], now)
      /\ \A i, j \in DOMAIN results : i < j => results[i].of <= results[j].of
      /\ \A i \in DOMAIN results : results[i].of <= at
  BY <1>1, <1>2 DEF CoverDiscipline, Busy
<1>4. /\ a.keys \in Seq(Keys \union {BadKey}) /\ Usable(a) \subseteq 1 .. Len(a.keys)
      /\ Len(a.keys) \in Nat /\ entry \in 1 .. Len(a.keys)
  BY <1>2, AttestationFields DEF Usable
<1>5. /\ InOrder(results', at, proof)
      /\ Entries(results', at) = {e \in Usable(a) : e < entry + 1}
      /\ \A n \in 1 .. at - 1 : /\ InOrder(results', n, proofs[n])
                                /\ Complete(results', n, proofs[n], now)
      /\ \A i, j \in DOMAIN results' : i < j => results'[i].of <= results'[j].of
      /\ \A i \in DOMAIN results' : results'[i].of <= at
      /\ results' \in Seq(Results)
  <2>1. CASE a.keys[entry] = BadKey
    <3>1. entry \notin Usable(a)
      BY <2>1 DEF Usable
    <3>2. {e \in Usable(a) : e < entry} = {e \in Usable(a) : e < entry + 1}
      BY <1>4, <3>1
    <3> QED
      BY <1>1, <1>2, <1>3, <2>1, <3>2
  <2>2. CASE a.keys[entry] # BadKey
    <3>1. entry \in Usable(a) /\ a.keys[entry] \in Keys
      BY <1>2, <1>4, <2>2 DEF Usable
    <3>2. {e \in Usable(a) : e < entry} \union {entry} = {e \in Usable(a) : e < entry + 1}
      BY <1>4, <3>1
    <3>3. /\ r \in Results /\ r.of = at /\ r.entry = entry /\ r.attested = TRUE
          /\ r.key = KeyAt(proof, entry)
      BY <1>2, <1>3, <1>4, <3>1 DEF Results, TypeOK, KeyAt
    <3>4. results' = Append(results, r)
      BY <1>1, <2>2
    <3> HIDE DEF r
    <3>5. Entries(results', r.of) = Entries(results, r.of) \union {r.entry}
      BY <1>2, <3>3, <3>4, EntriesAppended
    <3>6. InOrder(results', r.of, proof)
      <4>1. /\ InOrder(results, r.of, proof) /\ r.key = KeyAt(proof, r.entry)
            /\ r.attested <=> proof.kind # "jwk"
        BY <1>3, <3>3
      <4>2. \A e \in Entries(results, r.of) : e < r.entry
        BY <1>3, <3>3
      <4> QED
        BY <1>2, <3>3, <3>4, <4>1, <4>2, OrderExtended
    <3>7. /\ \A i, j \in DOMAIN results' : i < j => results'[i].of <= results'[j].of
          /\ \A i \in DOMAIN results' : results'[i].of <= at
          /\ \A n \in 1 .. at - 1 : /\ InOrder(results', n, proofs[n])
                                    /\ Complete(results', n, proofs[n], now)
      BY <1>1, <3>3, <3>4, CoverAppended
    <3>8. results' \in Seq(Results)
      BY <1>2, <3>3, <3>4
    <3> QED
      BY <1>3, <3>2, <3>3, <3>5, <3>6, <3>7, <3>8
  <2> QED
    BY <2>1, <2>2
<1> HIDE DEF r
<1>6. CASE entry < Len(a.keys)
  <2>1. /\ pc' = "keys" /\ at' = at /\ proof' = proof /\ batch'.entry = entry + 1
    BY <1>1, <1>2, <1>6 DEF proof, TypeOK
  <2>2. Named(proof)'
    BY <1>3, <2>1 DEF Named
  <2> QED
    BY <1>1, <1>3, <1>5, <2>1, <2>2 DEF CoverDiscipline
<1>7. CASE ~(entry < Len(a.keys))
  <2>1. NextProof
    BY <1>1, <1>7
  <2>2. {e \in Usable(a) : e < entry + 1} = Usable(a)
    BY <1>4, <1>7
  <2>3. 1 \in Usable(a)
    BY <1>3 DEF Named
  <2>4. Complete(results', at, proof, now)
    BY <1>3, <1>5, <2>2, <2>3 DEF Complete, Named
  <2>5. \A i \in DOMAIN results' : results'[i].of \in Nat
    <3>1. \A i \in DOMAIN results' : results'[i] \in Results
      BY <1>5
    <3> QED
      BY <3>1 DEF Results
  <2>6. \A n \in 1 .. at : /\ InOrder(results', n, proofs[n])
                           /\ Complete(results', n, proofs[n], now)
    <3>1. \A n \in 1 .. at : n \in 1 .. at - 1 \/ n = at
      BY <1>2
    <3> QED
      BY <1>2, <1>5, <2>4, <3>1
  <2> QED
    BY <1>1, <1>2, <1>5, <2>1, <2>5, <2>6, CoverNext
<1> QED
  BY <1>6, <1>7

\* Every behaviour of the verification keeps the whole invariant.
THEOREM IInvHolds == Spec => []IInv
<1>1. Init => CoverDiscipline
  BY DEF Init, CoverDiscipline, Busy
<1>2. IInv /\ [Next]_vars => CoverDiscipline'
  BY BeginCover, QuietCover, VerifyCover, SingleCover, BatchCover, AttestedKeyCover
  DEF Next, Handle, Finished
<1>3. IInv => CoverDiscipline
  BY DEF IInv
<1>4. RestInv /\ CoverDiscipline => IInv
  BY DEF IInv
<1> QED
  BY RestInvHolds, <1>1, <1>2, <1>3, <1>4, PTL DEF Spec

\* Type correctness: every result holds a usable key of a proof of the request.
THEOREM TypeCorrect == Spec => []TypeOK
<1>1. RestInv => TypeOK
  BY DEF RestInv
<1> QED
  BY <1>1, RestInvHolds, PTL

\* With enforcement on, what reaches issuance rests on attestations that passed
\* ValidateWUA in this request, for any number of proofs and attestations.
THEOREM EnforcementHolds == Spec => []EnforcedMeansValidated
<1>1. RestInv => EnforcedMeansValidated
  BY DEF RestInv, ResultDiscipline, Sound, EnforcedMeansValidated
<1> QED
  BY <1>1, RestInvHolds, PTL

\* With enforcement on, no key of a wallet unit revoked before the request is
\* issued to.
THEOREM RevokedUnitsAreRefused == Spec => []RevokedBeforeIsRefused
<1>1. RestInv => RevokedBeforeIsRefused
  BY DEF RestInv, ResultDiscipline, PassedDiscipline, Sound, RevokedBeforeIsRefused
<1> QED
  BY <1>1, RestInvHolds, PTL

\* No key is taken from an attestation that had expired by then, however the
\* clock moves between the two parses.
THEOREM KeysComeFromLiveAttestations == Spec => []AttestedKeysWereLive
<1>1. RestInv => AttestedKeysWereLive
  BY DEF RestInv, ResultDiscipline, Sound, AttestedKeysWereLive
<1> QED
  BY <1>1, RestInvHolds, PTL

\* A required attestation holds for every result of every proof.
THEOREM RequiredAttestationsHold == Spec => []RequiredAttestationHeld
<1>1. RestInv => RequiredAttestationHeld
  BY AttestationFields
  DEF RestInv, ResultDiscipline, PassedDiscipline, AllAttested, Sound, RequiredAttestationHeld
<1> QED
  BY <1>1, RestInvHolds, PTL

\* The results of a request are its proofs' keys, each as often as it is
\* proved or listed, in order, none left out but by expiry.
THEOREM ResultsCoverProofs == Spec => []ResultsFollowProofs
<1>1. IInv => ResultsFollowProofs
  BY DEF IInv, CoverDiscipline, ResultsFollowProofs
<1> QED
  BY <1>1, IInvHolds, PTL
=============================================================================
