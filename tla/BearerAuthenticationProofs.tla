--------------------- MODULE BearerAuthenticationProofs ---------------------
(***************************************************************************)
(* Proofs about BearerAuthentication for any requests, proofs, windows and *)
(* clock bound: as long as the jti outlives twice the iat window plus the  *)
(* latency of the lookup (WindowAssumption), a recorded proof never passes *)
(* a later lookup.                                                         *)
(***************************************************************************)
EXTENDS BearerAuthentication, TLAPS

USE DEF Busy, Ended

\* What the assumption on the constants says of one proof.
LEMMA ProofFields ==
  ASSUME NEW p \in Proofs
  PROVE  p.jti \in Jtis /\ p.iat \in Nat /\ p.key \in Keys /\ p.sound \in BOOLEAN
  BY ProofAssumption

\* The invariant holds at the start: nothing is cached, every request is idle.
LEMMA InitIInv == Init => IInv
<1> SUFFICES ASSUME Init PROVE IInv
  OBVIOUS
<1>1. AnyProof \in Proofs /\ AnyKey \in Keys
  BY ProofAssumption DEF AnyProof, AnyKey
<1>2. TypeOK
  BY <1>1, WindowAssumption DEF Init, TypeOK, Schemes
<1>3. ClockDiscipline /\ CacheDiscipline
  BY WindowAssumption DEF Init, ClockDiscipline, CacheDiscipline
<1>4. HistoryDiscipline /\ SequentialReplayRejected
  BY DEF Init, HistoryDiscipline, SequentialReplayRejected
<1> QED
  BY <1>2, <1>3, <1>4 DEF IInv

\* A miss on the jti of a request means that its proof was not recorded: the
\* entry of a recorded proof outlives every moment at which the proof can
\* still be looked up.
LEMMA MissIsFresh ==
  ASSUME IInv, NEW q \in Requests, pc[q] = "lookup", ~Seen(proof[q].jti)
  PROVE  \A r \in recorded : proof[r] # proof[q]
<1> SUFFICES ASSUME NEW r \in recorded, proof[r] = proof[q] PROVE FALSE
  OBVIOUS
<1> DEFINE p == proof[q]
<1>1. p \in Proofs /\ p.jti \in Jtis /\ p.iat \in Nat
  BY ProofFields DEF IInv, TypeOK
<1>2. now \in Nat /\ cache[p.jti] \in Nat /\ checked[q] \in Nat
  BY <1>1, WindowAssumption DEF IInv, TypeOK
<1>3. cache[p.jti] >= p.iat - IATWindow + JtiTTL
  BY DEF IInv, CacheDiscipline
<1>4. checked[q] - p.iat <= IATWindow /\ now <= checked[q] + Latency
  BY DEF IInv, ClockDiscipline
<1>5. cache[p.jti] <= now
  BY <1>2 DEF Seen
<1> QED
  BY <1>1, <1>2, <1>3, <1>4, <1>5, WindowAssumption

\* A recorded jti is in the cache for as long as its proof can pass the iat
\* check.
LEMMA RecordedIsSeen == IInv => JtiOutlivesWindow
<1> SUFFICES ASSUME IInv, NEW r \in recorded, now - proof[r].iat <= IATWindow
             PROVE  Seen(proof[r].jti)
  BY DEF JtiOutlivesWindow
<1>1. r \in Requests /\ proof[r] \in Proofs
  BY DEF IInv, TypeOK
<1>2. proof[r].jti \in Jtis /\ proof[r].iat \in Nat
  BY <1>1, ProofFields
<1>3. now \in Nat /\ cache[proof[r].jti] \in Nat
  BY <1>2 DEF IInv, TypeOK
<1>4. cache[proof[r].jti] >= proof[r].iat - IATWindow + JtiTTL
  BY DEF IInv, CacheDiscipline
<1> QED
  BY <1>2, <1>3, <1>4, WindowAssumption DEF Seen

\* One step of anyone preserves the invariant, one case per action.
LEMMA NextIInv == IInv /\ [Next]_vars => IInv'
<1> SUFFICES ASSUME IInv, [Next]_vars PROVE IInv'
  OBVIOUS
<1> USE DEF IInv, Goto, requestVars, historyVars
<1>0. now \in Nat /\ \A j \in Jtis : cache[j] \in Nat
  BY WindowAssumption DEF TypeOK
<1>1. ASSUME NEW r \in Requests, Arrive(r) PROVE IInv'
  <2> USE <1>1 DEF Arrive
  <2> PICK s \in Schemes, p \in Proofs :
        /\ scheme' = [scheme EXCEPT ![r] = s]
        /\ proof' = [proof EXCEPT ![r] = p]
        /\ Goto(r, IF s = "other" THEN "rejected" ELSE "introspect")
    BY <1>1 DEF Arrive
  <2>1. TypeOK'
    BY DEF TypeOK, Schemes
  <2>2. ClockDiscipline'
    BY DEF TypeOK, ClockDiscipline
  <2>a. \A q \in recorded : proof'[q] = proof[q]
    BY DEF TypeOK, HistoryDiscipline
  <2>3. CacheDiscipline'
    BY <2>a DEF CacheDiscipline
  <2>4. HistoryDiscipline'
    BY DEF TypeOK, HistoryDiscipline
  <2>5. SequentialReplayRejected'
    BY DEF TypeOK, SequentialReplayRejected, HistoryDiscipline
  <2> QED
    BY <2>1, <2>2, <2>3, <2>4, <2>5
<1>2. ASSUME NEW r \in Requests, TokenRefused(r) \/ TokenUnbound(r) PROVE IInv'
  <2> USE <1>2 DEF TokenRefused, TokenUnbound
  <2>1. TypeOK'
    BY DEF TypeOK
  <2>2. ClockDiscipline'
    BY DEF TypeOK, ClockDiscipline
  <2>3. CacheDiscipline'
    BY DEF TypeOK, CacheDiscipline
  <2>4. HistoryDiscipline'
    BY DEF TypeOK, HistoryDiscipline
  <2>5. SequentialReplayRejected'
    BY DEF TypeOK, SequentialReplayRejected, HistoryDiscipline
  <2> QED
    BY <2>1, <2>2, <2>3, <2>4, <2>5
<1>3. ASSUME NEW r \in Requests, TokenBound(r) PROVE IInv'
  <2> USE <1>3 DEF TokenBound
  <2>1. TypeOK'
    BY DEF TypeOK
  <2>2. ClockDiscipline'
    BY DEF TypeOK, ClockDiscipline
  <2>3. CacheDiscipline'
    BY DEF TypeOK, CacheDiscipline
  <2>4. HistoryDiscipline'
    BY DEF TypeOK, HistoryDiscipline
  <2>5. SequentialReplayRejected'
    BY DEF TypeOK, SequentialReplayRejected, HistoryDiscipline
  <2> QED
    BY <2>1, <2>2, <2>3, <2>4, <2>5
<1>4. ASSUME NEW r \in Requests, Validate(r) PROVE IInv'
  <2> USE <1>4 DEF Validate, IATAccepted
  <2>1. TypeOK'
    BY DEF TypeOK
  <2>a. proof[r].iat \in Nat
    BY ProofFields DEF TypeOK
  <2>b. pc'[r] = "lookup" => IATAccepted(proof[r])
    BY DEF TypeOK
  <2>c. /\ checked'[r] = now
        /\ \A q \in Requests : q # r => pc'[q] = pc[q] /\ checked'[q] = checked[q]
        /\ pc'[r] # "record"
    BY DEF TypeOK
  <2>2. ClockDiscipline'
    BY <1>0, <2>a, <2>b, <2>c, WindowAssumption DEF ClockDiscipline
  <2>3. CacheDiscipline'
    BY DEF TypeOK, CacheDiscipline
  <2>4. HistoryDiscipline'
    BY DEF TypeOK, HistoryDiscipline
  <2>5. SequentialReplayRejected'
    BY DEF TypeOK, SequentialReplayRejected, HistoryDiscipline
  <2> QED
    BY <2>1, <2>2, <2>3, <2>4, <2>5
<1>5. ASSUME NEW r \in Requests, LookupHit(r) PROVE IInv'
  <2> USE <1>5 DEF LookupHit
  <2>1. TypeOK'
    BY DEF TypeOK
  <2>2. ClockDiscipline'
    BY DEF TypeOK, ClockDiscipline
  <2>3. CacheDiscipline'
    BY DEF TypeOK, CacheDiscipline
  <2>4. HistoryDiscipline'
    BY DEF TypeOK, HistoryDiscipline
  <2>5. SequentialReplayRejected'
    BY DEF TypeOK, SequentialReplayRejected, HistoryDiscipline
  <2> QED
    BY <2>1, <2>2, <2>3, <2>4, <2>5
<1>6. ASSUME NEW r \in Requests, LookupMiss(r) PROVE IInv'
  <2> USE <1>6 DEF LookupMiss
  <2>a. \A q \in recorded : proof[q] # proof[r]
    BY MissIsFresh
  <2>1. TypeOK'
    BY DEF TypeOK
  <2>2. ClockDiscipline'
    BY DEF TypeOK, ClockDiscipline
  <2>3. CacheDiscipline'
    BY DEF TypeOK, CacheDiscipline
  <2>4. HistoryDiscipline'
    BY DEF TypeOK, HistoryDiscipline
  <2>5. SequentialReplayRejected'
    BY <2>a DEF TypeOK, SequentialReplayRejected, HistoryDiscipline
  <2> QED
    BY <2>1, <2>2, <2>3, <2>4, <2>5
<1>7. ASSUME NEW r \in Requests, LookupFailed(r) PROVE IInv'
  <2> USE <1>7 DEF LookupFailed, Verdict
  <2>1. TypeOK'
    BY DEF TypeOK
  <2>2. ClockDiscipline'
    BY DEF TypeOK, ClockDiscipline
  <2>3. CacheDiscipline'
    BY DEF TypeOK, CacheDiscipline
  <2>4. HistoryDiscipline'
    BY DEF TypeOK, HistoryDiscipline
  <2>5. SequentialReplayRejected'
    BY DEF TypeOK, SequentialReplayRejected, HistoryDiscipline
  <2> QED
    BY <2>1, <2>2, <2>3, <2>4, <2>5
<1>8. ASSUME NEW r \in Requests, Record(r) PROVE IInv'
  <2> USE <1>8 DEF Record, Verdict, JtiExpiry
  <2>a. proof[r].jti \in Jtis /\ proof[r].iat \in Nat
    BY ProofFields DEF TypeOK
  <2>b. JtiExpiry \in Nat
    BY <1>0, WindowAssumption
  <2>c. cache' = [cache EXCEPT ![proof[r].jti] = JtiExpiry] => cache' \in [Jtis -> Nat]
    BY <2>a, <2>b DEF TypeOK
  <2>d. \A q \in Requests : q # r => pc'[q] = pc[q]
    BY DEF TypeOK
  <2>e. pc'[r] \in Ended
    BY DEF TypeOK
  <2>f. proof[r].iat - now <= IATWindow
    BY DEF ClockDiscipline
  <2>g. \A q \in recorded : q \in Requests /\ proof[q].jti \in Jtis /\ proof[q].iat \in Nat
    BY ProofFields DEF TypeOK
  <2>1. TypeOK'
    BY <2>c DEF TypeOK
  <2>2. ClockDiscipline'
    BY DEF TypeOK, ClockDiscipline
  <2>3. CacheDiscipline'
    <3>1. cache'[proof[r].jti] = now + JtiTTL
      BY <2>a DEF TypeOK
    <3>2. \A j \in Jtis : j # proof[r].jti => cache'[j] = cache[j]
      BY DEF TypeOK
    <3>3. \A j \in Jtis : cache[j] <= now + JtiTTL
      BY DEF CacheDiscipline
    <3>4. \A q \in recorded' : cache'[proof[q].jti] >= proof[q].iat - IATWindow + JtiTTL
      BY <1>0, <2>a, <2>f, <2>g, <3>1, <3>2, <3>3, WindowAssumption DEF CacheDiscipline
    <3> QED
      BY <1>0, <3>1, <3>2, <3>3, <3>4, WindowAssumption DEF CacheDiscipline
  <2>4. HistoryDiscipline'
    BY DEF TypeOK, HistoryDiscipline
  <2>5. SequentialReplayRejected'
    BY DEF TypeOK, SequentialReplayRejected, HistoryDiscipline
  <2> QED
    BY <2>1, <2>2, <2>3, <2>4, <2>5
<1>9. ASSUME NEW r \in Requests, RecordFailed(r) PROVE IInv'
  <2> USE <1>9 DEF RecordFailed, JtiExpiry
  <2>a. proof[r].jti \in Jtis /\ proof[r].iat \in Nat
    BY ProofFields DEF TypeOK
  <2>b. JtiExpiry \in Nat
    BY <1>0, WindowAssumption
  <2>c. cache' = [cache EXCEPT ![proof[r].jti] = JtiExpiry] => cache' \in [Jtis -> Nat]
    BY <2>a, <2>b DEF TypeOK
  <2>d. \A q \in Requests : q # r => pc'[q] = pc[q]
    BY DEF TypeOK
  <2>e. pc'[r] \in Ended
    BY DEF TypeOK
  <2>f. proof[r].iat - now <= IATWindow
    BY DEF ClockDiscipline
  <2>g. \A q \in recorded : q \in Requests /\ proof[q].jti \in Jtis /\ proof[q].iat \in Nat
    BY ProofFields DEF TypeOK
  <2>1. TypeOK'
    BY <2>c DEF TypeOK
  <2>2. ClockDiscipline'
    BY DEF TypeOK, ClockDiscipline
  <2>3. CacheDiscipline'
    <3>1. CASE UNCHANGED <<cache, recorded>>
      BY <3>1 DEF CacheDiscipline
    <3>2. CASE /\ cache' = [cache EXCEPT ![proof[r].jti] = JtiExpiry]
               /\ recorded' = recorded \union {r}
      <4>1. cache'[proof[r].jti] = now + JtiTTL
        BY <2>a, <3>2 DEF TypeOK
      <4>2. \A j \in Jtis : j # proof[r].jti => cache'[j] = cache[j]
        BY <3>2 DEF TypeOK
      <4>3. \A j \in Jtis : cache[j] <= now + JtiTTL
        BY DEF CacheDiscipline
      <4>4. \A q \in recorded' : cache'[proof[q].jti] >= proof[q].iat - IATWindow + JtiTTL
        BY <1>0, <2>a, <2>f, <2>g, <3>2, <4>1, <4>2, <4>3, WindowAssumption
        DEF CacheDiscipline
      <4> QED
        BY <1>0, <4>1, <4>2, <4>3, <4>4, WindowAssumption DEF CacheDiscipline
    <3> QED
      BY <3>1, <3>2
  <2>4. HistoryDiscipline'
    BY DEF TypeOK, HistoryDiscipline
  <2>5. SequentialReplayRejected'
    BY DEF TypeOK, SequentialReplayRejected, HistoryDiscipline
  <2> QED
    BY <2>1, <2>2, <2>3, <2>4, <2>5
<1>10. ASSUME Restart PROVE IInv'
  <2> USE <1>10 DEF Restart
  <2>1. TypeOK'
    BY DEF TypeOK
  <2>2. ClockDiscipline'
    BY DEF TypeOK, ClockDiscipline
  <2>3. CacheDiscipline'
    BY <1>0, WindowAssumption DEF TypeOK, CacheDiscipline
  <2>4. HistoryDiscipline'
    BY DEF TypeOK, HistoryDiscipline
  <2>5. SequentialReplayRejected'
    BY DEF TypeOK, SequentialReplayRejected
  <2> QED
    BY <2>1, <2>2, <2>3, <2>4, <2>5
<1>11. ASSUME Tick PROVE IInv'
  <2> USE <1>11 DEF Tick
  <2>1. TypeOK'
    BY WindowAssumption DEF TypeOK
  <2>2. ClockDiscipline'
    BY <1>0, ProofFields, WindowAssumption DEF TypeOK, ClockDiscipline
  <2>3. CacheDiscipline'
    BY <1>0, WindowAssumption DEF TypeOK, CacheDiscipline
  <2>4. HistoryDiscipline'
    BY DEF HistoryDiscipline
  <2>5. SequentialReplayRejected'
    BY DEF SequentialReplayRejected
  <2> QED
    BY <2>1, <2>2, <2>3, <2>4, <2>5
<1>12. CASE UNCHANGED vars
  BY <1>12 DEF vars, TypeOK, ClockDiscipline, CacheDiscipline, HistoryDiscipline,
      SequentialReplayRejected
<1> QED
  BY <1>1, <1>2, <1>3, <1>4, <1>5, <1>6, <1>7, <1>8, <1>9, <1>10, <1>11, <1>12
  DEF Next, Authenticate, Finished

\* Every behaviour of the middleware keeps the inductive invariant.
THEOREM IInvHolds == Spec => []IInv
  BY InitIInv, NextIInv, PTL DEF Spec

\* Type correctness of the middleware's state.
THEOREM TypeCorrect == Spec => []TypeOK
<1>1. IInv => TypeOK
  BY DEF IInv
<1> QED
  BY <1>1, IInvHolds, PTL

\* A proof whose jti was recorded is never let through by a later lookup while
\* the cache lives, for every window, latency and time to live that satisfy
\* WindowAssumption.
THEOREM ReplaysAreRejected == Spec => []SequentialReplayRejected
<1>1. IInv => SequentialReplayRejected
  BY DEF IInv
<1> QED
  BY <1>1, IInvHolds, PTL

\* The cache forgets a jti only after its proof has left the iat window.
THEOREM JtiIsRemembered == Spec => []JtiOutlivesWindow
  BY IInvHolds, RecordedIsSeen, PTL

-----------------------------------------------------------------------------

\* The discipline of checked proofs survives every step; only Validate sets up
\* what lookups, records and verdicts rely on.
LEMMA NextProofDiscipline == TypeOK /\ ProofDiscipline /\ [Next]_vars => ProofDiscipline'
<1> SUFFICES ASSUME TypeOK, ProofDiscipline, [Next]_vars PROVE ProofDiscipline'
  OBVIOUS
<1> USE DEF TypeOK, ProofDiscipline, BoundRequestProved, Goto, requestVars, Busy, Ended
<1>1. ASSUME NEW r \in Requests, Arrive(r) PROVE ProofDiscipline'
  BY <1>1 DEF Arrive
<1>2. ASSUME NEW r \in Requests, TokenRefused(r) \/ TokenUnbound(r) \/ TokenBound(r)
      PROVE  ProofDiscipline'
  BY <1>2 DEF TokenRefused, TokenUnbound, TokenBound
<1>3. ASSUME NEW r \in Requests, Validate(r) PROVE ProofDiscipline'
  BY <1>3 DEF Validate, IATAccepted
<1>4. ASSUME NEW r \in Requests, LookupHit(r) \/ LookupMiss(r) PROVE ProofDiscipline'
  BY <1>4 DEF LookupHit, LookupMiss
<1>5. ASSUME NEW r \in Requests, LookupFailed(r) \/ Record(r) \/ RecordFailed(r)
      PROVE  ProofDiscipline'
  <2>1. /\ pc[r] \in {"lookup", "record"} /\ UNCHANGED <<scheme, proof, jkt, checked>>
        /\ \/ pc' = [pc EXCEPT ![r] = "rejected"]
           \/ /\ scheme[r] = "DPoP" /\ proof[r].key = jkt[r]
              /\ pc' = [pc EXCEPT ![r] = "bound"]
    BY <1>5 DEF LookupFailed, Record, RecordFailed, Verdict
  <2> QED
    BY <2>1
<1>6. CASE Restart
  BY <1>6 DEF Restart
<1>7. CASE Tick
  BY <1>7 DEF Tick
<1>8. CASE UNCHANGED vars
  BY <1>8 DEF vars
<1> QED
  BY <1>1, <1>2, <1>3, <1>4, <1>5, <1>6, <1>7, <1>8 DEF Next, Authenticate, Finished

LEMMA ProofDisciplineHolds == Spec => []ProofDiscipline
<1>1. Init => ProofDiscipline
  BY DEF Init, ProofDiscipline, BoundRequestProved
<1>2. Spec => []TypeOK
  BY TypeCorrect
<1> QED
  BY <1>1, <1>2, NextProofDiscipline, PTL DEF Spec

\* A request of a bound token is let through only with the DPoP scheme and a
\* sound proof by the token's key that was within the window when looked at.
THEOREM BoundRequestsAreProved == Spec => []BoundRequestProved
<1>1. ProofDiscipline => BoundRequestProved
  BY DEF ProofDiscipline
<1> QED
  BY <1>1, ProofDisciplineHolds, PTL

\* A proof that gets through again, whatever failed, does so within twice the
\* window: the times of its checks are both within one window of its iat.
THEOREM ReplaysEnd == Spec => []ReplayEndsWithWindow
<1>1. TypeOK /\ BoundRequestProved => ReplayEndsWithWindow
  <2> SUFFICES ASSUME TypeOK, BoundRequestProved, NEW r \in Requests, NEW q \in Requests,
                      pc[r] = "bound", pc[q] = "bound", proof[r] = proof[q]
               PROVE  checked[r] - checked[q] <= 2 * IATWindow
    BY DEF ReplayEndsWithWindow
  <2>1. proof[r].iat \in Int /\ checked[r] \in Int /\ checked[q] \in Int /\ IATWindow \in Int
    BY ProofFields, WindowAssumption DEF TypeOK
  <2>2. checked[r] - proof[r].iat <= IATWindow /\ proof[r].iat - checked[q] <= IATWindow
    BY DEF BoundRequestProved
  <2> QED
    BY <2>1, <2>2
<1> QED
  BY <1>1, TypeCorrect, BoundRequestsAreProved, PTL
=============================================================================
