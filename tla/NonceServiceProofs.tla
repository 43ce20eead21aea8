------------------------- MODULE NonceServiceProofs -------------------------
(***************************************************************************)
(* Proofs about NonceService for any calls of Nonce and ValidateNonce and  *)
(* any time to live: a disclosed nonce keeps its entry while its token is  *)
(* valid, and the service implements OneTimeTokens.                        *)
(***************************************************************************)
EXTENDS NonceService, TLAPS

USE NonceAssumption

\* The invariant holds at the start: no call has begun, no nonce has an entry.
LEMMA NonceInitInv == NonceInit => NonceInv
<1> SUFFICES ASSUME NonceInit PROVE NonceInv
  OBVIOUS
<1>1. NonceTypeOK
  BY DEF NonceInit, NonceTypeOK
<1>2. NonceEntries /\ NonceRedeemers /\ FreshNonceFindable
  BY DEF NonceInit, NonceEntries, NonceRedeemers, FreshNonceFindable, Disclosed
<1> QED
  BY <1>1, <1>2 DEF NonceInv

\* The invariant survives the two steps of a call of Nonce.
LEMMA MintInv ==
  ASSUME NonceInv, NEW n \in Nonces, MintNonce(n) \/ SetNonce(n)
  PROVE  NonceInv'
<1> USE DEF NonceInv
<1>1. CASE MintNonce(n)
  <2>1. NonceTypeOK'
    BY <1>1 DEF MintNonce, NonceTypeOK
  <2>2. NonceEntries'
    BY <1>1 DEF MintNonce, NonceTypeOK, NonceEntries
  <2>3. NonceRedeemers'
    BY <1>1 DEF MintNonce, NonceRedeemers
  <2>4. FreshNonceFindable'
    BY <1>1 DEF MintNonce, NonceTypeOK, FreshNonceFindable, Disclosed, Live
  <2> QED
    BY <2>1, <2>2, <2>3, <2>4
<1>2. CASE SetNonce(n)
  <2>1. /\ npc[n] = "set" /\ \E e \in {"minted", "failed"} : npc' = [npc EXCEPT ![n] = e]
        /\ \/ nonceCache' = [nonceCache EXCEPT ![n] = now + NonceTTL]
           \/ npc' = [npc EXCEPT ![n] = "failed"] /\ nonceCache' = nonceCache
        /\ UNCHANGED <<now, mintedAt, vpc, presented, removed>>
    BY <1>2 DEF SetNonce, StoreNonce, StoreNonceFailed, NonceExpiry
  <2>2. NonceTypeOK'
    BY <2>1 DEF NonceTypeOK
  <2>3. NonceEntries'
    BY <2>1, <2>2 DEF NonceTypeOK, NonceEntries
  <2>4. NonceRedeemers'
    BY <2>1 DEF NonceRedeemers
  <2>5. FreshNonceFindable'
    BY <2>2, <2>3 DEF NonceTypeOK, NonceEntries, FreshNonceFindable, Disclosed, Live
  <2> QED
    BY <2>2, <2>3, <2>4, <2>5
<1> QED
  BY <1>1, <1>2

\* The invariant survives the steps of a call of ValidateNonce.
LEMMA ValidateInv ==
  ASSUME NonceInv, NEW v \in Validations,
         Present(v) \/ PresentForged(v) \/ ValidateNonce(v)
  PROVE  NonceInv'
<1> USE DEF NonceInv
<1>1. CASE Present(v)
  <2>1. PICK n \in Disclosed :
          /\ vpc[v] = "idle" /\ presented' = [presented EXCEPT ![v] = n]
          /\ vpc' = [vpc EXCEPT ![v] = IF ValidAt(n) THEN "pop" ELSE "rejected"]
          /\ UNCHANGED <<now, nonceCache, npc, mintedAt, removed>>
    BY <1>1 DEF Present
  <2>2. n \in Public /\ n \in Nonces
    BY <2>1 DEF Disclosed
  <2>3. NonceTypeOK'
    BY <2>1, <2>2 DEF NonceTypeOK
  <2>4. NonceEntries' /\ FreshNonceFindable'
    BY <2>1 DEF NonceEntries, FreshNonceFindable, Disclosed, Live
  <2>5. NonceRedeemers'
    BY <2>1, <2>2 DEF NonceTypeOK, NonceRedeemers
  <2> QED
    BY <2>3, <2>4, <2>5
<1>2. ASSUME /\ vpc' = [vpc EXCEPT ![v] = "rejected"]
             /\ UNCHANGED <<now, nonceCache, npc, mintedAt, presented, removed>>
      PROVE  NonceInv'
  BY <1>2 DEF NonceTypeOK, NonceEntries, NonceRedeemers, FreshNonceFindable, Disclosed, Live
<1>3. CASE PresentForged(v)
  BY <1>2, <1>3 DEF PresentForged
<1>4. CASE PopMiss(v)
  BY <1>2, <1>4 DEF PopMiss
<1>5. ASSUME NEW e \in {"accepted", "rejected"}, vpc[v] = "pop", Live(presented[v]),
             vpc' = [vpc EXCEPT ![v] = e],
             nonceCache' = [nonceCache EXCEPT ![presented[v]] = 0],
             removed' = removed \union {presented[v]},
             UNCHANGED <<now, npc, mintedAt, presented>>
      PROVE  NonceInv'
  <2>1. presented[v] \in Nonces /\ presented[v] \notin removed /\ npc[presented[v]] \notin {"idle", "set"}
    BY <1>5 DEF NonceTypeOK, NonceRedeemers, NonceEntries, Live
  <2>2. NonceTypeOK'
    BY <1>5, <2>1 DEF NonceTypeOK
  <2>3. NonceEntries'
    BY <1>5, <2>1 DEF NonceTypeOK, NonceEntries
  <2>4. FreshNonceFindable'
    BY <1>5, <2>1 DEF NonceTypeOK, FreshNonceFindable, Disclosed, Live
  <2>5. NonceRedeemers'
    BY <1>5, <2>1 DEF NonceTypeOK, NonceRedeemers
  <2> QED
    BY <2>2, <2>3, <2>4, <2>5
<1>6. CASE PopHit(v)
  BY <1>5, <1>6 DEF PopHit
<1>7. CASE PopFailed(v)
  BY <1>2, <1>5, <1>7 DEF PopFailed
<1> QED
  BY <1>1, <1>3, <1>4, <1>6, <1>7 DEF ValidateNonce

\* The invariant survives restarts and the clock.
LEMMA EnvironmentInv ==
  ASSUME NonceInv, NonceRestart \/ NonceTick
  PROVE  NonceInv'
<1> USE DEF NonceInv
<1>1. CASE NonceRestart
  <2>1. NonceTypeOK'
    BY <1>1 DEF NonceRestart, NonceTypeOK
  <2>2. NonceEntries'
    BY <1>1 DEF NonceRestart, NonceTypeOK, NonceEntries
  <2>3. NonceRedeemers'
    BY <1>1 DEF NonceRestart, NonceTypeOK, NonceRedeemers
  <2>4. FreshNonceFindable'
    BY <2>1, <2>2, <1>1
    DEF NonceRestart, NonceTypeOK, NonceEntries, FreshNonceFindable, Disclosed, Live
  <2> QED
    BY <2>1, <2>2, <2>3, <2>4
<1>2. CASE NonceTick
  <2>1. NonceTypeOK'
    BY <1>2 DEF NonceTick, NonceTypeOK
  <2>2. NonceEntries'
    BY <1>2 DEF NonceTick, NonceTypeOK, NonceEntries
  <2>3. NonceRedeemers'
    BY <1>2 DEF NonceTick, NonceRedeemers
  <2>4. FreshNonceFindable'
    BY <2>1, <2>2 DEF NonceTypeOK, NonceEntries, FreshNonceFindable, Disclosed, Live
  <2> QED
    BY <2>1, <2>2, <2>3, <2>4
<1> QED
  BY <1>1, <1>2

LEMMA NonceNextInv == NonceInv /\ [NonceNext]_nonceVars => NonceInv'
<1> SUFFICES ASSUME NonceInv, [NonceNext]_nonceVars PROVE NonceInv'
  OBVIOUS
<1>1. CASE \E n \in Nonces : MintNonce(n) \/ SetNonce(n)
  BY <1>1, MintInv
<1>2. CASE \E v \in Validations : Present(v) \/ PresentForged(v) \/ ValidateNonce(v)
  BY <1>2, ValidateInv
<1>3. CASE NonceRestart \/ NonceTick
  BY <1>3, EnvironmentInv
<1>4. CASE UNCHANGED nonceVars
  BY <1>4
  DEF nonceVars, NonceInv, NonceTypeOK, NonceEntries, NonceRedeemers, FreshNonceFindable,
      Disclosed, Live
<1> QED
  BY <1>1, <1>2, <1>3, <1>4 DEF NonceNext

\* The inductive invariant of the nonce service holds in every reachable state.
THEOREM NonceInvHolds == NonceSpec => []NonceInv
<1>1. NonceInit => NonceInv
  BY NonceInitInv
<1>2. NonceInv /\ [NonceNext]_nonceVars => NonceInv'
  BY NonceNextInv
<1> QED
  BY <1>1, <1>2, PTL DEF NonceSpec

\* A nonce POST /nonce answered with has its entry while its token is valid,
\* unless the entry was popped or lost (Nonce: Set before the answer).
THEOREM FreshNonceIsFindable == NonceSpec => []FreshNonceFindable
<1>1. NonceInv => FreshNonceFindable
  BY DEF NonceInv
<1> QED
  BY <1>1, NonceInvHolds, PTL

-----------------------------------------------------------------------------

\* A step that leaves entries, clock and acceptances alone is a stutter of the
\* abstract specification.
LEMMA QuietStep ==
  ASSUME UNCHANGED <<now, nonceCache, removed>>,
         \A n \in Nonces : Redeemed(n)' = Redeemed(n)
  PROVE  UNCHANGED OneTime!vars
<1>1. \A n \in Nonces : Status(n)' = Status(n)
  BY DEF Status, Live
<1> QED
  BY <1>1 DEF OneTime!vars

\* A step after which no live nonce is better off than gone is a withdrawal.
LEMMA WithdrawStep ==
  ASSUME \A n \in Nonces :
           /\ Redeemed(n)' = Redeemed(n)
           /\ Status(n)' = Status(n) \/ (Status(n) = "live" /\ Status(n)' = "gone")
  PROVE  OneTime!Withdraw
<1>1. \A n \in Nonces : Status(n)' \in {"unissued", "live", "gone"}
  BY DEF Status
<1> QED
  BY <1>1 DEF OneTime!Withdraw

\* A verdict other than acceptance redeems nothing.
LEMMA NotAccepted ==
  ASSUME NonceInv, NEW v \in Validations, vpc[v] # "accepted",
         NEW e \in {"pop", "rejected"}, vpc' = [vpc EXCEPT ![v] = e],
         \A w \in Validations \ {v} : presented'[w] = presented[w]
  PROVE  \A n \in Nonces : Redeemed(n)' = Redeemed(n)
  BY DEF NonceInv, NonceTypeOK, Redeemed

\* The call of Nonce issues one token, or nothing the abstraction sees.
LEMMA MintRefines ==
  ASSUME NonceInv, NEW n \in Nonces, MintNonce(n) \/ SetNonce(n)
  PROVE  OneTime!Next \/ UNCHANGED OneTime!vars
<1>1. CASE UNCHANGED nonceCache
  <2>1. UNCHANGED <<now, removed, vpc, presented>>
    BY DEF MintNonce, SetNonce, StoreNonce, StoreNonceFailed
  <2>2. \A m \in Nonces : Redeemed(m)' = Redeemed(m)
    BY <2>1 DEF Redeemed
  <2> QED
    BY <1>1, <2>1, <2>2, QuietStep
<1>2. CASE ~UNCHANGED nonceCache
  <2>1. /\ npc[n] = "set" /\ nonceCache' = [nonceCache EXCEPT ![n] = now + NonceTTL]
        /\ UNCHANGED <<now, vpc, presented, removed>>
    BY <1>2 DEF MintNonce, SetNonce, StoreNonce, StoreNonceFailed, NonceExpiry
  <2>2. Status(n) = "unissued" /\ Status(n)' = "live"
    BY <2>1 DEF NonceInv, NonceTypeOK, NonceEntries, Status, Live
  <2>3. \A m \in Nonces \ {n} : Status(m)' = Status(m)
    BY <2>1 DEF NonceInv, NonceTypeOK, Status, Live
  <2>4. \A m \in Nonces : Redeemed(m)' = Redeemed(m)
    BY <2>1 DEF Redeemed
  <2>5. OneTime!Issue(n)
    BY <2>2, <2>3, <2>4 DEF OneTime!Issue
  <2> QED
    BY <2>5 DEF OneTime!Next
<1> QED
  BY <1>1, <1>2

\* Pop redeems the token, withdraws it, or leaves it; nothing else touches it.
LEMMA ValidateRefines ==
  ASSUME NonceInv, NEW v \in Validations,
         Present(v) \/ PresentForged(v) \/ ValidateNonce(v)
  PROVE  OneTime!Next \/ UNCHANGED OneTime!vars
<1>1. CASE PopHit(v)
  <2> DEFINE n == presented[v]
  <2>1. /\ vpc[v] = "pop" /\ Live(n) /\ n \in Nonces
        /\ nonceCache' = [nonceCache EXCEPT ![n] = 0] /\ removed' = removed \union {n}
        /\ vpc' = [vpc EXCEPT ![v] = "accepted"] /\ UNCHANGED <<now, presented>>
    BY <1>1 DEF PopHit, NonceInv, NonceRedeemers
  <2>2. Status(n) = "live" /\ Status(n)' = "gone"
    BY <2>1 DEF NonceInv, NonceTypeOK, Status, Live
  <2>3. \A m \in Nonces \ {n} : Status(m)' = Status(m)
    BY <2>1 DEF NonceInv, NonceTypeOK, Status, Live
  <2>4. \A m \in Nonces : Redeemed(m)' = IF m = n THEN Redeemed(m) \union {v} ELSE Redeemed(m)
    BY <2>1 DEF NonceInv, NonceTypeOK, Redeemed
  <2>5. OneTime!Redeem(n, v)
    <3>1. [m \in Nonces |-> Status(m)'] = [[m \in Nonces |-> Status(m)] EXCEPT ![n] = "gone"]
      BY <2>1, <2>2, <2>3
    <3>2. [m \in Nonces |-> Redeemed(m)']
            = [[m \in Nonces |-> Redeemed(m)] EXCEPT ![n] = @ \union {v}]
      BY <2>1, <2>4
    <3> QED
      BY <2>1, <2>2, <3>1, <3>2 DEF OneTime!Redeem
  <2> QED
    BY <2>1, <2>5 DEF OneTime!Next
<1>2. CASE PopFailed(v) /\ ~UNCHANGED nonceCache
  <2> DEFINE n == presented[v]
  <2>1. /\ vpc[v] = "pop" /\ Live(n) /\ n \in Nonces
        /\ nonceCache' = [nonceCache EXCEPT ![n] = 0] /\ removed' = removed \union {n}
        /\ vpc' = [vpc EXCEPT ![v] = "rejected"] /\ UNCHANGED <<now, presented>>
    BY <1>2 DEF PopFailed, NonceInv, NonceRedeemers
  <2>2. Status(n) = "live" /\ Status(n)' = "gone"
    BY <2>1 DEF NonceInv, NonceTypeOK, Status, Live
  <2>3. \A m \in Nonces \ {n} : Status(m)' = Status(m)
    BY <2>1 DEF NonceInv, NonceTypeOK, Status, Live
  <2>4. \A m \in Nonces : Redeemed(m)' = Redeemed(m)
    BY <2>1, NotAccepted
  <2>5. \A m \in Nonces :
          /\ Redeemed(m)' = Redeemed(m)
          /\ Status(m)' = Status(m) \/ (Status(m) = "live" /\ Status(m)' = "gone")
    BY <2>1, <2>2, <2>3, <2>4
  <2>6. OneTime!Withdraw
    BY <2>5, WithdrawStep
  <2> QED
    BY <2>6 DEF OneTime!Next
<1>3. CASE Present(v) \/ PresentForged(v) \/ PopMiss(v) \/ (PopFailed(v) /\ UNCHANGED nonceCache)
  <2>1. /\ vpc[v] # "accepted" /\ UNCHANGED <<now, nonceCache>>
        /\ \E e \in {"pop", "rejected"} : vpc' = [vpc EXCEPT ![v] = e]
        /\ \A w \in Validations \ {v} : presented'[w] = presented[w]
    BY <1>3 DEF Present, PresentForged, PopMiss, PopFailed, NonceInv, NonceTypeOK
  <2>2. UNCHANGED removed
    BY <1>3 DEF Present, PresentForged, PopMiss, PopFailed, NonceInv, NonceTypeOK,
                NonceRedeemers, Live
  <2>3. \A m \in Nonces : Redeemed(m)' = Redeemed(m)
    BY <2>1, NotAccepted
  <2> QED
    BY <2>1, <2>2, <2>3, QuietStep
<1> QED
  BY <1>1, <1>2, <1>3 DEF ValidateNonce

\* Restarts and the clock only withdraw tokens.
LEMMA EnvironmentRefines ==
  ASSUME NonceInv, NonceRestart \/ NonceTick
  PROVE  OneTime!Next \/ UNCHANGED OneTime!vars
<1>1. \A n \in Nonces : Redeemed(n)' = Redeemed(n)
  BY DEF NonceRestart, NonceTick, NonceInv, NonceTypeOK, Redeemed
<1>2. \A n \in Nonces :
        Status(n)' = Status(n) \/ (Status(n) = "live" /\ Status(n)' = "gone")
  <2>1. CASE NonceRestart
    BY <2>1 DEF NonceRestart, NonceInv, NonceTypeOK, Status, Live
  <2>2. CASE NonceTick
    BY <2>2 DEF NonceTick, NonceInv, NonceTypeOK, Status, Live
  <2> QED
    BY <2>1, <2>2
<1> QED
  BY <1>1, <1>2, WithdrawStep DEF OneTime!Next

\* Every nonce is accepted at most once, by one caller, and not after its
\* entry expired or was lost: the service implements OneTimeTokens.
THEOREM NoncesAreOneTime == NonceSpec => ImplementsOneTime
<1>1. NonceInit => OneTime!Init
  <2> SUFFICES ASSUME NonceInit PROVE OneTime!Init
    OBVIOUS
  <2>1. ASSUME NEW n \in Nonces PROVE Status(n) = "unissued"
    <3>1. nonceCache[n] = 0 /\ n \notin removed
      BY DEF NonceInit
    <3>2. ~Live(n)
      BY <3>1 DEF NonceInit, Live
    <3> QED
      BY <3>1, <3>2 DEF Status
  <2>2. \A n \in Nonces : Redeemed(n) = {}
    BY DEF NonceInit, Redeemed
  <2> QED
    BY <2>1, <2>2 DEF OneTime!Init
<1>2. NonceInv /\ [NonceNext]_nonceVars => [OneTime!Next]_(OneTime!vars)
  <2> SUFFICES ASSUME NonceInv, [NonceNext]_nonceVars
               PROVE  OneTime!Next \/ UNCHANGED OneTime!vars
    OBVIOUS
  <2>1. CASE \E n \in Nonces : MintNonce(n) \/ SetNonce(n)
    BY <2>1, MintRefines
  <2>2. CASE \E v \in Validations : Present(v) \/ PresentForged(v) \/ ValidateNonce(v)
    BY <2>2, ValidateRefines
  <2>3. CASE NonceRestart \/ NonceTick
    BY <2>3, EnvironmentRefines
  <2>4. CASE UNCHANGED nonceVars
    BY <2>4 DEF nonceVars, OneTime!vars, Status, Redeemed, Live
  <2> QED
    BY <2>1, <2>2, <2>3, <2>4 DEF NonceNext
<1> QED
  BY <1>1, <1>2, NonceInvHolds, PTL DEF NonceSpec, ImplementsOneTime, OneTime!Spec
=============================================================================
