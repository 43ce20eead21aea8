---------------------- MODULE CredentialIssuanceProofs ----------------------
(***************************************************************************)
(* Proofs about CredentialIssuance for any requests, slots, batch size,    *)
(* validities and clock bound.  IInv is inductive: Init establishes it,    *)
(* each action of Next preserves it, and it implies the properties.  The   *)
(* second part is about answers, expiries, wasted slots and the refinement *)
(* of IssuanceLedger: LedgerInv adds to IInv where in its batch each       *)
(* credential, entry and record belongs.                                   *)
(***************************************************************************)
EXTENDS CredentialIssuance, FiniteSetTheorems, TLAPS

USE DEF Busy, Ended, States

\* The inductive invariant holds at the start: nothing is taken or minted and
\* every handler is idle.
LEMMA InitIInv == Init => IInv
<1> USE ProofsAssumption, SlotAssumption, ClockAssumption
<1> SUFFICES ASSUME Init PROVE IInv
  OBVIOUS
<1>1. TypeOK
  BY DEF Init, TypeOK, Kinds
<1>2. LoopDiscipline
  BY DEF Init, LoopDiscipline
<1>3. SlotDiscipline /\ SlotsNeverShared
  BY DEF Init, SlotDiscipline, SlotsNeverShared, Holding
<1>4. RecordDiscipline /\ RecordsMatchCredentials
  BY DEF Init, RecordDiscipline, RecordsMatchCredentials
<1> QED
  BY <1>1, <1>2, <1>3, <1>4 DEF IInv

\* One step of anyone preserves the invariant, one case per action.
LEMMA NextIInv == IInv /\ [Next]_vars => IInv'
<1> USE ProofsAssumption, SlotAssumption, ClockAssumption
<1> SUFFICES ASSUME IInv, [Next]_vars PROVE IInv'
  OBVIOUS
<1> USE DEF IInv
<1>1. ASSUME NEW r \in Requests, Begin(r) PROVE IInv'
  <2> PICK k \in Kinds, n \in 1 .. MaxProofs :
        /\ kind' = [kind EXCEPT ![r] = k]
        /\ want' = [want EXCEPT ![r] = n]
    BY <1>1 DEF Begin
  <2> USE <1>1 DEF Begin
  <2>a. now + PIDExpiry \in Nat
    BY DEF TypeOK
  <2>b. kind' \in [Requests -> Kinds] /\ want' \in [Requests -> 0 .. MaxProofs]
    BY DEF TypeOK
  <2>c. expiry' \in [Requests -> Nat] /\ pc' \in [Requests -> States]
    BY <2>a DEF TypeOK
  <2>1. TypeOK'
    BY <2>b, <2>c DEF TypeOK
  <2>2. LoopDiscipline'
    BY DEF TypeOK, LoopDiscipline
  <2>3. SlotDiscipline' /\ SlotsNeverShared'
    BY DEF TypeOK, SlotDiscipline, SlotsNeverShared, Holding
  <2>4. RecordDiscipline' /\ RecordsMatchCredentials'
    BY DEF TypeOK, RecordDiscipline, RecordsMatchCredentials
  <2> QED
    BY <2>1, <2>2, <2>3, <2>4
<1>2. ASSUME NEW r \in Requests, CertificateUnavailable(r) PROVE IInv'
  <2> USE <1>2 DEF CertificateUnavailable, serviceVars, requestVars
  <2>1. TypeOK'
    BY DEF TypeOK
  <2>2. LoopDiscipline'
    BY DEF TypeOK, LoopDiscipline
  <2>3. SlotDiscipline' /\ SlotsNeverShared'
    BY DEF TypeOK, SlotDiscipline, SlotsNeverShared, Holding
  <2>4. RecordDiscipline' /\ RecordsMatchCredentials'
    BY DEF TypeOK, RecordDiscipline, RecordsMatchCredentials
  <2> QED
    BY <2>1, <2>2, <2>3, <2>4
<1>3. ASSUME NEW r \in Requests, Allocate(r) PROVE IInv'
  <2> PICK s \in Slots \ taken :
        taken' = taken \union {s} /\ slot' = [slot EXCEPT ![r] = s]
    BY <1>3 DEF Allocate
  <2> USE <1>3 DEF Allocate, requestVars
  <2>1. TypeOK'
    BY DEF TypeOK
  <2>2. LoopDiscipline'
    BY DEF TypeOK, LoopDiscipline
  <2>3. SlotDiscipline' /\ SlotsNeverShared'
    BY DEF TypeOK, SlotDiscipline, SlotsNeverShared, Holding
  <2>a. \A q \in Requests : pc'[q] \in {"record", "stored"} =>
          q # r /\ pc'[q] = pc[q] /\ slot'[q] = slot[q]
    BY DEF TypeOK
  <2>4. RecordDiscipline'
    BY <2>a DEF RecordDiscipline
  <2>5. RecordsMatchCredentials'
    BY DEF RecordsMatchCredentials
  <2> QED
    BY <2>1, <2>2, <2>3, <2>4, <2>5
<1>4. ASSUME NEW r \in Requests, TakeReplied(r) \/ TakeFailed(r) \/ MintFailed(r) PROVE IInv'
  <2> USE <1>4 DEF TakeReplied, TakeFailed, MintFailed, serviceVars, requestVars
  <2>1. TypeOK'
    BY DEF TypeOK
  <2>2. LoopDiscipline'
    BY DEF TypeOK, LoopDiscipline
  <2>3. SlotDiscipline' /\ SlotsNeverShared'
    BY DEF TypeOK, SlotDiscipline, SlotsNeverShared, Holding
  <2>a. \A q \in Requests : pc'[q] \in {"record", "stored"} => pc'[q] = pc[q]
    BY DEF TypeOK
  <2>4. RecordDiscipline'
    BY <2>a DEF RecordDiscipline
  <2>5. RecordsMatchCredentials'
    BY DEF RecordsMatchCredentials
  <2> QED
    BY <2>1, <2>2, <2>3, <2>4, <2>5
<1>5. ASSUME NEW r \in Requests, Mint(r) PROVE IInv'
  <2> DEFINE c0 == [req |-> r, pos |-> Len(entries[r]) + 1, slot |-> slot[r],
                    exp |-> now + Lifetime(kind[r])]
  <2> USE <1>5 DEF Mint, requestVars
  <2>0. c0 \in Credentials /\ minted' = minted \union {c0}
    <3>1. Len(entries[r]) \in Nat /\ Len(entries[r]) < want[r] /\ want[r] \in 0 .. MaxProofs
      BY DEF TypeOK, LoopDiscipline
    <3>2. slot[r] \in Slots
      BY DEF LoopDiscipline
    <3>3. now + Lifetime(kind[r]) \in Nat
      BY DEF TypeOK, Lifetime
    <3> QED
      BY <3>1, <3>2, <3>3 DEF Credentials
  <2> HIDE DEF c0
  <2>1. TypeOK'
    BY <2>0 DEF TypeOK
  <2>2. LoopDiscipline'
    BY DEF TypeOK, LoopDiscipline
  <2>a. c0.slot = slot[r] /\ c0.req = r
    BY DEF c0
  <2>3. SlotDiscipline' /\ SlotsNeverShared'
    BY <2>0, <2>a DEF TypeOK, SlotDiscipline, SlotsNeverShared, Holding
  <2>b. \A i \in DOMAIN db : db[i].slot # slot[r]
    BY DEF SlotDiscipline, RecordsMatchCredentials, Holding
  <2>c. \A q \in Requests : pc'[q] \in {"record", "stored"} =>
          (q = r /\ pc'[q] = "record") \/ pc'[q] = pc[q]
    BY DEF TypeOK
  <2>4. RecordDiscipline'
    BY <2>0, <2>a, <2>b, <2>c DEF RecordDiscipline
  <2>5. RecordsMatchCredentials'
    BY <2>0 DEF RecordsMatchCredentials
  <2> QED
    BY <2>1, <2>2, <2>3, <2>4, <2>5
<1>6. ASSUME NEW r \in Requests, StoreRecord(r) PROVE IInv'
  <2> DEFINE d0 == [req |-> r, slot |-> slot[r], expires |-> expiry[r]]
  <2> USE <1>6 DEF StoreRecord, requestVars
  <2>0. d0 \in Records /\ db' = Append(db, d0)
    BY DEF TypeOK, LoopDiscipline, Records
  <2>a. d0.slot = slot[r] /\ d0.req = r
    OBVIOUS
  <2> HIDE DEF d0
  <2>b. /\ DOMAIN db = 1 .. Len(db) /\ Len(db) \in Nat
        /\ DOMAIN db' = 1 .. Len(db) + 1
        /\ \A i \in 1 .. Len(db) : db'[i] = db[i]
        /\ db'[Len(db) + 1] = d0
    BY <2>0 DEF TypeOK
  <2>c. db' \in Seq(Records)
    BY <2>0 DEF TypeOK
  <2>1. TypeOK'
    BY <2>c DEF TypeOK
  <2>2. LoopDiscipline'
    BY DEF TypeOK, LoopDiscipline
  <2>3. SlotDiscipline' /\ SlotsNeverShared'
    BY DEF TypeOK, SlotDiscipline, SlotsNeverShared, Holding
  <2>d. PICK c \in minted : c.req = r /\ c.slot = slot[r]
    BY DEF RecordDiscipline
  <2>e. \A q \in Requests : pc[q] = "record" /\ slot[q] = slot[r] => q = r
    BY <2>d DEF RecordDiscipline, SlotsNeverShared
  <2>f. \A q \in Requests : IF q = r THEN pc'[q] = "stored" ELSE pc'[q] = pc[q]
    BY DEF TypeOK
  <2>4. RecordDiscipline'
    <3> SUFFICES ASSUME NEW q \in Requests
                 PROVE  /\ pc'[q] \in {"record", "stored"} =>
                             \E c1 \in minted : c1.req = q /\ c1.slot = slot[q]
                        /\ pc'[q] = "record" => \A i \in DOMAIN db' : db'[i].slot # slot[q]
                        /\ pc'[q] = "stored" => \E i \in DOMAIN db' : db'[i].slot = slot[q]
      BY DEF RecordDiscipline
    <3>1. CASE q = r
      BY <3>1, <2>a, <2>b, <2>d, <2>f
    <3>2. CASE q # r
      <4>1. pc[q] = "record" => slot[q] # slot[r]
        BY <3>2, <2>e
      <4>2. pc[q] = "record" => \A i \in DOMAIN db : db[i].slot # slot[q]
        BY DEF RecordDiscipline
      <4>3. pc[q] = "stored" => \E i \in DOMAIN db : db[i].slot = slot[q]
        BY DEF RecordDiscipline
      <4>4. pc[q] \in {"record", "stored"} =>
              \E c1 \in minted : c1.req = q /\ c1.slot = slot[q]
        BY DEF RecordDiscipline
      <4>5. \A i \in DOMAIN db' : i \in DOMAIN db \/ i = Len(db) + 1
        BY <2>b
      <4> QED
        BY <3>2, <4>1, <4>2, <4>3, <4>4, <4>5, <2>a, <2>b, <2>f
    <3> QED
      BY <3>1, <3>2
  <2>5. RecordsMatchCredentials'
    <3>1. \A i \in DOMAIN db' : i \in DOMAIN db \/ i = Len(db) + 1
      BY <2>b
    <3>2. \A i \in DOMAIN db : db'[i] = db[i] /\ db[i].slot # slot[r]
      BY <2>b DEF RecordDiscipline
    <3>3. \A i \in DOMAIN db' : \E c1 \in minted : c1.req = db'[i].req /\ c1.slot = db'[i].slot
      BY <3>1, <3>2, <2>a, <2>b, <2>d DEF RecordsMatchCredentials
    <3>4. \A i, j \in DOMAIN db' : db'[i].slot = db'[j].slot => i = j
      BY <3>1, <3>2, <2>a, <2>b DEF RecordsMatchCredentials
    <3> QED
      BY <3>3, <3>4 DEF RecordsMatchCredentials
  <2> QED
    BY <2>1, <2>2, <2>3, <2>4, <2>5
<1>7. ASSUME NEW r \in Requests, RecordReplied(r) \/ RecordFailed(r) PROVE IInv'
  <2>1. PICK id \in Nat : pc[r] \in {"record", "stored"} /\ AppendEntry(r, id)
    <3>1. CASE RecordReplied(r)
      <4>1. RecordID(r) \in DOMAIN db
        BY <3>1 DEF RecordReplied, RecordID, RecordDiscipline
      <4>2. RecordID(r) \in Nat
        BY <4>1 DEF TypeOK
      <4> QED
        BY <3>1, <4>2 DEF RecordReplied
    <3>2. CASE RecordFailed(r)
      BY <3>2 DEF RecordFailed, NoID
    <3> QED
      BY <1>7, <3>1, <3>2
  <2> DEFINE e0 == [slot |-> slot[r], expires |-> expiry[r], id |-> id]
  <2>2. e0 \in Entries /\ entries' = [entries EXCEPT ![r] = Append(@, e0)]
    BY <2>1 DEF AppendEntry, TypeOK, LoopDiscipline, Entries
  <2> HIDE DEF e0
  <2>a. entries[r] \in Seq(Entries) /\ entries'[r] = Append(entries[r], e0)
    BY <2>2 DEF TypeOK
  <2>b. Append(entries[r], e0) \in Seq(Entries)
    BY <2>a, <2>2
  <2>c. entries' \in [Requests -> Seq(Entries)]
    BY <2>2, <2>b DEF TypeOK
  <2>d. Len(entries'[r]) = Len(entries[r]) + 1 /\ Len(entries[r]) \in Nat
    BY <2>a, <2>2
  <2> USE <2>1 DEF AppendEntry, serviceVars, requestVars
  <2>4. TypeOK'
    BY <2>c DEF TypeOK
  <2>5. LoopDiscipline'
    BY <2>2, <2>d DEF TypeOK, LoopDiscipline
  <2>6. SlotDiscipline' /\ SlotsNeverShared'
    BY DEF TypeOK, SlotDiscipline, SlotsNeverShared, Holding
  <2>7. RecordDiscipline' /\ RecordsMatchCredentials'
    BY DEF TypeOK, RecordDiscipline, RecordsMatchCredentials
  <2> QED
    BY <2>4, <2>5, <2>6, <2>7
<1>8. ASSUME Crash PROVE IInv'
  <2> USE <1>8 DEF Crash, serviceVars, requestVars
  <2>1. TypeOK'
    BY DEF TypeOK
  <2>2. LoopDiscipline'
    BY DEF TypeOK, LoopDiscipline
  <2>3. SlotDiscipline' /\ SlotsNeverShared'
    BY DEF TypeOK, SlotDiscipline, SlotsNeverShared, Holding
  <2>4. RecordDiscipline' /\ RecordsMatchCredentials'
    BY DEF TypeOK, RecordDiscipline, RecordsMatchCredentials
  <2> QED
    BY <2>1, <2>2, <2>3, <2>4
<1>9. ASSUME Tick \/ UNCHANGED vars PROVE IInv'
  <2>1. UNCHANGED <<taken, minted, db, pc, kind, want, expiry, slot, entries>>
    BY <1>9 DEF Tick, vars, serviceVars, requestVars
  <2>2. now' \in 0 .. MaxTime
    BY <1>9 DEF Tick, vars, TypeOK
  <2>3. TypeOK' /\ LoopDiscipline'
    BY <2>1, <2>2 DEF TypeOK, LoopDiscipline
  <2>4. SlotDiscipline' /\ SlotsNeverShared'
    BY <2>1 DEF SlotDiscipline, SlotsNeverShared, Holding
  <2>5. RecordDiscipline' /\ RecordsMatchCredentials'
    BY <2>1 DEF RecordDiscipline, RecordsMatchCredentials
  <2> QED
    BY <2>3, <2>4, <2>5
<1> QED
  BY <1>1, <1>2, <1>3, <1>4, <1>5, <1>6, <1>7, <1>8, <1>9
  DEF Next, Handle, Finished

\* Every behaviour of the issuance handler keeps the inductive invariant.
THEOREM IInvHolds == Spec => []IInv
  BY InitIInv, NextIInv, PTL DEF Spec

\* Type correctness: credentials, records and entries always name a real
\* request and a slot that was taken for it.
THEOREM TypeCorrect == Spec => []TypeOK
<1>1. IInv => TypeOK
  BY DEF IInv
<1> QED
  BY <1>1, IInvHolds, PTL

\* No two credentials ever share a revocation slot, for any number of
\* concurrent requests, batch sizes, failed calls and crashes.
THEOREM SlotsAreNeverShared == Spec => []SlotsNeverShared
<1>1. IInv => SlotsNeverShared
  BY DEF IInv
<1> QED
  BY <1>1, IInvHolds, PTL

\* Every issuance record is of a credential that was signed for that request,
\* and no credential has two records.
THEOREM RecordsAlwaysMatch == Spec => []RecordsMatchCredentials
<1>1. IInv => RecordsMatchCredentials
  BY DEF IInv
<1> QED
  BY <1>1, IInvHolds, PTL

-----------------------------------------------------------------------------

HIDE DEF Busy, Ended, States
USE ProofsAssumption, SlotAssumption, ClockAssumption

\* What a sequence is after something was appended to it.
LEMMA Appended ==
  ASSUME NEW S, NEW s \in Seq(S), NEW e \in S
  PROVE  /\ Len(s) \in Nat /\ Len(Append(s, e)) = Len(s) + 1
         /\ DOMAIN s = 1 .. Len(s) /\ DOMAIN Append(s, e) = 1 .. Len(s) + 1
         /\ \A i \in DOMAIN s : Append(s, e)[i] = s[i]
         /\ Append(s, e)[Len(s) + 1] = e
  OBVIOUS

\* The invariant holds at the start: nothing was signed.
LEMMA InitLedgerInv == Init => LedgerInv
<1> SUFFICES ASSUME Init PROVE LedgerInv
  OBVIOUS
<1>1. PositionDiscipline
  BY DEF Init, PositionDiscipline
<1>2. EntryDiscipline /\ ExpiryDiscipline
  BY DEF Init, EntryDiscipline, ExpiryDiscipline, PIDExpiryNeverOverstated, Busy
<1> QED
  BY <1>1, <1>2, InitIInv DEF LedgerInv

\* Steps that sign, record and answer nothing: a request fails, is lost, or
\* moves about before its mint.
LEMMA QuietKeeps ==
  ASSUME LedgerInv, IInv', UNCHANGED <<minted, db, entries, want, kind, expiry>>, now' >= now,
         \A q \in Requests :
            \/ pc'[q] \in {"failed", "lost"}
            \/ pc'[q] = pc[q] /\ slot'[q] = slot[q]
            \/ {pc[q], pc'[q]} \subseteq {"take", "allocated", "mint"}
  PROVE  LedgerInv'
<1>1. PositionDiscipline'
  <2>1. ASSUME NEW q \in Requests, pc'[q] \notin {"failed", "lost"}
        PROVE  /\ pc[q] \notin {"failed", "lost"} /\ Progress(q)' = Progress(q)
               /\ pc'[q] \in {"record", "stored"} =>
                    pc[q] \in {"record", "stored"} /\ slot'[q] = slot[q]
               /\ pc'[q] = "answered" => pc[q] = "answered"
    BY <2>1 DEF Progress
  <2> QED
    BY <2>1 DEF LedgerInv, PositionDiscipline
<1>2. EntryDiscipline'
  BY DEF LedgerInv, EntryDiscipline, RecordOf
<1>3. ExpiryDiscipline'
  <2>1. \A q \in Requests : pc'[q] \in Busy => pc[q] \in Busy
    BY DEF Busy
  <2>2. \A q \in Requests : expiry[q] \in Nat
    BY DEF LedgerInv, IInv, TypeOK
  <2>3. now \in Nat /\ now' \in Nat
    BY DEF LedgerInv, IInv, TypeOK
  <2> QED
    BY <2>1, <2>2, <2>3 DEF LedgerInv, ExpiryDiscipline, PIDExpiryNeverOverstated
<1> QED
  BY <1>1, <1>2, <1>3 DEF LedgerInv

\* A request that has not begun has nothing signed or recorded.
LEMMA IdleHasNothing ==
  ASSUME LedgerInv, NEW r \in Requests, pc[r] = "idle"
  PROVE  /\ entries[r] = << >>
         /\ \A c \in minted : c.req # r
         /\ \A i \in DOMAIN db : db[i].req # r
<1>1. entries[r] = << >>
  BY DEF LedgerInv, IInv, LoopDiscipline
<1>2. Progress(r) = 0
  BY <1>1 DEF Progress
<1>3. \A c \in minted : c.req # r
  BY <1>2 DEF LedgerInv, PositionDiscipline
<1> QED
  BY <1>1, <1>3 DEF LedgerInv, IInv, RecordsMatchCredentials

LEMMA BeginLedgerInv ==
  ASSUME LedgerInv, IInv', NEW r \in Requests, Begin(r)
  PROVE  LedgerInv'
<1>1. /\ UNCHANGED <<now, minted, db, slot, entries>>
      /\ pc' = [pc EXCEPT ![r] = "take"] /\ pc[r] = "idle"
      /\ expiry' = [expiry EXCEPT ![r] = now + PIDExpiry]
      /\ \A q \in Requests \ {r} : kind'[q] = kind[q] /\ want'[q] = want[q]
  BY DEF Begin, LedgerInv, IInv, TypeOK
<1>2. /\ entries[r] = << >>
      /\ \A c \in minted : c.req # r
      /\ \A i \in DOMAIN db : db[i].req # r
  BY <1>1, IdleHasNothing
<1>3. /\ \A c \in minted : c.req \in Requests \ {r}
      /\ \A i \in DOMAIN db : db[i].req \in Requests \ {r}
  <2>1. \A c \in minted : c.req \in Requests
    BY DEF LedgerInv, IInv, TypeOK, Credentials
  <2>2. \A i \in DOMAIN db : db[i] \in Records
    BY DEF LedgerInv, IInv, TypeOK
  <2> QED
    BY <1>2, <2>1, <2>2 DEF Records
<1>4. \A q \in Requests : pc'[q] = IF q = r THEN "take" ELSE pc[q]
  BY <1>1 DEF LedgerInv, IInv, TypeOK
<1>5. \A q \in Requests : expiry'[q] = IF q = r THEN now + PIDExpiry ELSE expiry[q]
  BY <1>1 DEF LedgerInv, IInv, TypeOK
<1>6. PositionDiscipline'
  <2>1. \A q \in Requests \ {r} : Progress(q)' = Progress(q)
    BY <1>1, <1>4 DEF Progress
  <2> QED
    BY <1>1, <1>2, <1>4, <2>1 DEF LedgerInv, PositionDiscipline
<1>7. EntryDiscipline'
  BY <1>1, <1>3, <1>5 DEF LedgerInv, EntryDiscipline, RecordOf
<1>8. now + PIDExpiry <= now' + PIDExpiry
  BY <1>1 DEF LedgerInv, IInv, TypeOK
<1>9. ExpiryDiscipline'
  <2>1. \A q \in Requests : pc'[q] \in Busy => expiry'[q] <= now' + PIDExpiry
    BY <1>1, <1>4, <1>5, <1>8 DEF LedgerInv, ExpiryDiscipline
  <2>2. PIDExpiryNeverOverstated'
    BY <1>1, <1>3, <1>5 DEF LedgerInv, ExpiryDiscipline, PIDExpiryNeverOverstated
  <2> QED
    BY <2>1, <2>2 DEF ExpiryDiscipline
<1> QED
  BY <1>6, <1>7, <1>9 DEF LedgerInv

\* The credential signed has the next position and an exp no earlier than the
\* expiry announced for a PID.
LEMMA MintLedgerInv ==
  ASSUME LedgerInv, IInv', NEW r \in Requests, Mint(r)
  PROVE  LedgerInv'
<1> DEFINE c0 == [req |-> r, pos |-> Len(entries[r]) + 1, slot |-> slot[r],
                  exp |-> now + Lifetime(kind[r])]
<1>1. /\ UNCHANGED <<now, taken, db, kind, want, expiry, slot, entries>>
      /\ pc[r] = "mint" /\ minted' = minted \union {c0}
  BY DEF Mint, requestVars
<1>2. \A q \in Requests : pc'[q] = IF q = r THEN "record" ELSE pc[q]
  BY DEF Mint, LedgerInv, IInv, TypeOK
<1>3. c0.req = r /\ c0.pos = Len(entries[r]) + 1 /\ c0.slot = slot[r]
      /\ c0.exp = now + Lifetime(kind[r])
  OBVIOUS
<1> HIDE DEF c0
<1>4. Len(entries[r]) \in Nat /\ Progress(r) = Len(entries[r])
  BY <1>1 DEF LedgerInv, IInv, TypeOK, Progress
<1>5. Progress(r)' = Len(entries[r]) + 1
  BY <1>1, <1>2 DEF Progress
<1>6. \A q \in Requests \ {r} : Progress(q)' = Progress(q)
  BY <1>1, <1>2 DEF Progress
<1>7. PositionDiscipline'
  <2> SUFFICES ASSUME NEW q \in Requests, pc'[q] \notin {"failed", "lost"}
               PROVE  /\ \A c \in minted' : c.req = q => c.pos \in 1 .. Progress(q)'
                      /\ \A c, d \in minted' : c.req = q /\ d.req = q /\ c.pos = d.pos => c = d
                      /\ \A i \in DOMAIN entries[q] : \E c \in minted' :
                           c.req = q /\ c.pos = i /\ c.slot = entries[q][i].slot
                      /\ pc'[q] \in {"record", "stored"} => \E c \in minted' :
                           c.req = q /\ c.pos = Progress(q)' /\ c.slot = slot[q]
                      /\ pc'[q] = "answered" => Len(entries[q]) = want[q]
    BY <1>1 DEF PositionDiscipline
  <2>1. CASE q = r
    <3>1. \A c \in minted : c.req = r => c.pos \in 1 .. Len(entries[r])
      BY <1>1, <1>4 DEF LedgerInv, PositionDiscipline
    <3>2. \A c, d \in minted : c.req = r /\ d.req = r /\ c.pos = d.pos => c = d
      BY <1>1 DEF LedgerInv, PositionDiscipline
    <3>3. \A i \in DOMAIN entries[r] : \E c \in minted :
            c.req = r /\ c.pos = i /\ c.slot = entries[r][i].slot
      BY <1>1 DEF LedgerInv, PositionDiscipline
    <3> QED
      BY <2>1, <3>1, <3>2, <3>3, <1>1, <1>2, <1>3, <1>4, <1>5
  <2>2. CASE q # r
    BY <2>2, <1>1, <1>2, <1>3, <1>6 DEF LedgerInv, PositionDiscipline
  <2> QED
    BY <2>1, <2>2
<1>8. EntryDiscipline'
  BY <1>1 DEF LedgerInv, EntryDiscipline, RecordOf
<1>9. ExpiryDiscipline'
  <2>1. expiry[r] <= now + PIDExpiry
    BY <1>1 DEF LedgerInv, ExpiryDiscipline, Busy
  <2>2. kind[r] = "pid" => expiry[r] <= c0.exp
    BY <2>1, <1>3 DEF Lifetime
  <2> QED
    BY <1>1, <1>2, <1>3, <2>2 DEF LedgerInv, ExpiryDiscipline, PIDExpiryNeverOverstated, Busy
<1> QED
  BY <1>7, <1>8, <1>9 DEF LedgerInv

\* The record stored is r's own, with the expiry of its batch.
LEMMA StoreLedgerInv ==
  ASSUME LedgerInv, IInv', NEW r \in Requests, StoreRecord(r)
  PROVE  LedgerInv'
<1> DEFINE d0 == [req |-> r, slot |-> slot[r], expires |-> expiry[r]]
<1>1. /\ UNCHANGED <<now, taken, minted, kind, want, expiry, slot, entries>>
      /\ pc[r] = "record" /\ db' = Append(db, d0) /\ d0.req = r /\ d0.expires = expiry[r]
  BY DEF StoreRecord, requestVars
<1>2. \A q \in Requests : pc'[q] = IF q = r THEN "stored" ELSE pc[q]
  BY DEF StoreRecord, LedgerInv, IInv, TypeOK
<1>3. d0 \in Records
  BY <1>1 DEF LedgerInv, IInv, TypeOK, LoopDiscipline, Records, Busy
<1> HIDE DEF d0
<1>4. /\ DOMAIN db = 1 .. Len(db) /\ Len(db) \in Nat
      /\ DOMAIN db' = 1 .. Len(db) + 1
      /\ \A i \in DOMAIN db : db'[i] = db[i]
      /\ db'[Len(db) + 1] = d0
  BY <1>1, <1>3 DEF LedgerInv, IInv, TypeOK
<1>5. PositionDiscipline'
  <2>1. \A q \in Requests : Progress(q)' = Progress(q)
    BY <1>1, <1>2 DEF Progress
  <2> QED
    BY <1>1, <1>2, <2>1 DEF LedgerInv, PositionDiscipline
<1>6. EntryDiscipline'
  <2>1. \A i \in DOMAIN db' : i \in DOMAIN db \/ db'[i] = d0
    BY <1>4
  <2>2. \A i \in DOMAIN db : i \in DOMAIN db'
    BY <1>4
  <2>3. \A i \in DOMAIN db' : db'[i].expires = expiry[db'[i].req]
    BY <1>1, <1>4, <2>1 DEF LedgerInv, EntryDiscipline
  <2> QED
    BY <1>1, <1>4, <2>2, <2>3 DEF LedgerInv, EntryDiscipline, RecordOf
<1>7. ExpiryDiscipline'
  BY <1>1, <1>2 DEF LedgerInv, ExpiryDiscipline, PIDExpiryNeverOverstated, Busy
<1> QED
  BY <1>5, <1>6, <1>7 DEF LedgerInv

\* The id the database returned names the record of the credential in hand.
LEMMA RecordIDIsOwn ==
  ASSUME LedgerInv, NEW r \in Requests, pc[r] = "stored"
  PROVE  /\ RecordID(r) \in DOMAIN db /\ RecordID(r) \in Nat
         /\ db[RecordID(r)] = [req |-> r, slot |-> slot[r], expires |-> expiry[r]]
<1>1. RecordID(r) \in DOMAIN db /\ db[RecordID(r)].slot = slot[r]
  BY DEF LedgerInv, IInv, RecordDiscipline, RecordID
<1>2. db[RecordID(r)] \in Records /\ RecordID(r) \in Nat
  BY <1>1 DEF LedgerInv, IInv, TypeOK
<1>3. db[RecordID(r)].req = r
  <2>1. PICK c \in minted : c.req = db[RecordID(r)].req /\ c.slot = slot[r]
    BY <1>1 DEF LedgerInv, IInv, RecordsMatchCredentials
  <2>2. PICK d \in minted : d.req = r /\ d.slot = slot[r]
    BY DEF LedgerInv, IInv, RecordDiscipline
  <2> QED
    BY <2>1, <2>2 DEF LedgerInv, IInv, SlotsNeverShared
<1>4. db[RecordID(r)].expires = expiry[r]
  BY <1>1, <1>3 DEF LedgerInv, EntryDiscipline
<1> QED
  BY <1>1, <1>2, <1>3, <1>4 DEF Records

\* The entry appended is of the credential in hand.
LEMMA AppendLedgerInv ==
  ASSUME LedgerInv, IInv', NEW r \in Requests, RecordReplied(r) \/ RecordFailed(r)
  PROVE  LedgerInv'
<1>1. PICK id \in Nat : /\ pc[r] \in {"record", "stored"} /\ AppendEntry(r, id)
                        /\ id # NoID => /\ id \in DOMAIN db
                                        /\ db[id] = [req |-> r, slot |-> slot[r],
                                                     expires |-> expiry[r]]
  <2>1. CASE RecordReplied(r)
    BY <2>1, RecordIDIsOwn DEF RecordReplied
  <2>2. CASE RecordFailed(r)
    BY <2>2 DEF RecordFailed, NoID
  <2> QED
    BY <2>1, <2>2
<1> DEFINE e0 == [slot |-> slot[r], expires |-> expiry[r], id |-> id]
<1>2. /\ UNCHANGED <<now, taken, minted, db, kind, want, expiry, slot>>
      /\ entries' = [entries EXCEPT ![r] = Append(@, e0)]
      /\ e0.slot = slot[r] /\ e0.expires = expiry[r] /\ e0.id = id
  BY <1>1 DEF AppendEntry, serviceVars, requestVars
<1>3. e0 \in Entries
  BY <1>1 DEF LedgerInv, IInv, TypeOK, LoopDiscipline, Entries, Busy
<1>4. \A q \in Requests :
        pc'[q] = IF q # r THEN pc[q]
                 ELSE IF Len(entries[r]) + 1 = want[r] THEN "answered" ELSE "take"
  BY <1>1 DEF AppendEntry, LedgerInv, IInv, TypeOK
<1> HIDE DEF e0
<1>5. /\ entries[r] \in Seq(Entries) /\ Len(entries[r]) \in Nat
      /\ entries'[r] = Append(entries[r], e0)
      /\ \A q \in Requests \ {r} : entries'[q] = entries[q]
  BY <1>2 DEF LedgerInv, IInv, TypeOK
<1>6. /\ Len(entries'[r]) = Len(entries[r]) + 1
      /\ DOMAIN entries[r] = 1 .. Len(entries[r])
      /\ DOMAIN entries'[r] = 1 .. Len(entries[r]) + 1
      /\ \A i \in DOMAIN entries[r] : entries'[r][i] = entries[r][i]
      /\ entries'[r][Len(entries[r]) + 1] = e0
  <2>1. \A s \in Seq(Entries) :
          /\ Len(s) \in Nat /\ Len(Append(s, e0)) = Len(s) + 1
          /\ DOMAIN s = 1 .. Len(s) /\ DOMAIN Append(s, e0) = 1 .. Len(s) + 1
          /\ \A i \in DOMAIN s : Append(s, e0)[i] = s[i]
          /\ Append(s, e0)[Len(s) + 1] = e0
    BY <1>3, Appended
  <2>2. /\ Len(Append(entries[r], e0)) = Len(entries[r]) + 1
        /\ DOMAIN entries[r] = 1 .. Len(entries[r])
        /\ DOMAIN Append(entries[r], e0) = 1 .. Len(entries[r]) + 1
        /\ \A i \in DOMAIN entries[r] : Append(entries[r], e0)[i] = entries[r][i]
        /\ Append(entries[r], e0)[Len(entries[r]) + 1] = e0
    BY <1>5, <2>1, Zenon
  <2>3. entries'[r] = Append(entries[r], e0)
    BY <1>5
  <2> QED
    BY <2>2, <2>3, Zenon
<1>7. Progress(r) = Len(entries[r]) + 1 /\ Progress(r)' = Len(entries[r]) + 1
  <2>1. pc[r] \in {"record", "stored"} /\ pc'[r] \notin {"record", "stored"}
    BY <1>1, <1>4
  <2> QED
    BY <2>1, <1>5, <1>6 DEF Progress
<1>8. \A q \in Requests \ {r} : Progress(q)' = Progress(q)
  BY <1>4, <1>5 DEF Progress
<1>9. PositionDiscipline'
  <2> SUFFICES ASSUME NEW q \in Requests, pc'[q] \notin {"failed", "lost"}
               PROVE  /\ \A c \in minted : c.req = q => c.pos \in 1 .. Progress(q)'
                      /\ \A c, d \in minted : c.req = q /\ d.req = q /\ c.pos = d.pos => c = d
                      /\ \A i \in DOMAIN entries'[q] : \E c \in minted :
                           c.req = q /\ c.pos = i /\ c.slot = entries'[q][i].slot
                      /\ pc'[q] \in {"record", "stored"} => \E c \in minted :
                           c.req = q /\ c.pos = Progress(q)' /\ c.slot = slot[q]
                      /\ pc'[q] = "answered" => Len(entries'[q]) = want[q]
    BY <1>2 DEF PositionDiscipline
  <2>1. CASE q = r
    <3>1. /\ \A c \in minted : c.req = r => c.pos \in 1 .. Progress(r)
          /\ \A c, d \in minted : c.req = r /\ d.req = r /\ c.pos = d.pos => c = d
          /\ \A i \in DOMAIN entries[r] : \E c \in minted :
               c.req = r /\ c.pos = i /\ c.slot = entries[r][i].slot
          /\ \E c \in minted : c.req = r /\ c.pos = Progress(r) /\ c.slot = slot[r]
      BY <1>1 DEF LedgerInv, PositionDiscipline
    <3>2. \A i \in DOMAIN entries'[r] : i \in DOMAIN entries[r] \/ i = Progress(r)
      BY <1>6, <1>7
    <3>3. entries'[r][Progress(r)].slot = slot[r]
      BY <1>2, <1>6, <1>7
    <3>4. \A i \in DOMAIN entries'[r] : \E c \in minted :
            c.req = r /\ c.pos = i /\ c.slot = entries'[r][i].slot
      BY <3>1, <3>2, <3>3, <1>6
    <3> QED
      BY <2>1, <3>1, <3>4, <1>4, <1>6, <1>7
  <2>2. CASE q # r
    BY <2>2, <1>2, <1>4, <1>5, <1>8 DEF LedgerInv, PositionDiscipline
  <2> QED
    BY <2>1, <2>2
<1>10. EntryDiscipline'
  <2>1. \A q \in Requests \ {r} : \A i \in DOMAIN entries'[q] : entries'[q][i].id # NoID =>
          /\ entries'[q][i].id \in DOMAIN db
          /\ db[entries'[q][i].id] = RecordOf(q, entries'[q][i])
    BY <1>5 DEF LedgerInv, EntryDiscipline
  <2>2. \A i \in DOMAIN entries[r] : entries'[r][i].id # NoID =>
          /\ entries'[r][i].id \in DOMAIN db
          /\ db[entries'[r][i].id] = RecordOf(r, entries'[r][i])
    BY <1>6 DEF LedgerInv, EntryDiscipline
  <2>3. e0.id # NoID => e0.id \in DOMAIN db /\ db[e0.id] = RecordOf(r, e0)
    BY <1>1, <1>2 DEF RecordOf
  <2>4. \A i \in DOMAIN entries'[r] : i \in DOMAIN entries[r] \/ entries'[r][i] = e0
    BY <1>6
  <2>5. \A q \in Requests : \A i \in DOMAIN entries'[q] : entries'[q][i].id # NoID =>
          /\ entries'[q][i].id \in DOMAIN db
          /\ db[entries'[q][i].id] = RecordOf(q, entries'[q][i])
    BY <2>1, <2>2, <2>3, <2>4
  <2>6. \A i \in DOMAIN db : db[i].expires = expiry[db[i].req]
    BY DEF LedgerInv, EntryDiscipline
  <2> QED
    BY <2>5, <2>6, <1>2 DEF EntryDiscipline
<1>11. ExpiryDiscipline'
  BY <1>1, <1>2, <1>4 DEF LedgerInv, ExpiryDiscipline, PIDExpiryNeverOverstated, Busy
<1> QED
  BY <1>9, <1>10, <1>11 DEF LedgerInv

\* The invariant survives every step.
LEMMA NextLedgerInv == LedgerInv /\ [Next]_vars => LedgerInv'
<1> SUFFICES ASSUME LedgerInv, [Next]_vars PROVE LedgerInv'
  OBVIOUS
<1>0. IInv' /\ now \in Nat
  BY NextIInv DEF LedgerInv, IInv, TypeOK
<1>1. ASSUME NEW r \in Requests,
             CertificateUnavailable(r) \/ Allocate(r) \/ TakeReplied(r) \/ TakeFailed(r) \/ MintFailed(r)
      PROVE  LedgerInv'
  <2>1. /\ UNCHANGED <<minted, db, entries, want, kind, expiry>> /\ now' >= now
        /\ \A q \in Requests :
             \/ pc'[q] \in {"failed", "lost"}
             \/ pc'[q] = pc[q] /\ slot'[q] = slot[q]
             \/ {pc[q], pc'[q]} \subseteq {"take", "allocated", "mint"}
    BY <1>1, <1>0 DEF CertificateUnavailable, Allocate, TakeReplied, TakeFailed, MintFailed,
                      serviceVars, requestVars, LedgerInv, IInv, TypeOK
  <2> QED
    BY <2>1, <1>0, QuietKeeps
<1>2. ASSUME Crash \/ Tick \/ UNCHANGED vars PROVE LedgerInv'
  <2>1. /\ UNCHANGED <<minted, db, entries, want, kind, expiry>> /\ now' >= now
        /\ \A q \in Requests : \/ pc'[q] \in {"failed", "lost"}
                               \/ pc'[q] = pc[q] /\ slot'[q] = slot[q]
    BY <1>2, <1>0 DEF Crash, Tick, vars, serviceVars, requestVars, LedgerInv, IInv, TypeOK
  <2> QED
    BY <2>1, <1>0, QuietKeeps
<1> QED
  BY <1>0, <1>1, <1>2, BeginLedgerInv, MintLedgerInv, StoreLedgerInv, AppendLedgerInv
  DEF Next, Handle, Finished

\* Every behaviour of the issuance handler keeps the stronger invariant.
THEOREM LedgerInvHolds == Spec => []LedgerInv
  BY InitLedgerInv, NextLedgerInv, PTL DEF Spec

\* An answered request got every credential signed for it, in the order of its
\* proofs, and an id in an entry names the record of that credential.
THEOREM AnswersMatchTheLedger == Spec => []AnswerMatchesLedger
<1>1. LedgerInv => AnswerMatchesLedger
  <2> SUFFICES ASSUME LedgerInv, NEW r \in Requests, pc[r] = "answered"
               PROVE  /\ Len(entries[r]) = want[r]
                      /\ \A i \in 1 .. want[r] : \E c \in minted :
                           c.req = r /\ c.pos = i /\ c.slot = entries[r][i].slot
                      /\ \A c \in minted : c.req = r => c.pos \in 1 .. want[r]
                      /\ \A i \in 1 .. want[r] : entries[r][i].id # NoID =>
                           db[entries[r][i].id] =
                             [req |-> r, slot |-> entries[r][i].slot,
                              expires |-> entries[r][i].expires]
    BY DEF AnswerMatchesLedger
  <2>1. Len(entries[r]) = want[r] /\ DOMAIN entries[r] = 1 .. Len(entries[r])
    <3>1. Len(entries[r]) = want[r]
      BY DEF LedgerInv, PositionDiscipline
    <3>2. entries[r] \in Seq(Entries)
      BY DEF LedgerInv, IInv, TypeOK
    <3> QED
      BY <3>1, <3>2
  <2>2. Progress(r) = want[r]
    BY <2>1 DEF Progress, LedgerInv, IInv, TypeOK
  <2>3. \A i \in DOMAIN entries[r] : entries[r][i].id # NoID =>
          db[entries[r][i].id] = RecordOf(r, entries[r][i])
    BY DEF LedgerInv, EntryDiscipline
  <2>4. /\ \A i \in DOMAIN entries[r] : \E c \in minted :
             c.req = r /\ c.pos = i /\ c.slot = entries[r][i].slot
        /\ \A c \in minted : c.req = r => c.pos \in 1 .. Progress(r)
    BY DEF LedgerInv, PositionDiscipline
  <2> QED
    BY <2>1, <2>2, <2>3, <2>4 DEF RecordOf
<1> QED
  BY <1>1, LedgerInvHolds, PTL

\* The expiry announced and recorded for a PID is never later than its exp,
\* however the clock moves between its reading and the mint.
THEOREM PIDExpiryIsNeverOverstated == Spec => []PIDExpiryNeverOverstated
<1>1. LedgerInv => PIDExpiryNeverOverstated
  BY DEF LedgerInv, ExpiryDiscipline
<1> QED
  BY <1>1, LedgerInvHolds, PTL

-----------------------------------------------------------------------------

\* Who may be wasting a slot, and that there are only finitely many, survives
\* every step: a slot just taken is held, one just minted is in a credential,
\* and a request that fails keeps the blame for the slot it held.
LEMMA NextWaste == IInv /\ WasteDiscipline /\ [Next]_vars => WasteDiscipline'
<1> SUFFICES ASSUME IInv, WasteDiscipline, [Next]_vars PROVE WasteDiscipline'
  OBVIOUS
<1> DEFINE Begun == {q \in Requests : pc[q] # "idle"}
<1>0. TypeOK
  BY DEF IInv
<1>1. ASSUME NEW r \in Requests, Begin(r) \/ CertificateUnavailable(r)
      PROVE  WasteDiscipline'
  <2>1. /\ UNCHANGED <<taken, minted, slot>> /\ pc[r] = "idle"
        /\ \A q \in Requests : q # r => pc'[q] = pc[q]
        /\ pc'[r] \in {"take", "failed"}
    BY <1>0, <1>1 DEF TypeOK, Begin, CertificateUnavailable, serviceVars
  <2>2. Wasting \subseteq Wasting'
    BY <2>1 DEF Wasting, Holding
  <2>3. Begun' = Begun \union {r}
    BY <2>1
  <2>4. IsFiniteSet(Begun')
    BY <2>3, FS_AddElement DEF WasteDiscipline
  <2> QED
    BY <2>1, <2>2, <2>4 DEF WasteDiscipline
<1>2. ASSUME NEW r \in Requests, Handle(r) PROVE WasteDiscipline'
  <2>1. Begun' = Begun
    <3>1. pc[r] \in Busy /\ pc'[r] # "idle" /\ \A q \in Requests : q # r => pc'[q] = pc[q]
      BY <1>0, <1>2 DEF TypeOK, Handle, Allocate, TakeReplied, TakeFailed, Mint, MintFailed,
                        StoreRecord, RecordReplied, RecordFailed, AppendEntry, Busy
    <3> QED
      BY <3>1 DEF Busy
  <2>2. CASE Allocate(r)
    <3>1. PICK s \in Slots \ taken : taken' = taken \union {s} /\ slot' = [slot EXCEPT ![r] = s]
      BY <2>2 DEF Allocate
    <3>2. /\ minted' = minted /\ pc[r] = "take" /\ pc'[r] = "allocated" /\ slot'[r] = s
          /\ \A q \in Requests : q # r => pc'[q] = pc[q] /\ slot'[q] = slot[q]
      BY <1>0, <2>2, <3>1 DEF TypeOK, Allocate
    <3>3. r \in Wasting' /\ \A q \in Wasting : q \in Wasting' /\ slot'[q] = slot[q]
      BY <3>2 DEF Wasting, Holding
    <3>4. ASSUME NEW t \in taken'
          PROVE  (\E c \in minted' : c.slot = t) \/ (\E q \in Wasting' : slot'[q] = t)
      <4>1. CASE t = s
        BY <4>1, <3>2, <3>3
      <4>2. CASE t \in taken
        BY <4>2, <3>2, <3>3 DEF WasteDiscipline
      <4> QED
        BY <4>1, <4>2, <3>1
    <3>5. IsFiniteSet(minted') /\ IsFiniteSet(Begun')
      BY <2>1, <3>2 DEF WasteDiscipline
    <3> QED
      BY <3>4, <3>5 DEF WasteDiscipline
  <2>3. CASE Mint(r)
    <3> DEFINE c0 == [req |-> r, pos |-> Len(entries[r]) + 1, slot |-> slot[r],
                      exp |-> now + Lifetime(kind[r])]
    <3>1. minted' = minted \union {c0} /\ c0.slot = slot[r] /\ UNCHANGED <<taken, slot>>
      BY <2>3 DEF Mint
    <3>2. \A q \in Wasting : q \in Wasting' \/ q = r
      BY <1>0, <2>3 DEF TypeOK, Mint, Wasting, Holding
    <3>3. IsFiniteSet(minted')
      BY <3>1, FS_AddElement DEF WasteDiscipline
    <3> QED
      BY <2>1, <3>1, <3>2, <3>3 DEF WasteDiscipline
  <2>4. CASE \/ TakeReplied(r) \/ TakeFailed(r) \/ MintFailed(r)
             \/ StoreRecord(r) \/ RecordReplied(r) \/ RecordFailed(r)
    <3>1. UNCHANGED <<taken, minted, slot>>
      BY <2>4 DEF TakeReplied, TakeFailed, MintFailed, StoreRecord, RecordReplied,
                  RecordFailed, AppendEntry, serviceVars
    <3>2. Wasting \subseteq Wasting'
      BY <1>0, <2>4 DEF TypeOK, TakeReplied, TakeFailed, MintFailed, StoreRecord,
                        RecordReplied, RecordFailed, AppendEntry, Wasting, Holding
    <3> QED
      BY <2>1, <3>1, <3>2 DEF WasteDiscipline
  <2> QED
    BY <1>2, <2>2, <2>3, <2>4 DEF Handle
<1>3. ASSUME Crash \/ Tick \/ UNCHANGED vars PROVE WasteDiscipline'
  <2>1. UNCHANGED <<taken, minted, slot>>
    BY <1>3 DEF Crash, Tick, vars, serviceVars
  <2>2. Wasting \subseteq Wasting' /\ Begun' = Begun
    BY <1>0, <1>3 DEF TypeOK, Crash, Tick, vars, Wasting, Holding, Busy
  <2> QED
    BY <2>1, <2>2 DEF WasteDiscipline
<1> QED
  BY <1>1, <1>2, <1>3 DEF Next, Finished

\* Slots are wasted only by requests that failed or were lost, one each at
\* most: those in no credential are the last slots of such requests.
THEOREM OneSlotWastedPerFailure == Spec => []OneWastedSlotPerFailure
<1>1. Init => WasteDiscipline
  <2> SUFFICES ASSUME Init PROVE WasteDiscipline
    OBVIOUS
  <2>1. {r \in Requests : pc[r] # "idle"} = {}
    BY DEF Init
  <2> QED
    BY <2>1, FS_EmptySet DEF Init, WasteDiscipline
<1>2. WasteDiscipline => OneWastedSlotPerFailure
  <2> SUFFICES ASSUME WasteDiscipline PROVE OneWastedSlotPerFailure
    OBVIOUS
  <2> DEFINE Embedded == {c.slot : c \in minted}
             Held == {slot[r] : r \in Wasting}
             f == [c \in minted |-> c.slot]
             g == [r \in Wasting |-> slot[r]]
  <2>1. f \in Surjection(minted, Embedded) /\ g \in Surjection(Wasting, Held)
    BY DEF Surjection
  <2>2. IsFiniteSet(minted) /\ IsFiniteSet(Wasting)
    <3>1. Wasting \in SUBSET {r \in Requests : pc[r] # "idle"}
      BY DEF Wasting, Holding
    <3> QED
      BY <3>1, FS_Subset DEF WasteDiscipline
  <2> HIDE DEF Embedded, Held, f, g
  <2>3. IsFiniteSet(Embedded) /\ Cardinality(Embedded) <= Cardinality(minted)
    BY <2>1, <2>2, FS_Surjection
  <2>4. IsFiniteSet(Held) /\ Cardinality(Held) <= Cardinality(Wasting)
    BY <2>1, <2>2, FS_Surjection
  <2>5. /\ IsFiniteSet(Embedded \union Held)
        /\ Cardinality(Embedded \union Held) <= Cardinality(Embedded) + Cardinality(Held)
    <3>1. IsFiniteSet(Embedded \intersect Held)
      BY <2>3, FS_Intersection
    <3> QED
      BY <2>3, <2>4, <3>1, FS_Union, FS_CardinalityType
  <2>6. taken \in SUBSET (Embedded \union Held)
    BY DEF WasteDiscipline, Embedded, Held
  <2>7. Cardinality(taken) <= Cardinality(Embedded \union Held) /\ IsFiniteSet(taken)
    BY <2>5, <2>6, FS_Subset
  <2>8. Cardinality(taken) <= Cardinality(minted) + Cardinality(Wasting)
    BY <2>2, <2>3, <2>4, <2>5, <2>7, FS_CardinalityType
  <2> QED
    BY <2>8 DEF OneWastedSlotPerFailure, Wasting
<1> QED
  BY <1>1, <1>2, IInvHolds, NextWaste, PTL DEF Spec

\* The ledger counts as the library does.
LEMMA LedgerCounts ==
  ASSUME NEW S
  PROVE  Ledger!Cardinality(S) = Cardinality(S)
  BY Zenon DEF Ledger!Cardinality, Cardinality, Ledger!IsFiniteSet, IsFiniteSet

\* What the ledger has of a request that has not failed: one entry for each
\* position up to its progress.
LEMMA IssuedCount ==
  ASSUME LedgerInv, NEW r \in Requests, pc[r] \notin {"failed", "lost"}
  PROVE  Progress(r) \in Nat /\ Ledger!Cardinality(Ledger!IssuedFor(r)) = Progress(r)
<1> DEFINE S == Ledger!IssuedFor(r)
           n == Progress(r)
           f == [i \in 1 .. n |-> CHOOSE e \in S : e.pos = i]
<1>1. Len(entries[r]) \in Nat /\ n \in Nat /\ DOMAIN entries[r] = 1 .. Len(entries[r])
  BY DEF LedgerInv, IInv, TypeOK, Progress
<1>2. \A e \in S : \E c \in minted : c.req = r /\ e = [req |-> r, pos |-> c.pos, slot |-> c.slot]
  BY DEF Ledger!IssuedFor, LedgerIssued
<1>3. \A c \in minted : c.req = r => [req |-> r, pos |-> c.pos, slot |-> c.slot] \in S
  BY DEF Ledger!IssuedFor, LedgerIssued
<1>4. \A i \in 1 .. n : \E c \in minted : c.req = r /\ c.pos = i
  <2>1. \A i \in 1 .. n : i \in DOMAIN entries[r] \/ (i = n /\ pc[r] \in {"record", "stored"})
    <3>1. n = Len(entries[r]) \/ (n = Len(entries[r]) + 1 /\ pc[r] \in {"record", "stored"})
      <4>1. CASE pc[r] \in {"record", "stored"}
        BY <4>1, <1>1 DEF Progress
      <4>2. CASE pc[r] \notin {"record", "stored"}
        BY <4>2, <1>1 DEF Progress
      <4> QED
        BY <4>1, <4>2
    <3> HIDE DEF n
    <3> QED
      BY <1>1, <3>1
  <2>2. \A i \in DOMAIN entries[r] : \E c \in minted : c.req = r /\ c.pos = i
    BY DEF LedgerInv, PositionDiscipline
  <2>3. pc[r] \in {"record", "stored"} => \E c \in minted : c.req = r /\ c.pos = n
    BY DEF LedgerInv, PositionDiscipline
  <2> QED
    BY <2>1, <2>2, <2>3
<1>5. \A i \in 1 .. n : \E e \in S : e.pos = i
  BY <1>3, <1>4
<1>6. \A e \in S : e.pos \in 1 .. n
  BY <1>2 DEF LedgerInv, PositionDiscipline
<1>7. \A d, e \in S : d.pos = e.pos => d = e
  BY <1>2 DEF LedgerInv, PositionDiscipline
<1> HIDE DEF S, n
<1>8. \A i \in 1 .. n : f[i] \in S /\ f[i].pos = i
  BY <1>5
<1>9. \A e \in S : f[e.pos] = e
  BY <1>6, <1>7, <1>8
<1> HIDE DEF f
<1>10. f \in [1 .. n -> S]
  BY <1>8 DEF f
<1>11. f \in Bijection(1 .. n, S)
  BY <1>6, <1>8, <1>9, <1>10 DEF Bijection, Injection, Surjection, IsInjective
<1>12. ExistsBijection(1 .. n, S)
  BY <1>11 DEF ExistsBijection
<1>13. Cardinality(S) = n
  BY <1>1, <1>12, FS_CountingElements
<1>14. Ledger!Cardinality(S) = n
  BY <1>13, LedgerCounts
<1> QED
  BY <1>1, <1>14 DEF S, n

\* A step after which each request has the standing it had, with nothing new
\* signed, is none of the ledger.
LEMMA LedgerStutters ==
  ASSUME minted' = minted,
         \A q \in Requests :
            \/ pc'[q] = "answered" /\ pc[q] = "answered" /\ entries'[q] = entries[q]
            \/ {pc[q], pc'[q]} \subseteq {"failed", "lost"}
            \/ {pc[q], pc'[q]} \subseteq {"idle"} \union Busy
  PROVE  UNCHANGED Ledger!ledgerVars
<1>1. LedgerStatus' = LedgerStatus
  BY DEF LedgerStatus, Busy
<1>2. LedgerAnswer' = LedgerAnswer
  BY DEF LedgerAnswer, Busy
<1>3. LedgerIssued' = LedgerIssued
  BY DEF LedgerIssued
<1> QED
  BY <1>1, <1>2, <1>3 DEF Ledger!ledgerVars

\* Requests that fail or are lost, one or several at once.
LEMMA AbortRefines ==
  ASSUME LedgerInv, minted' = minted, entries' = entries,
         NEW R \in SUBSET Requests, R # {},
         \A q \in R : pc[q] \in {"idle"} \union Busy /\ pc'[q] \in {"failed", "lost"},
         \A q \in Requests \ R : pc'[q] = pc[q]
  PROVE  Ledger!Abort
<1>1. \A q \in R : LedgerStatus[q] = "open"
  BY DEF LedgerStatus, Busy
<1>2. LedgerStatus' = [q \in Requests |-> IF q \in R THEN "aborted" ELSE LedgerStatus[q]]
  BY DEF LedgerStatus
<1>3. LedgerAnswer' = LedgerAnswer /\ LedgerIssued' = LedgerIssued
  BY DEF LedgerAnswer, LedgerIssued, Busy
<1> QED
  BY <1>1, <1>2, <1>3 DEF Ledger!Abort

\* The mint issues the next credential of the request against a fresh slot.
LEMMA MintRefines ==
  ASSUME LedgerInv, NEW r \in Requests, Mint(r)
  PROVE  Ledger!Issue(r)
<1>1. /\ pc[r] = "mint" /\ entries' = entries /\ slot[r] \in Slots
      /\ \A c \in minted : c.slot # slot[r]
      /\ \A q \in Requests : pc'[q] = IF q = r THEN "record" ELSE pc[q]
  BY DEF Mint, LedgerInv, IInv, TypeOK, LoopDiscipline, SlotDiscipline, Holding, Busy
<1>2. Ledger!Cardinality(Ledger!IssuedFor(r)) = Len(entries[r])
  <2>1. Progress(r) = Len(entries[r])
    BY <1>1 DEF Progress, LedgerInv, IInv, TypeOK
  <2> QED
    BY <1>1, <2>1, IssuedCount
<1>3. LedgerIssued' = LedgerIssued \union
        {[req |-> r, pos |-> Ledger!Cardinality(Ledger!IssuedFor(r)) + 1, slot |-> slot[r]]}
  <2> DEFINE c0 == [req |-> r, pos |-> Len(entries[r]) + 1, slot |-> slot[r],
                    exp |-> now + Lifetime(kind[r])]
             L(c) == [req |-> c.req, pos |-> c.pos, slot |-> c.slot]
  <2>1. minted' = minted \union {c0}
    BY DEF Mint
  <2>2. L(c0) = [req |-> r, pos |-> Len(entries[r]) + 1, slot |-> slot[r]]
    OBVIOUS
  <2>3. LedgerIssued = {L(c) : c \in minted} /\ LedgerIssued' = {L(c) : c \in minted'}
    BY DEF LedgerIssued
  <2> HIDE DEF c0, L
  <2>4. LedgerIssued' = LedgerIssued \union {L(c0)}
    BY <2>1, <2>3
  <2> QED
    BY <1>2, <2>2, <2>4
<1>4. LedgerStatus' = LedgerStatus /\ LedgerStatus[r] = "open"
  BY <1>1 DEF LedgerStatus
<1>5. LedgerAnswer' = LedgerAnswer
  BY <1>1 DEF LedgerAnswer
<1>6. \A c \in LedgerIssued : c.slot # slot[r]
  BY <1>1 DEF LedgerIssued
<1> QED
  BY <1>1, <1>3, <1>4, <1>5, <1>6 DEF Ledger!Issue

\* The last entry completes the answer; the others are not seen by the ledger.
LEMMA AppendRefines ==
  ASSUME LedgerInv, LedgerInv', NEW r \in Requests, RecordReplied(r) \/ RecordFailed(r)
  PROVE  Ledger!Answer(r) \/ UNCHANGED Ledger!ledgerVars
<1>1. /\ minted' = minted /\ pc[r] \in {"record", "stored"} /\ pc'[r] \in {"answered", "take"}
      /\ \A q \in Requests \ {r} : pc'[q] = pc[q] /\ entries'[q] = entries[q]
  BY DEF RecordReplied, RecordFailed, AppendEntry, serviceVars, requestVars, LedgerInv, IInv, TypeOK
<1>2. CASE pc'[r] = "take"
  BY <1>1, <1>2, LedgerStutters DEF Busy, LedgerInv, IInv, TypeOK, States, Ended
<1>3. CASE pc'[r] = "answered"
  <2> DEFINE n == Progress(r)
             slots == [i \in 1 .. Len(entries'[r]) |-> entries'[r][i].slot]
  <2>1. entries'[r] \in Seq(Entries) /\ Len(entries'[r]) \in Nat
        /\ DOMAIN entries'[r] = 1 .. Len(entries'[r])
    BY DEF LedgerInv, IInv, TypeOK
  <2>2. Ledger!Cardinality(Ledger!IssuedFor(r)) = n /\ n \in Nat /\ n # 0
    <3>1. Progress(r) = Len(entries[r]) + 1 /\ Len(entries[r]) \in Nat
      BY <1>1 DEF Progress, LedgerInv, IInv, TypeOK
    <3>2. pc[r] \notin {"failed", "lost"}
      BY <1>1
    <3> QED
      BY <3>1, <3>2, IssuedCount
  <2>3. Len(entries'[r]) = n
    <3>1. /\ pc'[r] # "failed" /\ pc'[r] # "lost" /\ LedgerIssued' = LedgerIssued
          /\ Progress(r)' = Len(entries'[r])
      BY <1>1, <1>3, <2>1 DEF LedgerIssued, Progress
    <3>2. \A c \in minted : c.req = r => c.pos \in 1 .. Len(entries'[r])
      BY <3>1, <1>1 DEF LedgerInv, PositionDiscipline
    <3>3. \A i \in 1 .. Len(entries'[r]) : \E c \in minted : c.req = r /\ c.pos = i
      BY <3>1, <1>1, <2>1 DEF LedgerInv, PositionDiscipline
    <3>4. /\ \A c \in minted : c.req = r => c.pos \in 1 .. n
          /\ \E c \in minted : c.req = r /\ c.pos = n
      BY <1>1 DEF LedgerInv, PositionDiscipline
    <3>5. n <= Len(entries'[r])
      BY <3>2, <3>4
    <3>6. Len(entries'[r]) # 0 => Len(entries'[r]) <= n
      BY <2>1, <3>3, <3>4
    <3> QED
      BY <2>1, <2>2, <3>5, <3>6
  <2>4. slots \in [1 .. Ledger!Cardinality(Ledger!IssuedFor(r)) -> Slots]
    <3>1. \A i \in 1 .. Len(entries'[r]) : entries'[r][i] \in Entries
      BY <2>1
    <3>2. \A i \in 1 .. Len(entries'[r]) : entries'[r][i].slot \in Slots
      BY <3>1 DEF Entries
    <3> QED
      BY <2>2, <2>3, <3>2
  <2>5. \A c \in Ledger!IssuedFor(r) : slots[c.pos] = c.slot
    <3>1. \A i \in DOMAIN entries'[r] : \E c \in minted :
            c.req = r /\ c.pos = i /\ c.slot = entries'[r][i].slot
      BY <1>1, <1>3 DEF LedgerInv, PositionDiscipline
    <3>2. /\ \A c \in minted : c.req = r => c.pos \in 1 .. n
          /\ \A c, d \in minted : c.req = r /\ d.req = r /\ c.pos = d.pos => c = d
      BY <1>1 DEF LedgerInv, PositionDiscipline
    <3>3. \A c \in minted : c.req = r => slots[c.pos] = c.slot
      BY <2>1, <2>3, <3>1, <3>2
    <3> QED
      BY <3>3 DEF Ledger!IssuedFor, LedgerIssued
  <2>6. Ledger!IssuedFor(r) # {}
    <3>1. \E c \in minted : c.req = r
      BY <1>1 DEF LedgerInv, PositionDiscipline
    <3>2. PICK c \in minted : c.req = r
      BY <3>1
    <3>3. [req |-> r, pos |-> c.pos, slot |-> c.slot] \in LedgerIssued
      BY <3>2 DEF LedgerIssued
    <3> QED
      BY <3>3 DEF Ledger!IssuedFor
  <2>7. LedgerStatus[r] = "open" /\ LedgerStatus' = [LedgerStatus EXCEPT ![r] = "answered"]
    BY <1>1, <1>3 DEF LedgerStatus
  <2>8. LedgerAnswer' = [LedgerAnswer EXCEPT ![r] = slots]
    BY <1>1, <1>3 DEF LedgerAnswer
  <2>9. LedgerIssued' = LedgerIssued
    BY <1>1 DEF LedgerIssued
  <2> HIDE DEF slots
  <2> QED
    BY <2>4, <2>5, <2>6, <2>7, <2>8, <2>9 DEF Ledger!Answer
<1> QED
  BY <1>1, <1>2, <1>3

\* The handler implements the ledger: fresh slots for every credential, and an
\* answer that is all or nothing, for any requests, slots and batch size.
THEOREM IssuanceImplementsLedger == Spec => ImplementsLedger
<1>1. Init => Ledger!Init
  BY DEF Init, Ledger!Init, LedgerStatus, LedgerIssued, LedgerAnswer
<1>2. LedgerInv /\ LedgerInv' /\ [Next]_vars => [Ledger!Next]_(Ledger!ledgerVars)
  <2> SUFFICES ASSUME LedgerInv, LedgerInv', [Next]_vars
               PROVE  Ledger!Next \/ UNCHANGED Ledger!ledgerVars
    OBVIOUS
  <2>0. pc \in [Requests -> States]
    BY DEF LedgerInv, IInv, TypeOK
  <2>1. ASSUME NEW r \in Requests, Mint(r) PROVE Ledger!Next
    BY <2>1, MintRefines DEF Ledger!Next
  <2>2. ASSUME NEW r \in Requests, RecordReplied(r) \/ RecordFailed(r)
        PROVE  Ledger!Next \/ UNCHANGED Ledger!ledgerVars
    BY <2>2, AppendRefines DEF Ledger!Next
  <2>3. ASSUME NEW r \in Requests, CertificateUnavailable(r) \/ TakeFailed(r) \/ MintFailed(r)
        PROVE  Ledger!Next
    <3>1. /\ minted' = minted /\ entries' = entries
          /\ pc[r] \in {"idle"} \union Busy /\ pc'[r] \in {"failed", "lost"}
          /\ \A q \in Requests \ {r} : pc'[q] = pc[q]
      BY <2>3, <2>0 DEF CertificateUnavailable, TakeFailed, MintFailed, serviceVars, Busy
    <3>2. Ledger!Abort
      <4>1. {r} \in SUBSET Requests /\ {r} # {}
        OBVIOUS
      <4> QED
        BY <3>1, <4>1, AbortRefines
    <3> QED
      BY <3>2 DEF Ledger!Next
  <2>4. ASSUME Crash PROVE Ledger!Next
    <3> DEFINE R == {q \in Requests : pc[q] \in Busy}
    <3>1. /\ minted' = minted /\ entries' = entries /\ R \in SUBSET Requests /\ R # {}
          /\ \A q \in R : pc[q] \in {"idle"} \union Busy /\ pc'[q] \in {"failed", "lost"}
          /\ \A q \in Requests \ R : pc'[q] = pc[q]
      BY <2>4 DEF Crash, serviceVars
    <3> HIDE DEF R
    <3>2. Ledger!Abort
      BY <3>1, AbortRefines
    <3> QED
      BY <3>2 DEF Ledger!Next
  <2>5. ASSUME NEW r \in Requests, Begin(r) \/ Allocate(r) \/ TakeReplied(r) \/ StoreRecord(r)
        PROVE  UNCHANGED Ledger!ledgerVars
    <3>1. /\ minted' = minted /\ entries' = entries
          /\ {pc[r], pc'[r]} \subseteq {"idle"} \union Busy
          /\ \A q \in Requests \ {r} : pc'[q] = pc[q]
      BY <2>5, <2>0 DEF Begin, Allocate, TakeReplied, StoreRecord, serviceVars, Busy
    <3> QED
      BY <3>1, <2>0, LedgerStutters DEF States, Ended
  <2>6. ASSUME Tick \/ UNCHANGED vars PROVE UNCHANGED Ledger!ledgerVars
    <3>1. minted' = minted /\ entries' = entries /\ pc' = pc
      BY <2>6 DEF Tick, vars, serviceVars
    <3> QED
      BY <3>1, <2>0, LedgerStutters DEF States, Ended
  <2> QED
    BY <2>1, <2>2, <2>3, <2>4, <2>5, <2>6 DEF Next, Handle, Finished
<1> QED
  BY <1>1, <1>2, LedgerInvHolds, PTL DEF Spec, ImplementsLedger, Ledger!Spec
=============================================================================
