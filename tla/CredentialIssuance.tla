------------------------- MODULE CredentialIssuance -------------------------
(***************************************************************************)
(* issueAndRespond (routes/credential.go) run by concurrent requests, with *)
(* the status list service it takes revocation slots from, the minter and  *)
(* the database function that tracks issuances.                            *)
(*                                                                         *)
(* A request arrives here with its proofs already verified: one credential *)
(* is minted per proof result, in order, each in four steps: a slot is     *)
(* taken, the credential is minted against it, the issuance is recorded,   *)
(* the entry is appended.  A failed take or mint ends the request with an  *)
(* error; a failed record does not.  A call to another service is two      *)
(* steps, the service's and the handler's, so that a call may take effect  *)
(* although the handler sees it fail or does not live to see the reply.    *)
(*                                                                         *)
(* Only the IDAuth branch of the handler reaches issueAndRespond; it       *)
(* passes no expiry cap (the zero time), so the cap is not modelled.       *)
(***************************************************************************)
EXTENDS Integers, Sequences, FiniteSets

CONSTANTS
  Requests,       \* the POST /credential requests of a run
  Slots,          \* (uri, idx) pairs of the status lists
  NoSlot,         \* no slot in hand
  MaxProofs,      \* bound on the proof results of one request
  PIDExpiry,      \* validity of a PID
  CredentialTTL,  \* validity of a credential of a generic type
  MaxTime         \* bound on the clock

ASSUME ProofsAssumption == MaxProofs \in Nat \ {0}
ASSUME SlotAssumption == NoSlot \notin Slots
ASSUME ClockAssumption == PIDExpiry \in Nat /\ CredentialTTL \in Nat /\ MaxTime \in Nat

VARIABLES
  now,      \* the issuer's clock
  taken,    \* slots the status list service has given out
  minted,   \* every credential ever signed
  db,       \* the issuance records, in insertion order; the id is the index
  pc,       \* where each request's handler is
  kind,     \* the credential configuration each request asks for
  want,     \* the number of proof results of each request
  expiry,   \* credExpiry of each request
  slot,     \* the slot each request is issuing against
  entries   \* the entries collected for the response

serviceVars == <<taken, minted, db>>
requestVars == <<kind, want, expiry>>
vars == <<now, taken, minted, db, pc, kind, want, expiry, slot, entries>>

Kinds == {"pid", "generic"}

\* Mutant of Lifetime: the two validities swapped.
LifetimeSwapped(k) == IF k = "pid" THEN CredentialTTL ELSE PIDExpiry

\* The exp a minter embeds, counted from its own reading of the clock.
Lifetime(k) == IF k = "pid" THEN PIDExpiry ELSE CredentialTTL

NoID == 0

Credentials == [req : Requests, pos : 1 .. MaxProofs, slot : Slots, exp : Nat]
Records == [req : Requests, slot : Slots, expires : Nat]
Entries == [slot : Slots, expires : Nat, id : Nat]

Busy == {"take", "allocated", "mint", "record", "stored"}
Ended == {"answered", "failed", "lost"}
States == {"idle"} \union Busy \union Ended

\* A slot belongs to the request between the take and the mint.
Holding(r) == pc[r] \in {"allocated", "mint"}

Init ==
  /\ now = 0
  /\ taken = {}
  /\ minted = {}
  /\ db = << >>
  /\ pc = [r \in Requests |-> "idle"]
  /\ kind = [r \in Requests |-> "pid"]
  /\ want = [r \in Requests |-> 0]
  /\ expiry = [r \in Requests |-> 0]
  /\ slot = [r \in Requests |-> NoSlot]
  /\ entries = [r \in Requests |-> << >>]

-----------------------------------------------------------------------------

\* The expiry announced for the whole batch is fixed before the first take.
Begin(r) ==
  /\ pc[r] = "idle"
  /\ \E k \in Kinds, n \in 1 .. MaxProofs :
       /\ kind' = [kind EXCEPT ![r] = k]
       /\ want' = [want EXCEPT ![r] = n]
  /\ expiry' = [expiry EXCEPT ![r] = now + PIDExpiry]
  /\ pc' = [pc EXCEPT ![r] = "take"]
  /\ UNCHANGED <<now, taken, minted, db, slot, entries>>

CertificateUnavailable(r) ==
  /\ pc[r] = "idle"
  /\ pc' = [pc EXCEPT ![r] = "failed"]
  /\ UNCHANGED <<now, serviceVars, requestVars, slot, entries>>

\* Mutant of Allocate: one take for the whole batch.
AllocateOncePerRequest(r) ==
  /\ pc[r] = "take"
  /\ \E s \in Slots \ taken :
       LET mine == IF entries[r] = << >> THEN s ELSE slot[r]
       IN  /\ taken' = taken \union {mine}
           /\ slot' = [slot EXCEPT ![r] = mine]
  /\ pc' = [pc EXCEPT ![r] = "allocated"]
  /\ UNCHANGED <<now, minted, db, requestVars, entries>>

\* The status list service answers POST /take with a slot it never gave out.
Allocate(r) ==
  /\ pc[r] = "take"
  /\ \E s \in Slots \ taken :
       /\ taken' = taken \union {s}
       /\ slot' = [slot EXCEPT ![r] = s]
  /\ pc' = [pc EXCEPT ![r] = "allocated"]
  /\ UNCHANGED <<now, minted, db, requestVars, entries>>

TakeReplied(r) ==
  /\ pc[r] = "allocated"
  /\ pc' = [pc EXCEPT ![r] = "mint"]
  /\ UNCHANGED <<now, serviceVars, requestVars, slot, entries>>

\* Mutant of TakeFailed: the take is retried until it succeeds.
TakeRetried(r) ==
  /\ pc[r] \in {"take", "allocated"}
  /\ pc' = [pc EXCEPT ![r] = "take"]
  /\ UNCHANGED <<now, serviceVars, requestVars, slot, entries>>

\* The call failed, before or after the service allocated a slot: the request
\* ends, and the credentials it already minted are not returned.
TakeFailed(r) ==
  /\ pc[r] \in {"take", "allocated"}
  /\ pc' = [pc EXCEPT ![r] = "failed"]
  /\ UNCHANGED <<now, serviceVars, requestVars, slot, entries>>

Mint(r) ==
  /\ pc[r] = "mint"
  /\ minted' = minted \union
       {[req |-> r, pos |-> Len(entries[r]) + 1, slot |-> slot[r],
         exp |-> now + Lifetime(kind[r])]}
  /\ pc' = [pc EXCEPT ![r] = "record"]
  /\ UNCHANGED <<now, taken, db, requestVars, slot, entries>>

\* Mutant of MintFailed: the error is logged and the loop goes on.
MintErrorIgnored(r) ==
  /\ pc[r] = "mint"
  /\ pc' = [pc EXCEPT ![r] = "record"]
  /\ UNCHANGED <<now, serviceVars, requestVars, slot, entries>>

MintFailed(r) ==
  /\ pc[r] = "mint"
  /\ pc' = [pc EXCEPT ![r] = "failed"]
  /\ UNCHANGED <<now, serviceVars, requestVars, slot, entries>>

\* The database function record_credential_issuance runs.
StoreRecord(r) ==
  /\ pc[r] = "record"
  /\ db' = Append(db, [req |-> r, slot |-> slot[r], expires |-> expiry[r]])
  /\ pc' = [pc EXCEPT ![r] = "stored"]
  /\ UNCHANGED <<now, taken, minted, requestVars, slot, entries>>

\* Mutant of RecordID: the last id inserted by anyone.
LastInsertedID(r) == Len(db)

\* The id the database returned for r's record.
RecordID(r) == CHOOSE i \in DOMAIN db : db[i].slot = slot[r]

\* Mutant of AppendEntry: the loop runs once past the last proof.
AppendEntryPastEnd(r, id) ==
  /\ entries' = [entries EXCEPT ![r] =
       Append(@, [slot |-> slot[r], expires |-> expiry[r], id |-> id])]
  /\ pc' = [pc EXCEPT ![r] = IF Len(entries[r]) = want[r] THEN "answered" ELSE "take"]
  /\ UNCHANGED <<now, serviceVars, requestVars, slot>>

\* The end of the loop body: the entry is appended and the next proof's turn
\* comes, or the response is sent.
AppendEntry(r, id) ==
  /\ entries' = [entries EXCEPT ![r] =
       Append(@, [slot |-> slot[r], expires |-> expiry[r], id |-> id])]
  /\ pc' = [pc EXCEPT ![r] = IF Len(entries[r]) + 1 = want[r] THEN "answered" ELSE "take"]
  /\ UNCHANGED <<now, serviceVars, requestVars, slot>>

RecordReplied(r) ==
  /\ pc[r] = "stored"
  /\ AppendEntry(r, RecordID(r))

\* Tracking is best effort: the entry is returned with no id, whether or not
\* the record was stored.
RecordFailed(r) ==
  /\ pc[r] \in {"record", "stored"}
  /\ AppendEntry(r, NoID)

\* The process dies; calls it has in flight took effect or did not.
Crash ==
  /\ \E r \in Requests : pc[r] \in Busy
  /\ pc' = [r \in Requests |-> IF pc[r] \in Busy THEN "lost" ELSE pc[r]]
  /\ UNCHANGED <<now, serviceVars, requestVars, slot, entries>>

Tick ==
  /\ now < MaxTime
  /\ now' = now + 1
  /\ UNCHANGED <<serviceVars, pc, requestVars, slot, entries>>

\* Every request of the run has ended.
Finished ==
  /\ \A r \in Requests : pc[r] \in Ended
  /\ UNCHANGED vars

\* What the handler of r and the services it calls do once it has begun.
Handle(r) ==
  \/ Allocate(r) \/ TakeReplied(r) \/ TakeFailed(r)
  \/ Mint(r) \/ MintFailed(r)
  \/ StoreRecord(r) \/ RecordReplied(r) \/ RecordFailed(r)

Next ==
  \/ \E r \in Requests : Begin(r) \/ CertificateUnavailable(r) \/ Handle(r)
  \/ Crash
  \/ Tick
  \/ Finished

Spec == Init /\ [][Next]_vars

\* A handler's goroutine is scheduled and every outgoing call returns, with a
\* reply or with an error.
FairSpec == Spec /\ \A r \in Requests : WF_vars(Handle(r))

-----------------------------------------------------------------------------

\* Every variable has its type: credentials, records and entries name real
\* requests and slots, and no request collects more entries than MaxProofs.
TypeOK ==
  /\ now \in 0 .. MaxTime
  /\ taken \subseteq Slots
  /\ minted \subseteq Credentials
  /\ db \in Seq(Records)
  /\ pc \in [Requests -> States]
  /\ kind \in [Requests -> Kinds]
  /\ want \in [Requests -> 0 .. MaxProofs]
  /\ expiry \in [Requests -> Nat]
  /\ slot \in [Requests -> Slots \union {NoSlot}]
  /\ entries \in [Requests -> Seq(Entries)]

\* No two credentials ever signed share a revocation slot: revoking one (the
\* slot Take returned, embedded by the minter) never revokes another, across
\* the proofs of a batch, concurrent requests, failed calls and crashes.
SlotsNeverShared ==
  \A c, d \in minted : c.slot = d.slot => c = d

\* An issuance record describes a credential that was really signed for that
\* request, and no credential is recorded twice, even when the handler saw
\* the record call fail (RecordCredentialIssuance after Issue).
RecordsMatchCredentials ==
  /\ \A i \in DOMAIN db : \E c \in minted : c.req = db[i].req /\ c.slot = db[i].slot
  /\ \A i, j \in DOMAIN db : db[i].slot = db[j].slot => i = j

\* An answered request got every credential signed for it, one per proof and
\* in proof order; an entry that carries an id names the record of that very
\* credential, with the expiry the entry announces.
AnswerMatchesLedger ==
  \A r \in Requests : pc[r] = "answered" =>
    /\ Len(entries[r]) = want[r]
    /\ \A i \in 1 .. want[r] : \E c \in minted :
         c.req = r /\ c.pos = i /\ c.slot = entries[r][i].slot
    /\ \A c \in minted : c.req = r => c.pos \in 1 .. want[r]
    /\ \A i \in 1 .. want[r] : entries[r][i].id # NoID =>
         db[entries[r][i].id] =
           [req |-> r, slot |-> entries[r][i].slot, expires |-> entries[r][i].expires]

\* A slot is wasted only by a request that failed or was lost, one slot at
\* most each: everything else taken is embedded in a credential or about to be.
OneWastedSlotPerFailure ==
  Cardinality(taken) <= Cardinality(minted) +
    Cardinality({r \in Requests : Holding(r) \/ pc[r] \in {"failed", "lost"}})

\* The expiry recorded and announced for a PID is never later than the exp
\* embedded in it: the batch's expiry is read before any of its PIDs is minted.
PIDExpiryNeverOverstated ==
  \A c \in minted : kind[c.req] = "pid" => expiry[c.req] <= c.exp

\* openid4vci/issuance.go:35 and routes/response/response.go:10 say the
\* recorded and announced expiry is the credential's actual expiry.
RecordedExpiryIsActual ==
  \A i \in DOMAIN db : \A c \in minted :
    c.slot = db[i].slot => c.exp = db[i].expires

\* Every request that began is answered, fails, or is lost with the process.
EveryRequestEnds ==
  \A r \in Requests : (pc[r] \in Busy) ~> (pc[r] \in Ended)

-----------------------------------------------------------------------------
(***************************************************************************)
(* The strengthening that makes the invariants above inductive             *)
(* (CredentialIssuanceProofs): where the handlers are in their loop, who   *)
(* may be about to mint against a slot, and what is recorded of it.        *)
(***************************************************************************)

\* A handler in its loop has a proof left; past the take it has a slot.
LoopDiscipline ==
  \A r \in Requests :
    /\ pc[r] = "idle" => entries[r] = << >>
    /\ pc[r] \in Busy => Len(entries[r]) < want[r]
    /\ pc[r] \in Busy \ {"take"} => slot[r] \in Slots

\* The slot a handler holds is its own and in no credential yet.
SlotDiscipline ==
  /\ \A c \in minted : c.slot \in taken
  /\ \A r \in Requests : Holding(r) =>
       slot[r] \in taken /\ \A c \in minted : c.slot # slot[r]
  /\ \A r, q \in Requests : Holding(r) /\ Holding(q) /\ slot[r] = slot[q] => r = q

\* Between the mint and the entry, the credential exists; it is in the
\* database exactly when the database function has run.
RecordDiscipline ==
  \A r \in Requests :
    /\ pc[r] \in {"record", "stored"} =>
         \E c \in minted : c.req = r /\ c.slot = slot[r]
    /\ pc[r] = "record" => \A i \in DOMAIN db : db[i].slot # slot[r]
    /\ pc[r] = "stored" => \E i \in DOMAIN db : db[i].slot = slot[r]

IInv ==
  /\ TypeOK /\ LoopDiscipline
  /\ SlotDiscipline /\ SlotsNeverShared
  /\ RecordDiscipline /\ RecordsMatchCredentials

\* The credentials signed so far for a request that has not failed: one for
\* each entry, and the one being recorded.
Progress(r) == Len(entries[r]) + IF pc[r] \in {"record", "stored"} THEN 1 ELSE 0

\* They have the positions 1 .. Progress, each once, and the slots of the entries.
PositionDiscipline ==
  \A r \in Requests : pc[r] \notin {"failed", "lost"} =>
    /\ \A c \in minted : c.req = r => c.pos \in 1 .. Progress(r)
    /\ \A c, d \in minted : c.req = r /\ d.req = r /\ c.pos = d.pos => c = d
    /\ \A i \in DOMAIN entries[r] : \E c \in minted :
         c.req = r /\ c.pos = i /\ c.slot = entries[r][i].slot
    /\ pc[r] \in {"record", "stored"} => \E c \in minted :
         c.req = r /\ c.pos = Progress(r) /\ c.slot = slot[r]
    /\ pc[r] = "answered" => Len(entries[r]) = want[r]

\* The record an entry's id names, with the expiry of the batch.
RecordOf(r, e) == [req |-> r, slot |-> e.slot, expires |-> e.expires]

EntryDiscipline ==
  /\ \A i \in DOMAIN db : db[i].expires = expiry[db[i].req]
  /\ \A r \in Requests : \A i \in DOMAIN entries[r] :
       entries[r][i].id # NoID => /\ entries[r][i].id \in DOMAIN db
                                  /\ db[entries[r][i].id] = RecordOf(r, entries[r][i])

ExpiryDiscipline ==
  /\ \A r \in Requests : pc[r] \in Busy => expiry[r] <= now + PIDExpiry
  /\ PIDExpiryNeverOverstated

\* The stronger invariant the answers and the ledger rest on.
LedgerInv == IInv /\ PositionDiscipline /\ EntryDiscipline /\ ExpiryDiscipline

\* The requests that may be to blame for a slot in no credential.
Wasting == {r \in Requests : Holding(r) \/ pc[r] \in {"failed", "lost"}}

\* Every slot taken is in a credential, or is the last one taken for a request
\* that may still use it or has failed; finitely many requests have begun.
WasteDiscipline ==
  /\ \A s \in taken : (\E c \in minted : c.slot = s) \/ (\E r \in Wasting : slot[r] = s)
  /\ IsFiniteSet(minted) /\ IsFiniteSet({r \in Requests : pc[r] # "idle"})

-----------------------------------------------------------------------------

LedgerStatus ==
  [r \in Requests |-> IF pc[r] = "answered" THEN "answered"
                      ELSE IF pc[r] \in {"failed", "lost"} THEN "aborted" ELSE "open"]

LedgerIssued == {[req |-> c.req, pos |-> c.pos, slot |-> c.slot] : c \in minted}

LedgerAnswer ==
  [r \in Requests |-> IF pc[r] # "answered" THEN << >>
                      ELSE [i \in 1 .. Len(entries[r]) |-> entries[r][i].slot]]

Ledger == INSTANCE IssuanceLedger WITH
  status <- LedgerStatus, issued <- LedgerIssued, answer <- LedgerAnswer

\* The handler implements the abstract ledger: fresh slots, and an answer that
\* is all or nothing.
ImplementsLedger == Ledger!Spec
=============================================================================
