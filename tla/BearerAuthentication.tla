------------------------ MODULE BearerAuthentication ------------------------
(***************************************************************************)
(* The BearerAuthenticate middleware in front of POST /credential          *)
(* (middleware.go), the DPoP validator it calls (dpop/dpop.go) and the     *)
(* replay check over the jti cache (routes/router.go), run by concurrent   *)
(* requests.                                                               *)
(*                                                                         *)
(* A request carries a token, a scheme and a DPoP proof.  The proof's      *)
(* signature, typ, htm, htu, jti presence and ath are checks on its text   *)
(* alone and are summed up in the field "sound".  The iat check reads the  *)
(* clock, the replay check is a cache Get followed by a cache Set: other   *)
(* requests run in between, and the clock may move.  The WUA session store *)
(* the middleware looks in first is empty: nothing in src/ registers a     *)
(* session.                                                                *)
(***************************************************************************)
EXTENDS Integers

CONSTANTS
  Requests,   \* the requests of a run
  Keys,       \* thumbprints of proof keys
  Jtis,       \* jti values
  Proofs,     \* the DPoP proofs in circulation
  IATWindow,  \* accepted distance of iat from the clock
  JtiTTL,     \* how long the cache remembers a jti
  Latency,    \* longest time between the iat check and the cache lookup
  MaxTime     \* bound on the clock

ASSUME ProofAssumption ==
  /\ Keys # {} /\ Proofs # {}
  /\ Proofs \subseteq [jti : Jtis, iat : Nat, key : Keys, sound : BOOLEAN]

ASSUME WindowAssumption ==
  /\ IATWindow \in Nat /\ JtiTTL \in Nat /\ Latency \in Nat /\ MaxTime \in Nat
  /\ JtiTTL > 2 * IATWindow + Latency

VARIABLES
  now,       \* the issuer's clock
  cache,     \* for each jti, the time its cache entry expires; 0 if never set
  pc,        \* where each request is
  scheme,    \* the Authorization scheme of each request
  proof,     \* the DPoP header of each request
  jkt,       \* the key the token of each request is bound to
  checked,   \* when the iat of each request's proof was checked
  recorded,  \* history: requests whose jti went into the cache that is alive
  before,    \* history: the requests recorded when each request looked
  failedOpen \* history: requests whose lookup failed and was let through

requestVars == <<scheme, proof, jkt, checked>>
historyVars == <<recorded, before, failedOpen>>
vars == <<now, cache, pc, scheme, proof, jkt, checked, recorded, before, failedOpen>>

Schemes == {"DPoP", "Bearer", "other"}
Busy == {"introspect", "validate", "lookup", "record"}
Ended == {"unbound", "bound", "rejected", "lost"}

\* What the variables hold before a request arrives or its token is known.
AnyProof == CHOOSE p \in Proofs : TRUE
AnyKey == CHOOSE k \in Keys : TRUE

Init ==
  /\ now = 0
  /\ cache = [j \in Jtis |-> 0]
  /\ pc = [r \in Requests |-> "idle"]
  /\ scheme = [r \in Requests |-> "other"]
  /\ proof = [r \in Requests |-> AnyProof]
  /\ jkt = [r \in Requests |-> AnyKey]
  /\ checked = [r \in Requests |-> 0]
  /\ recorded = {}
  /\ before = [r \in Requests |-> {}]
  /\ failedOpen = {}

-----------------------------------------------------------------------------

Goto(r, place) == pc' = [pc EXCEPT ![r] = place]

\* The Authorization header is taken apart; a scheme the middleware does not
\* know is refused.
Arrive(r) ==
  /\ pc[r] = "idle"
  /\ \E s \in Schemes, p \in Proofs :
       /\ scheme' = [scheme EXCEPT ![r] = s]
       /\ proof' = [proof EXCEPT ![r] = p]
       /\ Goto(r, IF s = "other" THEN "rejected" ELSE "introspect")
  /\ UNCHANGED <<now, cache, jkt, checked, historyVars>>

\* Introspection failed, or the token is inactive.
TokenRefused(r) ==
  /\ pc[r] = "introspect"
  /\ Goto(r, "rejected")
  /\ UNCHANGED <<now, cache, requestVars, historyVars>>

\* The token is bound to no key: either scheme will do, no proof is read.
TokenUnbound(r) ==
  /\ pc[r] = "introspect"
  /\ Goto(r, "unbound")
  /\ UNCHANGED <<now, cache, requestVars, historyVars>>

TokenBound(r) ==
  /\ pc[r] = "introspect"
  /\ \E k \in Keys : jkt' = [jkt EXCEPT ![r] = k]
  /\ Goto(r, "validate")
  /\ UNCHANGED <<now, cache, scheme, proof, checked, historyVars>>

\* Mutant of IATAccepted: a proof is never too old.
IATNotInFuture(p) == p.iat - now <= IATWindow

\* The distance test of Validate, in both directions.
IATAccepted(p) == now - p.iat <= IATWindow /\ p.iat - now <= IATWindow

Validate(r) ==
  /\ pc[r] = "validate"
  /\ checked' = [checked EXCEPT ![r] = now]
  /\ Goto(r, IF proof[r].sound /\ IATAccepted(proof[r]) THEN "lookup" ELSE "rejected")
  /\ UNCHANGED <<now, cache, scheme, proof, jkt, historyVars>>

\* Mutant of Verdict: a Bearer request with a proof by the right key passes.
VerdictAnyScheme(r) == IF proof[r].key = jkt[r] THEN "bound" ELSE "rejected"

\* The middleware's verdict, read after Validate returned the proof's key.
Verdict(r) ==
  IF scheme[r] = "DPoP" /\ proof[r].key = jkt[r] THEN "bound" ELSE "rejected"

Seen(j) == cache[j] > now

LookupHit(r) ==
  /\ pc[r] = "lookup"
  /\ Seen(proof[r].jti)
  /\ Goto(r, "rejected")
  /\ before' = [before EXCEPT ![r] = recorded]
  /\ UNCHANGED <<now, cache, requestVars, recorded, failedOpen>>

LookupMiss(r) ==
  /\ pc[r] = "lookup"
  /\ ~Seen(proof[r].jti)
  /\ Goto(r, "record")
  /\ before' = [before EXCEPT ![r] = recorded]
  /\ UNCHANGED <<now, cache, requestVars, recorded, failedOpen>>

\* Mutant of LookupFailed: the whole validation is tried again.
LookupRetried(r) ==
  /\ pc[r] = "lookup"
  /\ Goto(r, "validate")
  /\ UNCHANGED <<now, cache, requestVars, historyVars>>

\* The cache does not answer: the check fails open and records nothing.
LookupFailed(r) ==
  /\ pc[r] = "lookup"
  /\ Goto(r, Verdict(r))
  /\ before' = [before EXCEPT ![r] = recorded]
  /\ failedOpen' = failedOpen \union {r}
  /\ UNCHANGED <<now, cache, requestVars, recorded>>

\* Mutant of JtiExpiry: the jti is kept as long as one iat window.
JtiExpiryOneWindow == now + IATWindow

\* Mutant of JtiExpiry: an expiry in the past.
JtiExpiryPast == now - JtiTTL

\* When a jti recorded now is forgotten.
JtiExpiry == now + JtiTTL

\* The jti is recorded before scheme and key are compared.
Record(r) ==
  /\ pc[r] = "record"
  /\ cache' = [cache EXCEPT ![proof[r].jti] = JtiExpiry]
  /\ recorded' = recorded \union {r}
  /\ Goto(r, Verdict(r))
  /\ UNCHANGED <<now, requestVars, before, failedOpen>>

\* Set returned an error, the entry stored or not: the proof is refused.
RecordFailed(r) ==
  /\ pc[r] = "record"
  /\ \/ /\ cache' = [cache EXCEPT ![proof[r].jti] = JtiExpiry]
        /\ recorded' = recorded \union {r}
     \/ UNCHANGED <<cache, recorded>>
  /\ Goto(r, "rejected")
  /\ UNCHANGED <<now, requestVars, before, failedOpen>>

\* The process restarts and its requests are lost; a cache inside it is lost
\* with it, one outside is not.
Restart ==
  /\ \E r \in Requests : pc[r] # "idle"
  /\ pc' = [r \in Requests |-> IF pc[r] \in Busy THEN "lost" ELSE pc[r]]
  /\ \/ cache' = [j \in Jtis |-> 0] /\ recorded' = {}
     \/ UNCHANGED <<cache, recorded>>
  /\ UNCHANGED <<now, requestVars, before, failedOpen>>

\* Time passes, but not more than Latency between an iat check and the lookup
\* that follows it in the same function.
Tick ==
  /\ now < MaxTime
  /\ \A r \in Requests : pc[r] = "lookup" => now < checked[r] + Latency
  /\ now' = now + 1
  /\ UNCHANGED <<cache, pc, requestVars, historyVars>>

Finished ==
  /\ \A r \in Requests : pc[r] \in Ended
  /\ UNCHANGED vars

\* One step of the middleware for r.
Authenticate(r) ==
  \/ TokenRefused(r) \/ TokenUnbound(r) \/ TokenBound(r)
  \/ Validate(r)
  \/ LookupHit(r) \/ LookupMiss(r) \/ LookupFailed(r)
  \/ Record(r) \/ RecordFailed(r)

Next ==
  \/ \E r \in Requests : Arrive(r) \/ Authenticate(r)
  \/ Restart
  \/ Tick
  \/ Finished

Spec == Init /\ [][Next]_vars

\* Handlers are scheduled; introspection and the cache answer or fail.
FairSpec == Spec /\ \A r \in Requests : WF_vars(Authenticate(r))

-----------------------------------------------------------------------------

\* Every variable has its type; a cached expiry is a time, not in the past of 0.
TypeOK ==
  /\ now \in 0 .. MaxTime
  /\ cache \in [Jtis -> Nat]
  /\ pc \in [Requests -> {"idle"} \union Busy \union Ended]
  /\ scheme \in [Requests -> Schemes]
  /\ proof \in [Requests -> Proofs]
  /\ jkt \in [Requests -> Keys]
  /\ checked \in [Requests -> 0 .. MaxTime]
  /\ recorded \subseteq Requests
  /\ before \in [Requests -> SUBSET Requests]
  /\ failedOpen \subseteq Requests

\* Once a request has recorded the jti of a proof, no later lookup lets the
\* same proof through again while the process and its cache live, however the
\* clock moves: the jti is kept longer than the proof stays acceptable
\* (ReplayCheck and the iat window of Validate).
SequentialReplayRejected ==
  \A q \in Requests : pc[q] \in {"record", "bound"} /\ q \notin failedOpen =>
    \A r \in before[q] : r # q => proof[r] # proof[q]

\* A recorded proof that could still pass the iat check is still in the cache.
JtiOutlivesWindow ==
  \A r \in recorded : now - proof[r].iat <= IATWindow => Seen(proof[r].jti)

\* A request of a bound token goes on to the handler only with the DPoP scheme
\* and a sound proof by the token's key, looked at within the iat window: the
\* checks made before, between and after the cache calls all hold at the end.
BoundRequestProved ==
  \A r \in Requests : pc[r] = "bound" =>
    /\ scheme[r] = "DPoP"
    /\ proof[r].sound /\ proof[r].key = jkt[r]
    /\ checked[r] - proof[r].iat <= IATWindow
    /\ proof[r].iat - checked[r] <= IATWindow

\* What no cache can prevent stays bounded: however often a proof is let
\* through, by a race, a failed lookup or a restart that lost the cache, all
\* its uses were checked within twice the window of one another.
ReplayEndsWithWindow ==
  \A r, q \in Requests :
    pc[r] = "bound" /\ pc[q] = "bound" /\ proof[r] = proof[q]
      => checked[r] - checked[q] <= 2 * IATWindow

\* dpop/dpop.go:26: a ReplayChecker reports whether a jti was already seen and
\* records it as seen, so that of the requests with one jti at most one passes.
JtiAcceptedOnce ==
  \A r, q \in Requests :
    pc[r] = "bound" /\ pc[q] = "bound" /\ r # q /\ proof[r] = proof[q]
      => {r, q} \intersect failedOpen # {}

\* Every request is let through, rejected, or lost with the process.
EveryRequestDecided ==
  \A r \in Requests : (pc[r] \in Busy) ~> (pc[r] \in Ended)

-----------------------------------------------------------------------------
(***************************************************************************)
(* The strengthening that makes SequentialReplayRejected and               *)
(* JtiOutlivesWindow inductive (BearerAuthenticationProofs).               *)
(***************************************************************************)

\* From the iat check to the cache calls, the clock is where the check and the
\* latency bound left it.
ClockDiscipline ==
  \A r \in Requests :
    /\ pc[r] \in {"lookup", "record"} => proof[r].iat - now <= IATWindow
    /\ pc[r] = "lookup" =>
         /\ checked[r] - proof[r].iat <= IATWindow
         /\ now <= checked[r] + Latency

\* A recorded jti stays in the cache for JtiTTL from a time within the window
\* of its proof, and nothing is cached for longer than that.
CacheDiscipline ==
  /\ \A r \in recorded : cache[proof[r].jti] >= proof[r].iat - IATWindow + JtiTTL
  /\ \A j \in Jtis : cache[j] <= now + JtiTTL

\* Requests that recorded their jti have ended, so their proofs are settled.
HistoryDiscipline ==
  /\ \A r \in recorded : pc[r] \in Ended
  /\ \A q \in Requests : \A r \in before[q] : pc[r] \in Ended

\* A proof past the iat check passed it, and nobody gets through without that.
ProofDiscipline ==
  /\ \A r \in Requests : pc[r] \in {"lookup", "record"} =>
       /\ proof[r].sound
       /\ checked[r] - proof[r].iat <= IATWindow
       /\ proof[r].iat - checked[r] <= IATWindow
  /\ BoundRequestProved

IInv ==
  /\ TypeOK /\ ClockDiscipline /\ CacheDiscipline
  /\ HistoryDiscipline /\ SequentialReplayRejected
=============================================================================
