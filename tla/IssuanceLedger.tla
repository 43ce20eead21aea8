--------------------------- MODULE IssuanceLedger ---------------------------
(***************************************************************************)
(* What POST /credential promises, whatever happens on the way: every      *)
(* credential is issued against a revocation slot of its own, and a        *)
(* request is either answered once with exactly the credentials issued for *)
(* it, in the order of its proofs, or it is aborted and answers nothing.   *)
(* CredentialIssuance is shown to implement this specification.            *)
(***************************************************************************)
EXTENDS Integers, Sequences, FiniteSets

CONSTANTS Requests, Slots

VARIABLES
  status,  \* of each request: "open", "answered" or "aborted"
  issued,  \* the credentials issued so far: the request, the proof, the slot
  answer   \* the slots of the credentials each request was answered with

ledgerVars == <<status, issued, answer>>

Credentials == [req : Requests, pos : Nat \ {0}, slot : Slots]

IssuedFor(r) == {c \in issued : c.req = r}

Init ==
  /\ status = [r \in Requests |-> "open"]
  /\ issued = {}
  /\ answer = [r \in Requests |-> << >>]

\* One more credential for r, against a slot no credential has.
Issue(r) ==
  /\ status[r] = "open"
  /\ \E s \in Slots :
       /\ \A c \in issued : c.slot # s
       /\ issued' = issued \union
            {[req |-> r, pos |-> Cardinality(IssuedFor(r)) + 1, slot |-> s]}
  /\ UNCHANGED <<status, answer>>

\* r is answered with everything issued for it, in proof order.
Answer(r) ==
  /\ status[r] = "open"
  /\ IssuedFor(r) # {}
  /\ status' = [status EXCEPT ![r] = "answered"]
  /\ \E slots \in [1 .. Cardinality(IssuedFor(r)) -> Slots] :
       /\ \A c \in IssuedFor(r) : slots[c.pos] = c.slot
       /\ answer' = [answer EXCEPT ![r] = slots]
  /\ UNCHANGED issued

\* An error response, or a crash that takes several requests at once.
Abort ==
  /\ \E R \in SUBSET Requests :
       /\ R # {}
       /\ \A r \in R : status[r] = "open"
       /\ status' = [r \in Requests |-> IF r \in R THEN "aborted" ELSE status[r]]
  /\ UNCHANGED <<issued, answer>>

Next == Abort \/ \E r \in Requests : Issue(r) \/ Answer(r)

Spec == Init /\ [][Next]_ledgerVars
=============================================================================
