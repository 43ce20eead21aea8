--------------------------- MODULE OneTimeTokens ----------------------------
(***************************************************************************)
(* What the nonce service promises, without clock, cache or failures: a    *)
(* token is issued once, and from then on it is either redeemed by one     *)
(* redeemer or withdrawn, never both and never twice.                      *)
(***************************************************************************)
CONSTANTS Tokens, Redeemers

VARIABLES
  status,   \* of each token: "unissued", "live" or "gone"
  redeemed  \* who redeemed each token

vars == <<status, redeemed>>

Init ==
  /\ status = [t \in Tokens |-> "unissued"]
  /\ redeemed = [t \in Tokens |-> {}]

Issue(t) ==
  /\ status[t] = "unissued"
  /\ status' = [status EXCEPT ![t] = "live"]
  /\ UNCHANGED redeemed

Redeem(t, v) ==
  /\ status[t] = "live"
  /\ status' = [status EXCEPT ![t] = "gone"]
  /\ redeemed' = [redeemed EXCEPT ![t] = @ \union {v}]

\* Some live tokens expire, or are lost, together.
Withdraw ==
  /\ \A t \in Tokens : status'[t] = status[t] \/ (status[t] = "live" /\ status'[t] = "gone")
  /\ status' \in [Tokens -> {"unissued", "live", "gone"}]
  /\ UNCHANGED redeemed

Next ==
  \/ Withdraw
  \/ \E t \in Tokens : Issue(t) \/ \E v \in Redeemers : Redeem(t, v)

Spec == Init /\ [][Next]_vars
=============================================================================
