---------------------------- MODULE NonceService ----------------------------
(***************************************************************************)
(* The c_nonce of the issuer (openid4vci/nonce.go, routes/nonce.go): a     *)
(* PASETO token carries the time it was minted and expires, and a cache    *)
(* entry named by its subject makes it usable once.                        *)
(*                                                                         *)
(* A nonce is named by the call of Nonce that mints it: its subject is a   *)
(* fresh ULID.  POST /nonce mints the Public ones and discloses them; the  *)
(* others are minted by handlers that keep them.  ValidateNonce has no     *)
(* caller in src/, so Validations stands for the callers it was written    *)
(* for: they present nonces they were given, or texts nobody minted.       *)
(***************************************************************************)
EXTENDS Integers

CONSTANTS
  Nonces,       \* calls of Nonce
  Public,       \* those made by POST /nonce
  NoNonce,      \* a text that no call minted
  Validations,  \* calls of ValidateNonce
  NonceTTL,     \* NonceTTL of the configuration
  MaxTime       \* bound on the clock

ASSUME NonceAssumption ==
  /\ Public \subseteq Nonces /\ NoNonce \notin Nonces
  /\ NonceTTL \in Nat \ {0} /\ MaxTime \in Nat

VARIABLES
  now,         \* the clock of issuer and cache
  nonceCache,  \* when the entry of each nonce expires; 0 without an entry
  npc,         \* where each call of Nonce is
  mintedAt,    \* the iat of each nonce
  vpc,         \* where each call of ValidateNonce is
  presented,   \* the nonce each of them was given
  removed      \* history: nonces whose entry was popped or lost

nonceVars == <<now, nonceCache, npc, mintedAt, vpc, presented, removed>>

NonceInit ==
  /\ now = 0
  /\ nonceCache = [n \in Nonces |-> 0]
  /\ npc = [n \in Nonces |-> "idle"]
  /\ mintedAt = [n \in Nonces |-> 0]
  /\ vpc = [v \in Validations |-> "idle"]
  /\ presented = [v \in Validations |-> NoNonce]
  /\ removed = {}

-----------------------------------------------------------------------------

Live(n) == nonceCache[n] > now

\* What a wallet can know: a public nonce whose call answered.
Disclosed == {n \in Public : npc[n] = "minted"}

\* The token is made out to the reading of the clock at the start of the call.
MintNonce(n) ==
  /\ npc[n] = "idle"
  /\ npc' = [npc EXCEPT ![n] = "set"]
  /\ mintedAt' = [mintedAt EXCEPT ![n] = now]
  /\ UNCHANGED <<now, nonceCache, vpc, presented, removed>>

\* Mutant of NonceExpiry: the entry expires when it is made.
NonceExpiryPast == now - NonceTTL

NonceExpiry == now + NonceTTL

StoreNonce(n) ==
  /\ npc[n] = "set"
  /\ nonceCache' = [nonceCache EXCEPT ![n] = NonceExpiry]
  /\ npc' = [npc EXCEPT ![n] = "minted"]
  /\ UNCHANGED <<now, mintedAt, vpc, presented, removed>>

\* Mutant of StoreNonceFailed: the error of Set is dropped.
StoreNonceErrorIgnored(n) ==
  /\ npc[n] = "set"
  /\ npc' = [npc EXCEPT ![n] = "minted"]
  /\ UNCHANGED <<now, nonceCache, mintedAt, vpc, presented, removed>>

\* Set returned an error, the entry stored or not: no nonce is returned.
StoreNonceFailed(n) ==
  /\ npc[n] = "set"
  /\ \/ nonceCache' = [nonceCache EXCEPT ![n] = NonceExpiry]
     \/ UNCHANGED nonceCache
  /\ npc' = [npc EXCEPT ![n] = "failed"]
  /\ UNCHANGED <<now, mintedAt, vpc, presented, removed>>

-----------------------------------------------------------------------------

\* The ValidAt rule of the parser; issuer and key are those of Nonce.
ValidAt(n) == mintedAt[n] <= now /\ now <= mintedAt[n] + NonceTTL

Present(v) ==
  /\ vpc[v] = "idle"
  /\ \E n \in Disclosed :
       /\ presented' = [presented EXCEPT ![v] = n]
       /\ vpc' = [vpc EXCEPT ![v] = IF ValidAt(n) THEN "pop" ELSE "rejected"]
  /\ UNCHANGED <<now, nonceCache, npc, mintedAt, removed>>

\* A text that does not decrypt is refused.
PresentForged(v) ==
  /\ vpc[v] = "idle"
  /\ vpc' = [vpc EXCEPT ![v] = "rejected"]
  /\ UNCHANGED <<now, nonceCache, npc, mintedAt, presented, removed>>

\* Mutant of PopHit: the entry is read and stays.
PopHitKept(v) ==
  /\ vpc[v] = "pop" /\ Live(presented[v])
  /\ vpc' = [vpc EXCEPT ![v] = "accepted"]
  /\ UNCHANGED <<now, nonceCache, npc, mintedAt, presented, removed>>

\* Pop returns the entry and removes it in one step of the cache.
PopHit(v) ==
  /\ vpc[v] = "pop" /\ Live(presented[v])
  /\ nonceCache' = [nonceCache EXCEPT ![presented[v]] = 0]
  /\ removed' = removed \union {presented[v]}
  /\ vpc' = [vpc EXCEPT ![v] = "accepted"]
  /\ UNCHANGED <<now, npc, mintedAt, presented>>

PopMiss(v) ==
  /\ vpc[v] = "pop" /\ ~Live(presented[v])
  /\ vpc' = [vpc EXCEPT ![v] = "rejected"]
  /\ UNCHANGED <<now, nonceCache, npc, mintedAt, presented, removed>>

\* Pop returned an error, the entry removed or not: the nonce is refused.
PopFailed(v) ==
  /\ vpc[v] = "pop" /\ Live(presented[v])
  /\ \/ /\ nonceCache' = [nonceCache EXCEPT ![presented[v]] = 0]
        /\ removed' = removed \union {presented[v]}
     \/ UNCHANGED <<nonceCache, removed>>
  /\ vpc' = [vpc EXCEPT ![v] = "rejected"]
  /\ UNCHANGED <<now, npc, mintedAt, presented>>

\* One step of a call of ValidateNonce that has begun.
ValidateNonce(v) == PopHit(v) \/ PopMiss(v) \/ PopFailed(v)

-----------------------------------------------------------------------------

\* The process restarts and its calls are lost; a cache inside it is lost with
\* it, one outside is not.
NonceRestart ==
  /\ npc' = [n \in Nonces |-> IF npc[n] = "set" THEN "lost" ELSE npc[n]]
  /\ vpc' = [v \in Validations |-> IF vpc[v] = "pop" THEN "lost" ELSE vpc[v]]
  /\ \/ /\ nonceCache' = [n \in Nonces |-> 0]
        /\ removed' = removed \union {n \in Nonces : nonceCache[n] # 0}
     \/ UNCHANGED <<nonceCache, removed>>
  /\ UNCHANGED <<now, mintedAt, presented>>

NonceTick ==
  /\ now < MaxTime
  /\ now' = now + 1
  /\ UNCHANGED <<nonceCache, npc, mintedAt, vpc, presented, removed>>

\* One step of the call that mints n, once it has begun.
SetNonce(n) == StoreNonce(n) \/ StoreNonceFailed(n)

NonceNext ==
  \/ \E n \in Nonces : MintNonce(n) \/ SetNonce(n)
  \/ \E v \in Validations : Present(v) \/ PresentForged(v) \/ ValidateNonce(v)
  \/ NonceRestart
  \/ NonceTick

NonceSpec == NonceInit /\ [][NonceNext]_nonceVars

-----------------------------------------------------------------------------

NonceTypeOK ==
  /\ now \in 0 .. MaxTime
  /\ nonceCache \in [Nonces -> Nat]
  /\ npc \in [Nonces -> {"idle", "set", "minted", "failed", "lost"}]
  /\ mintedAt \in [Nonces -> 0 .. MaxTime]
  /\ vpc \in [Validations -> {"idle", "pop", "accepted", "rejected", "lost"}]
  /\ presented \in [Validations -> Public \union {NoNonce}]
  /\ removed \subseteq Nonces

\* A nonce a wallet was given has its cache entry up to the instant its token
\* expires, unless the entry was popped or lost: before that instant no nonce is
\* refused for want of an entry (the entry is made after the token, before the
\* answer).
FreshNonceFindable ==
  \A n \in Disclosed \ removed : now < mintedAt[n] + NonceTTL => Live(n)

-----------------------------------------------------------------------------

\* The tokens of the abstract specification are the nonces with an entry.
Status(n) ==
  IF Live(n) THEN "live"
  ELSE IF nonceCache[n] = 0 /\ n \notin removed THEN "unissued" ELSE "gone"

Redeemed(n) == {v \in Validations : vpc[v] = "accepted" /\ presented[v] = n}

OneTime == INSTANCE OneTimeTokens WITH
  Tokens <- Nonces,
  Redeemers <- Validations,
  status <- [n \in Nonces |-> Status(n)],
  redeemed <- [n \in Nonces |-> Redeemed(n)]

\* ValidateNonce accepts a nonce at most once, whatever callers, clock, cache
\* and restarts do: the service implements OneTimeTokens (Pop is one step).
ImplementsOneTime == OneTime!Spec

-----------------------------------------------------------------------------
(* The strengthening that makes these inductive (NonceServiceProofs).      *)

\* The clock has reached every reading of it; an entry made for a disclosed
\* nonce outlives its token; a nonce has no entry before it is stored.
NonceEntries ==
  \A n \in Nonces :
    /\ mintedAt[n] <= now
    /\ npc[n] \in {"idle", "set"} => nonceCache[n] = 0 /\ n \notin removed
    /\ npc[n] = "minted" /\ n \notin removed => nonceCache[n] >= mintedAt[n] + NonceTTL
    /\ n \in removed => nonceCache[n] = 0

\* Nobody accepts a nonce and leaves its entry; nobody shares one.
NonceRedeemers ==
  /\ \A v \in Validations :
       /\ vpc[v] = "pop" => presented[v] \in Public
       /\ vpc[v] \in {"pop", "accepted"} => presented[v] \in Nonces
       /\ vpc[v] = "accepted" => presented[v] \in removed
  /\ \A v, w \in Validations :
       vpc[v] = "accepted" /\ vpc[w] = "accepted" /\ presented[v] = presented[w] => v = w

NonceInv == NonceTypeOK /\ NonceEntries /\ NonceRedeemers /\ FreshNonceFindable
=============================================================================
