------------------------- MODULE CredentialRequests -------------------------
(***************************************************************************)
(* POST /credential from the Authorization header to the choice of a       *)
(* minter (middleware.go, the two branches of routes/credential.go), put   *)
(* together with the nonce service and the credential registry it uses,    *)
(* the metadata and nonce endpoints beside it, and restarts of the process *)
(* that hit all of them at once.                                           *)
(*                                                                         *)
(* A request is named like the call of Nonce its handler may make.  Its    *)
(* proofs pass the other tests or not, and carry a nonce the wallet had    *)
(* been given or another text: it made them before it sent the request.  What *)
(* introspection and DPoP decide is BearerAuthentication's, what follows   *)
(* the choice of the minter on the IDAuth branch ProofVerification's and   *)
(* CredentialIssuance's.                                                   *)
(***************************************************************************)
EXTENDS NonceService, CredentialRegistry

ASSUME RequestAssumption == Clients = Nonces \ Public

VARIABLES
  wpc,     \* where each request is
  carried  \* the nonce in the proofs of each request

requestVars == <<wpc, carried>>
vars == <<nonceVars, registryVars, requestVars>>

Busy == {"session", "introspect", "wua", "store", "lookup", "verify", "idauth"}
Ended == {"issuing", "forwarded", "rejected", "mismatched", "lost"}

Init ==
  /\ NonceInit
  /\ RegistryInit
  /\ wpc = [c \in Clients |-> "idle"]
  /\ carried = [c \in Clients |-> NoNonce]

-----------------------------------------------------------------------------

Goto(c, place) == wpc' = [wpc EXCEPT ![c] = place]

\* The wallet reads the metadata before it makes a request, or never.
Inform(c) ==
  /\ wpc[c] = "idle" /\ ReadMetadata(c)
  /\ UNCHANGED <<nonceVars, requestVars>>

Arrive(c) ==
  /\ wpc[c] = "idle" /\ Goto(c, "session")
  /\ \E n \in Disclosed \union {NoNonce} : carried' = [carried EXCEPT ![c] = n]
  /\ UNCHANGED <<nonceVars, registryVars>>

\* GetWUASession drops the error of the cache: no answer is no session.
SessionFound(c) ==
  /\ wpc[c] = "session" /\ Goto(c, "wua")
  /\ UNCHANGED <<nonceVars, registryVars, carried>>

SessionMissing(c) ==
  /\ wpc[c] = "session" /\ Goto(c, "introspect")
  /\ UNCHANGED <<nonceVars, registryVars, carried>>

\* The token is active and its DPoP proof, if it needs one, is in order.
Authenticated(c) ==
  /\ wpc[c] = "introspect" /\ Goto(c, "idauth")
  /\ UNCHANGED <<nonceVars, registryVars, carried>>

\* The token is refused, or the body does not parse or holds no proof.
Refuse(c) ==
  /\ wpc[c] \in {"introspect", "wua", "idauth"} /\ Goto(c, "rejected")
  /\ UNCHANGED <<nonceVars, registryVars, carried>>

\* The branch of a session mints the nonce it is going to demand.
MintOwnNonce(c) ==
  /\ wpc[c] = "wua" /\ MintNonce(c) /\ Goto(c, "store")
  /\ UNCHANGED <<registryVars, carried>>

OwnNonceStored(c) ==
  /\ wpc[c] = "store" /\ StoreNonce(c) /\ Goto(c, "lookup")
  /\ UNCHANGED <<registryVars, carried>>

OwnNonceFailed(c) ==
  /\ wpc[c] = "store" /\ StoreNonceFailed(c) /\ Goto(c, "rejected")
  /\ UNCHANGED <<registryVars, carried>>

\* Each branch looks up the type; an unknown one is refused.
LookupType(c) ==
  /\ Lookup(c)
  /\ \/ wpc[c] = "lookup" /\ rpc'[c] = "known" /\ Goto(c, "verify")
     \/ wpc[c] = "idauth" /\ rpc'[c] = "known" /\ Goto(c, "forwarded")
     \/ wpc[c] \in {"lookup", "idauth"} /\ rpc'[c] = "unsupported" /\ Goto(c, "rejected")
  /\ UNCHANGED <<nonceVars, carried>>

\* validateProofKeyAttestation or VerifyProof refuses a proof for its key
\* attestation, or for its text, signature, audience or age.
ProofRefused(c) ==
  /\ wpc[c] = "verify" /\ Goto(c, "rejected")
  /\ UNCHANGED <<nonceVars, registryVars, carried>>

\* VerifyProof compares the proof's nonce with the one it was handed.
NonceMatches(c) == carried[c] = c

\* Nothing but the nonce decides about the proofs: all pass, or the first that
\* carries another nonce refuses the request.
CompareNonces(c) ==
  /\ wpc[c] = "verify" /\ Goto(c, IF NonceMatches(c) THEN "issuing" ELSE "mismatched")
  /\ UNCHANGED <<nonceVars, registryVars, carried>>

\* One step of the middleware or the handler for c.
Handle(c) ==
  \/ SessionFound(c) \/ SessionMissing(c) \/ Authenticated(c) \/ Refuse(c)
  \/ MintOwnNonce(c) \/ OwnNonceStored(c) \/ OwnNonceFailed(c)
  \/ LookupType(c)
  \/ ProofRefused(c) \/ CompareNonces(c)

-----------------------------------------------------------------------------

\* POST /nonce, and the callers of ValidateNonce.
NonceEndpoint(n) ==
  /\ n \in Public /\ (MintNonce(n) \/ SetNonce(n))
  /\ UNCHANGED <<registryVars, requestVars>>

BeginValidation(v) ==
  /\ Present(v) \/ PresentForged(v)
  /\ UNCHANGED <<registryVars, requestVars>>

ContinueValidation(v) ==
  /\ ValidateNonce(v)
  /\ UNCHANGED <<registryVars, requestVars>>

Deploy ==
  /\ ReplaceFile
  /\ UNCHANGED <<nonceVars, requestVars>>

Restart ==
  /\ NonceRestart /\ RegistryRestart
  /\ wpc' = [c \in Clients |-> IF wpc[c] \in Busy THEN "lost" ELSE wpc[c]]
  /\ UNCHANGED carried

Tick ==
  /\ NonceTick
  /\ UNCHANGED <<registryVars, requestVars>>

Next ==
  \/ \E c \in Clients : Inform(c) \/ Arrive(c) \/ Handle(c)
  \/ \E n \in Public : NonceEndpoint(n)
  \/ \E v \in Validations : BeginValidation(v) \/ ContinueValidation(v)
  \/ Deploy
  \/ Restart
  \/ Tick

Spec == Init /\ [][Next]_vars

-----------------------------------------------------------------------------

TypeOK ==
  /\ NonceTypeOK
  /\ RegistryTypeOK
  /\ wpc \in [Clients -> {"idle"} \union Busy \union Ended]
  /\ carried \in [Clients -> Public \union {NoNonce}]

\* routes/credential.go:85: the nonce that a request with a WUA session must
\* prove comes from the PASETO endpoint, POST /nonce.  So no such request is
\* refused for its nonce while the nonce it carries is one of that endpoint,
\* still valid and still in the cache.
EndpointNonceAccepted ==
  \A c \in Clients : wpc[c] = "mismatched" =>
    ~(carried[c] \in Public /\ ValidAt(carried[c]) /\ Live(carried[c]))

\* Every behaviour of the composition is one of each component.
ComponentsHold == NonceSpec /\ RegistrySpec
=============================================================================
