---------------------- MODULE CredentialRequestsProofs ----------------------
(***************************************************************************)
(* Proofs about CredentialRequests for any calls, clients and documents:   *)
(* the composition runs each component as its own specification says, so   *)
(* what is proved of a component holds of it here.                         *)
(***************************************************************************)
EXTENDS CredentialRequests, NonceServiceProofs, CredentialRegistryProofs

\* A step of the composition is a step of the nonce service or none of its.
LEMMA NonceStep == [Next]_vars => [NonceNext]_nonceVars
<1> SUFFICES ASSUME [Next]_vars PROVE NonceNext \/ UNCHANGED nonceVars
  OBVIOUS
<1> USE RequestAssumption DEF NonceNext
<1>1. ASSUME NEW c \in Clients, Inform(c) \/ Arrive(c) \/ Handle(c)
      PROVE  NonceNext \/ UNCHANGED nonceVars
  <2>1. CASE MintOwnNonce(c) \/ OwnNonceStored(c) \/ OwnNonceFailed(c)
    BY <2>1 DEF MintOwnNonce, OwnNonceStored, OwnNonceFailed, SetNonce
  <2>2. CASE ~(MintOwnNonce(c) \/ OwnNonceStored(c) \/ OwnNonceFailed(c))
    BY <1>1, <2>2
    DEF Inform, Arrive, Handle, SessionFound, SessionMissing, Authenticated, Refuse,
        LookupType, ProofRefused, CompareNonces
  <2> QED
    BY <2>1, <2>2
<1>2. CASE \E n \in Public : NonceEndpoint(n)
  BY <1>2, NonceAssumption DEF NonceEndpoint
<1>3. CASE \E v \in Validations : BeginValidation(v) \/ ContinueValidation(v)
  BY <1>3 DEF BeginValidation, ContinueValidation
<1>4. CASE Deploy \/ Restart \/ Tick
  BY <1>4 DEF Deploy, Restart, Tick
<1>5. CASE UNCHANGED vars
  BY <1>5 DEF vars
<1> QED
  BY <1>1, <1>2, <1>3, <1>4, <1>5 DEF Next

\* A step of the composition is a step of the registry or none of its.
LEMMA RegistryStep == [Next]_vars => [RegistryNext]_registryVars
<1> SUFFICES ASSUME [Next]_vars PROVE RegistryNext \/ UNCHANGED registryVars
  OBVIOUS
<1> USE DEF RegistryNext
<1>1. ASSUME NEW c \in Clients, Inform(c) \/ Arrive(c) \/ Handle(c)
      PROVE  RegistryNext \/ UNCHANGED registryVars
  <2>1. CASE Inform(c) \/ LookupType(c)
    BY <2>1 DEF Inform, LookupType
  <2>2. CASE ~(Inform(c) \/ LookupType(c))
    BY <1>1, <2>2
    DEF Arrive, Handle, SessionFound, SessionMissing, Authenticated, Refuse, MintOwnNonce,
        OwnNonceStored, OwnNonceFailed, ProofRefused, CompareNonces
  <2> QED
    BY <2>1, <2>2
<1>2. CASE \E n \in Public : NonceEndpoint(n)
  BY <1>2 DEF NonceEndpoint
<1>3. CASE \E v \in Validations : BeginValidation(v) \/ ContinueValidation(v)
  BY <1>3 DEF BeginValidation, ContinueValidation
<1>4. CASE Deploy \/ Restart \/ Tick
  BY <1>4 DEF Deploy, Restart, Tick
<1>5. CASE UNCHANGED vars
  BY <1>5 DEF vars
<1> QED
  BY <1>1, <1>2, <1>3, <1>4, <1>5 DEF Next

\* Each component behaves in the composition as it does on its own: requests,
\* endpoints, deployments and restarts take only steps it allows.
THEOREM ComponentsRun == Spec => ComponentsHold
<1>1. Init => NonceInit /\ RegistryInit
  BY DEF Init
<1> QED
  BY <1>1, NonceStep, RegistryStep, PTL DEF Spec, NonceSpec, RegistrySpec, ComponentsHold

\* What was proved of the components, for the composition.
THEOREM ComponentProperties ==
  Spec => [](FreshNonceFindable /\ RefusedTypeHasCause /\ AttestationNeverWeakened)
  BY ComponentsRun, FreshNonceIsFindable, RefusedTypesHaveCause, AttestationIsNeverWeakened,
     PTL DEF ComponentsHold

\* A nonce is accepted at most once, whoever runs beside its callers.
THEOREM NoncesStayOneTime == Spec => ImplementsOneTime
  BY ComponentsRun, NoncesAreOneTime, PTL DEF ComponentsHold

-----------------------------------------------------------------------------

\* Where requests can be and what their proofs carry.
RequestInv ==
  /\ wpc \in [Clients -> {"idle"} \union Busy \union Ended]
  /\ carried \in [Clients -> Public \union {NoNonce}]

\* The proofs of a request carry a public nonce or none.
LEMMA RequestNext == RequestInv /\ [Next]_vars => RequestInv'
<1> SUFFICES ASSUME RequestInv, [Next]_vars PROVE RequestInv'
  OBVIOUS
<1> USE DEF RequestInv, Busy, Ended, Goto
<1>1. ASSUME NEW c \in Clients, Inform(c) \/ Arrive(c) \/ Handle(c)
      PROVE  RequestInv'
  <2>1. CASE Arrive(c)
    BY <2>1 DEF Arrive, Disclosed
  <2>2. CASE ProofRefused(c) \/ CompareNonces(c)
    BY <2>2 DEF ProofRefused, CompareNonces
  <2>3. CASE Inform(c)
    BY <2>3 DEF Inform, requestVars
  <2>4. CASE LookupType(c)
    BY <2>4 DEF LookupType
  <2>5. CASE MintOwnNonce(c) \/ OwnNonceStored(c) \/ OwnNonceFailed(c)
    BY <2>5 DEF MintOwnNonce, OwnNonceStored, OwnNonceFailed
  <2>6. CASE SessionFound(c) \/ SessionMissing(c) \/ Authenticated(c) \/ Refuse(c)
    BY <2>6 DEF SessionFound, SessionMissing, Authenticated, Refuse
  <2> QED
    BY <1>1, <2>1, <2>2, <2>3, <2>4, <2>5, <2>6 DEF Handle
<1>2. CASE \E n \in Public : NonceEndpoint(n)
  BY <1>2 DEF NonceEndpoint, requestVars
<1>3. CASE \E v \in Validations : BeginValidation(v) \/ ContinueValidation(v)
  BY <1>3 DEF BeginValidation, ContinueValidation, requestVars
<1>4. CASE Restart
  BY <1>4 DEF Restart
<1>5. CASE Deploy \/ Tick \/ UNCHANGED vars
  BY <1>5 DEF Deploy, Tick, vars, requestVars
<1> QED
  BY <1>1, <1>2, <1>3, <1>4, <1>5 DEF Next

THEOREM RequestInvHolds == Spec => []RequestInv
<1>1. Init => RequestInv
  BY DEF Init, RequestInv
<1> QED
  BY <1>1, RequestNext, PTL DEF Spec

\* Type correctness of the composition and of both components in it.
THEOREM TypeCorrect == Spec => []TypeOK
<1>1. NonceInv /\ RegistryInv /\ RequestInv => TypeOK
  BY DEF NonceInv, RegistryInv, RequestInv, TypeOK
<1> QED
  BY <1>1, ComponentsRun, NonceInvHolds, RegistryInvHolds, RequestInvHolds, PTL
  DEF ComponentsHold
=============================================================================
