SPECIFICATION FairSpec
CONSTANTS
  k1 = k1
  k2 = k2
  Keys = {k1, k2}
  BadKey = BadKey
  NoKey = NoKey
  Attestations <- MCAttestations
  NoAttestation = NoAttestation
  Proofs <- MCProofs
  MaxProofs = 2
  MaxTime = 1
INVARIANTS
  TypeOK
  EnforcedMeansValidated
  RevokedBeforeIsRefused
  AttestedKeysWereLive
  ResultsFollowProofs
  RequiredAttestationHeld
PROPERTIES
  EveryRequestDecided
