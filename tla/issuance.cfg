SPECIFICATION FairSpec
CONSTANTS
  Requests = {r1, r2}
  Slots = {s1, s2, s3}
  NoSlot = NoSlot
  MaxProofs = 2
  PIDExpiry = 2
  CredentialTTL = 1
  MaxTime = 1
INVARIANTS
  TypeOK
  SlotsNeverShared
  RecordsMatchCredentials
  AnswerMatchesLedger
  OneWastedSlotPerFailure
  PIDExpiryNeverOverstated
PROPERTIES
  ImplementsLedger
  EveryRequestEnds
