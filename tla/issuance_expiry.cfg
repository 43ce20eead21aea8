SPECIFICATION Spec
CONSTANTS
  Requests = {r1}
  Slots = {s1, s2}
  NoSlot = NoSlot
  MaxProofs = 1
  PIDExpiry = 2
  CredentialTTL = 1
  MaxTime = 0
INVARIANT RecordedExpiryIsActual
