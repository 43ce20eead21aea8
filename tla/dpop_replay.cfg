SPECIFICATION FairSpec
CONSTANTS
  Requests = {r1, r2}
  j1 = j1
  j2 = j2
  k1 = k1
  k2 = k2
  Keys = {k1, k2}
  Jtis = {j1, j2}
  Proofs <- MCProofs
  IATWindow = 1
  JtiTTL = 4
  Latency = 1
  MaxTime = 6
INVARIANTS
  TypeOK
  SequentialReplayRejected
  JtiOutlivesWindow
  BoundRequestProved
  ReplayEndsWithWindow
PROPERTY EveryRequestDecided
