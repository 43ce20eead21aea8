SPECIFICATION Spec
CONSTANTS
  Requests = {r1, r2}
  j1 = j1
  j2 = j2
  k1 = k1
  k2 = k2
  Keys = {k1}
  Jtis = {j1}
  Proofs <- MCOneProof
  IATWindow = 1
  JtiTTL = 4
  Latency = 1
  MaxTime = 0
INVARIANT JtiAcceptedOnce
