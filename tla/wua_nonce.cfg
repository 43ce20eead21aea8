SPECIFICATION Spec
CONSTANTS
  Nonces = {n1, r1}
  Public = {n1}
  Clients = {r1}
  NoNonce = NoNonce
  Validations = {v1}
  NonceTTL = 1
  MaxTime = 2
  pid = pid
  gen = gen
  alt = alt
  Types = {pid, gen, alt}
  CodeTypes = {pid}
  Documents <- MCDocuments
  Embedded <- MCEmbedded
  Unreadable = Unreadable
  Malformed = Malformed
INVARIANT
  EndpointNonceAccepted
