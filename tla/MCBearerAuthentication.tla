---------------------- MODULE MCBearerAuthentication ------------------------
\* Small instances of BearerAuthentication for TLC.
EXTENDS BearerAuthentication

CONSTANTS j1, j2, k1, k2

\* A proof from the near future, one that repeats its jti later, one by
\* another key with a jti of its own, and one that fails a static check.
MCProofs == {
  [jti |-> j1, iat |-> 1, key |-> k1, sound |-> TRUE],
  [jti |-> j1, iat |-> 5, key |-> k1, sound |-> TRUE],
  [jti |-> j2, iat |-> 1, key |-> k2, sound |-> TRUE],
  [jti |-> j2, iat |-> 2, key |-> k1, sound |-> FALSE]}

\* One proof, for the run that races two requests carrying it.
MCOneProof == {[jti |-> j1, iat |-> 0, key |-> k1, sound |-> TRUE]}
=============================================================================
