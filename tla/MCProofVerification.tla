------------------------- MODULE MCProofVerification -------------------------
\* Small instances of ProofVerification for TLC: a good attestation of three
\* keys, one of which is unusable, with a status list reference, and each
\* single way in which an attestation or a proof can be wrong.
EXTENDS ProofVerification, FiniteSets

CONSTANTS k1, k2

Batch == << k1, BadKey, k2 >>

Listed == [genuine |-> TRUE, high |-> TRUE, exp |-> 1, status |-> TRUE, keys |-> Batch]
Unlisted == [Listed EXCEPT !.status = FALSE]

MCAttestations ==
  {Listed, Unlisted,
   [Unlisted EXCEPT !.genuine = FALSE],
   [Unlisted EXCEPT !.high = FALSE],
   [Unlisted EXCEPT !.exp = 0],
   [Unlisted EXCEPT !.keys = << >>],
   [Unlisted EXCEPT !.keys = << BadKey, k1 >>],
   [Unlisted EXCEPT !.keys = << k1 >>],
   [Unlisted EXCEPT !.keys = << k1, k1 >>]}

MCProofs ==
  LET Attested(kind, a) ==
        [kind |-> kind, wellFormed |-> TRUE, jwk |-> NoKey, signer |-> k1, att |-> a]
      Bare == [kind |-> "jwk", wellFormed |-> TRUE, jwk |-> k2, signer |-> k2,
               att |-> NoAttestation]
  IN  {Attested(kind, a) : kind \in {"header", "attestation"}, a \in MCAttestations}
        \union {Bare, [Bare EXCEPT !.signer = k1], [Bare EXCEPT !.wellFormed = FALSE],
                [Bare EXCEPT !.kind = "none", !.jwk = NoKey],
                [Attested("header", Unlisted) EXCEPT !.signer = k2]}
=============================================================================
