---------------------- MODULE MCCredentialRequests --------------------------
\* A small instance of CredentialRequests for TLC: a type written in Go (pid)
\* that the document in the file declares without attestation, one that both
\* documents declare alike (gen), and one they do not (alt).
EXTENDS CredentialRequests, TLC

CONSTANTS pid, gen, alt

SDJWT(attested) == [format |-> "dc+sd-jwt", attested |-> attested]
MDoc(attested) == [format |-> "mso_mdoc", attested |-> attested]

MCEmbedded == gen :> SDJWT(TRUE) @@ alt :> MDoc(TRUE)
MCDocuments == {pid :> SDJWT(FALSE) @@ gen :> SDJWT(TRUE) @@ alt :> SDJWT(FALSE)}

Symmetry == Permutations(Validations)
=============================================================================
