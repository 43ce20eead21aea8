----------------------- MODULE MCCredentialIssuance -------------------------
\* Small instances of CredentialIssuance for TLC.
EXTENDS CredentialIssuance
=============================================================================
