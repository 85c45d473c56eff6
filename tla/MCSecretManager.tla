-------------------------- MODULE MCSecretManager --------------------------
\* SecretManager for TLC.
EXTENDS SecretManager, TLC
=============================================================================
