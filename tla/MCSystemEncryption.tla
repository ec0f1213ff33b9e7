------------------------- MODULE MCSystemEncryption -------------------------
EXTENDS SystemEncryption
=============================================================================
