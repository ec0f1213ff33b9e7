------------------------ MODULE MCInPlaceEncryption ------------------------
EXTENDS InPlaceEncryption

\* The power is lost once the header at the end was found valid, not earlier.
LossAfterCheck == losses' # losses => pc \notin {"writeBackup", "verify"}
=============================================================================
