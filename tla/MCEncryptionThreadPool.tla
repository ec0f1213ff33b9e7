----------------------- MODULE MCEncryptionThreadPool -----------------------
EXTENDS EncryptionThreadPool
=============================================================================
