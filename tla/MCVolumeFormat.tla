--------------------------- MODULE MCVolumeFormat ---------------------------
EXTENDS VolumeFormat
=============================================================================
