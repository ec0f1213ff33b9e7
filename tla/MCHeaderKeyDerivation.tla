----------------------- MODULE MCHeaderKeyDerivation -----------------------
EXTENDS HeaderKeyDerivation, TLC

Symmetry == Permutations(Workers)
=============================================================================
