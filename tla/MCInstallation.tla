--------------------------- MODULE MCInstallation ---------------------------
EXTENDS Installation, TLC

Symmetry == Permutations(Instances)
==============================================================================
