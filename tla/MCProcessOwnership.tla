------------------------- MODULE MCProcessOwnership -------------------------
EXTENDS ProcessOwnership, TLC

Symmetry == Permutations(Managers) \cup Permutations(Pids)
==============================================================================
