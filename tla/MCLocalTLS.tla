----------------------------- MODULE MCLocalTLS -----------------------------
EXTENDS LocalTLS, TLC
Symmetry == Permutations(Managers)
=============================================================================
