------------------------- MODULE MCGatewayLifecycle -------------------------
(* GatewayLifecycle on small instances.                                     *)
EXTENDS GatewayLifecycle, TLC

Interchangeable == Permutations(Supervisors) \cup Permutations(Contexts)
=============================================================================
