-------------------------- MODULE MCGatewaySession --------------------------
(* GatewaySession on small instances.  A time unit stands for a minute or   *)
(* more; the backoffs are scaled so that all attempts fit in the window.    *)
EXTENDS GatewaySession

MCBackoff == [n \in 1..MaxAttempts |-> 1]
=============================================================================
