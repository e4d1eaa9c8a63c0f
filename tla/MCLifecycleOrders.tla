-------------------------- MODULE MCLifecycleOrders --------------------------
(* GatewayLifecycle under its fairness, where every kind of order is given,  *)
(* at most MaxOrders of them, to one daemon: what another daemon does begins *)
(* in an initial state, and its beginning is the outcome both properties     *)
(* allow.  A reconfiguration comes first, and only its undoing follows it.   *)
(* Contexts and goroutines are interchangeable, and of those that are free a *)
(* fixed one is taken: the symmetry of the other configuration, which TLC    *)
(* cannot use for liveness, taken by hand.                                   *)
EXTENDS GatewayLifecycle

CONSTANT MaxOrders  \* bound: how many orders are given

VARIABLE given      \* how many were

Reconfigured ==
    /\ op'.kind = "reconfigure" => given = 0
    /\ before # NoBefore => op'.kind = "restore"

Canonical ==
    /\ ctx' \notin {None, ctx} => ctx' = CHOOSE c \in FreeContexts : TRUE
    /\ \A m \in Supervisors :
          at[m] = "none" /\ at'[m] # "none" => m = CHOOSE n \in FreeSupervisors : TRUE

OrderNext ==
    /\ \/ Order /\ given < MaxOrders /\ given' = given + 1 /\ Reconfigured
       \/ Unordered /\ UNCHANGED given
    /\ Canonical

OrderSpec == Init /\ given = 0 /\ [][OrderNext]_<<vars, given>> /\ Fairness
=============================================================================
