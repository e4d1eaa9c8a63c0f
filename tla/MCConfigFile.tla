---------------------------- MODULE MCConfigFile ----------------------------
(* Two instances, one of them named like the default shared directory.      *)
EXTENDS ConfigFile

MCNames == <<"a", "primary", "shared">>
MCElsewhere == <<"opt", "gateway">>
=============================================================================
