----------------------------- MODULE ConfigFile -----------------------------
(***************************************************************************)
(* Where each instance lives: its program, its YAML file and its state     *)
(* directory, as internal/appconfig/config.go works them out from          *)
(* config.json and from what is installed, at every start and at every     *)
(* change (internal/service/configuration.go).                             *)
(*                                                                         *)
(* A path that is left out is filled in, sometimes by looking at the disk. *)
(* The file keeps the result only once the manager has saved it.  What a   *)
(* change does to processes, and how it fails, is in ConfigTransaction.    *)
(*                                                                         *)
(* A path is the sequence of its components below the directory of the     *)
(* configuration, or below / for one elsewhere; the empty one is a path    *)
(* left out.  The root directory of the instances is the default one, and  *)
(* no directory is a link.                                                 *)
(***************************************************************************)
EXTENDS Sequences, FiniteSets, Naturals

CONSTANTS
    Ids,      \* IDs of instances
    Names,    \* the names of directories in the root, in their order
    Elsewhere,\* a directory outside the root
    MaxTurns  \* bound: changes, and installations by hand

Out == <<>>
Own(name)  == <<"gateways", name>>
StateOf(id) == <<"gateways", ".instances", id>>
Main       == <<"conf.yaml">>
YamlOf(id) == <<"conf", id>>

ASSUME NamesAssumption == Ids \cup {"shared", "primary"} \subseteq {Names[i] : i \in DOMAIN Names}
ASSUME ElsewhereAssumption ==
    /\ Elsewhere \in Seq(STRING) \ {Out}
    /\ \A i \in DOMAIN Names : Elsewhere # Own(Names[i])
ASSUME BoundAssumption == MaxTurns \in Nat

VARIABLES
    file,     \* config.json
    mem,      \* the published configuration; Nothing while no manager runs
    programs, \* the directories with a complete program
    saved,    \* history: the manager has written the file
    known,    \* history: the paths of the instances the operator left alone
    turns     \* how many changes and installations by hand there were

vars == <<file, mem, programs, saved, known, turns>>

Modes   == {"", "shared", "independent"}
Dirs    == {Own(Names[i]) : i \in DOMAIN Names} \cup {Elsewhere, <<"gateway">>}
Yaml    == {Main, <<"conf", "custom">>} \cup {YamlOf(id) : id \in Ids}

\* Entries as an operator or a client writes them.  A file by hand names no
\* shared directory, with one it is like a file the manager wrote, and no YAML
\* file of its own.
Entry == [inherit : BOOLEAN, mode : Modes, dir : {Out, Elsewhere},
          conf : {Out, Main, <<"conf", "custom">>}, state : {Out}]
Written == [shared : {Out},
            gateways : UNION {[ids -> {e \in Entry : e.conf \in {Out, Main}}] : ids \in SUBSET Ids}]

Nothing == [shared |-> Out, gateways |-> <<>>]
Running == mem.shared # Out

-----------------------------------------------------------------------------
(* What Validate makes of a configuration.                                 *)

\* resolveSharedGatewayDir: the first program found, but no independent one.
SharedDir(c) ==
    LET alone == {IF c.gateways[id].dir = Out THEN Own(id) ELSE c.gateways[id].dir :
                    id \in {i \in DOMAIN c.gateways : c.gateways[i].mode = "independent"}}
        DirOf(id) == IF id \in DOMAIN c.gateways THEN c.gateways[id].dir ELSE Out
        candidates == <<Own("shared"), Own("primary")>>
                      \o [i \in DOMAIN Names |-> Own(Names[i])]
                      \o [i \in DOMAIN Names |-> DirOf(Names[i])]
        First(i) == /\ candidates[i] \in programs \ alone
                    /\ \A j \in 1..(i - 1) : candidates[j] \notin programs \ alone
    IN IF c.shared # Out THEN c.shared
       ELSE IF \E i \in DOMAIN candidates : First(i)
            THEN candidates[CHOOSE i \in DOMAIN candidates : First(i)] ELSE Own("shared")

At(e, dir, conf, state) == [e EXCEPT !.dir = dir, !.conf = conf, !.state = state]

GivenDir(id, e) == IF e.dir = Out THEN Own(id) ELSE e.dir

\* Fault: an instance is taken for an old one whenever there is a program.
IsLegacyByDisk(id, e) == e.conf = Main \/ GivenDir(id, e) \in programs

\* An instance of an older version keeps its own installation.
IsLegacy(id, e) == e.conf = Main \/ (e.conf = Out /\ GivenDir(id, e) \in programs)

\* applyGlobalDefaults.
Inherited(id, e, shared) ==
    IF ~e.inherit \/ e.mode # "" THEN e
    ELSE IF IsLegacy(id, e) THEN At(e, GivenDir(id, e), Main, GivenDir(id, e))
    ELSE At(e, shared, YamlOf(id), StateOf(id))

\* applyInstallationMode; another shared directory makes a new YAML file and a
\* new state directory.
Placed(id, e, shared) ==
    LET stays == e.dir \in {Out, shared}
    IN CASE e.mode = "" -> e
         [] e.mode = "shared" ->
              At(e, shared, IF stays /\ e.conf # Out THEN e.conf ELSE YamlOf(id),
                            IF stays /\ e.state # Out THEN e.state ELSE StateOf(id))
         [] e.mode = "independent" -> [e EXCEPT !.dir = GivenDir(id, e)]

\* Fault: the state directory is left to the process code.
FilledWithoutState(e) ==
    At(e, IF e.dir = Out THEN <<"gateway">> ELSE e.dir,
          IF e.conf = Out THEN Main ELSE e.conf, e.state)

\* NormalizeAndValidate of the Gateway's own settings.
Filled(e) ==
    LET dir  == IF e.dir = Out THEN <<"gateway">> ELSE e.dir
        conf == IF e.conf = Out THEN Main ELSE e.conf
    IN At(e, dir, conf,
          IF e.state # Out THEN e.state
          ELSE IF conf = Main THEN dir ELSE dir \o <<".instances">> \o conf)

Normal(c) ==
    LET shared == SharedDir(c)
    IN [c EXCEPT !.shared = shared,
                 !.gateways = [id \in DOMAIN c.gateways |->
                    Filled(Placed(id, Inherited(id, c.gateways[id], shared), shared))]]

\* The rules of Validate about paths, on the result.
Accepted(c) ==
    /\ \A id \in DOMAIN c.gateways :
           c.gateways[id].mode = "independent" => c.gateways[id].dir # c.shared
    /\ \A i, j \in DOMAIN c.gateways : i # j =>
           LET e == c.gateways[i]  f == c.gateways[j]
           IN /\ e.state # f.state
              /\ <<e.dir, e.conf>> # <<f.dir, f.conf>>
              /\ e.dir = f.dir => "independent" \notin {e.mode, f.mode}

-----------------------------------------------------------------------------
Paths(c) == [id \in DOMAIN c.gateways |->
                <<c.gateways[id].dir, c.gateways[id].conf, c.gateways[id].state>>]

Init ==
    /\ file \in Written \cup {Nothing}
    /\ mem = Nothing
    /\ programs \in SUBSET ({Own("shared"), Elsewhere} \cup {Own(id) : id \in Ids})
    /\ saved = FALSE /\ known = <<>> /\ turns = 0

\* LoadOrCreate: what was worked out is written only for a new file and with
\* local TLS, which the environment decides; otherwise at the next change.
Load(localTLS) ==
    LET c == Normal(file)
    IN /\ ~Running /\ Accepted(c)
       /\ mem' = c
       /\ IF file = Nothing \/ localTLS
          THEN file' = c /\ saved' = TRUE
          ELSE UNCHANGED <<file, saved>>
       /\ known' = IF saved THEN known ELSE Paths(c)
       /\ UNCHANGED <<programs, turns>>

\* The manager ends or is killed.
Stop ==
    /\ Running /\ mem' = Nothing
    /\ UNCHANGED <<file, programs, saved, known, turns>>

\* A client that leaves an instance alone sends it as it is published, or
\* leaves the paths of an inheriting one out.
Resent(id) ==
    LET e == mem.gateways[id]
    IN {e} \cup IF e.inherit THEN {At(e, Out, Out, Out)} ELSE {}

\* Fault: paths left out are worked out again.
MergedAnew(id, e) == e

\* updateConfig: paths left out are those of before.
Merged(id, e) ==
    IF id \in DOMAIN mem.gateways /\ mem.gateways[id].inherit /\ e.inherit /\ e.conf = Out
    THEN LET was == mem.gateways[id] IN At(e, was.dir, was.conf, was.state)
    ELSE e

\* A change that was carried out; touched are the instances it speaks of anew.
Change(shared, gateways, touched) ==
    LET c == Normal([mem EXCEPT !.shared = shared,
                        !.gateways = [id \in DOMAIN gateways |-> Merged(id, gateways[id])]])
    IN /\ Running /\ turns < MaxTurns /\ Accepted(c)
       /\ mem' = c /\ file' = c /\ saved' = TRUE
       /\ known' = [id \in DOMAIN gateways |->
                        IF id \in touched THEN Paths(c)[id] ELSE known[id]]
       /\ turns' = turns + 1
       /\ UNCHANGED programs

\* One instance is added, changed or removed and the others are sent again; a
\* new shared directory is a new place for everyone in it.
Put ==
    \E id \in Ids :
        LET others == DOMAIN mem.gateways \ {id}
        IN \E rest \in {f \in [others -> UNION {Resent(i) : i \in others}] :
                            \A i \in others : f[i] \in Resent(i)} :
             \/ \E e \in Entry :
                    Change(mem.shared, [i \in others \cup {id} |-> IF i = id THEN e ELSE rest[i]], {id})
             \/ Change(mem.shared, rest, {})
             \/ Change(Elsewhere, rest, others)

\* The first start of an instance installs its program, except where the
\* state directory is the program directory (see Installation).
Install ==
    /\ Running
    /\ \E id \in DOMAIN mem.gateways :
         LET e == mem.gateways[id]
         IN /\ e.dir \notin programs /\ e.state # e.dir
            /\ programs' = programs \cup {e.dir}
    /\ UNCHANGED <<file, mem, saved, known, turns>>

\* The operator gives up a file that no manager starts from, or starts afresh.
Discard ==
    /\ ~Running /\ file # Nothing
    /\ file' = Nothing /\ saved' = FALSE /\ known' = <<>>
    /\ UNCHANGED <<mem, programs, turns>>

\* The operator installs or removes a program by hand; before the first start
\* that is the choice of Init.
OperatorMoves ==
    /\ saved \/ Running
    /\ turns < MaxTurns /\ turns' = turns + 1
    /\ \E dir \in {Own(Names[i]) : i \in DOMAIN Names} \cup {Elsewhere} :
         programs' = (programs \ {dir}) \cup ({dir} \ programs)
    /\ UNCHANGED <<file, mem, saved, known>>

Next ==
    \/ \E localTLS \in BOOLEAN : Load(localTLS)
    \/ Stop \/ Discard \/ Put \/ Install \/ OperatorMoves

Spec == Init /\ [][Next]_vars

-----------------------------------------------------------------------------
(* Properties.                                                             *)

Placement == [inherit : BOOLEAN, mode : Modes, dir : Dirs, conf : Yaml,
              state : {StateOf(id) : id \in Ids} \cup Dirs
                      \cup {dir \o <<".instances">> \o conf : dir \in Dirs, conf \in Yaml}]

\* What is published, and what is in a file the manager wrote, has no path left
\* out and nothing but directories of the installation in it.
TypeOK ==
    /\ \A c \in {mem} \cup IF saved THEN {file} ELSE {} :
           /\ c.shared \in Dirs \cup {Out}
           /\ DOMAIN c.gateways \subseteq Ids
           /\ \A id \in DOMAIN c.gateways : c.gateways[id] \in Placement
    /\ DOMAIN file.gateways \subseteq Ids
    /\ programs \subseteq Dirs
    /\ saved \in BOOLEAN /\ turns \in 0..MaxTurns

\* Whatever is installed or removed in the meantime, a manager starts from the
\* file another one has written: nothing it fills in makes two instances
\* collide (config.go:528, 634).
SavedLoads == saved => Accepted(Normal(file))

\* Once the manager has saved the file, an instance keeps its program, its YAML
\* file and its state directory, with the record of its process in it, however
\* often the manager starts, whatever is installed, and while other instances
\* come and go (config.go:528, 634, configuration.go:117).
StaysPut == saved /\ Running => Paths(mem) = known
=============================================================================
