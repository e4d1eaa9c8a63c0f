-------------------------- MODULE ProcessOwnership --------------------------
(***************************************************************************)
(* Who owns the Java Gateway of one instance: gateway/process.go.          *)
(*                                                                         *)
(* Managers (ibkr-gateway-manager processes, or two of them by mistake)    *)
(* share the state directory of the instance: its lock file and its        *)
(* process record.  A manager launches the wrapper bin/run.sh in a process *)
(* group of its own, the wrapper launches Java, Java opens the port.  All  *)
(* of them may die at any moment, a killed manager leaves the others       *)
(* behind, and the operating system hands out the PIDs again.              *)
(*                                                                         *)
(* The legacy PID file decides nothing: it is believed only if its process *)
(* has the port, and then the search for the listener finds the same one.  *)
(* Only one process can have the port.  ps and lsof are taken to answer,   *)
(* and signals to reach the processes of a group.                          *)
(***************************************************************************)
EXTENDS Naturals, FiniteSets

CONSTANTS
    Managers,
    Pids,
    Nobody,      \* no manager
    NoPid,
    RunJar,      \* whether the Gateway is started by its root/run.jar, without bin/run.sh
    StaleReuse,  \* whether the PID of a dead wrapper a manager still notes is used again
    Strangers,   \* bound: how many unrelated processes live at once
    MaxLives,    \* bound: how often a PID is used
    MaxReused    \* bound: how many PIDs are used more than once

ASSUME NamesAssumption ==
    /\ Nobody \notin Managers /\ NoPid \notin Pids
    /\ RunJar \in BOOLEAN /\ StaleReuse \in BOOLEAN
    /\ Strangers \in Nat /\ MaxLives \in Nat \ {0} /\ MaxReused \in Nat

VARIABLES
    proc,    \* the operating system's process table
    lock,    \* the holder of <state dir>.manager.lock
    record,  \* gateway-process.json
    cmd,     \* g.cmd of each manager: the wrapper it started
    pc,      \* where the operation that holds the manager's opMu is
    target,  \* the record of the process that is waited for or terminated
    reapers, \* the goroutines that wait for a wrapper
    stopped  \* history: a stop succeeded and nothing was launched since

vars == <<proc, lock, record, cmd, pc, target, reapers, stopped>>

Kinds   == {"free", "wrapper", "java", "stranger"}
Steps   == {"idle", "down", "stopping", "waiting", "replacing", "launching", "starting"}
Process == [kind: Kinds, lives: 0..MaxLives, port: BOOLEAN,
            group: Pids \cup {NoPid}, spawned: BOOLEAN, orphan: BOOLEAN]
Record  == [pid: Pids \cup {NoPid}, wrapper: Pids \cup {NoPid}, lives: 0..MaxLives]
Reaper  == [manager: Managers, wrapper: Pids, java: Pids, phase: {"waiting", "removing"}]

NoRecord == [pid |-> NoPid, wrapper |-> NoPid, lives |-> 0]

\* The process that ends leaves its PID; lives tells its start time from the
\* next one's.
Ended(p) == [proc[p] EXCEPT !.kind = "free", !.port = FALSE, !.group = NoPid,
                            !.spawned = FALSE, !.orphan = FALSE]
Born(p, kind, group, orphan) ==
    [kind |-> kind, lives |-> proc[p].lives + 1, port |-> FALSE, group |-> group,
     spawned |-> FALSE, orphan |-> orphan]

Alive(p)   == p # NoPid /\ proc[p].kind # "free"
PortInUse  == \E p \in Pids : proc[p].port
Killed(gs) == [p \in Pids |-> IF proc[p].group \in gs \ {NoPid} THEN Ended(p) ELSE proc[p]]

\* History: what was launched, that no manager recorded and that has no port to
\* be found by.
Orphaned(g) == [p \in Pids |-> IF proc[p].group = g /\ ~proc[p].port
                               THEN [proc[p] EXCEPT !.orphan = TRUE] ELSE proc[p]]

-----------------------------------------------------------------------------
(* What a manager can tell of a process.                                   *)

\* findGatewayListener: the command line and the directory are this
\* instance's, and the process has the port.
Owned(p) == proc[p].kind = "java" /\ proc[p].port

\* Fault: a live process is taken for the recorded one.
ValidAlive(r) == Alive(r.pid)

\* validateProcessRecord
Valid(r) == Owned(r.pid) /\ proc[r.pid].lives = r.lives

NewRecord(p, w) == [pid |-> p, wrapper |-> w, lives |-> proc[p].lives]

\* The three outcomes of loadOrRecoverOwnedProcess.  A process found by its
\* port is recorded at once, without its wrapper.
Recorded == IF Alive(record.pid) /\ Valid(record) THEN {record} ELSE {}

\* Fault: without a record there is no process.
FoundRecorded == Recorded

Found ==
    IF record # NoRecord THEN Recorded
    ELSE {NewRecord(p, NoPid) : p \in {q \in Pids : Owned(q)}}

LoadRefuses == Alive(record.pid) /\ ~Valid(record)
LoadMisses  == Found = {} /\ ~LoadRefuses

-----------------------------------------------------------------------------
Init ==
    /\ proc = [p \in Pids |-> [kind |-> "free", lives |-> 0, port |-> FALSE,
                               group |-> NoPid, spawned |-> FALSE, orphan |-> FALSE]]
    /\ lock = Nobody
    /\ record = NoRecord
    /\ cmd = [m \in Managers |-> NoPid]
    /\ pc = [m \in Managers |-> "idle"]
    /\ target = [m \in Managers |-> NoRecord]
    /\ reapers = {}
    /\ stopped = FALSE

\* Fault: the lock is not waited for.
AcquireAnyway(m) ==
    /\ pc[m] = "idle"
    /\ lock' = m

\* acquireProcessLock at the start of an operation; refused, it changes nothing.
Acquire(m) ==
    /\ pc[m] = "idle"
    /\ lock \in {Nobody, m}
    /\ lock' = m

Goto(m, step) == pc' = [pc EXCEPT ![m] = step]

-----------------------------------------------------------------------------
(* stopProcess                                                             *)

\* The recorded or recovered process is sent SIGTERM.
StopFinds(m) ==
    /\ Acquire(m)
    /\ \E r \in Found : record' = r /\ target' = [target EXCEPT ![m] = r]
    /\ cmd' = [cmd EXCEPT ![m] = NoPid]
    /\ Goto(m, "stopping")
    /\ UNCHANGED <<proc, reapers, stopped>>

\* There is none: what this manager started itself is killed with its group.
StopMisses(m) ==
    /\ Acquire(m)
    /\ LoadMisses
    /\ proc' = IF Alive(cmd[m]) THEN Killed({cmd[m]}) ELSE proc
    /\ record' = NoRecord
    /\ cmd' = [cmd EXCEPT ![m] = NoPid]
    /\ stopped' = TRUE
    /\ UNCHANGED <<pc, target, reapers>>

StopRefused(m) ==
    /\ Acquire(m)
    /\ LoadRefuses
    /\ cmd' = [cmd EXCEPT ![m] = NoPid]
    /\ UNCHANGED <<proc, record, pc, target, reapers, stopped>>

\* terminateProcess returns: Java is gone, by SIGTERM or, after five seconds, by
\* SIGKILL, whose effect it does not wait for and which is taken as had at once
\* (process.go:457); a recorded wrapper still there is killed with its group.
StopEnds(m) ==
    /\ pc[m] = "stopping"
    /\ LET groups == IF Alive(target[m].wrapper) THEN {target[m].wrapper} ELSE {}
       IN  proc' = [Killed(groups) EXCEPT ![target[m].pid] = Ended(target[m].pid)]
    /\ record' = NoRecord
    /\ stopped' = TRUE
    /\ target' = [target EXCEPT ![m] = NoRecord]
    /\ Goto(m, "idle")
    /\ UNCHANGED <<lock, cmd, reapers>>

\* The signal could not be sent to a process that is there.
TerminateFails(m) ==
    /\ pc[m] \in {"stopping", "replacing"}
    /\ Alive(target[m].pid)
    /\ target' = [target EXCEPT ![m] = NoRecord]
    /\ Goto(m, "idle")
    /\ UNCHANGED <<proc, lock, record, cmd, reapers, stopped>>

-----------------------------------------------------------------------------
(* ensureRunning                                                           *)

\* A recorded or recovered process is asked for its answer, for as long as the
\* startup timeout.
StartFinds(m) ==
    /\ Acquire(m)
    /\ \E r \in Found : record' = r /\ target' = [target EXCEPT ![m] = r]
    /\ Goto(m, "waiting")
    /\ UNCHANGED <<proc, cmd, reapers, stopped>>

\* The port answers: the process is reused.
StartReuses(m) ==
    /\ pc[m] = "waiting"
    /\ stopped' = FALSE
    /\ target' = [target EXCEPT ![m] = NoRecord]
    /\ Goto(m, "idle")
    /\ UNCHANGED <<proc, lock, record, cmd, reapers>>

\* It does not, or the start is cancelled: the PID is sent SIGTERM, and nothing
\* looks again at what has it now.
StartReplaces(m) ==
    /\ pc[m] = "waiting"
    /\ Goto(m, "replacing")
    /\ UNCHANGED <<proc, lock, record, cmd, target, reapers, stopped>>

Replaced(m) ==
    /\ pc[m] = "replacing"
    /\ proc' = [proc EXCEPT ![target[m].pid] = Ended(target[m].pid)]
    /\ record' = NoRecord
    /\ target' = [target EXCEPT ![m] = NoRecord]
    /\ Goto(m, "launching")
    /\ UNCHANGED <<lock, cmd, reapers, stopped>>

StartMisses(m) ==
    /\ Acquire(m)
    /\ LoadMisses
    /\ record' = NoRecord
    /\ Goto(m, "launching")
    /\ UNCHANGED <<proc, cmd, target, reapers, stopped>>

StartRefused(m) ==
    /\ Acquire(m)
    /\ LoadRefuses
    /\ UNCHANGED <<proc, record, cmd, pc, target, reapers, stopped>>

\* The port is taken, the installation is incomplete, the wrapper does not
\* start, or its PID cannot be written and it is killed again.
LaunchFails(m) ==
    /\ pc[m] = "launching"
    /\ Goto(m, "idle")
    /\ UNCHANGED <<proc, lock, record, cmd, target, reapers, stopped>>

\* The PIDs the operating system may give to a new process: free, not naming a
\* process group that still has members, not of a wrapper its manager has not
\* waited for, and not taken over within the five seconds of a termination.
\* While a start waits for an answer the PID it found may be.
Available(p) ==
    /\ proc[p].kind = "free"
    /\ proc[p].lives < MaxLives
    /\ proc[p].lives = 1 => Cardinality({q \in Pids : proc[q].lives > 1}) < MaxReused
    /\ \A q \in Pids : proc[q].group # p
    /\ \A m \in Managers : pc[m] \in {"stopping", "replacing"} =>
                               p \notin {target[m].pid, target[m].wrapper}
    /\ \A r \in reapers : r.phase = "waiting" => r.wrapper # p
    /\ \/ StaleReuse
       \/ /\ record.wrapper # p
          /\ \A m \in Managers : cmd[m] # p

\* What is started is the wrapper, or Java itself, which is its own wrapper then.
LaunchedKind == IF RunJar THEN "java" ELSE "wrapper"

Launch(m) ==
    /\ pc[m] = "launching"
    /\ ~PortInUse
    /\ \E w \in Pids :
           /\ Available(w)
           /\ proc' = [proc EXCEPT ![w] = Born(w, LaunchedKind, w, FALSE)]
           /\ cmd' = [cmd EXCEPT ![m] = w]
    /\ stopped' = FALSE
    /\ Goto(m, "starting")
    /\ UNCHANGED <<lock, record, target, reapers>>

\* The port answers and its listener is this instance's Java: the one launched,
\* or one an earlier manager had left, and then the one launched is left.
Started(m) ==
    /\ pc[m] = "starting"
    /\ \E p \in Pids :
           /\ Owned(p)
           /\ record' = NewRecord(p, cmd[m])
           /\ proc' = IF proc[p].group = cmd[m] THEN proc ELSE Orphaned(cmd[m])
           /\ reapers' = reapers \cup {[manager |-> m, wrapper |-> cmd[m], java |-> p,
                                        phase |-> "waiting"]}
    /\ Goto(m, "idle")
    /\ UNCHANGED <<lock, cmd, target, stopped>>

\* Fault: the wrapper is killed without its group.
StartAbandoned(m) ==
    /\ pc[m] = "starting"
    /\ proc' = IF Alive(cmd[m]) THEN [proc EXCEPT ![cmd[m]] = Ended(cmd[m])] ELSE proc
    /\ record' = NoRecord
    /\ Goto(m, "idle")
    /\ UNCHANGED <<lock, cmd, target, reapers, stopped>>

\* Not ready in time, cancelled, the listener is somebody else's, or the record
\* cannot be written.  g.cmd keeps the wrapper that was killed.
StartAborted(m) ==
    /\ pc[m] = "starting"
    /\ proc' = Killed({cmd[m]})
    /\ record' = NoRecord
    /\ Goto(m, "idle")
    /\ UNCHANGED <<lock, cmd, target, reapers, stopped>>

\* cmd.Wait returned: a wrapper that is gone is forgotten, and the record is
\* looked at if its Java is gone too.
ReaperWakes(r) ==
    /\ r.phase = "waiting"
    /\ ~Alive(r.wrapper)
    /\ cmd' = [cmd EXCEPT ![r.manager] = IF @ = r.wrapper THEN NoPid ELSE @]
    /\ reapers' = (reapers \ {r}) \cup
                      (IF ~Alive(r.java) /\ record.pid = r.java
                       THEN {[r EXCEPT !.phase = "removing"]} ELSE {})
    /\ UNCHANGED <<proc, lock, record, pc, target, stopped>>

\* It is removed after it was read, whatever it says by then.
ReaperRemoves(r) ==
    /\ r.phase = "removing"
    /\ record' = NoRecord
    /\ reapers' = reapers \ {r}
    /\ UNCHANGED <<proc, lock, cmd, pc, target, stopped>>

-----------------------------------------------------------------------------
(* A manager lets go, is killed, and is started again.                     *)

Detach(m) ==
    /\ pc[m] = "idle" /\ lock = m
    /\ lock' = Nobody
    /\ UNCHANGED <<proc, record, cmd, pc, target, reapers, stopped>>

\* What it was launching is left without a record.
ManagerDies(m) ==
    /\ pc[m] # "down"
    /\ Goto(m, "down")
    /\ lock' = IF lock = m THEN Nobody ELSE lock
    /\ proc' = IF pc[m] = "starting" THEN Orphaned(cmd[m]) ELSE proc
    /\ cmd' = [cmd EXCEPT ![m] = NoPid]
    /\ target' = [target EXCEPT ![m] = NoRecord]
    /\ reapers' = {r \in reapers : r.manager # m}
    /\ UNCHANGED <<record, stopped>>

NewManager(m) ==
    /\ pc[m] = "down"
    /\ Goto(m, "idle")
    /\ UNCHANGED <<proc, lock, record, cmd, target, reapers, stopped>>

-----------------------------------------------------------------------------
(* The operating system and the Gateway.                                   *)

World == UNCHANGED <<lock, record, cmd, pc, target, reapers, stopped>>

JavaSpawned(w) ==
    /\ proc[w].kind = "wrapper" /\ ~proc[w].spawned
    /\ \E j \in Pids :
           /\ Available(j)
           /\ proc' = [proc EXCEPT ![j] = Born(j, "java", w, proc[w].orphan),
                                   ![w].spawned = TRUE]
    /\ World

JavaListens(j) ==
    /\ proc[j].kind = "java"
    /\ ~PortInUse
    /\ proc' = [proc EXCEPT ![j].port = TRUE]
    /\ World

\* Java ends, or the wrapper: with its Java, or killed and leaving it behind.
GatewayDies(p) ==
    /\ proc[p].kind \in {"java", "wrapper"}
    /\ proc' = [proc EXCEPT ![p] = Ended(p)]
    /\ World

StrangerStarts(p, port) ==
    /\ Available(p)
    /\ Cardinality({q \in Pids : proc[q].kind = "stranger"}) < Strangers
    /\ port => ~PortInUse
    /\ proc' = [proc EXCEPT ![p] = [Born(p, "stranger", p, FALSE) EXCEPT !.port = port]]
    /\ World

StrangerEnds(p) ==
    /\ proc[p].kind = "stranger"
    /\ proc' = [proc EXCEPT ![p] = Ended(p)]
    /\ World

Next ==
    \/ \E m \in Managers :
           \/ StopFinds(m) \/ StopMisses(m) \/ StopRefused(m) \/ StopEnds(m)
           \/ TerminateFails(m)
           \/ StartFinds(m) \/ StartReuses(m) \/ StartReplaces(m) \/ Replaced(m)
           \/ StartMisses(m) \/ StartRefused(m) \/ LaunchFails(m) \/ Launch(m) \/ Started(m)
           \/ StartAborted(m)
           \/ Detach(m) \/ ManagerDies(m) \/ NewManager(m)
    \/ \E r \in reapers : ReaperWakes(r) \/ ReaperRemoves(r)
    \/ \E p \in Pids :
           \/ JavaSpawned(p) \/ JavaListens(p) \/ GatewayDies(p)
           \/ StrangerEnds(p)
           \/ \E port \in BOOLEAN : StrangerStarts(p, port)

Spec == Init /\ [][Next]_vars

-----------------------------------------------------------------------------
(* Properties.                                                             *)

\* Types, and every operation in progress has the lock of the state directory.
TypeOK ==
    /\ proc \in [Pids -> Process]
    /\ lock \in Managers \cup {Nobody}
    /\ record \in Record
    /\ cmd \in [Managers -> Pids \cup {NoPid}]
    /\ pc \in [Managers -> Steps]
    /\ target \in [Managers -> Record]
    /\ reapers \subseteq Reaper
    /\ stopped \in BOOLEAN
    /\ \A m \in Managers : pc[m] \notin {"idle", "down"} => lock = m

Javas == {p \in Pids : proc[p].kind = "java" /\ ~proc[p].orphan}

\* However starts, stops, detachments, deaths and two managers interleave, at
\* most one Java of the instance runs, but for those whose manager was killed
\* before they had the port, and what was launched beside such a one.
OneProcess == Cardinality(Javas) <= 1

\* A stop that succeeded left no such Java running, even one whose record a late
\* reaper had removed or a killed manager never wrote (process.go:205).
StoppedMeansGone == stopped => Javas = {}

\* The PID a start found and waited for is another process's by now.
TakenOver(m, p) ==
    /\ pc[m] = "replacing"
    /\ target[m].pid = p
    /\ target[m].lives < proc[p].lives

\* A process that is not the Gateway's is never ended by a manager, whatever
\* PID it was given and whether or not it has the port (process.go:112, 226,
\* 247), but for one: the process that was given the PID of an unresponsive
\* Java while a start waited for that Java's answer (process.go:99-104).
StrangersUnharmed ==
    [][\A p \in Pids : proc[p].kind = "stranger" /\ proc'[p] # proc[p] =>
          StrangerEnds(p) \/ \E m \in Managers : TakenOver(m, p) /\ Replaced(m)]_vars
==============================================================================
