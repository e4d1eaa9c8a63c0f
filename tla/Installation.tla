---------------------------- MODULE Installation ----------------------------
(***************************************************************************)
(* The installation of the Gateway that several instances share:           *)
(* gateway/gateway_install.go, shared_install.go, installation.go and the  *)
(* Upgrade and Rollback of gateway.go.                                     *)
(*                                                                         *)
(* The program lives in GatewayDir (live), the one it replaced in          *)
(* GatewayDir.rollback (backup).  A change of the installation is a        *)
(* sequence of renames and removals under a lock between processes; every  *)
(* one of them may fail, and the manager may die between any two.  Java    *)
(* holds no lock and survives its manager.                                 *)
(*                                                                         *)
(* The bundled program and the downloaded release differ in where the      *)
(* staged copy comes from and are one action.  Only one manager serves an  *)
(* instance (ProcessOwnership), and GatewayDir is no symbolic link.  What  *)
(* else Start does is in GatewayLifecycle.                                 *)
(***************************************************************************)
EXTENDS Naturals, FiniteSets

CONSTANTS
    Instances,
    Nobody,       \* no instance
    Missing,      \* no directory
    Operator,     \* a YAML file the operator put into root/
    StateInside,  \* whether the state directory is GatewayDir itself
    MaxTroubles   \* bound: steps that fail and managers that die, together

ASSUME NamesAssumption ==
    /\ Nobody \notin Instances /\ Operator \notin Instances
    /\ StateInside \in BOOLEAN /\ MaxTroubles \in Nat

VARIABLES
    live,     \* GatewayDir
    backup,   \* GatewayDir.rollback
    strays,   \* swap directories nobody will look at again
    lock,     \* the holder of GatewayDir.install.lock
    op,       \* the operation each instance's manager is in
    java,     \* which instances have a Java process, its directory is live
    faults,   \* how many steps of the disk, the network or a stop failed
    crashes   \* how many operations were cut off

vars == <<live, backup, strays, lock, op, java, faults, crashes>>

Files == Instances \cup {Operator}
\* A copy of the program: partial is one with the files gatewayInstalled looks
\* for, and not all the others; a husk has not even those.
Copy  == [release: {"old", "pinned"}, state: {"whole", "partial", "husk"}, yaml: SUBSET Files]
Slot  == Copy \cup {Missing}

ASSUME MissingAssumption == Missing \notin Copy

Kinds  == {"start", "upgrade", "rollback"}
\* The part of the operation: the change itself, the start of what it
\* installed, the start of what it put back, the start after a failed download.
Phases == {"change", "new", "old", "again"}
Steps  == {"idle", "check", "stop", "ensure", "stage", "clear", "retire", "place", "unplace",
           "secure", "discard", "conf", "run", "preserve", "aside", "restore", "unaside",
           "keep", "want", "ok", "failed"}
Operation == [step: Steps, kind: Kinds, phase: Phases, had: BOOLEAN, was: BOOLEAN,
              payload: Slot, temporary: Slot, began: Slot]

Idle == [step |-> "idle", kind |-> "start", phase |-> "change", had |-> FALSE, was |-> FALSE,
         payload |-> Missing, temporary |-> Missing, began |-> Missing]

\* gatewayInstalled
Installed(c) == c # Missing /\ c.state # "husk"
Whole(c)     == c # Missing /\ c.state = "whole"
YamlOf(c)    == IF c = Missing THEN {} ELSE c.yaml

\* What a removal that is cut short or fails may leave.
Torn(c) == IF c = Missing THEN {c}
           ELSE {c, Missing} \cup {[c EXCEPT !.state = s] : s \in {"partial", "husk"}}

\* os.Rename refuses a directory as its new name, an empty one too.
CanMove(from, to) == from # Missing /\ to = Missing

-----------------------------------------------------------------------------
(* How an operation goes on.                                               *)

Disk == <<live, backup, strays>>

At(i, step) == op[i].step = step
StepTo(i, step) == op' = [op EXCEPT ![i].step = step] /\ UNCHANGED lock
Phase(i, step, phase) ==
    op' = [op EXCEPT ![i].step = step, ![i].phase = phase, ![i].payload = Missing] /\ UNCHANGED lock

\* The operation is over, but for what it deferred.
End(i, result) ==
    /\ op' = [op EXCEPT ![i].step = result, ![i].payload = Missing, ![i].temporary = Missing]
    /\ UNCHANGED lock

\* A step that could work fails only by a fault.
Fails(couldWork) == IF couldWork THEN faults + crashes < MaxTroubles /\ faults' = faults + 1
                    ELSE UNCHANGED faults

\* startWithInstallationLock returned: nil, or an error.
StartDone(i) == End(i, IF op[i].kind = "start" \/ op[i].phase = "new" THEN "ok" ELSE "failed")
StartFailed(i) ==
    IF op[i].phase = "new" THEN Phase(i, "preserve", "old") ELSE End(i, "failed")

\* installVerifiedRelease or installBundledAtomic returned.
Upgrades(i)    == op[i].kind = "upgrade" /\ op[i].phase = "change"
InstallDone(i) == StepTo(i, IF Upgrades(i) THEN "want" ELSE "conf")
InstallFailed(i) == IF Upgrades(i) /\ op[i].was THEN Phase(i, "ensure", "again")
                    ELSE IF Upgrades(i) THEN End(i, "failed")
                    ELSE StartFailed(i)

\* swapWithRollback returned.
SwapDone(i) ==
    /\ op' = [op EXCEPT ![i].step = IF op[i].phase = "change" THEN "want" ELSE "ensure",
                        ![i].temporary = Missing]
    /\ UNCHANGED lock

-----------------------------------------------------------------------------
(* Start, Upgrade, Rollback                                                *)

Init ==
    /\ live \in {Missing} \cup
                 {[release |-> "old", state |-> "whole", yaml |-> y] : y \in {{}, {Operator}}}
    /\ backup = Missing /\ strays = {}
    /\ lock = Nobody
    /\ op = [i \in Instances |-> Idle]
    /\ java = [i \in Instances |-> FALSE]
    /\ faults = 0 /\ crashes = 0

\* Fault: the lock keeps nobody out.
LockIgnored == TRUE

\* TryLockContext; a caller that gives up waiting has changed nothing.
LockFree == lock = Nobody

Begin(i, kind) ==
    /\ At(i, "idle") /\ LockFree
    /\ lock' = i
    /\ op' = [op EXCEPT ![i] = [Idle EXCEPT
                 !.step = IF kind = "start" THEN "ensure" ELSE "check",
                 !.kind = kind, !.began = live]]
    /\ UNCHANGED <<Disk, java, faults, crashes>>

\* Fault: only the instance's own process matters.
InUseNever(i) == FALSE

\* checkInstallationIdle: a process whose directory is live and that is not
\* this instance's.
InUse(i) == Installed(live) /\ \E j \in Instances \ {i} : java[j]

\* Refused where the program is in use, and where that cannot be told: the
\* record of its own process cannot be trusted or lsof does not answer.
Check(i) ==
    /\ At(i, "check")
    /\ \/ Installed(live) /\ End(i, "failed")
       \/ ~InUse(i) /\ StepTo(i, "stop")
    /\ UNCHANGED <<Disk, java, faults, crashes>>

\* acquireProcessLock and stopProcess
Stop(i) ==
    /\ At(i, "stop")
    /\ \/ /\ java' = [java EXCEPT ![i] = FALSE]
          /\ \E was \in {FALSE, java[i]} :
                op' = [op EXCEPT ![i].was = was,
                          ![i].step = IF op[i].kind = "upgrade" THEN "stage" ELSE "preserve"]
          /\ UNCHANGED <<lock, faults>>
       \/ Fails(TRUE) /\ End(i, "failed") /\ UNCHANGED java
    /\ UNCHANGED <<Disk, crashes>>

\* The operator's intent decides whether the changed installation is started.
Want(i) ==
    /\ At(i, "want")
    /\ \/ End(i, "ok")
       \/ Phase(i, "ensure", "new")
    /\ UNCHANGED <<Disk, java, faults, crashes>>

-----------------------------------------------------------------------------
(* ensureInstalled and ensureRunning                                       *)

\* MkdirAll(stateDir) comes first.
Ensure(i) ==
    /\ At(i, "ensure")
    /\ live' = IF live = Missing /\ StateInside
               THEN [release |-> "old", state |-> "husk", yaml |-> {}] ELSE live
    /\ StepTo(i, IF Installed(live) THEN "conf" ELSE "stage")
    /\ UNCHANGED <<backup, strays, java, faults, crashes>>

\* ensureGatewayConf
Conf(i) ==
    /\ At(i, "conf")
    /\ \/ /\ live' = [live EXCEPT !.yaml = @ \cup {i}]
          /\ StepTo(i, "run") /\ UNCHANGED faults
       \/ Fails(TRUE) /\ StartFailed(i) /\ UNCHANGED live
    /\ UNCHANGED <<backup, strays, java, crashes>>

\* A whole release may fail to start as well; that is no fault of the disk.
\* stopProcess follows a start that failed.
Run(i) ==
    /\ At(i, "run")
    /\ \/ (java[i] \/ Whole(live)) /\ java' = [java EXCEPT ![i] = TRUE] /\ StartDone(i)
       \/ java' = [java EXCEPT ![i] = FALSE] /\ StartFailed(i)
    /\ UNCHANGED <<Disk, faults, crashes>>

-----------------------------------------------------------------------------
(* installVerifiedRelease, installBundledAtomic, activateStagedGateway     *)

Staged(yaml) == [release |-> "pinned", state |-> "whole", yaml |-> yaml]

\* Fault: files that are no instance's are left behind.
PreservedOwn(from, to) == YamlOf(to) \cup (YamlOf(from) \ {Operator})

\* preserveGatewayConfigs
Preserved(from, to) == YamlOf(to) \cup YamlOf(from)

\* Fault: the old backup is removed even when nothing takes its place.
AlwaysCleared == TRUE

\* hadLive
HadLive == Installed(live)

\* Download, verify, extract, prepareStagedGateway.
Stage(i) ==
    /\ At(i, "stage")
    /\ \/ /\ op' = [op EXCEPT ![i].payload = Staged(Preserved(live, Missing)),
                              ![i].had = HadLive,
                              ![i].step = IF HadLive THEN "clear" ELSE "place"]
          /\ UNCHANGED <<lock, faults>>
       \/ Fails(TRUE) /\ InstallFailed(i)
    /\ UNCHANGED <<Disk, java, crashes>>

\* RemoveAll(backup)
Clear(i) ==
    /\ At(i, "clear")
    /\ \/ backup' = Missing /\ StepTo(i, "retire") /\ UNCHANGED faults
       \/ backup' \in Torn(backup) /\ Fails(TRUE) /\ InstallFailed(i)
    /\ UNCHANGED <<live, strays, java, crashes>>

\* Rename(live, backup)
Retire(i) ==
    /\ At(i, "retire")
    /\ LET can == CanMove(live, backup) IN
       \/ /\ can /\ live' = Missing /\ backup' = live
          /\ StepTo(i, "place") /\ UNCHANGED faults
       \/ Fails(can) /\ InstallFailed(i) /\ UNCHANGED <<live, backup>>
    /\ UNCHANGED <<strays, java, crashes>>

\* Fault: a failed activation is only reported.
ReportOnly(i) == InstallFailed(i)

\* What was live is put back, if anything was.
PutBack(i) == IF op[i].had THEN StepTo(i, "unplace") ELSE InstallFailed(i)

\* Rename(payload, live)
Place(i) ==
    /\ At(i, "place")
    /\ LET can == CanMove(op[i].payload, live) IN
       \/ /\ can /\ live' = op[i].payload
          /\ op' = [op EXCEPT ![i].payload = Missing, ![i].step = "secure"]
          /\ UNCHANGED <<lock, faults>>
       \/ Fails(can) /\ PutBack(i) /\ UNCHANGED live
    /\ UNCHANGED <<backup, strays, java, crashes>>

\* The renames that put things back; their errors are ignored.
Unplace(i) ==
    /\ At(i, "unplace")
    /\ LET can == CanMove(backup, live) IN
       \/ can /\ live' = backup /\ backup' = Missing /\ UNCHANGED faults
       \/ Fails(can) /\ UNCHANGED <<live, backup>>
    /\ InstallFailed(i)
    /\ UNCHANGED <<strays, java, crashes>>

\* secureGatewayRuntime(live)
Secure(i) ==
    /\ At(i, "secure")
    /\ \/ InstallDone(i) /\ UNCHANGED faults
       \/ /\ Fails(TRUE)
          /\ IF op[i].had THEN StepTo(i, "discard") ELSE InstallFailed(i)
    /\ UNCHANGED <<Disk, java, crashes>>

\* RemoveAll(live), before the backup is put back
Discard(i) ==
    /\ At(i, "discard")
    /\ \/ live' = Missing /\ UNCHANGED faults
       \/ live' \in Torn(live) /\ Fails(TRUE)
    /\ StepTo(i, "unplace")
    /\ UNCHANGED <<backup, strays, java, crashes>>

-----------------------------------------------------------------------------
(* swapWithRollback                                                        *)

\* preserveGatewayConfigs copies file by file.
Preserve(i) ==
    /\ At(i, "preserve")
    /\ \/ ~Installed(backup) /\ End(i, "failed") /\ UNCHANGED <<backup, faults>>
       \/ /\ Installed(backup)
          /\ backup' = [backup EXCEPT !.yaml = Preserved(live, backup)]
          /\ StepTo(i, "aside") /\ UNCHANGED faults
       \/ /\ Installed(backup) /\ Fails(TRUE) /\ End(i, "failed")
          /\ \E some \in SUBSET YamlOf(live) : backup' = [backup EXCEPT !.yaml = @ \cup some]
    /\ UNCHANGED <<live, strays, java, crashes>>

\* Rename(live, temporary)
Aside(i) ==
    /\ At(i, "aside")
    /\ \/ /\ live # Missing /\ live' = Missing
          /\ op' = [op EXCEPT ![i].temporary = live, ![i].step = "restore"]
          /\ UNCHANGED <<lock, faults>>
       \/ Fails(live # Missing) /\ End(i, "failed") /\ UNCHANGED live
    /\ UNCHANGED <<backup, strays, java, crashes>>

\* Rename(backup, live)
Restore(i) ==
    /\ At(i, "restore")
    /\ LET can == CanMove(backup, live) IN
       \/ can /\ live' = backup /\ backup' = Missing /\ StepTo(i, "keep") /\ UNCHANGED faults
       \/ Fails(can) /\ StepTo(i, "unaside") /\ UNCHANGED <<live, backup>>
    /\ UNCHANGED <<strays, java, crashes>>

Unaside(i) ==
    /\ At(i, "unaside")
    /\ LET can == CanMove(op[i].temporary, live) IN
       \/ can /\ live' = op[i].temporary /\ UNCHANGED <<strays, faults>>
       \/ Fails(can) /\ strays' = strays \cup {op[i].temporary} /\ UNCHANGED live
    /\ End(i, "failed")
    /\ UNCHANGED <<backup, java, crashes>>

\* Rename(temporary, backup), then secureGatewayRuntime(live)
Keep(i) ==
    /\ At(i, "keep")
    /\ LET can == CanMove(op[i].temporary, backup) IN
       \/ /\ can /\ backup' = op[i].temporary /\ UNCHANGED strays
          /\ \/ SwapDone(i) /\ UNCHANGED faults
             \/ Fails(TRUE) /\ End(i, "failed")
       \/ /\ Fails(can) /\ End(i, "failed")
          /\ strays' = strays \cup {op[i].temporary} /\ UNCHANGED backup
    /\ UNCHANGED <<live, java, crashes>>

\* The deferred calls: the stage directory is removed, the lock released.
Return(i) ==
    /\ op[i].step \in {"ok", "failed"}
    /\ op' = [op EXCEPT ![i] = Idle]
    /\ lock' = Nobody
    /\ UNCHANGED <<Disk, java, faults, crashes>>

-----------------------------------------------------------------------------
(* The world around the operations.                                        *)

\* The manager dies; a removal or a launch under way is done in part.
Crash(i) ==
    /\ ~At(i, "idle") /\ faults + crashes < MaxTroubles
    /\ crashes' = crashes + 1
    /\ lock' = Nobody
    /\ op' = [op EXCEPT ![i] = Idle]
    /\ strays' = strays \cup ({op[i].temporary} \ {Missing})
    /\ IF At(i, "clear") THEN backup' \in Torn(backup) ELSE UNCHANGED backup
    /\ IF At(i, "discard") THEN live' \in Torn(live) ELSE UNCHANGED live
    /\ \E alive \in {java[i], At(i, "run") /\ Whole(live)} : java' = [java EXCEPT ![i] = alive]
    /\ UNCHANGED faults

\* Java dies, or the operator stops the instance, which takes no lock.
JavaEnds(i) ==
    /\ java[i] /\ java' = [java EXCEPT ![i] = FALSE]
    /\ UNCHANGED <<Disk, lock, op, faults, crashes>>

OperatorWrites ==
    /\ Installed(live) /\ Operator \notin live.yaml
    /\ live' = [live EXCEPT !.yaml = @ \cup {Operator}]
    /\ UNCHANGED <<backup, strays, lock, op, java, faults, crashes>>

Proceed(i) ==
    \/ Check(i) \/ Stop(i) \/ Want(i) \/ Ensure(i) \/ Conf(i) \/ Run(i)
    \/ Stage(i) \/ Clear(i) \/ Retire(i) \/ Place(i) \/ Unplace(i) \/ Secure(i) \/ Discard(i)
    \/ Preserve(i) \/ Aside(i) \/ Restore(i) \/ Unaside(i) \/ Keep(i)
    \/ Return(i)

Next ==
    \/ \E i \in Instances :
          \/ \E kind \in Kinds : Begin(i, kind)
          \/ Proceed(i) \/ Crash(i) \/ JavaEnds(i)
    \/ OperatorWrites

Spec == Init /\ [][Next]_vars

-----------------------------------------------------------------------------
(* Properties                                                              *)

Busy(i)  == ~At(i, "idle")
Copies   == ({live, backup} \cup strays \cup {op[i].temporary : i \in Instances}) \ {Missing}

\* The types, and that the lock is held exactly by the one instance that is
\* in an operation.
TypeOK ==
    /\ live \in Slot /\ backup \in Slot /\ strays \subseteq Copy
    /\ lock \in Instances \cup {Nobody}
    /\ op \in [Instances -> Operation]
    /\ java \in [Instances -> BOOLEAN]
    /\ faults \in 0..MaxTroubles /\ crashes \in 0..MaxTroubles
    /\ \A i \in Instances : Busy(i) <=> lock = i

\* Whatever step fails, and wherever the manager dies, a complete copy of the
\* program stays on the disk: no rename or removal takes the last one, as long
\* as no removal left a copy that only looks installed.
SomeCompleteCopy ==
    (Copies # {} /\ \A c \in Copies : c.state # "partial") => \E c \in Copies : Whole(c)

SameProgram(c, d) == \/ c = d
                     \/ /\ c # Missing /\ d # Missing
                        /\ c.release = d.release /\ c.state = d.state /\ c.yaml \subseteq d.yaml

\* No file of the program moves while a Java process of any instance runs
\* from it: the check, the stop and the lock together keep them apart.
NotUnderJava ==
    [][\/ SameProgram(live, live')
       \/ \A i \in Instances : ~java[i]]_vars

\* What an operation that succeeds changes keeps every configuration that was
\* there when it began, the operator's own files included.
ConfigsKept == \A i \in Instances : At(i, "ok") => YamlOf(op[i].began) \subseteq YamlOf(live)

\* An operation that fails has put back the program it began with if nothing
\* else went wrong, and after one fault of the disk there still is a complete
\* one to start.
OneFailureIsSurvived ==
    \A i \in Instances : At(i, "failed") /\ crashes = 0 /\ Whole(op[i].began) =>
        /\ faults = 0 => Whole(live) /\ live.release = op[i].began.release
        /\ faults <= 1 => Whole(live)

\* manager.html:51 and manager.js:95: an empty directory gets the complete
\* program at the first start.
FirstStartInstalls ==
    \A i \in Instances : faults = 0 /\ crashes = 0 /\ op[i].kind = "start"
        /\ op[i].step \in {"ok", "failed"} => Installed(live)
=============================================================================
