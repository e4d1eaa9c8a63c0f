-------------------------- MODULE GatewayLifecycle --------------------------
(***************************************************************************)
(* The lifecycle of one managed instance and its keepalive supervisor:     *)
(* gateway/gateway.go, gateway/tickler.go and gateway/reconfigure.go.      *)
(*                                                                         *)
(* Operations are long: they stop a process, install files, wait for Java  *)
(* and send requests, all under opMu.  Supervisor goroutines come and go   *)
(* around them: an operation cancels the context of the current one and    *)
(* starts another, while the cancelled one may still be waiting for opMu   *)
(* or on its way out under mu.  A goroutine's generation is only compared  *)
(* with the current one, so it is kept as whether they are equal.          *)
(*                                                                         *)
(* What refreshSession asks and decides is the subject of GatewaySession;  *)
(* here a refresh is one step with its effect on the shared fields.        *)
(***************************************************************************)
EXTENDS Naturals, FiniteSets, Sequences

CONSTANTS
    Supervisors,    \* goroutine identities, reused once they have returned
    Contexts,       \* context identities, reused once nothing refers to them
    None,           \* no supervisor, no context
    Orders,         \* the orders issued: a subset of AllOrders
    Failing,        \* the steps that may fail: a subset of AllFailing
    Lifecycle,      \* config.GatewayLifecycle: "managed" or "persistent"
    MaxFailures,    \* failed probes before a restart (3)
    MaxRestarts,    \* supervised restarts in one window (3)
    RestartWindow   \* 15 minutes

AllOrders == {"start", "stop", "detach", "restart", "recover", "resume", "logout",
              "upgrade", "rollback", "reconfigure", "shutdown"}
AllFailing == {"lock", "save", "busy", "stop", "install", "swap", "launch"}

ASSUME LifecycleAssumption ==
    /\ None \notin Supervisors \cup Contexts \cup {"operator"}
    /\ "operator" \notin Supervisors
    /\ Orders \subseteq AllOrders /\ Failing \subseteq AllFailing
    /\ Lifecycle \in {"managed", "persistent"}
    /\ MaxFailures \in Nat \ {0}
    /\ MaxRestarts \in Nat \ {0}
    /\ RestartWindow \in Nat \ {0}

VARIABLES
    desired,     \* session.DesiredState
    state,       \* g.state; "busy" is every state of a transition in progress
    ready,       \* session.SessionReady
    online,      \* session.ProcessOnline
    java,        \* the Java process answers on its port
    owned,       \* g.processLock # nil
    ctx,         \* g.ctx
    live,        \* the contexts not cancelled
    rooted,      \* the contexts derived from the daemon's root context
    started,     \* g.monitorsStarted
    current,     \* the goroutine whose generation is g.monitorGeneration
    at,          \* where each supervisor goroutine is
    runs,        \* the context each goroutine was given
    opMu,        \* the holder of opMu: None, "operator" or a supervisor
    op,          \* what the holder is doing
    failures,    \* g.localFailures, counted up to MaxFailures
    restarts,    \* g.restartAttempts, each as the time it still counts for
    starting,    \* the auto-start goroutine has not run yet
    rootDone,    \* the root context is cancelled
    closing,     \* the server is shutting down
    before,      \* the status a configuration transaction would restore
    unrestored   \* history: the last RestoreConfiguration failed

vars == <<desired, state, ready, online, java, owned, ctx, live, rooted, started,
          current, at, runs, opMu, op, failures, restarts, starting, rootDone,
          closing, before, unrestored>>

Intents == {"connected", "logged_out", "stopped"}
States  == {"stopped", "detached", "busy", "running", "auth", "error"}
Steps   == {"none", "stop", "settle", "install", "launch", "undo", "refresh",
            "decide", "tickler", "close", "mend"}
\* "recovery" is a supervisor's restartLocked; the kinds with a dash are the
\* second launches of an upgrade, a rollback or a configuration restore.
Kinds == AllOrders \cup {"none", "autostart", "keepalive", "recovery", "restore",
                         "upgrade-old", "upgrade-back", "rollback-back"}

Idle     == [kind |-> "none", step |-> "none", was |-> FALSE]
NoBefore == [desired |-> "none", running |-> FALSE, detached |-> FALSE]

Init ==
    /\ desired \in Intents
    /\ state = "stopped" /\ ready = FALSE /\ online = FALSE
    /\ java \in BOOLEAN          \* a detached process may have survived
    /\ owned = FALSE
    /\ ctx = None /\ live = {} /\ rooted = {}
    /\ started = FALSE /\ current = None
    /\ at = [m \in Supervisors |-> "none"] /\ runs = [m \in Supervisors |-> None]
    /\ opMu = None /\ op = Idle
    /\ failures = 0 /\ restarts = <<>>
    /\ starting \in BOOLEAN /\ rootDone = FALSE /\ closing = FALSE
    /\ before = NoBefore /\ unrestored = FALSE

loop    == <<ctx, live, rooted, started, current, at, runs>>
view    == <<state, ready, online>>
budget  == <<failures, restarts>>
outside == <<starting, rootDone, closing>>
txn     == <<before, unrestored>>

-----------------------------------------------------------------------------
(* The pieces operations are made of.                                      *)

MayFail(step) == step \in Failing

\* The holder goes on to a step, or the operation is over.
GoOn(kind, step, was) ==
    op' = [kind |-> kind, step |-> step, was |-> was] /\ UNCHANGED opMu
Then(step) == GoOn(op.kind, step, op.was)
Done       == op' = Idle /\ opMu' = None

At(step) == opMu # None /\ op.step = step

\* setLifecycle: every state but running and auth invalidates the session.
SetLifecycle(s) ==
    /\ state' = s
    /\ ready' = (ready /\ s \in {"running", "auth"})

\* cancelMonitoring: the generation moves on, so no goroutine is current.
CancelMonitoring ==
    /\ live' = live \ {ctx}
    /\ ctx' = None /\ started' = FALSE /\ current' = None
    /\ UNCHANGED <<rooted, at, runs>>

FreeContexts == Contexts \ ({ctx} \cup {runs[m] : m \in Supervisors})
FreeSupervisors == {m \in Supervisors : at[m] = "none"}

\* StartTickler, for a context the operation has or makes.
Spawn(c) ==
    IF started THEN UNCHANGED <<started, current, at, runs>>
    ELSE \E m \in FreeSupervisors :
            /\ started' = TRUE /\ current' = m
            /\ at' = [at EXCEPT ![m] = "select"]
            /\ runs' = [runs EXCEPT ![m] = c]

\* Fault: a context is taken to mean that a supervisor runs under it.
EnsureContext ==
    IF ctx # None THEN UNCHANGED loop
    ELSE \E c \in FreeContexts :
            /\ ctx' = c /\ live' = live \cup {c} /\ rooted' = rooted \ {c}
            /\ Spawn(c)

EnsureSessionMonitor ==
    IF ctx # None THEN Spawn(ctx) /\ UNCHANGED <<ctx, live, rooted>>
    ELSE \E c \in FreeContexts :
            /\ ctx' = c /\ live' = live \cup {c} /\ rooted' = rooted \ {c}
            /\ Spawn(c)

-----------------------------------------------------------------------------
(* Orders.  The management API issues one at a time, and none while closing. *)

\* Bounds: an operation starts only when a goroutine and a context are free,
\* since it may need one of each.
Room == FreeSupervisors # {} /\ FreeContexts # {}

Hold(kind, step, was) ==
    /\ opMu' = "operator"
    /\ op' = [kind |-> kind, step |-> step, was |-> was]

\* An order that could take the process lock.
Accepts(kind) ==
    /\ kind \in Orders /\ opMu = None /\ ~closing /\ Room
    /\ owned' = TRUE
    /\ before' = NoBefore
    /\ UNCHANGED unrestored

\* setIntent could not write: the order ends, and the lock stays.
IntentNotSaved ==
    /\ MayFail("save") /\ Orders # {} /\ opMu = None /\ ~closing /\ ~owned
    /\ owned' = TRUE
    /\ UNCHANGED <<desired, view, java, loop, opMu, op, budget, outside, txn>>

\* The lock could not be taken: upgrade and rollback say so, a shutdown goes on
\* without the instance, and the other orders change nothing.
NoLock == MayFail("lock") /\ opMu = None /\ ~closing /\ ~owned

ReplacementRefused ==
    /\ Orders \cap {"upgrade", "rollback"} # {} /\ NoLock
    /\ SetLifecycle("error")
    /\ UNCHANGED <<desired, online, java, owned, loop, opMu, op, budget, outside, txn>>

ShutdownRefused ==
    /\ "shutdown" \in Orders /\ NoLock
    /\ closing' = TRUE
    /\ UNCHANGED <<desired, view, java, owned, loop, opMu, op, budget, starting, rootDone, txn>>

Refused == IntentNotSaved \/ ReplacementRefused \/ ShutdownRefused

Start ==
    /\ Accepts("start")
    /\ desired' = "connected"
    /\ Hold("start", "launch", FALSE)
    /\ UNCHANGED <<view, java, loop, budget, outside>>

\* StopGateway(false) up to stopProcess.
Stop ==
    /\ Accepts("stop")
    /\ desired' = "stopped"
    /\ state' = "busy" /\ ready' = FALSE /\ online' = FALSE
    /\ CancelMonitoring
    /\ Hold("stop", "stop", FALSE)
    /\ UNCHANGED <<java, budget, outside>>

\* Fault: the lock is given up and the supervisor left running.
DetachSupervised ==
    /\ state' = "detached" /\ ready' = FALSE /\ online' = FALSE
    /\ owned' = FALSE
    /\ UNCHANGED loop

\* stopGatewayLocked(true): the process lives on and the lock is given up.
Detach ==
    /\ state' = "detached" /\ ready' = FALSE /\ online' = FALSE
    /\ owned' = FALSE
    /\ CancelMonitoring

\* StopGateway(true).
StopKeepingSession ==
    /\ "detach" \in Orders /\ opMu = None /\ ~closing
    /\ desired' = "stopped"
    /\ Detach
    /\ before' = NoBefore
    /\ UNCHANGED <<java, opMu, op, budget, outside, unrestored>>

\* Server.Shutdown and the manager's own: the intent is left as it is.
Shutdown ==
    /\ "shutdown" \in Orders /\ opMu = None /\ ~closing
    /\ closing' = TRUE /\ before' = NoBefore
    /\ IF Lifecycle = "persistent" THEN Detach /\ UNCHANGED <<opMu, op>>
       ELSE /\ owned' = TRUE
            /\ state' = "busy" /\ ready' = FALSE /\ online' = FALSE
            /\ CancelMonitoring
            /\ Hold("shutdown", "stop", FALSE)
    /\ UNCHANGED <<desired, java, budget, starting, rootDone, unrestored>>

\* restart and restartLocked up to stopProcess.
Restart ==
    /\ Accepts("restart")
    /\ desired' = IF desired = "stopped" THEN "connected" ELSE desired
    /\ SetLifecycle("busy") /\ UNCHANGED online
    /\ CancelMonitoring
    /\ Hold("restart", "stop", FALSE)
    /\ UNCHANGED <<java, budget, outside>>

Recover ==
    /\ Accepts("recover")
    /\ desired' = "connected"
    /\ Hold("recover", "refresh", FALSE)
    /\ UNCHANGED <<view, java, loop, budget, outside>>

ResumeSession ==
    /\ Accepts("resume")
    /\ desired' = "connected" /\ ready' = FALSE
    /\ EnsureSessionMonitor
    /\ UNCHANGED <<state, online, java, opMu, op, budget, outside>>

\* A response to any request shows that the process is there.
SeenOnline == online' \in {online, online \/ java}

Logout ==
    /\ Accepts("logout")
    /\ desired' = "logged_out" /\ ready' = FALSE
    /\ SeenOnline
    /\ UNCHANGED <<state, java, loop, opMu, op, budget, outside>>

\* Upgrade and Rollback up to stopProcess, the installation locked and idle.
ReplaceInstallation(kind) ==
    /\ kind \in {"upgrade", "rollback"} /\ Accepts(kind)
    /\ SetLifecycle("busy") /\ UNCHANGED online
    /\ CancelMonitoring
    /\ Hold(kind, "stop", java)
    /\ UNCHANGED <<desired, java, budget, outside>>

\* Reconfigure up to stopProcess; the service has taken a snapshot first.
Reconfigure ==
    /\ "reconfigure" \in Orders /\ opMu = None /\ ~closing /\ Room
    /\ owned' = TRUE
    /\ before' = [desired |-> desired, running |-> online,
                  detached |-> state = "detached"]
    /\ CancelMonitoring
    /\ Hold("reconfigure", "stop", FALSE)
    /\ UNCHANGED <<desired, view, java, budget, outside, unrestored>>

\* RestoreConfiguration, when the transaction fails after this instance.
RestoreConfiguration ==
    /\ before # NoBefore /\ opMu = None /\ Room
    /\ CancelMonitoring
    /\ Hold("restore", IF owned THEN "stop" ELSE "settle", FALSE)
    /\ UNCHANGED <<desired, view, java, owned, budget, outside, txn>>

\* The goroutine of StartConfigured.
AutoStart ==
    /\ starting /\ opMu = None /\ Room
    /\ starting' = FALSE
    /\ IF closing \/ desired # "connected" THEN UNCHANGED <<opMu, op>>
       ELSE Hold("autostart", "launch", FALSE)
    /\ UNCHANGED <<desired, view, java, owned, loop, budget, rootDone, closing, txn>>

Order ==
    \/ Start \/ Stop \/ StopKeepingSession \/ Shutdown \/ Restart \/ Recover
    \/ ResumeSession \/ Logout \/ Reconfigure \/ RestoreConfiguration
    \/ \E kind \in {"upgrade", "rollback"} : ReplaceInstallation(kind)

-----------------------------------------------------------------------------
(* The steps of an operation in progress.                                  *)

\* A failed restore leaves the instance as it is and is only reported.
Unrestored == Done /\ unrestored' = TRUE /\ before' = NoBefore

\* Fault: the error path returns without unlocking opMu.
FailLocked ==
    /\ SetLifecycle("error")
    /\ op' = Idle /\ UNCHANGED opMu

\* failLifecycle; a supervisor that could not restart replaces itself.
FailLifecycle ==
    /\ SetLifecycle("error")
    /\ IF op.kind = "recovery" THEN Then("mend") ELSE Done

StopFails ==
    /\ At("stop") /\ MayFail("stop")
    /\ IF op.kind = "restore" THEN Unrestored /\ UNCHANGED <<state, ready>>
       ELSE FailLifecycle /\ UNCHANGED txn
    /\ UNCHANGED <<desired, online, java, owned, loop, budget, outside>>

\* Fault: the signal is sent and nobody waits.
Signalled == java' \in {java, FALSE} /\ online' = FALSE

\* terminateProcess: signal, wait until it is gone, kill after five seconds.
\* It does not wait for the kill (process.go:457), which is taken as had at once.
Terminated == java' = FALSE /\ online' = FALSE

StopSucceeds ==
    /\ At("stop")
    /\ Terminated
    /\ \/ /\ op.kind \in {"stop", "shutdown"}
          /\ owned' = FALSE /\ SetLifecycle("stopped") /\ Done
       \/ /\ op.kind \in {"restart", "recovery"}
          /\ Then("launch") /\ UNCHANGED <<owned, state, ready>>
       \/ /\ op.kind \in {"upgrade", "rollback"}
          /\ Then("install") /\ UNCHANGED <<owned, state, ready>>
       \/ /\ op.kind \in {"reconfigure", "restore"}
          /\ owned' = FALSE /\ Then("settle") /\ UNCHANGED state
          /\ ready' = (ready /\ op.kind = "restore")
    /\ UNCHANGED <<desired, loop, budget, outside, txn>>

\* Under the new configuration (reconfigure) or the old one again (restore):
\* the lock of its state directory, the intent beside it, and a launch if due.
SettleFails ==
    /\ At("settle")
    /\ \/ MayFail("lock") /\ ~owned /\ UNCHANGED owned
       \/ MayFail("save") /\ owned' = TRUE
    /\ IF op.kind = "restore" THEN Unrestored ELSE Done /\ UNCHANGED txn
    /\ UNCHANGED <<desired, view, java, loop, budget, outside>>

Settle ==
    /\ At("settle")
    /\ ready' = FALSE
    /\ IF op.kind = "restore"
       THEN /\ desired' = before.desired
            /\ online' = (online /\ before.desired # "stopped")
            /\ IF before.running \/ before.detached
               THEN Then("launch") /\ owned' = TRUE /\ UNCHANGED <<state, txn>>
               ELSE Done /\ owned' = FALSE /\ state' = "stopped"
                    /\ before' = NoBefore /\ unrestored' = FALSE
       ELSE /\ owned' = TRUE
            /\ IF desired = "connected"
               THEN Then("launch") /\ UNCHANGED <<state, online>>
               ELSE Done /\ state' = "stopped" /\ online' = FALSE
            /\ UNCHANGED <<desired, txn>>
    /\ UNCHANGED <<java, loop, budget, outside>>

\* installVerifiedRelease of an upgrade, swapWithRollback of a rollback.
InstallFails ==
    /\ At("install")
    /\ \/ op.kind = "upgrade" /\ MayFail("install")
       \/ op.kind = "rollback" /\ MayFail("swap")
    /\ IF op.kind = "upgrade" /\ op.was
       THEN GoOn("upgrade-old", "launch", op.was) /\ UNCHANGED <<state, ready>>
       ELSE FailLifecycle
    /\ UNCHANGED <<desired, online, java, owned, loop, budget, outside, txn>>

Install ==
    /\ At("install")
    /\ IF desired = "stopped"
       THEN SetLifecycle("stopped") /\ online' = FALSE /\ Done
       ELSE Then("launch") /\ UNCHANGED view
    /\ UNCHANGED <<desired, java, owned, loop, budget, outside, txn>>

\* lockInstallation: upgrade and rollback hold that lock already.
LaunchRefused ==
    /\ At("launch") /\ MayFail("busy")
    /\ \/ /\ op.kind \in {"start", "autostart"}
          /\ Done /\ UNCHANGED <<state, ready, txn>>
       \/ /\ op.kind = "restore"
          /\ Unrestored /\ UNCHANGED <<state, ready>>
       \/ /\ op.kind \in {"restart", "recovery", "reconfigure"}
          /\ FailLifecycle /\ UNCHANGED txn
    /\ UNCHANGED <<desired, online, java, owned, loop, budget, outside>>

\* startWithInstallationLock begins: the run gets a context of its own, which
\* ends with the root context only when the daemon started it by itself.
NewRunContext ==
    \E c \in FreeContexts :
        /\ ctx' = c
        /\ live' = (live \ {ctx}) \cup {c}
        /\ rooted' = IF op.kind = "autostart" THEN rooted \cup {c} ELSE rooted \ {c}
        /\ started' = FALSE /\ current' = None
        /\ UNCHANGED <<at, runs>>

LaunchFails ==
    /\ At("launch") /\ MayFail("launch")
    /\ owned' = TRUE
    /\ NewRunContext
    /\ java' \in {java, FALSE}
    /\ CASE op.kind \in {"upgrade", "rollback"} ->
              SetLifecycle("error") /\ Then("undo") /\ UNCHANGED txn
         [] op.kind = "restore" -> SetLifecycle("error") /\ Unrestored
         [] OTHER -> FailLifecycle /\ UNCHANGED txn
    /\ UNCHANGED <<desired, online, budget, outside>>

Launch ==
    /\ At("launch")
    /\ owned' = TRUE
    /\ NewRunContext
    /\ java' = TRUE
    /\ state' = "running" /\ ready' = FALSE /\ online' = (desired # "stopped")
    /\ Then(IF desired = "connected" THEN "refresh" ELSE "tickler")
    /\ UNCHANGED <<desired, budget, outside, txn>>

\* The new version did not start: stop it as far as possible and swap back.
Undo ==
    /\ At("undo")
    /\ \/ Terminated
       \/ MayFail("stop") /\ UNCHANGED <<java, online>>
    /\ \/ /\ GoOn(IF op.kind = "upgrade" THEN "upgrade-back" ELSE "rollback-back",
                  "launch", op.was)
          /\ UNCHANGED <<state, ready>>
       \/ MayFail("swap") /\ FailLifecycle
    /\ UNCHANGED <<desired, owned, loop, budget, outside, txn>>

\* An auto-start is the one launch that has not taken the lock before.
LaunchNotOwned ==
    /\ At("launch") /\ MayFail("lock") /\ ~owned
    /\ CancelMonitoring
    /\ FailLifecycle
    /\ UNCHANGED <<desired, online, java, owned, budget, outside, txn>>

Alive(c) == c \in live /\ ~(c \in rooted /\ rootDone)

\* The context of a refresh: the goroutine's own, that of the run, or that of
\* the request, which may be dead at any time.
RefreshLive ==
    CASE op.kind = "keepalive" -> {Alive(runs[opMu])}
      [] op.kind = "recover"   -> BOOLEAN
      [] OTHER                 -> {Alive(ctx)}

AfterRefresh == Then(IF op.kind = "keepalive" THEN "decide" ELSE "tickler")

\* The request reached nobody: the only evidence that Java is gone.
RefreshUnreachable ==
    /\ At("refresh") /\ ~java /\ TRUE \in RefreshLive
    /\ failures' = IF failures < MaxFailures THEN failures + 1 ELSE failures
    /\ online' = FALSE /\ ready' = FALSE
    /\ AfterRefresh
    /\ UNCHANGED <<desired, state, java, owned, loop, restarts, outside, txn>>

\* Java answered, and the session is ready, needs a login, or neither.
RefreshAnswered ==
    /\ At("refresh") /\ java /\ TRUE \in RefreshLive
    /\ failures' = 0 /\ online' = TRUE
    /\ \/ ready' = TRUE /\ state' = "running"
       \/ ready' = FALSE /\ state' \in {"running", "auth"}
    /\ AfterRefresh
    /\ UNCHANGED <<desired, java, owned, loop, restarts, outside, txn>>

\* Fault: a slow answer is evidence against the process.
RefreshBlames ==
    /\ At("refresh") /\ java /\ TRUE \in RefreshLive
    /\ failures' = IF failures < MaxFailures THEN failures + 1 ELSE failures
    /\ ready' = FALSE
    /\ state' = IF online THEN "running" ELSE state
    /\ AfterRefresh
    /\ UNCHANGED <<desired, online, java, owned, loop, restarts, outside, txn>>

\* It answered too late or not over HTTP: no evidence against the process.
RefreshTimesOut ==
    /\ At("refresh") /\ java /\ TRUE \in RefreshLive
    /\ failures' = 0 /\ ready' = FALSE
    /\ state' = IF online THEN "running" ELSE state
    /\ AfterRefresh
    /\ UNCHANGED <<desired, online, java, owned, loop, restarts, outside, txn>>

\* Its context is gone, perhaps after an answer: observe() publishes nothing.
RefreshAborted ==
    /\ At("refresh") /\ FALSE \in RefreshLive
    /\ failures' \in {failures} \cup (IF java THEN {0} ELSE {})
    /\ SeenOnline
    /\ AfterRefresh
    /\ UNCHANGED <<desired, state, ready, java, owned, loop, restarts, outside, txn>>

\* StartTickler at the end of a launch, ensureSessionMonitor of a recover.
StartTickler ==
    /\ At("tickler")
    /\ EnsureSessionMonitor
    /\ IF op.kind \in {"upgrade-old", "rollback-back", "upgrade-back", "restore"}
       THEN Then("close") /\ UNCHANGED view
       ELSE Done /\ UNCHANGED view
    /\ UNCHANGED <<desired, java, owned, budget, outside, txn>>

\* What an upgrade, a rollback or a restore still does after its last launch.
Close ==
    /\ At("close") /\ Done
    /\ CASE op.kind \in {"upgrade-old", "rollback-back"} ->
              SetLifecycle("error") /\ UNCHANGED <<online, owned, loop, txn>>
         [] op.kind = "upgrade-back" ->
              SetLifecycle("running") /\ UNCHANGED <<online, owned, loop, txn>>
         [] op.kind = "restore" ->
              /\ before' = NoBefore /\ unrestored' = FALSE
              /\ IF before.detached THEN Detach ELSE UNCHANGED <<view, owned, loop>>
    /\ UNCHANGED <<desired, java, budget, outside>>

-----------------------------------------------------------------------------
(* The supervisor goroutine.                                               *)

\* The timer or a wake, then the wait for opMu.
SupervisorWakes(m) ==
    /\ at[m] = "select" /\ Alive(runs[m])
    /\ at' = [at EXCEPT ![m] = "locking"]
    /\ UNCHANGED <<desired, view, java, owned, ctx, live, rooted, started,
                   current, runs, opMu, op, budget, outside, txn>>

\* With opMu it looks at its context once more: the operation it waited for
\* may have cancelled it.
SupervisorLocks(m) ==
    /\ at[m] = "locking" /\ opMu = None /\ Alive(runs[m]) /\ Room
    /\ IF desired = "connected"
       THEN /\ opMu' = m /\ op' = [kind |-> "keepalive", step |-> "refresh", was |-> FALSE]
            /\ at' = [at EXCEPT ![m] = "working"]
       ELSE at' = [at EXCEPT ![m] = "select"] /\ UNCHANGED <<opMu, op>>
    /\ UNCHANGED <<desired, view, java, owned, ctx, live, rooted, started,
                   current, runs, budget, outside, txn>>

SupervisorCancelled(m) ==
    /\ at[m] = "select" \/ (at[m] = "locking" /\ opMu = None)
    /\ ~Alive(runs[m])
    /\ at' = [at EXCEPT ![m] = "exit"]
    /\ UNCHANGED <<desired, view, java, owned, ctx, live, rooted, started,
                   current, runs, opMu, op, budget, outside, txn>>

\* Fault: attempts are never forgotten.
CountingAll == restarts

\* shouldRestartProcess: the attempts that still count are those younger than
\* the window, the last ones of the list.
Expired  == {i \in DOMAIN restarts : restarts[i] = 0}
Counting == SubSeq(restarts, Cardinality(Expired) + 1, Len(restarts))

\* Fault: no budget.
RestartWhenever == Alive(runs[opMu]) /\ desired = "connected" /\ failures >= MaxFailures

ShouldRestart ==
    /\ Alive(runs[opMu]) /\ desired = "connected" /\ failures >= MaxFailures
    /\ Len(Counting) < MaxRestarts

KeepLooping ==
    /\ At("decide") /\ ~ShouldRestart
    /\ Done
    /\ at' = [at EXCEPT ![opMu] = "select"]
    /\ UNCHANGED <<desired, view, java, owned, ctx, live, rooted, started,
                   current, runs, budget, outside, txn>>

\* restartLocked in the supervisor, up to stopProcess.
RestartProcess ==
    /\ At("decide") /\ ShouldRestart
    /\ restarts' = Append(Counting, RestartWindow) /\ failures' = 0
    /\ owned' = TRUE
    /\ SetLifecycle("busy") /\ UNCHANGED online
    /\ CancelMonitoring
    /\ GoOn("recovery", "stop", FALSE)
    /\ UNCHANGED <<desired, java, outside, txn>>

\* A failed restart may have cancelled this monitor before it had another.
Mend ==
    /\ At("mend") /\ Done
    /\ EnsureSessionMonitor
    /\ UNCHANGED <<desired, view, java, owned, budget, outside, txn>>

\* After a restart the goroutine that did it has opMu no more and returns.
SupervisorLeaves(m) ==
    /\ at[m] = "working" /\ opMu # m
    /\ at' = [at EXCEPT ![m] = "exit"]
    /\ UNCHANGED <<desired, view, java, owned, ctx, live, rooted, started,
                   current, runs, opMu, op, budget, outside, txn>>

\* Fault: a goroutine that was replaced clears the flag of its replacement.
SupervisorClears(m) ==
    /\ at[m] = "exit"
    /\ at' = [at EXCEPT ![m] = "none"] /\ runs' = [runs EXCEPT ![m] = None]
    /\ started' = FALSE /\ current' = None
    /\ ready' = (ready /\ ~(~Alive(runs[m]) /\ desired = "connected"))
    /\ UNCHANGED <<desired, state, online, java, owned, ctx, live, rooted, opMu,
                   op, budget, outside, txn>>

\* The deferred function: under mu alone, and only for the current generation.
SupervisorReturns(m) ==
    /\ at[m] = "exit"
    /\ at' = [at EXCEPT ![m] = "none"] /\ runs' = [runs EXCEPT ![m] = None]
    /\ IF current = m
       THEN /\ started' = FALSE /\ current' = None
            /\ ready' = (ready /\ ~(~Alive(runs[m]) /\ desired = "connected"))
       ELSE UNCHANGED <<started, current, ready>>
    /\ UNCHANGED <<desired, state, online, java, owned, ctx, live, rooted, opMu,
                   op, budget, outside, txn>>

-----------------------------------------------------------------------------
(* What happens to the instance from outside.                              *)

JavaDies ==
    /\ java /\ java' = FALSE
    /\ UNCHANGED <<desired, view, owned, loop, opMu, op, budget, outside, txn>>

RootCancel ==
    /\ ~rootDone /\ rootDone' = TRUE
    /\ UNCHANGED <<desired, view, java, owned, loop, opMu, op, budget, starting,
                   closing, txn>>

Age ==
    /\ \E i \in DOMAIN restarts : restarts[i] > 0
    /\ restarts' = [i \in DOMAIN restarts |->
                      IF restarts[i] > 0 THEN restarts[i] - 1 ELSE 0]
    /\ UNCHANGED <<desired, view, java, owned, loop, opMu, op, failures, outside,
                   txn>>

\* The daemon ends and another begins: the intent is on disk, Java may live on.
NewDaemon ==
    /\ state' = "stopped" /\ ready' = FALSE /\ online' = FALSE
    /\ owned' = FALSE
    /\ ctx' = None /\ live' = {} /\ rooted' = {}
    /\ started' = FALSE /\ current' = None
    /\ at' = [m \in Supervisors |-> "none"] /\ runs' = [m \in Supervisors |-> None]
    /\ opMu' = None /\ op' = Idle
    /\ failures' = 0 /\ restarts' = <<>>
    /\ starting' \in BOOLEAN /\ rootDone' = FALSE /\ closing' = FALSE
    /\ before' = NoBefore /\ unrestored' = FALSE
    /\ UNCHANGED <<desired, java>>

-----------------------------------------------------------------------------
Progress ==
    \/ StopSucceeds \/ Settle \/ Install \/ Launch \/ Undo
    \/ RefreshUnreachable \/ RefreshAnswered \/ RefreshTimesOut \/ RefreshAborted
    \/ StartTickler \/ Close \/ KeepLooping \/ RestartProcess \/ Mend

Failure ==
    \/ StopFails \/ SettleFails \/ InstallFails \/ LaunchRefused \/ LaunchFails
    \/ LaunchNotOwned

Returning(m) == SupervisorLeaves(m) \/ SupervisorReturns(m)

Supervisor(m) ==
    \/ SupervisorWakes(m) \/ SupervisorLocks(m) \/ SupervisorCancelled(m)
    \/ Returning(m)

Environment == JavaDies \/ RootCancel \/ Age

Unordered ==
    \/ AutoStart \/ Refused
    \/ Progress \/ Failure
    \/ \E m \in Supervisors : Supervisor(m)
    \/ Environment

Next == Order \/ Unordered \/ NewDaemon

Spec == Init /\ [][Next]_vars

\* Go's scheduler runs every goroutine and its mutex starves nobody; requests,
\* process waits and timers end; a launch or a stop that is tried for ever
\* succeeds at some time.
Fairness ==
    /\ WF_vars(Progress \/ Failure)
    /\ SF_vars(StopSucceeds) /\ SF_vars(Launch)
    /\ WF_vars(Age)
    /\ \A m \in Supervisors :
         /\ WF_vars(SupervisorWakes(m) \/ Returning(m))
         /\ SF_vars(SupervisorLocks(m) \/ SupervisorCancelled(m))

LiveSpec == Spec /\ Fairness

-----------------------------------------------------------------------------
(* Properties.                                                             *)

TypeOK ==
    /\ desired \in Intents /\ state \in States
    /\ ready \in BOOLEAN /\ online \in BOOLEAN
    /\ java \in BOOLEAN /\ owned \in BOOLEAN
    /\ ctx \in Contexts \cup {None}
    /\ live \subseteq Contexts /\ rooted \subseteq Contexts
    /\ started \in BOOLEAN /\ current \in Supervisors \cup {None}
    /\ at \in [Supervisors -> {"none", "select", "locking", "working", "exit"}]
    /\ runs \in [Supervisors -> Contexts \cup {None}]
    /\ opMu \in Supervisors \cup {None, "operator"}
    /\ op \in [kind : Kinds, step : Steps, was : BOOLEAN]
    /\ failures \in 0..MaxFailures
    /\ restarts \in Seq(0..RestartWindow) /\ Len(restarts) <= MaxRestarts
    /\ starting \in BOOLEAN /\ rootDone \in BOOLEAN /\ closing \in BOOLEAN
    /\ before \in [desired : Intents \cup {"none"}, running : BOOLEAN, detached : BOOLEAN]
    /\ unrestored \in BOOLEAN

Supervising(m) == at[m] \in {"select", "locking", "working"} /\ Alive(runs[m])

\* At most one goroutine can still act on the instance, however many are
\* waiting or on their way out: tickler.go 10-11.
SingleSupervisor ==
    \A m, n \in Supervisors : Supervising(m) /\ Supervising(n) => m = n

\* Whoever may still probe, restart or observe the process belongs to a manager
\* that owns the state directory.
SupervisorOwnsInstance == \A m \in Supervisors : Supervising(m) => owned

\* Between operations an instance shown as running, and wanted connected, has a
\* supervisor, unless the root context it ran under is gone or the service has
\* reported that it could not restore the configuration.
KeepaliveNotLost ==
    /\ opMu = None /\ desired = "connected"
    /\ state \in {"running", "auth"} /\ online
    /\ ~(ctx \in rooted /\ rootDone) /\ ~unrestored
    => \E m \in Supervisors : Supervising(m)

\* Every operation, with any of its steps failing, keeps what InstancePromise
\* says: "stopped" is true when it is shown, no process is launched that nobody
\* wants, unless one that ran is put back (gateway.go:384, reconfigure.go:29),
\* and a ready session is the answer of a process to an operator who wants it.
Promise == INSTANCE InstancePromise
    WITH wanted  <- desired,
         process <- java,
         shown   <- IF state \in {"running", "auth"} THEN "serving"
                    ELSE IF state \in {"stopped", "detached"} THEN state ELSE "other",
         seen    <- online,
         ran     <- op.was \/ before.running \/ before.detached
KeepsPromise == Promise!Spec

\* The supervisor restarts a process that did not answer and no other; a slow
\* answer, an HTTP error or an expired login is not evidence: tickler.go 103,
\* session.go 465-466.
AnsweringProcessKept == [][op.kind = "keepalive" /\ op'.kind = "recovery" => ~java]_vars

\* Every operation ends and gives opMu back.
OperationsEnd == opMu # None ~> opMu = None

\* An order that stops or launches the process is at work, and its outcome is
\* told to whoever gave it.
Interrupted == opMu = "operator" /\ op.kind # "recover"

\* A supervised process that died comes back, the restart budget and failed
\* restarts only delaying it, unless such an order intervenes, the operator no
\* longer wants the process, or the daemon ends.
DeadProcessReturns ==
    (~java /\ desired = "connected" /\ \E m \in Supervisors : Supervising(m))
        ~> \/ java \/ desired # "connected" \/ Interrupted
           \/ closing \/ rootDone \/ state = "stopped"

=============================================================================
