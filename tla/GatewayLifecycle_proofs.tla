----------------------- MODULE GatewayLifecycle_proofs -----------------------
(***************************************************************************)
(* The properties of GatewayLifecycle and its implementation of            *)
(* InstancePromise, for every choice of the constants.                     *)
(*                                                                         *)
(* Supervisors outlive the operations that cancel them, so an invariant    *)
(* about the one that supervises has to say what distinguishes it from the *)
(* others: it runs under the context of the instance, the only one that is *)
(* not cancelled, and it is the goroutine of the current generation.       *)
(***************************************************************************)
EXTENDS GatewayLifecycle, SequenceTheorems, FiniteSetTheorems, TLAPS

Active(m) == at[m] \in {"select", "locking", "working"}

\* The only context not cancelled is that of the instance, and the only
\* goroutine that may act under it is the one of the current generation.
LoopShape ==
    /\ live = (IF ctx = None THEN {} ELSE {ctx})
    /\ started = (current # None)
    /\ \A m \in Supervisors : at[m] # "none" => runs[m] # None
    /\ \A m \in Supervisors : Active(m) /\ runs[m] = ctx => current = m
    /\ current # None => at[current] # "none" /\ runs[current] = ctx
    /\ current # None /\ ~Active(current) => ~Alive(ctx)

\* Who holds opMu: a goroutine that works is the current one as long as it only
\* probes, and is not any more once it has restarted the process.
HolderShape ==
    /\ opMu \in Supervisors <=> op.kind \in {"keepalive", "recovery"}
    /\ \A m \in Supervisors : opMu = m => at[m] = "working"
    /\ op.kind = "keepalive" => current = opMu
    /\ op.kind = "recovery" => current # opMu
    /\ \A m \in Supervisors : at[m] = "working" /\ current = m => opMu = m

\* The steps that belong to each kind of operation.
StepShape ==
    /\ opMu = None <=> op.step = "none"
    /\ op.step = "none" <=> op = Idle
    /\ op.kind = "keepalive" => op.step \in {"refresh", "decide"}
    /\ op.step = "decide" => op.kind = "keepalive"
    /\ op.step = "mend" => op.kind = "recovery"
    /\ op.step \in {"install", "undo"} => op.kind \in {"upgrade", "rollback"}
    /\ op.step = "settle" => op.kind \in {"reconfigure", "restore"}
    /\ op.step = "close" => op.kind \in {"upgrade-old", "upgrade-back", "rollback-back", "restore"}
    /\ op.kind = "restore" => before # NoBefore

OpShape == HolderShape /\ StepShape

\* A context belongs to a manager that owns the state directory; what is not
\* owned has been stopped or let go, and what an operation stopped is gone.
OwnShape ==
    /\ ctx # None => owned
    /\ op.step \in {"stop", "settle", "install"} => ctx = None
    /\ op.step \in {"refresh", "tickler", "decide"} \/ op.kind = "recovery" => owned
    /\ op.step \in {"settle", "install"} => ~java /\ ~online
    /\ before # NoBefore => before.desired # "none"
    /\ before # NoBefore /\ ~owned => ~java /\ ~online

Watched == current # None \/ (ctx # None /\ ctx \in rooted /\ rootDone)
Served  == state \in {"running", "auth"} => Watched \/ (~java /\ ~online) \/ unrestored

\* What runs is supervised whenever no operation is under way.
ServedShape ==
    /\ opMu = None => Served
    /\ op.kind \in {"start", "autostart"} /\ op.step = "launch" => Served
    /\ op.step = "close" => Watched

\* What the operation in progress may still do to the process and the session.
PromiseShape ==
    /\ ready => state \in {"running", "auth"} /\ desired = "connected"
    /\ op.step \in {"refresh", "decide"} => desired = "connected"
    /\ op.kind \in {"restart", "recovery"} => desired # "stopped"
    /\ op.step \in {"launch", "undo"} =>
           desired # "stopped" \/ op.was \/ before.running \/ before.detached
    /\ op.step = "decide" /\ failures = MaxFailures /\ Alive(runs[opMu]) => ~java

InstanceInvariant == LoopShape /\ OpShape /\ OwnShape /\ ServedShape /\ PromiseShape

-----------------------------------------------------------------------------
(* Types.                                                                  *)

LoopTypes ==
    /\ ctx \in Contexts \cup {None}
    /\ live \subseteq Contexts /\ rooted \subseteq Contexts
    /\ started \in BOOLEAN /\ current \in Supervisors \cup {None}
    /\ at \in [Supervisors -> {"none", "select", "locking", "working", "exit"}]
    /\ runs \in [Supervisors -> Contexts \cup {None}]

RestartTypes == restarts \in Seq(0..RestartWindow) /\ Len(restarts) <= MaxRestarts

OtherTypes ==
    /\ desired \in Intents /\ state \in States
    /\ ready \in BOOLEAN /\ online \in BOOLEAN
    /\ java \in BOOLEAN /\ owned \in BOOLEAN
    /\ opMu \in Supervisors \cup {None, "operator"}
    /\ op \in [kind : Kinds, step : Steps, was : BOOLEAN]
    /\ failures \in 0..MaxFailures
    /\ starting \in BOOLEAN /\ rootDone \in BOOLEAN /\ closing \in BOOLEAN
    /\ before \in [desired : Intents \cup {"none"}, running : BOOLEAN, detached : BOOLEAN]
    /\ unrestored \in BOOLEAN

\* The type invariant by the parts that the proofs below take separately.
LEMMA TypeParts == TypeOK <=> LoopTypes /\ RestartTypes /\ OtherTypes
  BY DEF TypeOK, LoopTypes, RestartTypes, OtherTypes

\* The four ways to change the goroutines and their contexts, but for what a
\* goroutine does to itself.
LoopStep ==
    \/ UNCHANGED loop \/ CancelMonitoring \/ NewRunContext \/ EnsureSessionMonitor

\* Each of them keeps the types.
LEMMA LoopStepTyped ==
    ASSUME LoopTypes, LoopStep PROVE LoopTypes'
  <1> USE LifecycleAssumption
  <1>1. CASE UNCHANGED loop
    BY <1>1 DEF LoopTypes, loop
  <1>2. CASE CancelMonitoring
    BY <1>2 DEF LoopTypes, CancelMonitoring
  <1>3. CASE NewRunContext
    BY <1>3 DEF LoopTypes, NewRunContext, FreeContexts
  <1>4. ASSUME NEW c \in Contexts, Spawn(c)
        PROVE  /\ started' \in BOOLEAN /\ current' \in Supervisors \cup {None}
               /\ at' \in [Supervisors -> {"none", "select", "locking", "working", "exit"}]
               /\ runs' \in [Supervisors -> Contexts \cup {None}]
    <2>1. CASE started
      BY <1>4, <2>1 DEF LoopTypes, Spawn
    <2>2. ASSUME ~started, NEW m \in Supervisors, started' = TRUE, current' = m,
                 at' = [at EXCEPT ![m] = "select"], runs' = [runs EXCEPT ![m] = c]
          PROVE  /\ started' \in BOOLEAN /\ current' \in Supervisors \cup {None}
                 /\ at' \in [Supervisors -> {"none", "select", "locking", "working", "exit"}]
                 /\ runs' \in [Supervisors -> Contexts \cup {None}]
      BY <2>2 DEF LoopTypes
    <2> QED BY <1>4, <2>1, <2>2 DEF Spawn, FreeSupervisors
  <1>5. CASE EnsureSessionMonitor
    BY <1>4, <1>5 DEF LoopTypes, EnsureSessionMonitor, FreeContexts
  <1> QED BY <1>1, <1>2, <1>3, <1>5 DEF LoopStep

\* The attempts that still count are a suffix of the list.
LEMMA CountingTyped ==
    ASSUME RestartTypes
    PROVE  Counting \in Seq(0..RestartWindow) /\ Len(Counting) <= MaxRestarts
  <1> USE LifecycleAssumption
  <1>1. restarts \in Seq(0..RestartWindow) /\ Len(restarts) \in Nat /\ DOMAIN restarts = 1..Len(restarts)
    BY LenProperties DEF RestartTypes
  <1>2. IsFiniteSet(1..Len(restarts)) /\ Expired \in SUBSET (1..Len(restarts))
    BY <1>1, FS_Interval DEF Expired
  <1>3. Cardinality(Expired) \in Nat
    BY <1>2, FS_Subset, FS_CardinalityType
  <1>4. \A i \in (Cardinality(Expired) + 1)..Len(restarts) : restarts[i] \in 0..RestartWindow
    BY <1>1, <1>3, ElementOfSeq
  <1>5. /\ Counting \in Seq(0..RestartWindow)
        /\ Len(Counting) = IF Cardinality(Expired) + 1 <= Len(restarts)
                           THEN Len(restarts) - (Cardinality(Expired) + 1) + 1 ELSE 0
    <2>1. Cardinality(Expired) + 1 \in Int /\ Len(restarts) \in Int
      BY <1>1, <1>3
    <2> QED BY <1>4, <2>1, SubSeqProperties DEF Counting
  <1> QED BY <1>1, <1>3, <1>5 DEF RestartTypes

\* Every step keeps the types of the other variables, the bound on the failures
\* counted included.
LEMMA OtherTyped ==
    ASSUME LoopTypes, OtherTypes, OpShape, OwnShape, [Next]_vars PROVE OtherTypes'
  <1> DEFINE Ops     == [kind : Kinds, step : Steps, was : BOOLEAN]
             Befores == [desired : Intents \cup {"none"}, running : BOOLEAN, detached : BOOLEAN]
  <1>k. /\ "start" \in Kinds /\ "stop" \in Kinds /\ "restart" \in Kinds /\ "recover" \in Kinds
        /\ "upgrade" \in Kinds /\ "rollback" \in Kinds /\ "reconfigure" \in Kinds /\ "shutdown" \in Kinds
        /\ "none" \in Kinds /\ "autostart" \in Kinds /\ "keepalive" \in Kinds /\ "recovery" \in Kinds
        /\ "restore" \in Kinds /\ "upgrade-old" \in Kinds /\ "upgrade-back" \in Kinds /\ "rollback-back" \in Kinds
        /\ "none" \in Steps /\ "stop" \in Steps /\ "settle" \in Steps /\ "install" \in Steps
        /\ "launch" \in Steps /\ "undo" \in Steps /\ "refresh" \in Steps /\ "decide" \in Steps
        /\ "tickler" \in Steps /\ "close" \in Steps /\ "mend" \in Steps
        /\ "connected" \in Intents /\ "logged_out" \in Intents /\ "stopped" \in Intents
        /\ "stopped" \in States /\ "detached" \in States /\ "busy" \in States /\ "running" \in States
        /\ "auth" \in States /\ "error" \in States
    BY DEF Kinds, AllOrders, Steps, Intents, States
  <1>o. /\ \A kind \in Kinds : \A step \in Steps : \A was \in BOOLEAN :
               [kind |-> kind, step |-> step, was |-> was] \in Ops
        /\ op \in Ops => op.kind \in Kinds /\ op.was \in BOOLEAN
        /\ Idle \in Ops /\ NoBefore \in Befores
        /\ \A d \in Intents : \A r, q \in BOOLEAN :
               [desired |-> d, running |-> r, detached |-> q] \in Befores
    BY <1>k DEF Idle, NoBefore
  <1>b. /\ op.kind = "restore" => before.desired \in Intents
        /\ op.step = "close" => op.kind \in {"upgrade-old", "upgrade-back", "rollback-back", "restore"}
    BY DEF OtherTypes, OpShape, StepShape, OwnShape
  <1> HIDE DEF Ops, Befores
  <1>t. /\ desired \in Intents /\ state \in States
        /\ ready \in BOOLEAN /\ online \in BOOLEAN /\ java \in BOOLEAN /\ owned \in BOOLEAN
        /\ opMu \in Supervisors \cup {None, "operator"}
        /\ op \in Ops /\ failures \in 0..MaxFailures
        /\ starting \in BOOLEAN /\ rootDone \in BOOLEAN /\ closing \in BOOLEAN
        /\ before \in Befores /\ unrestored \in BOOLEAN
    BY DEF OtherTypes, Ops, Befores
  <1>r. AfterRefresh => op' \in Ops /\ opMu' = opMu
    <2>1. CASE op.kind = "keepalive"
      BY <2>1, <1>k, <1>o, <1>t DEF AfterRefresh, Then, GoOn
    <2>2. CASE op.kind # "keepalive"
      BY <2>2, <1>k, <1>o, <1>t DEF AfterRefresh, Then, GoOn
    <2> QED BY <2>1, <2>2
  <1>f. /\ 0 \in 0..MaxFailures
        /\ (IF failures < MaxFailures THEN failures + 1 ELSE failures) \in 0..MaxFailures
    BY <1>t, LifecycleAssumption
  <1> DEFINE Kept ==
        /\ desired' \in Intents /\ state' \in States
        /\ ready' \in BOOLEAN /\ online' \in BOOLEAN /\ java' \in BOOLEAN /\ owned' \in BOOLEAN
        /\ opMu' \in Supervisors \cup {None, "operator"}
        /\ op' \in Ops /\ failures' \in 0..MaxFailures
        /\ starting' \in BOOLEAN /\ rootDone' \in BOOLEAN /\ closing' \in BOOLEAN
        /\ before' \in Befores /\ unrestored' \in BOOLEAN
  <1> SUFFICES Kept
    BY DEF OtherTypes, Ops, Befores
  <1> USE <1>k, <1>o, <1>t, LifecycleAssumption
      DEF view, budget, outside, txn, GoOn, Then, Done, Hold, Accepts, At, SetLifecycle
  <1>1. CASE Start
    BY <1>1 DEF Start
  <1>2. CASE Stop
    BY <1>2 DEF Stop
  <1>3. CASE StopKeepingSession
    BY <1>3 DEF StopKeepingSession, Detach
  <1>4. CASE Shutdown
    BY <1>4 DEF Shutdown, Detach
  <1>5. CASE Restart
    BY <1>5 DEF Restart
  <1>6. CASE Recover
    BY <1>6 DEF Recover
  <1>7. CASE ResumeSession
    BY <1>7 DEF ResumeSession
  <1>8. CASE Logout
    BY <1>8 DEF Logout, SeenOnline
  <1>9. CASE Reconfigure
    BY <1>9 DEF Reconfigure
  <1>10. CASE RestoreConfiguration
    BY <1>10 DEF RestoreConfiguration
  <1>11. CASE AutoStart
    BY <1>11 DEF AutoStart
  <1>12. CASE Refused
    BY <1>12 DEF Refused, IntentNotSaved, ReplacementRefused, ShutdownRefused
  <1>13. CASE StopSucceeds
    <2>1. CASE op.kind \in {"stop", "shutdown"}
      BY <1>13, <2>1 DEF StopSucceeds, Terminated
    <2>2. CASE op.kind \in {"restart", "recovery"}
      BY <1>13, <2>2 DEF StopSucceeds, Terminated
    <2>3. CASE op.kind \in {"upgrade", "rollback"}
      BY <1>13, <2>3 DEF StopSucceeds, Terminated
    <2>4. CASE op.kind \in {"reconfigure", "restore"}
      BY <1>13, <2>4 DEF StopSucceeds, Terminated
    <2> QED BY <1>13, <2>1, <2>2, <2>3, <2>4 DEF StopSucceeds
  <1>14. CASE Settle
    <2>1. CASE op.kind = "restore" /\ (before.running \/ before.detached)
      BY <1>14, <2>1, <1>b DEF Settle
    <2>2. CASE op.kind = "restore" /\ ~(before.running \/ before.detached)
      BY <1>14, <2>2, <1>b DEF Settle
    <2>3. CASE op.kind # "restore" /\ desired = "connected"
      <3>1. /\ op' = [kind |-> op.kind, step |-> "launch", was |-> op.was]
            /\ ready' = FALSE /\ owned' = TRUE
            /\ UNCHANGED <<opMu, state, online, desired, txn, java, budget, outside>>
        BY ONLY <1>14, <2>3 DEF Settle, Then, GoOn
      <3>2. op' \in Ops
        BY ONLY <3>1, <1>k, <1>o, <1>t
      <3> QED BY ONLY <3>1, <3>2, <1>t DEF budget, outside, txn
    <2>4. CASE op.kind # "restore" /\ desired # "connected"
      BY <1>14, <2>4 DEF Settle
    <2> QED BY <2>1, <2>2, <2>3, <2>4
  <1>15. CASE Install
    <2>1. CASE desired = "stopped"
      BY <1>15, <2>1 DEF Install
    <2>2. CASE desired # "stopped"
      BY <1>15, <2>2 DEF Install
    <2> QED BY <2>1, <2>2
  <1>16. CASE Launch
    BY <1>16 DEF Launch
  <1>17. CASE Undo
    BY <1>17 DEF Undo, Terminated, FailLifecycle
  <1>18. CASE RefreshUnreachable
    BY <1>18, <1>r, <1>f DEF RefreshUnreachable
  <1>19. CASE RefreshAnswered
    BY <1>19, <1>r, <1>f DEF RefreshAnswered
  <1>20. CASE RefreshTimesOut
    BY <1>20, <1>r, <1>f DEF RefreshTimesOut
  <1>21. CASE RefreshAborted
    BY <1>21 DEF RefreshAborted, AfterRefresh, SeenOnline
  <1>22. CASE StartTickler
    BY <1>22 DEF StartTickler
  <1>23. CASE Close
    <2>1. CASE op.kind \in {"upgrade-old", "rollback-back"}
      BY <1>23, <2>1 DEF Close
    <2>2. CASE op.kind = "upgrade-back"
      BY <1>23, <2>2 DEF Close
    <2>3. CASE op.kind = "restore"
      BY <1>23, <2>3 DEF Close, Detach
    <2> QED BY <1>23, <1>b, <2>1, <2>2, <2>3 DEF Close
  <1>24. CASE KeepLooping
    BY <1>24 DEF KeepLooping
  <1>25. CASE RestartProcess
    BY <1>25, <1>f DEF RestartProcess
  <1>26. CASE Mend
    BY <1>26 DEF Mend
  <1>27. CASE StopFails
    BY <1>27 DEF StopFails, FailLifecycle, Unrestored
  <1>28. CASE SettleFails
    BY <1>28 DEF SettleFails, Unrestored
  <1>29. CASE InstallFails
    BY <1>29 DEF InstallFails, FailLifecycle
  <1>30. CASE LaunchRefused
    BY <1>30 DEF LaunchRefused, FailLifecycle, Unrestored
  <1>31. CASE LaunchFails
    BY <1>31 DEF LaunchFails, FailLifecycle, Unrestored
  <1>32. CASE LaunchNotOwned
    BY <1>32 DEF LaunchNotOwned, FailLifecycle
  <1>33. ASSUME NEW kind \in {"upgrade", "rollback"}, ReplaceInstallation(kind) PROVE Kept
    BY <1>33 DEF ReplaceInstallation
  <1>34. ASSUME NEW m \in Supervisors, Supervisor(m) PROVE Kept
    <2>1. CASE SupervisorLocks(m)
      <3>1. CASE desired = "connected"
        BY <2>1, <3>1 DEF SupervisorLocks
      <3>2. CASE desired # "connected"
        BY <2>1, <3>2 DEF SupervisorLocks
      <3> QED BY <3>1, <3>2
    <2>2. CASE SupervisorReturns(m)
      BY <2>2 DEF SupervisorReturns
    <2>3. CASE SupervisorWakes(m) \/ SupervisorCancelled(m) \/ SupervisorLeaves(m)
      BY <2>3 DEF SupervisorWakes, SupervisorCancelled, SupervisorLeaves
    <2> QED BY <1>34, <2>1, <2>2, <2>3 DEF Supervisor, Returning
  <1>35. CASE JavaDies \/ RootCancel \/ Age
    BY <1>35 DEF JavaDies, RootCancel, Age
  <1>36. CASE NewDaemon
    BY <1>36, <1>f DEF NewDaemon
  <1>37. CASE UNCHANGED vars
    BY <1>37 DEF vars
  <1> QED
    BY <1>1, <1>2, <1>3, <1>4, <1>5, <1>6, <1>7, <1>8, <1>9, <1>10, <1>11, <1>12, <1>13, <1>14, <1>15, <1>16, <1>17, <1>18, <1>19, <1>20, <1>21, <1>22, <1>23, <1>24, <1>25, <1>26, <1>27, <1>28, <1>29, <1>30, <1>31, <1>32, <1>33, <1>34, <1>35, <1>36, <1>37
       DEF Next, Unordered, Order, Progress, Failure, Environment

-----------------------------------------------------------------------------
(* The goroutines and their contexts.                                      *)

\* The steps that change them in a way of their own.
OwnSteps ==
    \/ KeepLooping \/ NewDaemon \/ \E m \in Supervisors : Supervisor(m)

\* Every other step is one of the four.
LEMMA StepOfLoop ==
    ASSUME OpShape, [Next]_vars, ~OwnSteps
    PROVE  LoopStep /\ (rootDone => rootDone')
  <1>o. outside' = outside => (rootDone => rootDone')
    BY DEF outside
  <1>1. CASE Start
    BY <1>1, <1>o DEF LoopStep, Start
  <1>2. CASE Recover
    BY <1>2, <1>o DEF LoopStep, Recover
  <1>3. CASE Logout
    BY <1>3, <1>o DEF LoopStep, Logout
  <1>4. CASE Refused
    BY <1>4, <1>o DEF LoopStep, Refused, IntentNotSaved, ReplacementRefused, ShutdownRefused
  <1>5. CASE Stop
    BY <1>5, <1>o DEF LoopStep, Stop
  <1>6. CASE Restart
    BY <1>6, <1>o DEF LoopStep, Restart
  <1>7. CASE Reconfigure
    BY <1>7, <1>o DEF LoopStep, Reconfigure
  <1>8. CASE RestoreConfiguration
    BY <1>8, <1>o DEF LoopStep, RestoreConfiguration
  <1>9. CASE ResumeSession
    BY <1>9, <1>o DEF LoopStep, ResumeSession
  <1>10. CASE StartTickler
    BY <1>10, <1>o DEF LoopStep, StartTickler
  <1>11. CASE Mend
    BY <1>11, <1>o DEF LoopStep, Mend
  <1>12. CASE StopSucceeds
    BY <1>12, <1>o DEF LoopStep, StopSucceeds
  <1>13. CASE Settle
    BY <1>13, <1>o DEF LoopStep, Settle
  <1>14. CASE Install
    BY <1>14, <1>o DEF LoopStep, Install
  <1>15. CASE Undo
    BY <1>15, <1>o DEF LoopStep, Undo
  <1>16. CASE StopFails
    BY <1>16, <1>o DEF LoopStep, StopFails
  <1>17. CASE SettleFails
    BY <1>17, <1>o DEF LoopStep, SettleFails
  <1>18. CASE InstallFails
    BY <1>18, <1>o DEF LoopStep, InstallFails
  <1>19. CASE LaunchRefused
    BY <1>19, <1>o DEF LoopStep, LaunchRefused
  <1>20. CASE RefreshUnreachable
    BY <1>20, <1>o DEF LoopStep, RefreshUnreachable
  <1>21. CASE RefreshAnswered
    BY <1>21, <1>o DEF LoopStep, RefreshAnswered
  <1>22. CASE RefreshTimesOut
    BY <1>22, <1>o DEF LoopStep, RefreshTimesOut
  <1>23. CASE RefreshAborted
    BY <1>23, <1>o DEF LoopStep, RefreshAborted
  <1>24. CASE Launch
    BY <1>24, <1>o DEF LoopStep, Launch
  <1>25. CASE LaunchFails
    BY <1>25, <1>o DEF LoopStep, LaunchFails
  <1>26. CASE RestartProcess
    BY <1>26, <1>o DEF LoopStep, RestartProcess
  <1>27. CASE LaunchNotOwned
    BY <1>27, <1>o DEF LoopStep, LaunchNotOwned
  <1>28. CASE StopKeepingSession
    BY <1>28, <1>o DEF LoopStep, StopKeepingSession, Detach
  <1>29. CASE AutoStart
    BY <1>29 DEF LoopStep, AutoStart
  <1>30. CASE Shutdown
    BY <1>30 DEF LoopStep, Shutdown, Detach
  <1>31. CASE \E kind \in {"upgrade", "rollback"} : ReplaceInstallation(kind)
    BY <1>31, <1>o DEF LoopStep, ReplaceInstallation
  <1>32. CASE Close
    <2>1. op.kind \in {"upgrade-old", "upgrade-back", "rollback-back", "restore"}
      BY <1>32 DEF Close, At, OpShape, StepShape
    <2>2. CASE op.kind = "restore"
      BY <1>32, <2>2, <1>o DEF Close, Detach, LoopStep, loop
    <2>3. CASE op.kind = "upgrade-back"
      BY <1>32, <2>3, <1>o DEF Close, LoopStep
    <2>4. CASE op.kind \in {"upgrade-old", "rollback-back"}
      BY <1>32, <2>4, <1>o DEF Close, LoopStep
    <2> QED BY <2>1, <2>2, <2>3, <2>4
  <1>33. CASE JavaDies \/ RootCancel \/ Age
    BY <1>33, <1>o DEF LoopStep, JavaDies, RootCancel, Age
  <1>34. CASE UNCHANGED vars
    BY <1>34 DEF LoopStep, vars, loop
  <1> QED
    BY <1>1, <1>2, <1>3, <1>4, <1>5, <1>6, <1>7, <1>8, <1>9, <1>10, <1>11, <1>12, <1>13, <1>14, <1>15, <1>16, <1>17, <1>18, <1>19, <1>20, <1>21, <1>22, <1>23, <1>24, <1>25, <1>26, <1>27, <1>28, <1>29, <1>30, <1>31, <1>32, <1>33, <1>34
       DEF Next, Unordered, Order, Progress, Failure, Environment, OwnSteps

\* What each of the four does: at most one context is left, and the goroutine
\* that is current, if there is one, runs under it.
LEMMA LoopStepShape ==
    ASSUME LoopTypes, LoopShape, LoopStep, rootDone => rootDone'
    PROVE  /\ LoopShape'
           /\ CancelMonitoring => ctx' = None /\ current' = None
           /\ NewRunContext => ctx' # None /\ current' = None
           /\ EnsureSessionMonitor => ctx' # None /\ current' # None
                                      /\ (ctx # None /\ current # None => UNCHANGED loop)
           /\ \A m \in Supervisors : at'[m] = at[m] \/ (at[m] = "none" /\ at'[m] = "select")
           /\ current' = current \/ current' = None
              \/ (current' \in Supervisors /\ at'[current'] = "select")
  <1> USE LifecycleAssumption DEF LoopShape, LoopTypes, Active, Alive
  <1>1. CASE UNCHANGED loop
    BY <1>1 DEF loop, CancelMonitoring, NewRunContext, EnsureSessionMonitor, Spawn, FreeContexts
  <1>2. CASE CancelMonitoring
    BY <1>2 DEF CancelMonitoring, NewRunContext, EnsureSessionMonitor, Spawn, loop
  <1>3. CASE NewRunContext
    BY <1>3 DEF CancelMonitoring, NewRunContext, EnsureSessionMonitor, Spawn, FreeContexts, loop
  <1>4. ASSUME NEW c \in Contexts, c = ctx \/ (ctx = None /\ c \in FreeContexts),
               ctx' = c, live' = live \cup {c}, ctx # None => rooted' = rooted, Spawn(c)
        PROVE  /\ LoopShape' /\ current' # None
               /\ \A m \in Supervisors : at'[m] = at[m] \/ (at[m] = "none" /\ at'[m] = "select")
               /\ ctx # None /\ current # None => UNCHANGED <<started, current, at, runs>>
               /\ current' = current \/ (current' \in Supervisors /\ at'[current'] = "select")
    <2>1. CASE started
      <3>1. current \in Supervisors /\ runs[current] # None /\ runs[current] = ctx /\ c = ctx
        BY <1>4, <2>1
      <3>2. UNCHANGED <<started, current, at, runs>>
        BY <1>4, <2>1 DEF Spawn
      <3>3. live' = {ctx'} /\ ctx' = ctx
        BY <1>4, <3>1
      <3>4. ~Alive(ctx) => ~Alive(ctx)'
        BY <1>4, <3>1, <3>3
      <3> QED BY <1>4, <3>1, <3>2, <3>3, <3>4
    <2>2. ASSUME ~started, NEW m \in Supervisors, at[m] = "none", started' = TRUE, current' = m,
                 at' = [at EXCEPT ![m] = "select"], runs' = [runs EXCEPT ![m] = c]
          PROVE  /\ LoopShape' /\ current' # None
                 /\ \A k \in Supervisors : at'[k] = at[k] \/ (at[k] = "none" /\ at'[k] = "select")
                 /\ ctx # None /\ current # None => UNCHANGED <<started, current, at, runs>>
                 /\ current' = current \/ (current' \in Supervisors /\ at'[current'] = "select")
      <3>1. current = None /\ m # None /\ c # None
        BY <2>2
      <3>2. live' = {ctx'} /\ ctx' = c
        BY <1>4
      <3>3. \A k \in Supervisors : /\ at'[k] = (IF k = m THEN "select" ELSE at[k])
                                   /\ runs'[k] = (IF k = m THEN c ELSE runs[k])
        BY <2>2
      <3>4. \A k \in Supervisors : at'[k] # "none" => runs'[k] # None
        BY <3>1, <3>3
      <3>5. ASSUME NEW k \in Supervisors, Active(k)', runs'[k] = c PROVE k = m
        <4>1. k # m => Active(k) /\ runs[k] = c
          BY <3>3, <3>5
        <4>2. c \in FreeContexts => runs[k] # c
          BY DEF FreeContexts
        <4> QED BY <1>4, <3>1, <4>1, <4>2
      <3>6. Active(m)' /\ runs'[m] = c
        BY <3>3
      <3> QED BY <2>2, <3>1, <3>2, <3>3, <3>4, <3>5, <3>6
    <2> QED BY <1>4, <2>1, <2>2 DEF Spawn, FreeSupervisors
  <1>5. CASE EnsureSessionMonitor
    BY <1>4, <1>5 DEF CancelMonitoring, NewRunContext, EnsureSessionMonitor, FreeContexts, loop
  <1> QED BY <1>1, <1>2, <1>3, <1>5 DEF LoopStep

\* A goroutine that moves on, or returns, leaves the shape as it was: the
\* current one gives up only when its context is gone.
LEMMA SupervisorKeepsLoop ==
    ASSUME LoopTypes, LoopShape, OpShape, NEW m \in Supervisors, Supervisor(m)
    PROVE  LoopTypes' /\ LoopShape' /\ ctx' = ctx /\ live' = live
           /\ rooted' = rooted /\ rootDone' = rootDone
           /\ \A k \in Supervisors \ {m} : at'[k] = at[k]
  <1> USE LifecycleAssumption DEF LoopTypes, LoopShape, Active, Alive
  <1>1. CASE SupervisorWakes(m)
    BY <1>1 DEF SupervisorWakes, outside
  <1>2. CASE SupervisorLocks(m)
    BY <1>2 DEF SupervisorLocks, outside
  <1>3. CASE SupervisorCancelled(m)
    BY <1>3 DEF SupervisorCancelled, outside
  <1>4. CASE SupervisorLeaves(m)
    BY <1>4 DEF SupervisorLeaves, outside, OpShape, HolderShape
  <1>5. CASE SupervisorReturns(m)
    <2>1. CASE current = m
      BY <1>5, <2>1 DEF SupervisorReturns, outside
    <2>2. CASE current # m
      BY <1>5, <2>2 DEF SupervisorReturns, outside
    <2> QED BY <2>1, <2>2
  <1> QED BY <1>1, <1>2, <1>3, <1>4, <1>5 DEF Supervisor, Returning

\* The supervisor that keeps looping is the current one.
LEMMA LoopingKeepsLoop ==
    ASSUME LoopTypes, LoopShape, OpShape, KeepLooping
    PROVE  LoopTypes' /\ LoopShape' /\ ctx' = ctx /\ current' = current
           /\ live' = live /\ rooted' = rooted /\ rootDone' = rootDone
           /\ opMu \in Supervisors /\ at' = [at EXCEPT ![opMu] = "select"]
  <1>1. opMu \in Supervisors /\ at[opMu] = "working"
    BY DEF KeepLooping, At, OpShape, HolderShape, StepShape
  <1> QED
    BY <1>1, LifecycleAssumption DEF KeepLooping, LoopTypes, LoopShape, Active, Alive, outside

\* So the shape is kept by every step.
LEMMA LoopKept ==
    ASSUME LoopTypes, LoopShape, OpShape, [Next]_vars
    PROVE  LoopTypes' /\ LoopShape'
  <1>1. CASE ~OwnSteps
    BY <1>1, StepOfLoop, LoopStepTyped, LoopStepShape
  <1>2. CASE NewDaemon
    BY <1>2 DEF NewDaemon, LoopTypes, LoopShape, Active
  <1> QED BY <1>1, <1>2, SupervisorKeepsLoop, LoopingKeepsLoop DEF OwnSteps

\* The list of restarts never holds more attempts than the limit allows.
LEMMA RestartsTyped ==
    ASSUME RestartTypes, [Next]_vars PROVE RestartTypes'
  <1> USE LifecycleAssumption DEF RestartTypes
  <1>1. CASE RestartProcess
    BY <1>1, CountingTyped DEF RestartProcess, ShouldRestart
  <1>2. CASE Age
    <2>1. restarts \in [1..Len(restarts) -> 0..RestartWindow] /\ Len(restarts) \in Nat
          /\ DOMAIN restarts = 1..Len(restarts)
      BY LenProperties
    <2>2. restarts' \in [1..Len(restarts) -> 0..RestartWindow]
      BY <1>2, <2>1 DEF Age
    <2>3. restarts' \in Seq(0..RestartWindow)
      BY <2>1, <2>2, SeqDef
    <2>4. Len(restarts') = Len(restarts)
      BY <2>1, <2>2, <2>3, LenProperties
    <2> QED BY <2>3, <2>4
  <1>3. CASE NewDaemon
    BY <1>3, EmptySeq DEF NewDaemon
  <1>4. ASSUME UNCHANGED restarts PROVE RestartTypes'
    BY <1>4
  <1>5. CASE Order \/ AutoStart \/ Refused
    BY <1>4, <1>5
       DEF Order, AutoStart, Refused, IntentNotSaved, ReplacementRefused, ShutdownRefused, Start, Stop, StopKeepingSession, Shutdown, Restart, Recover,
           ResumeSession, Logout, Reconfigure, RestoreConfiguration, ReplaceInstallation, budget
  <1>6. CASE Progress /\ ~RestartProcess
    BY <1>4, <1>6
       DEF Progress, StopSucceeds, Settle, Install, Launch, Undo, RefreshUnreachable, RefreshAnswered,
           RefreshTimesOut, RefreshAborted, StartTickler, Close, KeepLooping, Mend, budget
  <1>7. CASE Failure
    BY <1>4, <1>7
       DEF Failure, StopFails, SettleFails, InstallFails, LaunchRefused, LaunchFails, LaunchNotOwned, budget
  <1>8. CASE \E m \in Supervisors : Supervisor(m)
    BY <1>4, <1>8
       DEF Supervisor, SupervisorWakes, SupervisorLocks, SupervisorCancelled, Returning,
           SupervisorLeaves, SupervisorReturns, budget
  <1>9. CASE JavaDies \/ RootCancel
    BY <1>4, <1>9 DEF JavaDies, RootCancel, budget
  <1>10. CASE UNCHANGED vars
    BY <1>4, <1>10 DEF vars
  <1> QED
    BY <1>1, <1>2, <1>3, <1>5, <1>6, <1>7, <1>8, <1>9, <1>10 DEF Next, Unordered, Environment

-----------------------------------------------------------------------------
(* opMu and the operation under it.                                        *)

\* How a step that is not the supervisor's own may change the holder.
HolderStep ==
    LET sup == {"keepalive", "recovery"}
    IN  \/ opMu = None /\ opMu' = "operator" /\ op'.kind \notin sup
        \/ opMu' = opMu /\ op'.kind = op.kind /\ op.kind # "keepalive"
        \/ opMu' = opMu /\ op'.kind = op.kind /\ UNCHANGED loop
        \/ opMu' = opMu /\ op.kind \notin sup /\ op'.kind \notin sup
        \/ opMu' = None /\ op'.kind = "none" /\ op.kind # "keepalive"
        \/ RestartProcess /\ opMu' = opMu /\ op.kind = "keepalive" /\ op'.kind = "recovery"
              /\ current' = None

\* Each of these ways keeps the shape.
LEMMA HolderKept ==
    ASSUME LoopTypes, LoopShape, HolderShape, LoopStep, rootDone => rootDone', HolderStep
    PROVE  HolderShape'
  <1> USE LifecycleAssumption DEF HolderShape
  <1>l. /\ \A m \in Supervisors : at'[m] = at[m] \/ (at[m] = "none" /\ at'[m] = "select")
        /\ current' = current \/ current' = None
           \/ (current' \in Supervisors /\ at'[current'] = "select")
    BY LoopStepShape
  <1>1. \A m \in Supervisors : at'[m] = "working" /\ current' = m => at[m] = "working" /\ current = m
    BY <1>l
  <1>2. CASE opMu = None /\ opMu' = "operator" /\ op'.kind \notin {"keepalive", "recovery"}
    BY <1>1, <1>2
  <1>3. CASE opMu' = opMu /\ op'.kind = op.kind /\ op.kind # "keepalive"
    BY <1>1, <1>l, <1>3
  <1>4. CASE opMu' = opMu /\ op'.kind = op.kind /\ UNCHANGED loop
    BY <1>4 DEF loop
  <1>5. CASE opMu' = opMu /\ op.kind \notin {"keepalive", "recovery"} /\ op'.kind \notin {"keepalive", "recovery"}
    BY <1>1, <1>5
  <1>6. CASE opMu' = None /\ op'.kind = "none" /\ op.kind # "keepalive"
    BY <1>1, <1>6
  <1>7. CASE opMu' = opMu /\ op.kind = "keepalive" /\ op'.kind = "recovery" /\ current' = None
    BY <1>1, <1>l, <1>7
  <1> QED BY <1>2, <1>3, <1>4, <1>5, <1>6, <1>7 DEF HolderStep

\* Operations change the holder in these ways only, and each goes on to a step
\* of its kind.
LEMMA OperationSteps ==
    ASSUME LoopTypes, OtherTypes, OpShape, [Next]_vars, ~OwnSteps
    PROVE  HolderStep /\ StepShape'
  <1> USE LifecycleAssumption
  <1>i. Idle.kind = "none" /\ Idle.step = "none"
    BY DEF Idle
  <1>t. opMu \in Supervisors \cup {None, "operator"}
    BY DEF OtherTypes
  <1>s. StepShape /\ (opMu \in Supervisors <=> op.kind \in {"keepalive", "recovery"})
    BY DEF OpShape, HolderShape
  <1>g. \A kind, step, was : LET o == [kind |-> kind, step |-> step, was |-> was]
                             IN  o.kind = kind /\ o.step = step /\ (step # "none" => o # Idle)
    BY <1>i
  <1> USE <1>i, <1>t, <1>s DEF HolderStep, StepShape, GoOn, Then, Done, Hold, Accepts, At, txn
  <1>1. CASE Start
    BY <1>1 DEF Start
  <1>2. CASE Stop
    BY <1>2 DEF Stop
  <1>3. CASE StopKeepingSession
    BY <1>3 DEF StopKeepingSession
  <1>4. CASE Shutdown
    BY <1>4 DEF Shutdown
  <1>5. CASE Restart
    BY <1>5 DEF Restart
  <1>6. CASE Recover
    BY <1>6 DEF Recover
  <1>7. CASE ResumeSession
    BY <1>7 DEF ResumeSession
  <1>8. CASE Logout
    BY <1>8 DEF Logout
  <1>9. CASE Reconfigure
    BY <1>9 DEF Reconfigure
  <1>10. CASE RestoreConfiguration
    BY <1>10 DEF RestoreConfiguration
  <1>11. CASE AutoStart
    BY <1>11 DEF AutoStart
  <1>12. CASE Refused
    BY <1>12 DEF Refused, IntentNotSaved, ReplacementRefused, ShutdownRefused
  <1>13. CASE StopSucceeds
    BY <1>13 DEF StopSucceeds
  <1>14. CASE Settle
    BY <1>14 DEF Settle
  <1>15. CASE Install
    BY <1>15 DEF Install
  <1>16. CASE Launch
    BY <1>16 DEF Launch
  <1>17. CASE Undo
    BY <1>17 DEF Undo, FailLifecycle
  <1>18. CASE RefreshUnreachable
    BY <1>18 DEF RefreshUnreachable, AfterRefresh
  <1>19. CASE RefreshAnswered
    BY <1>19 DEF RefreshAnswered, AfterRefresh
  <1>20. CASE RefreshTimesOut
    BY <1>20 DEF RefreshTimesOut, AfterRefresh
  <1>21. CASE RefreshAborted
    BY <1>21 DEF RefreshAborted, AfterRefresh
  <1>22. CASE StartTickler
    BY <1>22 DEF StartTickler
  <1>23. CASE Close
    BY <1>23 DEF Close
  <1>24. CASE RestartProcess
    BY <1>24 DEF RestartProcess, CancelMonitoring
  <1>25. CASE Mend
    BY <1>25 DEF Mend
  <1>26. CASE StopFails
    BY <1>26 DEF StopFails, FailLifecycle, Unrestored
  <1>27. CASE SettleFails
    BY <1>27 DEF SettleFails, Unrestored
  <1>28. CASE InstallFails
    BY <1>28 DEF InstallFails, FailLifecycle
  <1>29. CASE LaunchRefused
    BY <1>29 DEF LaunchRefused, FailLifecycle, Unrestored
  <1>30. CASE LaunchFails
    BY <1>30 DEF LaunchFails, FailLifecycle, Unrestored
  <1>31. CASE LaunchNotOwned
    BY <1>31 DEF LaunchNotOwned, FailLifecycle
  <1>32. ASSUME NEW kind \in {"upgrade", "rollback"}, ReplaceInstallation(kind) PROVE HolderStep /\ StepShape'
    BY <1>32 DEF ReplaceInstallation
  <1>33. CASE JavaDies \/ RootCancel \/ Age
    BY <1>33 DEF JavaDies, RootCancel, Age
  <1>34. CASE UNCHANGED vars
    BY <1>34 DEF vars, loop
  <1> QED
    BY <1>1, <1>2, <1>3, <1>4, <1>5, <1>6, <1>7, <1>8, <1>9, <1>10, <1>11, <1>12, <1>13, <1>14, <1>15, <1>16, <1>17, <1>18, <1>19, <1>20, <1>21, <1>22, <1>23, <1>24, <1>25, <1>26, <1>27, <1>28, <1>29, <1>30, <1>31, <1>32, <1>33, <1>34
       DEF Next, Unordered, Order, Progress, Failure, Environment, OwnSteps

\* A goroutine's own steps: it takes opMu only as the current one, gives it up
\* to go on looping, and leaves only when it is not the current one any more.
LEMMA SupervisorSteps ==
    ASSUME LoopTypes, OtherTypes, LoopShape, OpShape, OwnSteps
    PROVE  OpShape'
  <1> USE LifecycleAssumption
  <1>i. Idle.kind = "none" /\ Idle.step = "none"
    BY DEF Idle
  <1>s. StepShape /\ HolderShape
    BY DEF OpShape
  <1>1. CASE KeepLooping
    <2>1. /\ current' = current /\ opMu \in Supervisors /\ at' = [at EXCEPT ![opMu] = "select"]
          /\ op' = Idle /\ opMu' = None /\ before' = before
      BY <1>1, LoopingKeepsLoop DEF KeepLooping, Done, txn
    <2> QED BY <2>1, <1>i, <1>s DEF LoopTypes, OpShape, HolderShape, StepShape
  <1>2. CASE NewDaemon
    BY <1>2, <1>i DEF NewDaemon, OpShape, HolderShape, StepShape
  <1>3. ASSUME NEW m \in Supervisors, Supervisor(m) PROVE OpShape'
    <2>1. CASE SupervisorWakes(m)
      BY <2>1, <1>s DEF SupervisorWakes, LoopTypes, OpShape, HolderShape, StepShape, txn
    <2>2. CASE SupervisorCancelled(m)
      BY <2>2, <1>s DEF SupervisorCancelled, LoopTypes, OpShape, HolderShape, StepShape, txn
    <2>3. CASE SupervisorLeaves(m)
      BY <2>3, <1>s DEF SupervisorLeaves, LoopTypes, OpShape, HolderShape, StepShape, txn
    <2>4. CASE SupervisorReturns(m)
      <3>1. /\ opMu' = opMu /\ op' = op /\ before' = before
            /\ current' = current \/ current' = None
            /\ \A k \in Supervisors : at'[k] = at[k] \/ (k = m /\ at[k] = "exit" /\ at'[k] = "none")
            /\ current' = None /\ current # None => current = m
        BY <2>4 DEF SupervisorReturns, LoopTypes, txn
      <3>2. op.kind = "keepalive" => current # m
        BY <2>4, <1>s DEF SupervisorReturns, HolderShape
      <3>3. StepShape'
        BY <3>1, <1>s DEF StepShape
      <3> QED BY <3>1, <3>2, <3>3, <1>s DEF OpShape, HolderShape, LoopTypes
    <2>5. CASE SupervisorLocks(m)
      <3>1. current = m
        BY <2>5 DEF SupervisorLocks, LoopShape, LoopTypes, Active, Alive
      <3>2. CASE desired = "connected"
        <4>1. /\ opMu' = m /\ op' = [kind |-> "keepalive", step |-> "refresh", was |-> FALSE]
              /\ at' = [at EXCEPT ![m] = "working"] /\ current' = current /\ before' = before
              /\ opMu = None
          BY <2>5, <3>2 DEF SupervisorLocks, txn
        <4>2. op' # Idle
          BY <4>1, <1>i
        <4> QED BY <3>1, <4>1, <4>2, <1>s DEF OpShape, HolderShape, StepShape, LoopTypes
      <3>3. CASE desired # "connected"
        BY <2>5, <3>3, <1>s DEF SupervisorLocks, OpShape, HolderShape, StepShape, LoopTypes, txn
      <3> QED BY <3>2, <3>3
    <2> QED BY <1>3, <2>1, <2>2, <2>3, <2>4, <2>5 DEF Supervisor, Returning
  <1> QED BY <1>1, <1>2, <1>3 DEF OwnSteps

\* Every step keeps who holds opMu, and for what.
LEMMA OpKept ==
    ASSUME LoopTypes, OtherTypes, LoopShape, OpShape, [Next]_vars
    PROVE  OpShape'
  <1>1. CASE ~OwnSteps
    BY <1>1, OperationSteps, HolderKept, StepOfLoop DEF OpShape
  <1> QED BY <1>1, SupervisorSteps

-----------------------------------------------------------------------------
(* Ownership.                                                              *)

\* The state directory is given up only without a context, and only what was
\* stopped or let go is not owned.
LEMMA OwnKept ==
    ASSUME LoopTypes, OtherTypes, LoopShape, OpShape, OwnShape, [Next]_vars
    PROVE  OwnShape'
  <1> USE LifecycleAssumption
  <1>s. StepShape
    BY DEF OpShape
  <1>i. Idle.kind = "none" /\ Idle.step = "none" /\ NoBefore.desired = "none"
    BY DEF Idle, NoBefore
  <1>t. /\ owned \in BOOLEAN /\ java \in BOOLEAN /\ online \in BOOLEAN
        /\ desired # "none" /\ desired \in Intents
    BY DEF OtherTypes, Intents
  <1>c. CancelMonitoring => ctx' = None
    BY DEF CancelMonitoring
  <1>u. loop' = loop => ctx' = ctx
    BY DEF loop
  <1> USE <1>s, <1>i, <1>t, <1>c, <1>u
      DEF StepShape, OwnShape, GoOn, Then, Done, Hold, Accepts, At, txn, view
  <1>1. CASE Start
    BY <1>1 DEF Start
  <1>2. CASE Stop
    BY <1>2 DEF Stop
  <1>3. CASE StopKeepingSession
    BY <1>3 DEF StopKeepingSession, Detach
  <1>4. CASE Shutdown
    BY <1>4 DEF Shutdown, Detach
  <1>5. CASE Restart
    BY <1>5 DEF Restart
  <1>6. CASE Recover
    BY <1>6 DEF Recover
  <1>7. CASE ResumeSession
    BY <1>7 DEF ResumeSession
  <1>8. CASE Logout
    BY <1>8 DEF Logout, SeenOnline
  <1>9. CASE Reconfigure
    BY <1>9 DEF Reconfigure
  <1>10. CASE RestoreConfiguration
    BY <1>10 DEF RestoreConfiguration
  <1>11. CASE AutoStart
    BY <1>11 DEF AutoStart
  <1>12. CASE Refused
    BY <1>12 DEF Refused, IntentNotSaved, ReplacementRefused, ShutdownRefused
  <1>13. CASE StopSucceeds
    BY <1>13 DEF StopSucceeds, Terminated
  <1>14. CASE Settle
    BY <1>14 DEF Settle
  <1>15. CASE Install
    BY <1>15 DEF Install
  <1>16. CASE Launch
    BY <1>16 DEF Launch
  <1>17. CASE Undo
    BY <1>17 DEF Undo, FailLifecycle, Terminated
  <1>18. CASE RefreshUnreachable
    BY <1>18 DEF RefreshUnreachable, AfterRefresh
  <1>19. CASE RefreshAnswered
    BY <1>19 DEF RefreshAnswered, AfterRefresh
  <1>20. CASE RefreshTimesOut
    BY <1>20 DEF RefreshTimesOut, AfterRefresh
  <1>21. CASE RefreshAborted
    BY <1>21 DEF RefreshAborted, AfterRefresh, SeenOnline
  <1>22. CASE StartTickler
    BY <1>22 DEF StartTickler
  <1>23. CASE Close
    BY <1>23 DEF Close, Detach
  <1>24. CASE KeepLooping
    BY <1>24 DEF KeepLooping, loop
  <1>25. CASE RestartProcess
    BY <1>25 DEF RestartProcess
  <1>26. CASE Mend
    BY <1>26 DEF Mend
  <1>27. CASE StopFails
    BY <1>27 DEF StopFails, FailLifecycle, Unrestored
  <1>28. CASE SettleFails
    BY <1>28 DEF SettleFails, Unrestored
  <1>29. CASE InstallFails
    BY <1>29 DEF InstallFails, FailLifecycle
  <1>30. CASE LaunchRefused
    BY <1>30 DEF LaunchRefused, FailLifecycle, Unrestored
  <1>31. CASE LaunchFails
    BY <1>31 DEF LaunchFails, FailLifecycle, Unrestored
  <1>32. CASE LaunchNotOwned
    BY <1>32 DEF LaunchNotOwned, FailLifecycle
  <1>33. ASSUME NEW kind \in {"upgrade", "rollback"}, ReplaceInstallation(kind) PROVE OwnShape'
    BY <1>33 DEF ReplaceInstallation
  <1>34. ASSUME NEW m \in Supervisors, Supervisor(m) PROVE OwnShape'
    <2>1. ctx' = ctx
      BY <1>34, SupervisorKeepsLoop
    <2>2. CASE SupervisorLocks(m)
      <3>1. owned /\ owned' = owned /\ java' = java /\ online' = online /\ before' = before
        BY <2>2 DEF SupervisorLocks, LoopShape, LoopTypes, Active, Alive
      <3>2. op' = op \/ (op'.kind = "keepalive" /\ op'.step = "refresh")
        BY <2>2 DEF SupervisorLocks
      <3> QED BY <2>1, <3>1, <3>2
    <2>3. CASE ~SupervisorLocks(m)
      <3>1. UNCHANGED <<owned, java, online, op, before>>
        BY <1>34, <2>3 DEF Supervisor, SupervisorWakes, SupervisorCancelled, Returning,
                           SupervisorLeaves, SupervisorReturns
      <3> QED BY <2>1, <3>1
    <2> QED BY <2>2, <2>3
  <1>35. CASE JavaDies \/ RootCancel \/ Age
    BY <1>35 DEF JavaDies, RootCancel, Age
  <1>36. CASE NewDaemon
    BY <1>36 DEF NewDaemon
  <1>37. CASE UNCHANGED vars
    BY <1>37 DEF vars, loop
  <1> QED
    BY <1>1, <1>2, <1>3, <1>4, <1>5, <1>6, <1>7, <1>8, <1>9, <1>10, <1>11, <1>12, <1>13, <1>14, <1>15, <1>16, <1>17, <1>18, <1>19, <1>20, <1>21, <1>22, <1>23, <1>24, <1>25, <1>26, <1>27, <1>28, <1>29, <1>30, <1>31, <1>32, <1>33, <1>34, <1>35, <1>36, <1>37
       DEF Next, Unordered, Order, Progress, Failure, Environment

-----------------------------------------------------------------------------
(* Supervision.                                                            *)

\* A supervisor is lost only where monitoring is cancelled or a new run begins;
\* one that returns by itself had its context cancelled from the root.
LEMMA WatchKept ==
    ASSUME LoopTypes, LoopShape, OpShape, [Next]_vars
    PROVE  /\ Watched /\ UNCHANGED loop /\ (rootDone => rootDone') => Watched'
           /\ EnsureSessionMonitor /\ (rootDone => rootDone') => Watched'
           /\ \A m \in Supervisors : Watched /\ Supervisor(m) => Watched'
           /\ Watched /\ KeepLooping => Watched'
           /\ op.kind = "keepalive" => Watched
  <1>1. Watched /\ UNCHANGED loop /\ (rootDone => rootDone') => Watched'
    BY DEF Watched, loop
  <1>2. EnsureSessionMonitor /\ (rootDone => rootDone') => Watched'
    BY LoopStepShape DEF Watched, LoopStep
  <1>3. ASSUME NEW m \in Supervisors, Watched, Supervisor(m) PROVE Watched'
    <2>1. ctx' = ctx /\ rooted' = rooted /\ rootDone' = rootDone
      BY <1>3, SupervisorKeepsLoop
    <2>2. CASE SupervisorReturns(m) /\ current = m
      <3>1. ~Alive(ctx) /\ ctx # None /\ ctx \in live
        BY <2>2, LifecycleAssumption DEF SupervisorReturns, LoopTypes, LoopShape, Active
      <3> QED BY <2>1, <3>1 DEF Watched, Alive
    <2>3. CASE ~(SupervisorReturns(m) /\ current = m)
      <3>1. current' = current
        BY <1>3, <2>3 DEF Supervisor, SupervisorWakes, SupervisorLocks, SupervisorCancelled, Returning,
                          SupervisorLeaves, SupervisorReturns
      <3> QED BY <1>3, <2>1, <3>1 DEF Watched
    <2> QED BY <2>2, <2>3
  <1>4. Watched /\ KeepLooping => Watched'
    BY LoopingKeepsLoop DEF Watched
  <1>5. op.kind = "keepalive" => Watched
    BY LifecycleAssumption DEF OpShape, HolderShape, Watched
  <1> QED BY <1>1, <1>2, <1>3, <1>4, <1>5

\* Whatever step an operation fails in, what still runs is supervised when it
\* gives opMu back, or is known not to run.
LEMMA ServedKept ==
    ASSUME LoopTypes, OtherTypes, LoopShape, OpShape, OwnShape, ServedShape, [Next]_vars
    PROVE  ServedShape'
  <1> USE LifecycleAssumption
  <1>s. StepShape
    BY DEF OpShape
  <1>i. Idle.kind = "none" /\ Idle.step = "none"
    BY DEF Idle
  <1>t. /\ java \in BOOLEAN /\ online \in BOOLEAN
    BY DEF OtherTypes
  <1>w. /\ Watched /\ UNCHANGED loop /\ (rootDone => rootDone') => Watched'
        /\ EnsureSessionMonitor /\ (rootDone => rootDone') => Watched'
        /\ \A m \in Supervisors : Watched /\ Supervisor(m) => Watched'
        /\ Watched /\ KeepLooping => Watched'
        /\ op.kind = "keepalive" => Watched
    BY WatchKept
  <1>o. outside' = outside => rootDone' = rootDone
    BY DEF outside
  <1> USE <1>s, <1>i, <1>t, <1>w, <1>o
      DEF StepShape, ServedShape, Served, GoOn, Then, Done, Hold, Accepts, At, SetLifecycle, txn, view
  <1>1. CASE Start
    BY <1>1 DEF Start
  <1>2. CASE Stop
    BY <1>2 DEF Stop
  <1>3. CASE StopKeepingSession
    BY <1>3 DEF StopKeepingSession, Detach
  <1>4. CASE Shutdown
    BY <1>4 DEF Shutdown, Detach
  <1>5. CASE Restart
    BY <1>5 DEF Restart
  <1>6. CASE Recover
    BY <1>6 DEF Recover
  <1>7. CASE ResumeSession
    BY <1>7 DEF ResumeSession
  <1>8. CASE Logout
    BY <1>8 DEF Logout, SeenOnline
  <1>9. CASE Reconfigure
    BY <1>9 DEF Reconfigure
  <1>10. CASE RestoreConfiguration
    BY <1>10 DEF RestoreConfiguration
  <1>11. CASE AutoStart
    BY <1>11 DEF AutoStart, outside
  <1>12. CASE Refused
    BY <1>12 DEF Refused, IntentNotSaved, ReplacementRefused, ShutdownRefused
  <1>13. CASE StopSucceeds
    BY <1>13 DEF StopSucceeds, Terminated
  <1>14. CASE Settle
    BY <1>14 DEF Settle
  <1>15. CASE Install
    BY <1>15 DEF Install
  <1>16. CASE Launch
    BY <1>16 DEF Launch
  <1>17. CASE Undo
    BY <1>17 DEF Undo, FailLifecycle, Terminated
  <1>18. CASE RefreshUnreachable
    BY <1>18 DEF RefreshUnreachable, AfterRefresh
  <1>19. CASE RefreshAnswered
    BY <1>19 DEF RefreshAnswered, AfterRefresh
  <1>20. CASE RefreshTimesOut
    BY <1>20 DEF RefreshTimesOut, AfterRefresh
  <1>21. CASE RefreshAborted
    BY <1>21 DEF RefreshAborted, AfterRefresh, SeenOnline
  <1>22. CASE StartTickler
    BY <1>22 DEF StartTickler
  <1>23. CASE Close
    BY <1>23 DEF Close, Detach
  <1>24. CASE KeepLooping
    <2>1. Watched
      BY <1>24 DEF KeepLooping
    <2> QED BY <1>24, <2>1 DEF KeepLooping
  <1>25. CASE RestartProcess
    BY <1>25 DEF RestartProcess
  <1>26. CASE Mend
    BY <1>26 DEF Mend
  <1>27. CASE StopFails
    BY <1>27 DEF StopFails, FailLifecycle, Unrestored
  <1>28. CASE SettleFails
    BY <1>28 DEF SettleFails, Unrestored, OwnShape
  <1>29. CASE InstallFails
    BY <1>29 DEF InstallFails, FailLifecycle
  <1>30. CASE LaunchRefused
    BY <1>30 DEF LaunchRefused, FailLifecycle, Unrestored
  <1>31. CASE LaunchFails
    BY <1>31 DEF LaunchFails, FailLifecycle, Unrestored
  <1>32. CASE LaunchNotOwned
    BY <1>32 DEF LaunchNotOwned, FailLifecycle
  <1>33. ASSUME NEW kind \in {"upgrade", "rollback"}, ReplaceInstallation(kind) PROVE ServedShape'
    BY <1>33 DEF ReplaceInstallation
  <1>34. ASSUME NEW m \in Supervisors, Supervisor(m) PROVE ServedShape'
    <2>1. UNCHANGED <<state, java, online, unrestored>>
      BY <1>34 DEF Supervisor, SupervisorWakes, SupervisorCancelled, SupervisorLocks, Returning,
                   SupervisorLeaves, SupervisorReturns
    <2>2. (op' = op /\ opMu' = opMu) \/ (op'.kind = "keepalive" /\ op'.step = "refresh" /\ opMu' = m)
      BY <1>34 DEF Supervisor, SupervisorWakes, SupervisorCancelled, SupervisorLocks, Returning,
                   SupervisorLeaves, SupervisorReturns
    <2>3. Watched => Watched'
      BY <1>34
    <2> QED BY <2>1, <2>2, <2>3
  <1>35. CASE JavaDies \/ RootCancel \/ Age
    BY <1>35 DEF JavaDies, RootCancel, Age
  <1>36. CASE NewDaemon
    BY <1>36 DEF NewDaemon
  <1>37. CASE UNCHANGED vars
    BY <1>37 DEF vars, loop
  <1> QED
    BY <1>1, <1>2, <1>3, <1>4, <1>5, <1>6, <1>7, <1>8, <1>9, <1>10, <1>11, <1>12, <1>13, <1>14, <1>15, <1>16, <1>17, <1>18, <1>19, <1>20, <1>21, <1>22, <1>23, <1>24, <1>25, <1>26, <1>27, <1>28, <1>29, <1>30, <1>31, <1>32, <1>33, <1>34, <1>35, <1>36, <1>37
       DEF Next, Unordered, Order, Progress, Failure, Environment

-----------------------------------------------------------------------------
(* What the operation in progress may do.                                  *)

\* A session is ready only for an operator who wants it, an operation that
\* launches has a reason to, and a supervisor that decides to restart has not
\* had an answer.
LEMMA PromiseKept ==
    ASSUME LoopTypes, OtherTypes, LoopShape, OpShape, OwnShape, PromiseShape, [Next]_vars
    PROVE  PromiseShape'
  <1> USE LifecycleAssumption
  <1>s. StepShape
    BY DEF OpShape
  <1>i. Idle.kind = "none" /\ Idle.step = "none"
    BY DEF Idle
  <1>t. /\ java \in BOOLEAN /\ ready \in BOOLEAN /\ failures \in 0..MaxFailures
        /\ before.running \in BOOLEAN /\ before.detached \in BOOLEAN /\ op.was \in BOOLEAN
    BY DEF OtherTypes
  <1>f. FailLifecycle => op' = Idle \/ (op.kind = "recovery" /\ op'.kind = "recovery" /\ op'.step = "mend")
    <2>1. CASE op.kind = "recovery"
      BY <2>1 DEF FailLifecycle, Then, GoOn
    <2>2. CASE op.kind # "recovery"
      BY <2>2 DEF FailLifecycle, Done
    <2> QED BY <2>1, <2>2
  <1>y. /\ SetLifecycle("busy") => state' = "busy" /\ ~ready'
        /\ SetLifecycle("stopped") => state' = "stopped" /\ ~ready'
        /\ SetLifecycle("error") => state' = "error" /\ ~ready'
        /\ SetLifecycle("running") => state' = "running" /\ (ready' => ready)
        /\ FailLifecycle => state' = "error" /\ ~ready'
    BY DEF SetLifecycle, FailLifecycle
  <1>a. UNCHANGED <<loop, outside, opMu>> => (Alive(runs[opMu])' <=> Alive(runs[opMu]))
    BY DEF loop, outside, Alive
  <1> USE <1>s, <1>i, <1>t, <1>y, <1>f
      DEF StepShape, PromiseShape, GoOn, Then, Done, Hold, Accepts, At, txn, view
  <1>1. CASE Start
    BY <1>1 DEF Start
  <1>2. CASE Stop
    BY <1>2 DEF Stop
  <1>3. CASE StopKeepingSession
    BY <1>3 DEF StopKeepingSession, Detach
  <1>4. CASE Shutdown
    BY <1>4 DEF Shutdown, Detach
  <1>5. CASE Restart
    BY <1>5 DEF Restart
  <1>6. CASE Recover
    BY <1>6 DEF Recover
  <1>7. CASE ResumeSession
    BY <1>7 DEF ResumeSession
  <1>8. CASE Logout
    BY <1>8 DEF Logout, SeenOnline
  <1>9. CASE Reconfigure
    BY <1>9 DEF Reconfigure
  <1>10. CASE RestoreConfiguration
    BY <1>10 DEF RestoreConfiguration
  <1>11. CASE AutoStart
    BY <1>11 DEF AutoStart, outside
  <1>12. CASE Refused
    <2>1. CASE IntentNotSaved
      BY <2>1 DEF IntentNotSaved
    <2>2. CASE ReplacementRefused
      BY <2>2 DEF ReplacementRefused, NoLock, budget
    <2>3. CASE ShutdownRefused
      BY <2>3 DEF ShutdownRefused, NoLock, budget
    <2> QED BY <1>12, <2>1, <2>2, <2>3 DEF Refused
  <1>13. CASE StopSucceeds
    BY <1>13 DEF StopSucceeds, Terminated
  <1>14. CASE Settle
    BY <1>14 DEF Settle
  <1>15. CASE Install
    BY <1>15 DEF Install
  <1>16. CASE Launch
    BY <1>16 DEF Launch
  <1>17. CASE Undo
    BY <1>17 DEF Undo, Terminated
  <1>18. CASE RefreshUnreachable
    BY <1>18 DEF RefreshUnreachable, AfterRefresh
  <1>19. CASE RefreshAnswered
    BY <1>19 DEF RefreshAnswered, AfterRefresh
  <1>20. CASE RefreshTimesOut
    BY <1>20 DEF RefreshTimesOut, AfterRefresh
  <1>21. CASE RefreshAborted
    <2>1. op.kind = "keepalive" => ~Alive(runs[opMu])' /\ op'.step = "decide"
      BY <1>21, <1>a DEF RefreshAborted, RefreshLive, AfterRefresh
    <2>2. op.kind # "keepalive" => op'.step = "tickler"
      BY <1>21 DEF RefreshAborted, AfterRefresh
    <2> QED BY <1>21, <2>1, <2>2 DEF RefreshAborted, AfterRefresh
  <1>22. CASE StartTickler
    BY <1>22 DEF StartTickler
  <1>23. CASE Close
    BY <1>23 DEF Close, Detach
  <1>24. CASE KeepLooping
    BY <1>24 DEF KeepLooping
  <1>25. CASE RestartProcess
    BY <1>25 DEF RestartProcess
  <1>26. CASE Mend
    BY <1>26 DEF Mend
  <1>27. CASE StopFails
    BY <1>27 DEF StopFails, Unrestored
  <1>28. CASE SettleFails
    BY <1>28 DEF SettleFails, Unrestored, OwnShape
  <1>29. CASE InstallFails
    BY <1>29 DEF InstallFails
  <1>30. CASE LaunchRefused
    BY <1>30 DEF LaunchRefused, Unrestored
  <1>31. CASE LaunchFails
    BY <1>31 DEF LaunchFails, Unrestored
  <1>32. CASE LaunchNotOwned
    BY <1>32 DEF LaunchNotOwned
  <1>33. ASSUME NEW kind \in {"upgrade", "rollback"}, ReplaceInstallation(kind) PROVE PromiseShape'
    BY <1>33 DEF ReplaceInstallation
  <1>34. ASSUME NEW m \in Supervisors, Supervisor(m) PROVE PromiseShape'
    <2>1. UNCHANGED <<state, desired, java, failures, before>> /\ (ready' => ready)
      BY <1>34, <1>t DEF Supervisor, SupervisorWakes, SupervisorCancelled, SupervisorLocks, Returning,
                   SupervisorLeaves, SupervisorReturns, budget
    <2>2. CASE SupervisorLocks(m)
      <3>1. (op' = op /\ opMu' = opMu) \/ (op'.kind = "keepalive" /\ op'.step = "refresh" /\ desired = "connected")
        BY <2>2 DEF SupervisorLocks
      <3>2. opMu = None /\ op.step = "none"
        BY <2>2 DEF SupervisorLocks
      <3> QED BY <2>1, <3>1, <3>2
    <2>3. CASE ~SupervisorLocks(m)
      <3>1. op' = op /\ opMu' = opMu
        BY <1>34, <2>3 DEF Supervisor, SupervisorWakes, SupervisorCancelled, Returning,
                           SupervisorLeaves, SupervisorReturns
      <3>2. Alive(runs[opMu])' => Alive(runs[opMu]) \/ op.step # "decide"
        <4>1. live' = live /\ rooted' = rooted /\ rootDone' = rootDone
          BY <1>34, SupervisorKeepsLoop
        <4>2. op.step = "decide" => opMu \in Supervisors /\ at[opMu] = "working"
          BY DEF OpShape, HolderShape
        <4>3. op.step = "decide" => runs'[opMu] = runs[opMu]
          BY <1>34, <2>3, <4>2 DEF Supervisor, SupervisorWakes, SupervisorCancelled, Returning,
                              SupervisorLeaves, SupervisorReturns, LoopTypes
        <4> QED BY <3>1, <4>1, <4>3 DEF Alive
      <3> QED BY <2>1, <3>1, <3>2
    <2> QED BY <2>2, <2>3
  <1>35. CASE JavaDies \/ RootCancel \/ Age
    <2>1. Alive(runs[opMu])' => Alive(runs[opMu])
      BY <1>35 DEF JavaDies, RootCancel, Age, loop, Alive, outside
    <2> QED BY <1>35, <2>1 DEF JavaDies, RootCancel, Age, budget
  <1>36. CASE NewDaemon
    BY <1>36 DEF NewDaemon
  <1>37. CASE UNCHANGED vars
    BY <1>37, <1>a DEF vars, loop, outside
  <1> QED
    BY <1>1, <1>2, <1>3, <1>4, <1>5, <1>6, <1>7, <1>8, <1>9, <1>10, <1>11, <1>12, <1>13, <1>14, <1>15, <1>16, <1>17, <1>18, <1>19, <1>20, <1>21, <1>22, <1>23, <1>24, <1>25, <1>26, <1>27, <1>28, <1>29, <1>30, <1>31, <1>32, <1>33, <1>34, <1>35, <1>36, <1>37
       DEF Next, Unordered, Order, Progress, Failure, Environment

-----------------------------------------------------------------------------
(* The properties.                                                         *)

LifecycleInv == TypeOK /\ InstanceInvariant

\* A manager begins with the invariant, whatever the one before it left.
LEMMA LifecycleInit == Init => LifecycleInv
  <1> SUFFICES ASSUME Init PROVE LifecycleInv
    OBVIOUS
  <1> USE LifecycleAssumption DEF Init
  <1>1. LoopTypes
    BY DEF LoopTypes
  <1>2. RestartTypes
    BY EmptySeq DEF RestartTypes
  <1>3. OtherTypes
    <2>1. /\ "none" \in Kinds /\ "none" \in Steps /\ "stopped" \in States /\ 0 \in 0..MaxFailures
          /\ Idle \in [kind : {"none"}, step : {"none"}, was : BOOLEAN]
          /\ NoBefore \in [desired : {"none"}, running : BOOLEAN, detached : BOOLEAN]
      BY DEF Kinds, Steps, States, Idle, NoBefore
    <2> QED BY <2>1 DEF OtherTypes
  <1>4. InstanceInvariant
    BY DEF InstanceInvariant, LoopShape, OpShape, HolderShape, StepShape, OwnShape, ServedShape, Served,
           PromiseShape, Active, Idle, NoBefore
  <1> QED BY <1>1, <1>2, <1>3, <1>4, TypeParts DEF LifecycleInv

\* Every step keeps it.
LEMMA LifecycleStep == LifecycleInv /\ [Next]_vars => LifecycleInv'
  <1> SUFFICES ASSUME LifecycleInv, [Next]_vars PROVE LifecycleInv'
    OBVIOUS
  <1>1. /\ LoopTypes /\ RestartTypes /\ OtherTypes
        /\ LoopShape /\ OpShape /\ OwnShape /\ ServedShape /\ PromiseShape
    BY TypeParts DEF LifecycleInv, InstanceInvariant
  <1>2. LoopTypes' /\ LoopShape'
    BY <1>1, LoopKept
  <1>3. RestartTypes' /\ OtherTypes'
    BY <1>1, RestartsTyped, OtherTyped
  <1>4. OpShape' /\ OwnShape' /\ ServedShape' /\ PromiseShape'
    BY <1>1, OpKept, OwnKept, ServedKept, PromiseKept
  <1>5. TypeOK'
    BY <1>2, <1>3 DEF TypeOK, LoopTypes, RestartTypes, OtherTypes
  <1> QED BY <1>2, <1>4, <1>5 DEF LifecycleInv, InstanceInvariant

\* What the supervisors, the operations and the fields they share have to do
\* with each other holds in every state.
THEOREM LifecycleInvariantHolds == Spec => []LifecycleInv
  BY LifecycleInit, LifecycleStep, PTL DEF Spec

\* The variables keep their types, the bounds on failures and restarts included.
THEOREM InstanceTyped == Spec => []TypeOK
  <1>1. LifecycleInv => TypeOK
    BY DEF LifecycleInv
  <1> QED BY <1>1, LifecycleInvariantHolds, PTL

\* Two goroutines never supervise at the same time: whichever is not the
\* current one runs under a context that is cancelled.
THEOREM OneSupervisor == Spec => []SingleSupervisor
  <1>1. LifecycleInv => SingleSupervisor
    BY DEF LifecycleInv, InstanceInvariant, LoopShape, SingleSupervisor, Supervising, Active, Alive, TypeOK
  <1> QED BY <1>1, LifecycleInvariantHolds, PTL

\* A goroutine that may still act belongs to a manager that owns the state
\* directory: the lock is given up only after its context was cancelled.
THEOREM SupervisorsOwn == Spec => []SupervisorOwnsInstance
  <1>1. LifecycleInv => SupervisorOwnsInstance
    BY DEF LifecycleInv, InstanceInvariant, LoopShape, OwnShape, SupervisorOwnsInstance, Supervising,
           Active, Alive, TypeOK
  <1> QED BY <1>1, LifecycleInvariantHolds, PTL

\* Whatever operations failed, and in whichever steps, an instance shown as
\* running and wanted connected has its supervisor when they are over.
THEOREM KeepaliveStays == Spec => []KeepaliveNotLost
  <1>1. ASSUME LifecycleInv PROVE KeepaliveNotLost
    <2>1. SUFFICES ASSUME opMu = None, state \in {"running", "auth"}, online,
                          ~(ctx \in rooted /\ rootDone), ~unrestored
                   PROVE  \E m \in Supervisors : Supervising(m)
      BY DEF KeepaliveNotLost
    <2>2. current # None /\ current \in Supervisors
      BY <1>1, <2>1 DEF LifecycleInv, InstanceInvariant, ServedShape, Served, Watched, TypeOK
    <2>3. runs[current] = ctx /\ ctx # None /\ Alive(ctx)
      BY <1>1, <2>1, <2>2 DEF LifecycleInv, InstanceInvariant, LoopShape, Alive
    <2>4. Active(current)
      BY <1>1, <2>2, <2>3 DEF LifecycleInv, InstanceInvariant, LoopShape
    <2> QED BY <2>2, <2>3, <2>4 DEF Supervising, Active
  <1> QED BY <1>1, LifecycleInvariantHolds, PTL

\* A supervisor turns its probe into a restart only when the last answer was
\* that nobody is there.
THEOREM AnsweringProcessStays == Spec => AnsweringProcessKept
  <1>1. ASSUME LifecycleInv, [Next]_vars PROVE op.kind = "keepalive" /\ op'.kind = "recovery" => ~java
    <2> SUFFICES ASSUME op.kind = "keepalive", op'.kind = "recovery" PROVE ~java
      OBVIOUS
    <2>1. CASE RestartProcess
      <3>1. op.step = "decide" /\ failures = MaxFailures /\ Alive(runs[opMu])
        BY <1>1, <2>1, LifecycleAssumption DEF RestartProcess, ShouldRestart, At, LifecycleInv, TypeOK
      <3> QED BY <1>1, <3>1 DEF LifecycleInv, InstanceInvariant, PromiseShape
    <2>2. opMu \in Supervisors /\ LoopTypes /\ OtherTypes /\ OpShape /\ op.step # "none"
      BY <1>1, TypeParts DEF LifecycleInv, InstanceInvariant, OpShape, HolderShape, StepShape
    <2>3. CASE ~OwnSteps
      BY <1>1, <2>1, <2>2, <2>3, OperationSteps, LifecycleAssumption DEF HolderStep
    <2>4. ~OwnSteps
      <3>1. ~KeepLooping /\ ~NewDaemon
        BY DEF KeepLooping, NewDaemon, Done, Idle
      <3>2. ASSUME NEW m \in Supervisors PROVE ~Supervisor(m)
        BY <2>2, LifecycleAssumption
           DEF Supervisor, SupervisorWakes, SupervisorLocks, SupervisorCancelled, Returning,
               SupervisorLeaves, SupervisorReturns
      <3> QED BY <3>1, <3>2 DEF OwnSteps
    <2> QED BY <2>3, <2>4
  <1> QED BY <1>1, LifecycleInvariantHolds, PTL DEF Spec, AnsweringProcessKept

-----------------------------------------------------------------------------
(* The implementation of InstancePromise.                                  *)

Ran == op.was \/ before.running \/ before.detached

\* What a step of a manager may change of what the promise is about.
PromiseStep ==
    /\ state' = "stopped" => state = "stopped" \/ ~java'
    /\ online' => online \/ java'
    /\ ready' => ready \/ java
    /\ Ran' => Ran \/ java \/ online \/ state = "detached"
    /\ \/ java' = java
       \/ ~java' /\ desired' = desired
       \/ op.step = "launch" /\ java' /\ ~ready' /\ desired' = desired

\* Every step but the beginning of another manager is such a step: "stopped" is
\* shown after an end only, and a process begins in a launch only.
LEMMA EveryPromiseStep ==
    ASSUME OtherTypes, OpShape, OwnShape, PromiseShape, [Next]_vars, ~NewDaemon
    PROVE  PromiseStep
  <1> USE LifecycleAssumption
  <1>s. StepShape
    BY DEF OpShape
  <1>i. Idle.step = "none" /\ ~Idle.was /\ ~NoBefore.running /\ ~NoBefore.detached
    BY DEF Idle, NoBefore
  <1>t. /\ java \in BOOLEAN /\ ready \in BOOLEAN /\ online \in BOOLEAN
        /\ before.running \in BOOLEAN /\ before.detached \in BOOLEAN /\ op.was \in BOOLEAN
    BY DEF OtherTypes
  <1>h. op.step \in {"settle", "install"} => ~java /\ ~online
    BY DEF OwnShape
  <1>y. /\ SetLifecycle("busy") => state' = "busy" /\ ~ready'
        /\ SetLifecycle("stopped") => state' = "stopped" /\ ~ready'
        /\ SetLifecycle("error") => state' = "error" /\ ~ready'
        /\ SetLifecycle("running") => state' = "running" /\ (ready' => ready)
        /\ FailLifecycle => state' = "error" /\ ~ready'
    BY DEF SetLifecycle, FailLifecycle
  <1>f. FailLifecycle => op' = Idle \/ op'.was = op.was
    <2>1. CASE op.kind = "recovery"
      BY <2>1 DEF FailLifecycle, Then, GoOn
    <2>2. CASE op.kind # "recovery"
      BY <2>2 DEF FailLifecycle, Done
    <2> QED BY <2>1, <2>2
  <1> USE <1>s, <1>i, <1>t, <1>h, <1>y, <1>f
      DEF StepShape, PromiseStep, Ran, GoOn, Then, Done, Hold, Accepts, At, txn, view
  <1>1. CASE Start
    BY <1>1 DEF Start
  <1>2. CASE Stop
    BY <1>2 DEF Stop
  <1>3. CASE StopKeepingSession
    BY <1>3 DEF StopKeepingSession, Detach
  <1>4. CASE Shutdown
    BY <1>4 DEF Shutdown, Detach
  <1>5. CASE Restart
    BY <1>5 DEF Restart
  <1>6. CASE Recover
    BY <1>6 DEF Recover
  <1>7. CASE ResumeSession
    BY <1>7 DEF ResumeSession
  <1>8. CASE Logout
    BY <1>8 DEF Logout, SeenOnline
  <1>9. CASE Reconfigure
    BY <1>9 DEF Reconfigure
  <1>10. CASE RestoreConfiguration
    BY <1>10 DEF RestoreConfiguration
  <1>11. CASE AutoStart
    BY <1>11 DEF AutoStart, outside
  <1>12. CASE Refused
    BY <1>12 DEF Refused, IntentNotSaved, ReplacementRefused, ShutdownRefused
  <1>13. CASE StopSucceeds
    BY <1>13 DEF StopSucceeds, Terminated
  <1>14. CASE Settle
    BY <1>14 DEF Settle
  <1>15. CASE Install
    BY <1>15 DEF Install
  <1>16. CASE Launch
    BY <1>16 DEF Launch
  <1>17. CASE Undo
    BY <1>17 DEF Undo, Terminated
  <1>18. CASE RefreshUnreachable
    BY <1>18 DEF RefreshUnreachable, AfterRefresh
  <1>19. CASE RefreshAnswered
    BY <1>19 DEF RefreshAnswered, AfterRefresh
  <1>20. CASE RefreshTimesOut
    BY <1>20 DEF RefreshTimesOut, AfterRefresh
  <1>21. CASE RefreshAborted
    BY <1>21 DEF RefreshAborted, AfterRefresh, SeenOnline
  <1>22. CASE StartTickler
    BY <1>22 DEF StartTickler
  <1>23. CASE Close
    BY <1>23 DEF Close, Detach
  <1>24. CASE KeepLooping
    BY <1>24 DEF KeepLooping
  <1>25. CASE RestartProcess
    BY <1>25 DEF RestartProcess
  <1>26. CASE Mend
    BY <1>26 DEF Mend
  <1>27. CASE StopFails
    BY <1>27 DEF StopFails, Unrestored
  <1>28. CASE SettleFails
    BY <1>28 DEF SettleFails, Unrestored, OwnShape
  <1>29. CASE InstallFails
    BY <1>29 DEF InstallFails
  <1>30. CASE LaunchRefused
    BY <1>30 DEF LaunchRefused, Unrestored
  <1>31. CASE LaunchFails
    BY <1>31 DEF LaunchFails, Unrestored
  <1>32. CASE LaunchNotOwned
    BY <1>32 DEF LaunchNotOwned
  <1>33. ASSUME NEW kind \in {"upgrade", "rollback"}, ReplaceInstallation(kind) PROVE PromiseStep
    BY <1>33 DEF ReplaceInstallation
  <1>34. ASSUME NEW m \in Supervisors, Supervisor(m) PROVE PromiseStep
    <2>1. UNCHANGED <<state, online, java, before>> /\ (ready' => ready)
      BY <1>34, <1>t DEF Supervisor, SupervisorWakes, SupervisorCancelled, SupervisorLocks, Returning,
                         SupervisorLeaves, SupervisorReturns
    <2>2. op' = op \/ op'.was = FALSE
      BY <1>34 DEF Supervisor, SupervisorWakes, SupervisorCancelled, SupervisorLocks, Returning,
                   SupervisorLeaves, SupervisorReturns
    <2> QED BY <2>1, <2>2
  <1>35. CASE JavaDies \/ RootCancel \/ Age
    BY <1>35 DEF JavaDies, RootCancel, Age
  <1>37. CASE UNCHANGED vars
    BY <1>37 DEF vars
  <1> QED
    BY <1>1, <1>2, <1>3, <1>4, <1>5, <1>6, <1>7, <1>8, <1>9, <1>10, <1>11, <1>12, <1>13, <1>14, <1>15, <1>16, <1>17, <1>18, <1>19, <1>20, <1>21, <1>22, <1>23, <1>24, <1>25, <1>26, <1>27, <1>28, <1>29, <1>30, <1>31, <1>32, <1>33, <1>34, <1>35, <1>37
       DEF Next, Unordered, Order, Progress, Failure, Environment

\* The refinement: the steps of the goroutines and of the operations, with any
\* of them failing, are steps of the promise or leave it alone.
THEOREM InstanceKeepsPromise == Spec => KeepsPromise
  <1> DEFINE Shown == IF state \in {"running", "auth"} THEN "serving"
                      ELSE IF state \in {"stopped", "detached"} THEN state ELSE "other"
  <1>1. Init => Promise!Init
    BY DEF Init, Promise!Init, Intents, Promise!Intents, Idle, NoBefore
  <1>2. ASSUME LifecycleInv, [Next]_vars
        PROVE  [Promise!Next]_<<desired, java, Shown, online, ready, Ran>>
    <2>1. CASE NewDaemon
      <3>1. Promise!NewManager
        BY <2>1 DEF NewDaemon, Promise!NewManager, Idle, NoBefore
      <3> QED BY <3>1 DEF Promise!Next
    <2>2. CASE ~NewDaemon
      <3>1. /\ OtherTypes /\ OtherTypes' /\ PromiseShape /\ PromiseShape'
            /\ OpShape /\ OwnShape /\ PromiseStep
        BY <1>2, <2>2, LifecycleStep, TypeParts, EveryPromiseStep
           DEF LifecycleInv, InstanceInvariant, TypeOK, OtherTypes
      <3>2. Promise!Shows
        <4>1. Shown' \in Promise!Shown /\ online' \in BOOLEAN /\ ready' \in BOOLEAN
          BY <3>1 DEF OtherTypes, Promise!Shown
        <4>2. /\ Shown' = "stopped" => Shown = "stopped" \/ ~java'
              /\ online' => online \/ java'
              /\ ready' => Shown' = "serving" /\ desired' = "connected" /\ (ready \/ java)
          BY <3>1 DEF PromiseStep, PromiseShape
        <4> QED BY <4>1, <4>2 DEF Promise!Shows
      <3>3. Promise!Remembers
        BY <3>1 DEF PromiseStep, Ran, Promise!Remembers
      <3>4. CASE java' = java
        <4>1. desired' \in Promise!Intents
          BY <3>1 DEF OtherTypes, Intents, Promise!Intents
        <4>2. Promise!Order(desired')
          BY <3>2, <3>3, <3>4 DEF Promise!Order
        <4> QED BY <4>1, <4>2 DEF Promise!Next
      <3>5. CASE ~java' /\ desired' = desired
        <4>1. Promise!Ends
          BY <3>1, <3>2, <3>3, <3>5 DEF Promise!Ends, OtherTypes
        <4> QED BY <4>1 DEF Promise!Next
      <3>6. CASE op.step = "launch" /\ java' /\ ~ready' /\ desired' = desired /\ ~java
        <4>1. desired # "stopped" \/ Ran
          BY <3>1, <3>6 DEF PromiseShape, Ran
        <4>2. Promise!Launch
          BY <3>1, <3>2, <3>3, <3>6, <4>1 DEF Promise!Launch, OtherTypes, Ran
        <4> QED BY <4>2 DEF Promise!Next
      <3> QED BY <3>1, <3>4, <3>5, <3>6 DEF PromiseStep, OtherTypes
    <2> QED BY <2>1, <2>2
  <1>3. LifecycleInv /\ [Next]_vars
        => [Promise!Next]_<<desired, java, Shown, online, ready, op.was \/ before.running \/ before.detached>>
    BY <1>2 DEF Ran
  <1> QED BY <1>1, <1>3, LifecycleInvariantHolds, PTL DEF Spec, KeepsPromise, Promise!Spec

=============================================================================
