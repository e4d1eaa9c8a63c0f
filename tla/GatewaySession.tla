--------------------------- MODULE GatewaySession ---------------------------
(***************************************************************************)
(* The brokerage session of one managed instance: gateway/session.go,      *)
(* gateway/session_state.go and gateway/login_initialization.go.           *)
(*                                                                         *)
(* Three things act on it.  Operator orders (management requests) and the  *)
(* keepalive supervisor serialise on opMu, but every HTTP request to the   *)
(* Java Gateway is a point where the daemon may be killed, the browser may *)
(* disconnect or the root context may be cancelled, and a cancelled        *)
(* supervisor leaves under mu alone, without opMu.  The operator's intent  *)
(* is on disk; everything else is memory and is lost with the daemon.      *)
(*                                                                         *)
(* Instants of time.Time are kept as the time left until them, which is    *)
(* all the code compares.                                                  *)
(***************************************************************************)
EXTENDS Naturals, FiniteSets

CONSTANTS
    Orders,          \* the operator orders issued: a subset of AllOrders
    TickleAnswers,   \* what /tickle followed by /iserver/auth/status reports
    SsoAnswers,      \* what /sso/validate reports
    InitAnswers,     \* what /iserver/auth/ssodh/init answers
    StatusAnswers,   \* what the status request after an init reports
    SavedAtFirst,    \* what the intent file may hold before the first boot
    LoginWait,       \* how long a permission waits for SSO (10 minutes)
    InitWindow,      \* how long it lasts once SSO is valid (2 minutes)
    MaxAttempts,     \* loginInitializationMaxAttempts
    Backoff          \* sessionRetryDelay of each attempt

AllOrders == {"start", "restart", "stop", "logout", "recover", "takeover", "resume"}

\* "loading" is authenticated and neither competing nor failed; "idle" is any
\* other state that is neither ready nor competing, an HTTP 401 included.
AllTickleAnswers == {"failed", "ready", "competing", "loading", "idle"}
AllSsoAnswers    == {"valid", "expired", "unknown"}
\* "competing", "forced" and "refused" are the three kinds of a failure field.
Failures         == {"competing", "forced", "refused"}
AllInitAnswers   == {"accepted", "error", "unauthorized"} \cup Failures
AllStatusAnswers == {"ready", "contended", "pending", "unauthorized"} \cup Failures

\* "corrupt" is also a file with an intent the program does not know.
AllSaved == {"connected", "logged_out", "stopped", "missing", "corrupt"}

ASSUME AnswersAssumption ==
    /\ Orders \subseteq AllOrders
    /\ TickleAnswers \subseteq AllTickleAnswers
    /\ SsoAnswers \subseteq AllSsoAnswers
    /\ InitAnswers \subseteq AllInitAnswers
    /\ StatusAnswers \subseteq AllStatusAnswers
    /\ SavedAtFirst \subseteq AllSaved
ASSUME TimingAssumption ==
    /\ LoginWait \in Nat \ {0}
    /\ InitWindow \in Nat \ {0}
    /\ MaxAttempts \in Nat \ {0}
    /\ Backoff \in [1..MaxAttempts -> Nat]

VARIABLES
    saved,      \* the intent file: an intent, "missing" or "corrupt"
    up,         \* the daemon runs
    starting,   \* StartConfigured has not yet come to this instance
    rootDone,   \* the daemon's root context is cancelled
    desired,    \* session.DesiredState
    intentError,\* g.intentError # nil
    session,    \* session.SessionState
    login,      \* g.loginInit, the permission to take a session over
    ctx,        \* g.ctx: "none", or the context it derives from
    monitor,    \* the supervisor goroutine
    wake,       \* g.wakeSession holds a token
    opMu,       \* the holder of opMu
    order,      \* the operator's order in progress
    call,       \* the refreshSession in progress
    grant,      \* history: the last explicit permission, its age and its uses
    quiet       \* history: a logout or stop has taken effect and stands

vars == <<saved, up, starting, rootDone, desired, intentError, session, login,
          ctx, monitor, wake, opMu, order, call, grant, quiet>>

Intents       == {"connected", "logged_out", "stopped"}
SessionStates == {"unknown", "ready", "recovering", "initializing",
                  "login_required", "competing", "takeover_required",
                  "logged_out", "stopped"}

-----------------------------------------------------------------------------
(* The permission of login_initialization.go.                              *)

NoLogin == [phase |-> "none", left |-> 0, backoff |-> 0, attempts |-> 0,
            exhausted |-> FALSE]

\* phase is "waiting" while waitingUntil is set, "window" while deadline is.
NewLogin == [NoLogin EXCEPT !.phase = "waiting", !.left = LoginWait]

Pending(l) == l.phase # "none"
Active(l)  == ~l.exhausted /\ l.left > 0

\* Fault: every attempt renews the window.
OpenedAnew(l) ==
    IF l.exhausted \/ l.left = 0 THEN [l EXCEPT !.exhausted = TRUE]
    ELSE [l EXCEPT !.phase = "window", !.left = InitWindow]

\* The first attempt of a permission still waiting opens its window, or finds
\* that SSO came too late.
Opened(l) ==
    IF l.phase # "waiting" \/ l.exhausted THEN l
    ELSE IF l.left = 0 THEN [l EXCEPT !.exhausted = TRUE]
    ELSE [l EXCEPT !.phase = "window", !.left = InitWindow]

Spent(l) == LET o == Opened(l)
            IN  o.exhausted \/ o.left = 0 \/ o.attempts >= MaxAttempts

\* What attempt() decides, and the permission it leaves.
Verdict(l) ==
    IF ~Pending(l) THEN "none"
    ELSE IF Spent(l) THEN "spent"
    ELSE IF Opened(l).backoff > 0 THEN "wait" ELSE "go"

Attempted(l) ==
    CASE Verdict(l) = "none"  -> l
      [] Verdict(l) = "spent" -> [Opened(l) EXCEPT !.exhausted = TRUE]
      [] Verdict(l) = "wait"  -> Opened(l)
      [] Verdict(l) = "go"    ->
           [Opened(l) EXCEPT !.attempts = @ + 1,
                             !.backoff = Backoff[Opened(l).attempts + 1]]

Less(n) == IF n = 0 THEN 0 ELSE n - 1
Aged(l) == [l EXCEPT !.left = Less(@), !.backoff = Less(@)]

-----------------------------------------------------------------------------
(* The state outside the permission.                                       *)

NoOrder == [kind |-> "none", step |-> "none", connected |-> TRUE]
NoCall  == [at |-> "none", compete |-> FALSE, loginPending |-> FALSE,
            loading |-> FALSE]
NoGrant == [on |-> FALSE, age |-> 0, inits |-> 0]
GrantAgeBound == LoginWait + InitWindow

\* A context derived from the root one dies with it; the others are cancelled
\* only by the operations that also forget them.
CtxLive == ctx # "none" /\ ~(ctx = "rooted" /\ rootDone)

\* recover and takeover pass the request's own context, which dies when the
\* browser goes away; every other refresh runs under g.ctx.
UsesRequestCtx == opMu = "operator" /\ order.kind \in {"recover", "takeover"}
CallLive == IF UsesRequestCtx THEN order.connected ELSE CtxLive

Init ==
    /\ saved \in SavedAtFirst
    /\ up = FALSE /\ starting = FALSE /\ rootDone = FALSE
    /\ desired = "connected" /\ intentError = FALSE
    /\ session = "unknown" /\ login = NoLogin
    /\ ctx = "none" /\ monitor = "none" /\ wake = FALSE
    /\ opMu = "free" /\ order = NoOrder /\ call = NoCall
    /\ grant = NoGrant /\ quiet = FALSE

process == <<up, starting, rootDone>>
intent  == <<saved, desired, intentError>>
loop    == <<ctx, monitor, wake>>
history == <<grant, quiet>>

\* Fault: the intent file is believed without validDesiredState.
BootTrusting ==
    /\ ~up
    /\ up' = TRUE /\ starting' \in BOOLEAN /\ rootDone' = FALSE
    /\ desired' = IF saved = "missing" THEN "connected" ELSE saved
    /\ intentError' = FALSE
    /\ session' = IF saved \in {"logged_out", "stopped"} THEN saved ELSE "unknown"
    /\ UNCHANGED <<saved, login, loop, opMu, order, call, history>>

\* NewGatewayManager and loadIntent.  A file it cannot read means stopped.
Boot ==
    /\ ~up
    /\ up' = TRUE /\ starting' \in BOOLEAN /\ rootDone' = FALSE
    /\ desired' = IF saved \in Intents THEN saved
                  ELSE IF saved = "missing" THEN "connected" ELSE "stopped"
    /\ intentError' = (saved = "corrupt")
    /\ session' = IF saved \in {"logged_out", "stopped"} THEN saved ELSE "unknown"
    /\ UNCHANGED <<saved, login, loop, opMu, order, call, history>>

\* The daemon ends, at any point: only the file and the orders that took
\* effect outlive it.
Crash ==
    /\ up
    /\ up' = FALSE /\ starting' = FALSE /\ rootDone' = FALSE
    /\ desired' = "connected" /\ intentError' = FALSE
    /\ session' = "unknown" /\ login' = NoLogin
    /\ ctx' = "none" /\ monitor' = "none" /\ wake' = FALSE
    /\ opMu' = "free" /\ order' = NoOrder /\ call' = NoCall
    /\ grant' = NoGrant
    /\ UNCHANGED <<saved, quiet>>

RootCancel ==
    /\ up /\ ~rootDone
    /\ rootDone' = TRUE
    /\ UNCHANGED <<up, starting, intent, session, login, loop, opMu, order,
                   call, history>>

Tick ==
    /\ login' = Aged(login)
    /\ grant' = IF grant.on /\ grant.age < GrantAgeBound
                THEN [grant EXCEPT !.age = @ + 1] ELSE grant
    /\ <<login, grant>>' # <<login, grant>>
    /\ UNCHANGED <<process, intent, session, loop, opMu, order, call, quiet>>

-----------------------------------------------------------------------------
(* refreshSession: one action per answer it waits for.                     *)

\* Fault: the refresh does not look at the intent.
RefreshAnyway(compete) ==
    call' = [at |-> "tickle", compete |-> compete,
             loginPending |-> Pending(login'), loading |-> FALSE]

\* Called with the intent as the caller has just left it.
RefreshWith(compete) ==
    call' = IF desired' = "connected"
            THEN [at |-> "tickle", compete |-> compete,
                  loginPending |-> Pending(login'), loading |-> FALSE]
            ELSE NoCall

\* The caller goes on: the supervisor back to its select, the operator to the
\* rest of its order.
CallEnds ==
    /\ call' = NoCall
    /\ IF opMu = "supervisor"
       THEN opMu' = "free" /\ monitor' = "select" /\ UNCHANGED order
       ELSE order' = [order EXCEPT !.step = "return"] /\ UNCHANGED <<opMu, monitor>>

\* observe(), the only writer of an observed session state.
Observe(state) ==
    /\ session' = state
    /\ login' = IF state = "ready" THEN NoLogin ELSE login
    /\ grant' = IF state = "ready" THEN NoGrant ELSE grant
    /\ CallEnds

Waiting(point) == up /\ call.at = point /\ CallLive

CallRest == <<process, intent, ctx, wake, quiet>>

Tickle(answer) ==
    /\ Waiting("tickle") /\ answer \in TickleAnswers
    /\ \/ answer = "failed" /\ Observe("unknown")
       \/ answer = "ready" /\ Observe("ready")
       \/ answer = "competing" /\ ~call.compete /\ ~call.loginPending /\ Observe("competing")
       \/ /\ \/ answer \in {"loading", "idle"}
             \/ answer = "competing" /\ (call.compete \/ call.loginPending)
          /\ call' = [call EXCEPT !.at = "validate", !.loading = (answer = "loading")]
          /\ UNCHANGED <<session, login, grant, monitor, opMu, order>>
    /\ UNCHANGED CallRest

\* The init request goes out with compete set when the caller took over or the
\* permission allows this attempt.
SendInit ==
    LET compete == call.compete \/ Verdict(login) = "go"
    IN  /\ call' = [call EXCEPT !.at = "init", !.compete = compete]
        /\ grant' = IF compete THEN [grant EXCEPT !.inits = @ + 1] ELSE grant

Validate(answer) ==
    /\ Waiting("validate") /\ answer \in SsoAnswers
    /\ \/ answer = "expired" /\ Observe("login_required")
       \/ answer = "unknown" /\ Observe("unknown")
       \/ answer = "valid" /\ call.loading /\ Observe("initializing")
       \/ /\ answer = "valid" /\ ~call.loading
          /\ login' = Attempted(login)
          /\ \/ /\ Verdict(login) = "spent"
                /\ session' = "takeover_required" /\ CallEnds /\ UNCHANGED grant
             \/ /\ Verdict(login) = "wait"
                /\ session' = "initializing" /\ CallEnds /\ UNCHANGED grant
             \/ /\ Verdict(login) \in {"none", "go"}
                /\ SendInit
                /\ UNCHANGED <<session, monitor, opMu, order>>
    /\ UNCHANGED CallRest

\* observeInitializationFailure.
AfterFailure(failure) ==
    IF Active(login) THEN "recovering"
    ELSE CASE failure = "competing" -> "competing"
           [] failure = "forced"    -> "takeover_required"
           [] failure = "refused"   -> "recovering"

Recheck ==
    /\ call' = [call EXCEPT !.at = "recheck"]
    /\ UNCHANGED <<session, login, grant, monitor, opMu, order>>

InitAnswer(answer) ==
    /\ Waiting("init") /\ answer \in InitAnswers
    /\ \/ answer = "error" /\ Observe("recovering")
       \/ answer = "unauthorized" /\ Recheck
       \/ answer \in Failures /\ Observe(AfterFailure(answer))
       \/ /\ answer = "accepted"
          /\ call' = [call EXCEPT !.at = "status"]
          /\ UNCHANGED <<session, login, grant, monitor, opMu, order>>
    /\ UNCHANGED CallRest

StatusAnswer(answer) ==
    /\ Waiting("status") /\ answer \in StatusAnswers
    /\ \/ answer \in Failures /\ Observe(AfterFailure(answer))
       \/ answer = "unauthorized" /\ Recheck
       \/ answer = "contended" /\ Observe("competing")
       \/ answer = "ready" /\ Observe("ready")
       \/ answer = "pending" /\ Observe("recovering")
    /\ UNCHANGED CallRest

\* observeBrokerageUnauthorized asks SSO again before it concludes anything.
RecheckAnswer(answer) ==
    /\ Waiting("recheck") /\ answer \in SsoAnswers
    /\ Observe(CASE answer = "expired" -> "login_required"
                 [] answer = "valid"   -> "recovering"
                 [] answer = "unknown" -> "unknown")
    /\ UNCHANGED CallRest

\* Under a dead context every request fails and observe() drops the result.
CallAborted ==
    /\ up /\ call.at # "none" /\ ~CallLive
    /\ CallEnds
    /\ UNCHANGED <<CallRest, session, login, grant>>

-----------------------------------------------------------------------------
(* The supervisor loop of tickler.go, as far as the session sees it: that   *)
(* there is one loop, and what it does about a dead process, is the         *)
(* subject of GatewayLifecycle.                                             *)

\* The timer fires, or the token a login left in wakeSession arrives.
SupervisorWakes ==
    /\ monitor = "select" /\ CtxLive
    /\ monitor' = "locking"
    /\ wake' \in {wake, FALSE}
    /\ UNCHANGED <<process, intent, session, login, ctx, opMu, order, call, history>>

SupervisorRefreshes ==
    /\ monitor = "locking" /\ opMu = "free" /\ CtxLive
    /\ desired' = desired /\ login' = login
    /\ RefreshWith(FALSE)
    /\ IF desired = "connected"
       THEN opMu' = "supervisor" /\ monitor' = "refresh"
       ELSE opMu' = "free" /\ monitor' = "select"
    /\ UNCHANGED <<process, saved, intentError, session, ctx, wake, order, history>>

\* A refresh that could not reach the process may end in restartLocked: the
\* session and the permission are dropped, and the new context outlives the
\* root one.  If the start fails the supervisor is still replaced.
SupervisorRestarts(started) ==
    /\ monitor = "refresh" /\ opMu = "supervisor"
    /\ Waiting("tickle") /\ "failed" \in TickleAnswers
    /\ session' = "unknown" /\ login' = NoLogin
    /\ ctx' = "own" /\ desired' = desired
    /\ IF started
       THEN RefreshWith(FALSE) /\ UNCHANGED <<opMu, monitor>>
       ELSE call' = NoCall /\ opMu' = "free" /\ monitor' = "select"
    /\ UNCHANGED <<process, saved, intentError, wake, order, history>>

\* The deferred exit of a cancelled supervisor: under mu, without opMu.
SupervisorExits ==
    /\ up /\ ~CtxLive
    /\ monitor = "select" \/ (monitor = "locking" /\ opMu = "free")
    /\ monitor' = "none"
    /\ IF desired = "connected"
       THEN session' = "unknown" /\ login' = NoLogin
       ELSE UNCHANGED <<session, login>>
    /\ UNCHANGED <<process, intent, ctx, wake, opMu, order, call, history>>

\* NotifyLoginComplete: the sign-in page only asks for an earlier poll.
NotifyLoginComplete ==
    /\ up /\ desired = "connected" /\ ~wake
    /\ wake' = TRUE
    /\ UNCHANGED <<process, intent, session, login, ctx, monitor, opMu, order,
                   call, history>>

-----------------------------------------------------------------------------
(* Operator orders.  They hold opMu from IssueOrder to the end; the steps    *)
(* between are the points where a crash, a cancelled context or a lost       *)
(* browser can fall.                                                         *)

OrderEnds == order' = NoOrder /\ opMu' = "free"
At(step)  == opMu = "operator" /\ order.step = step
Go(step)  == order' = [order EXCEPT !.step = step] /\ UNCHANGED opMu

Launches == {"start", "restart", "autostart"}

\* The intent an order persists before anything else.
Target(kind) ==
    CASE kind = "stop"   -> "stopped"
      [] kind = "logout" -> "logged_out"
      [] kind \in {"start", "recover", "takeover", "resume"} -> "connected"
      [] kind = "restart"   -> IF desired = "stopped" THEN "connected" ELSE desired
      [] kind = "autostart" -> desired

Persists(kind) == kind # "autostart" /\ (kind = "restart" => desired = "stopped")

\* Fault: the memory takes the new intent before the file has it.
IssueOrderEagerly(kind) ==
    /\ up /\ opMu = "free"
    /\ opMu' = "operator" /\ desired' = Target(kind)
    /\ order' = [kind |-> kind, step |-> "save", connected |-> TRUE]
    /\ UNCHANGED <<process, saved, intentError, session, login, loop, call, history>>

IssueOrder(kind) ==
    /\ up /\ opMu = "free"
    /\ opMu' = "operator"
    /\ order' = [kind |-> kind, step |-> "save", connected |-> TRUE]
    /\ UNCHANGED <<process, intent, session, login, loop, call, history>>

\* AutoStartGateway: once after a boot, and only for a connected intent.
AutoStart ==
    /\ up /\ starting /\ opMu = "free"
    /\ starting' = FALSE
    /\ IF intentError \/ desired # "connected"
       THEN UNCHANGED <<opMu, order>>
       ELSE /\ opMu' = "operator"
            /\ order' = [kind |-> "autostart", step |-> "launch", connected |-> TRUE]
    /\ UNCHANGED <<up, rootDone, intent, session, login, loop, call, history>>

\* setIntent, the half that writes the file: renamed over the old one whole.
SaveIntent ==
    /\ At("save")
    /\ Go("apply")
    /\ IF Persists(order.kind)
       THEN /\ saved' = Target(order.kind)
            /\ quiet' = (quiet /\ Target(order.kind) # "connected")
       ELSE UNCHANGED <<saved, quiet>>
    /\ UNCHANGED <<process, desired, intentError, session, login, loop, call, grant>>

\* Another process owns the state directory, or the file cannot be written.
OrderRefused ==
    /\ At("save")
    /\ OrderEnds
    /\ UNCHANGED <<process, intent, session, login, loop, call, history>>

\* setIntent, the half in memory.
Remember ==
    /\ At("apply")
    /\ desired' = Target(order.kind)
    /\ intentError' = (intentError /\ ~Persists(order.kind))
    /\ UNCHANGED saved

\* Fault: the permission outlives the session it was given for.
ClearSessionOnly(state) == session' = state /\ UNCHANGED login

\* clearSession, setLifecycle and resetSession all drop the permission.
Clear(state) == session' = state /\ login' = NoLogin
Forget       == ctx' = "none" /\ monitor' = "none"
\* Fault: a supervisor that returned while its context stayed is not replaced.
EnsureContextOnly ==
    IF ctx = "none" THEN ctx' = "own" /\ monitor' = "select"
    ELSE UNCHANGED <<ctx, monitor>>

EnsureMonitor ==
    /\ ctx' = IF ctx = "none" THEN "own" ELSE ctx
    /\ monitor' = IF monitor = "none" THEN "select" ELSE monitor

NewGrant == [on |-> TRUE, age |-> 0, inits |-> 0]

ApplyStart ==
    /\ order.kind = "start" /\ Remember
    /\ Go("launch")
    /\ UNCHANGED <<process, session, login, loop, call, history>>

\* restart and restartLocked up to the launch.
ApplyRestart ==
    /\ order.kind = "restart" /\ Remember
    /\ Clear("unknown") /\ Forget
    /\ Go("launch")
    /\ grant' = NoGrant
    /\ UNCHANGED <<process, wake, call, quiet>>

\* StopGateway; a process that cannot be stopped leaves the session unknown.
ApplyStop ==
    /\ order.kind = "stop" /\ Remember
    /\ \E state \in {"stopped", "unknown"} : Clear(state)
    /\ Forget /\ OrderEnds
    /\ grant' = NoGrant /\ quiet' = TRUE
    /\ UNCHANGED <<process, wake, call>>

\* Fault: the session is left as it was observed.
ApplyLogoutOnly ==
    /\ order.kind = "logout" /\ Remember
    /\ Go("logout")
    /\ grant' = NoGrant /\ quiet' = TRUE
    /\ UNCHANGED <<process, session, login, loop, call>>

\* Logout clears the session, then asks IBKR; the supervisor keeps looping.
ApplyLogout ==
    /\ order.kind = "logout" /\ Remember
    /\ Clear("logged_out")
    /\ Go("logout")
    /\ grant' = NoGrant /\ quiet' = TRUE
    /\ UNCHANGED <<process, loop, call>>

LogoutAnswered ==
    /\ At("logout") /\ OrderEnds
    /\ UNCHANGED <<process, intent, session, login, loop, call, history>>

ApplyRecover ==
    /\ order.kind \in {"recover", "takeover"} /\ Remember
    /\ IF order.kind = "takeover"
       THEN login' = NewLogin /\ grant' = NewGrant
       ELSE UNCHANGED <<login, grant>>
    /\ RefreshWith(order.kind = "takeover")
    /\ Go("call")
    /\ UNCHANGED <<process, session, loop, quiet>>

ApplyResume ==
    /\ order.kind = "resume" /\ Remember
    /\ session' = "login_required" /\ login' = NewLogin /\ grant' = NewGrant
    /\ EnsureMonitor /\ wake' = TRUE
    /\ OrderEnds
    /\ UNCHANGED <<process, call, quiet>>

Apply == \/ ApplyStart \/ ApplyRestart \/ ApplyStop \/ ApplyLogout
         \/ ApplyRecover \/ ApplyResume

\* startLocked cannot have the installation lock.  A start has not touched the
\* supervisor yet; a restart has, and fails with the session unknown.
LaunchRefused ==
    /\ At("launch") /\ OrderEnds
    /\ UNCHANGED <<process, intent, session, login, loop, call, history>>

\* startWithInstallationLock: the process is up, or the launch fails, for an
\* automatic start perhaps because another manager owns the instance.
Launch(started) ==
    /\ At("launch")
    /\ desired' = desired
    /\ \/ ctx' = IF order.kind = "autostart" THEN "rooted" ELSE "own"
       \/ ~started /\ order.kind = "autostart" /\ ctx' = "none"
    /\ monitor' = "none"
    /\ Clear(IF started /\ desired # "connected" THEN desired ELSE "unknown")
    /\ IF started
       THEN /\ RefreshWith(FALSE)
            /\ Go(IF desired = "connected" THEN "call" ELSE "return")
       ELSE OrderEnds /\ UNCHANGED call
    /\ grant' = NoGrant
    /\ UNCHANGED <<process, saved, intentError, wake, quiet>>

\* The end of a launch, recover or takeover: StartTickler.
OrderReturns ==
    /\ At("return") /\ OrderEnds /\ EnsureMonitor
    /\ UNCHANGED <<process, intent, session, login, wake, call, history>>

\* The browser that sent the order closes its connection.
Disconnect ==
    /\ opMu = "operator" /\ order.connected
    /\ order' = [order EXCEPT !.connected = FALSE]
    /\ UNCHANGED <<process, intent, session, login, loop, opMu, call, history>>

-----------------------------------------------------------------------------
Answer == \/ \E a \in TickleAnswers : Tickle(a)
          \/ \E a \in SsoAnswers : Validate(a) \/ RecheckAnswer(a)
          \/ \E a \in InitAnswers : InitAnswer(a)
          \/ \E a \in StatusAnswers : StatusAnswer(a)
          \/ CallAborted

OrderStep == \/ SaveIntent \/ Apply \/ LogoutAnswered \/ OrderReturns
             \/ \E started \in BOOLEAN : Launch(started)

Supervise == SupervisorWakes \/ SupervisorRefreshes \/ SupervisorExits

Next ==
    \/ Boot \/ Crash \/ RootCancel \/ Tick
    \/ Answer \/ Supervise
    \/ \E started \in BOOLEAN : SupervisorRestarts(started)
    \/ NotifyLoginComplete \/ Disconnect
    \/ \E kind \in Orders : IssueOrder(kind)
    \/ AutoStart \/ OrderStep \/ OrderRefused \/ LaunchRefused

Spec == Init /\ [][Next]_vars

\* Go's scheduler runs every goroutine, its mutex starves nobody, timers fire
\* and every HTTP request ends (the client's own timeout is ten seconds).
Fairness ==
    /\ WF_vars(Tick)
    /\ WF_vars(Answer)
    /\ WF_vars(OrderStep)
    /\ WF_vars(SupervisorWakes)
    /\ SF_vars(SupervisorRefreshes)
    /\ SF_vars(SupervisorExits)

LiveSpec == Spec /\ Fairness

-----------------------------------------------------------------------------
(* Properties.                                                             *)

OrderSteps == {"none", "save", "apply", "launch", "call", "logout", "return"}
CallPoints == {"none", "tickle", "validate", "init", "status", "recheck"}

LoginType ==
    [phase : {"none", "waiting", "window"}, left : Nat, backoff : Nat,
     attempts : 0..MaxAttempts, exhausted : BOOLEAN]

OrderType ==
    [kind : AllOrders \cup {"none", "autostart"}, step : OrderSteps,
     connected : BOOLEAN]

CallType ==
    [at : CallPoints, compete : BOOLEAN, loginPending : BOOLEAN, loading : BOOLEAN]

GrantType == [on : BOOLEAN, age : 0..GrantAgeBound, inits : Nat]

TypeOK ==
    /\ saved \in AllSaved
    /\ up \in BOOLEAN /\ starting \in BOOLEAN /\ rootDone \in BOOLEAN
    /\ desired \in Intents /\ intentError \in BOOLEAN
    /\ session \in SessionStates
    /\ login \in LoginType
    /\ ctx \in {"none", "rooted", "own"}
    /\ monitor \in {"none", "select", "locking", "refresh"}
    /\ wake \in BOOLEAN
    /\ opMu \in {"free", "operator", "supervisor"}
    /\ order \in OrderType /\ call \in CallType /\ grant \in GrantType
    /\ quiet \in BOOLEAN

SendsTakeover == call.at # "init" /\ call'.at = "init" /\ call'.compete

\* An init that pushes a competing session aside is only ever sent under a
\* permission the operator gave since the last order that withdrew it, and at
\* most MaxAttempts times for each permission: login_initialization.go 10-12.
TakeoverNeedsPermission ==
    [][SendsTakeover => grant.on /\ grant.inits < MaxAttempts]_vars

\* The supervisor never uses a permission later than the wait for SSO and the
\* window after it allow, whatever the sign-in page or a retry does meanwhile.
TakeoverInTime ==
    [][SendsTakeover /\ opMu = "supervisor" => grant.age < GrantAgeBound]_vars

\* Once a logout or stop has taken effect, no refresh, hence no init, is in
\* progress until the operator connects again, through crashes and restarts
\* of the daemon: session.go 545.
QuietStaysQuiet == quiet => call.at = "none"

\* What a daemon started now would take the intent to be.
LoadedIntent(file) == IF file \in Intents THEN file
                      ELSE IF file = "missing" THEN "connected" ELSE "stopped"

\* Between orders the memory holds what a restarted daemon would load, also
\* after an order that failed or was cut short: setIntent.
IntentIsDurable == up /\ opMu = "free" => desired = LoadedIntent(saved)

\* Between orders a session is shown ready only to an operator who wants it
\* connected: an observation never outlives the order that ended it.
ReadyIsWanted == up /\ opMu = "free" /\ session = "ready" => desired = "connected"

\* Answers that leave a login where it is: the process or IBKR cannot tell, is
\* still loading, or waits for the user to sign in.
Undeciding == \/ Tickle("failed") \/ Tickle("loading")
              \/ Validate("unknown") \/ Validate("expired")

\* A login that was asked for comes to a verdict, once such answers and orders
\* have come to an end: it is used up, by a ready session or by the end of its
\* daemon, or the operator is told that a takeover is needed.
LoginIsDecided ==
    <>[](order = NoOrder) /\ <>[][~Undeciding]_vars =>
        (Pending(login) ~> \/ ~Pending(login)
                           \/ login.exhausted /\ session = "takeover_required")

=============================================================================
