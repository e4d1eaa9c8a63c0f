----------------------- MODULE GatewaySession_proofs -----------------------
(***************************************************************************)
(* The safety properties of GatewaySession, for every choice of its        *)
(* constants.                                                              *)
(*                                                                         *)
(* None of them is inductive alone.  IntentInvariant and GrantInvariant    *)
(* add what the steps between the requests of a refresh, and between the   *)
(* two halves of setIntent, keep true: who holds opMu and at which step,   *)
(* that a refresh is only in progress with a connected intent, and what a  *)
(* permission still allows.                                                *)
(***************************************************************************)
EXTENDS GatewaySession, TLAPS

-----------------------------------------------------------------------------
(* The inductive invariant.                                                *)

\* Who holds opMu, and where its order is.
OrderShape ==
    /\ opMu = "operator" => order.kind # "none" /\ order.step # "none"
    /\ opMu # "operator" => order.step = "none"
    /\ At("save") \/ At("apply") => order.kind \in AllOrders
    /\ ~up => opMu = "free" /\ ctx = "none"

\* A refresh runs under opMu and only while the session is wanted connected.
CallShape ==
    call.at # "none" =>
        /\ desired = "connected" /\ opMu # "free"
        /\ opMu = "operator" => order.step = "call"

\* Memory and file agree, except between the two halves of setIntent.
IntentShape ==
    up => IF At("apply") /\ Persists(order.kind) THEN saved = Target(order.kind)
          ELSE desired = LoadedIntent(saved)

QuietShape == quiet => saved \in {"logged_out", "stopped"}

ReadyShape == session = "ready" => desired = "connected"

IntentInvariant ==
    /\ OrderShape /\ CallShape /\ IntentShape /\ QuietShape /\ ReadyShape

\* Before the init is sent.
Unsent == call.at \in {"tickle", "validate"}

\* A permission is backed by the operator's grant, and its attempts count at
\* least the inits sent under that grant; a takeover order has sent none yet.
GrantShape ==
    /\ Pending(login) => grant.on /\ grant.inits <= login.attempts
    /\ Unsent /\ call.compete => /\ opMu = "operator"
                                 /\ grant.on /\ grant.inits = 0

\* What is left of a permission and the age of its grant never add up to more
\* than the code's two time limits.
TimeShape ==
    /\ login.phase = "waiting" /\ login.left > 0 => grant.age + login.left <= LoginWait
    /\ login.phase = "window" /\ login.left > 0 =>
         grant.age + login.left < GrantAgeBound

GrantInvariant == OrderShape /\ GrantShape /\ TimeShape

-----------------------------------------------------------------------------
(* Type correctness.                                                       *)

\* What the operators on a permission return: login_initialization.go.
LEMMA LoginTypes ==
    ASSUME NEW l \in LoginType
    PROVE  /\ NoLogin \in LoginType /\ NewLogin \in LoginType
           /\ Opened(l) \in LoginType /\ Attempted(l) \in LoginType
           /\ Aged(l) \in LoginType
<1>0. NoLogin \in LoginType
  BY TimingAssumption DEF LoginType, NoLogin
<1>1. NewLogin \in LoginType
  BY <1>0, TimingAssumption DEF LoginType, NewLogin
<1>2. Opened(l) \in LoginType
  BY TimingAssumption DEF LoginType, Opened
<1>3. Aged(l) \in LoginType
  <2>1. \A n \in Nat : Less(n) \in Nat
    BY DEF Less
  <2>2. Less(l.left) \in Nat /\ Less(l.backoff) \in Nat
    BY <2>1 DEF LoginType
  <2>3. QED
    BY <2>2 DEF LoginType, Aged
<1>4. Attempted(l) \in LoginType
  <2>1. Verdict(l) \in {"none", "spent", "wait", "go"}
    BY DEF Verdict
  <2>2. CASE Verdict(l) \in {"none", "spent", "wait"}
    BY <1>2, <2>2 DEF Attempted, LoginType
  <2>3. CASE Verdict(l) = "go"
    <3>1. Opened(l).attempts < MaxAttempts
      BY <1>2, <2>3, TimingAssumption DEF Verdict, Spent, LoginType
    <3>2. Opened(l).attempts + 1 \in 1..MaxAttempts
      BY <1>2, <3>1, TimingAssumption DEF LoginType
    <3>3. Backoff[Opened(l).attempts + 1] \in Nat
      BY <3>2, TimingAssumption
    <3>4. Attempted(l) = [Opened(l) EXCEPT !.attempts = Opened(l).attempts + 1,
                            !.backoff = Backoff[Opened(l).attempts + 1]]
      BY <2>3 DEF Attempted
    <3>5. \A o \in LoginType, a \in 1..MaxAttempts, b \in Nat :
            [o EXCEPT !.attempts = a, !.backoff = b] \in LoginType
      <4>1. TAKE o \in LoginType, a \in 1..MaxAttempts, b \in Nat
      <4>2. a \in 0..MaxAttempts
        BY TimingAssumption
      <4>3. QED
        BY <4>2 DEF LoginType
    <3>6. QED
      BY <1>2, <3>2, <3>3, <3>4, <3>5
  <2>4. QED
    BY <2>1, <2>2, <2>3
<1>5. QED
  BY <1>0, <1>1, <1>2, <1>3, <1>4

\* The records the other steps write, and what Go leaves of an order.
LEMMA RecordTypes ==
    ASSUME TypeOK
    PROVE  /\ NoOrder \in OrderType /\ NoCall \in CallType
           /\ NoGrant \in GrantType /\ NewGrant \in GrantType
           /\ \A step \in OrderSteps :
                /\ [order EXCEPT !.step = step] \in OrderType
                /\ [order EXCEPT !.step = step].kind = order.kind
                /\ [order EXCEPT !.step = step].step = step
           /\ \A kind \in AllOrders \cup {"autostart"}, step \in OrderSteps :
                [kind |-> kind, step |-> step, connected |-> TRUE] \in OrderType
<1>1. NoOrder \in OrderType /\ NoCall \in CallType
  BY DEF NoOrder, NoCall, OrderType, CallType, OrderSteps, CallPoints
<1>2. NoGrant \in GrantType /\ NewGrant \in GrantType
  BY TimingAssumption DEF NoGrant, NewGrant, GrantType, GrantAgeBound
<1>3. \A kind \in AllOrders \cup {"autostart"}, step \in OrderSteps :
        [kind |-> kind, step |-> step, connected |-> TRUE] \in OrderType
  BY DEF OrderType
<1>4. \A step \in OrderSteps :
        /\ [order EXCEPT !.step = step] \in OrderType
        /\ [order EXCEPT !.step = step].kind = order.kind
        /\ [order EXCEPT !.step = step].step = step
  BY DEF TypeOK, OrderType
<1>5. QED
  BY <1>1, <1>2, <1>3, <1>4

\* The intents an order may persist.
LEMMA TargetIntent ==
    ASSUME TypeOK, NEW kind \in AllOrders
    PROVE  Target(kind) \in Intents
BY DEF TypeOK, Target, AllOrders, Intents

\* A refresh begins with a call of the right type.
LEMMA RefreshType ==
    ASSUME NEW compete \in BOOLEAN, RefreshWith(compete)
    PROVE  call' \in CallType
<1>1. Pending(login') \in BOOLEAN
  BY DEF Pending
<1>2. QED
  BY <1>1 DEF RefreshWith, NoCall, CallType, CallPoints

\* TypeOK is preserved by every step of an order.
LEMMA OrderTypeStep ==
    ASSUME TypeOK, OrderShape, OrderStep \/ OrderRefused \/ LaunchRefused
    PROVE  TypeOK'
<1> USE RecordTypes, LoginTypes DEF TypeOK, process, intent, loop, history
<1>1. CASE SaveIntent
  <2>1. order' \in OrderType
    BY <1>1 DEF SaveIntent, Go, OrderSteps
  <2>2. saved' \in AllSaved
    BY <1>1, TargetIntent DEF SaveIntent, OrderShape, At, Intents, AllSaved
  <2>3. quiet' \in BOOLEAN
    BY <1>1 DEF SaveIntent
  <2>4. QED
    BY <1>1, <2>1, <2>2, <2>3 DEF SaveIntent, Go
<1>2. CASE OrderRefused \/ LaunchRefused \/ LogoutAnswered
  BY <1>2 DEF OrderRefused, LaunchRefused, LogoutAnswered, OrderEnds
<1>3. CASE OrderReturns
  BY <1>3 DEF OrderReturns, OrderEnds, EnsureMonitor
<1>4. ASSUME Remember, order.kind \in AllOrders
      PROVE  desired' \in Intents /\ intentError' \in BOOLEAN /\ saved' \in AllSaved
  BY <1>4, TargetIntent DEF Remember
<1>5. CASE ApplyStart
  BY <1>4, <1>5 DEF ApplyStart, Go, OrderSteps, AllOrders
<1>6. CASE ApplyRestart
  BY <1>4, <1>6 DEF ApplyRestart, Go, OrderSteps, AllOrders, Clear, Forget, SessionStates
<1>7. CASE ApplyStop
  BY <1>4, <1>7 DEF ApplyStop, OrderEnds, AllOrders, Clear, Forget, SessionStates
<1>8. CASE ApplyLogout
  BY <1>4, <1>8 DEF ApplyLogout, Go, OrderSteps, AllOrders, Clear, SessionStates
<1>9. CASE ApplyRecover
  <2>1. call' \in CallType
    BY <1>9, RefreshType DEF ApplyRecover
  <2>2. login' \in LoginType /\ grant' \in GrantType
    BY <1>9 DEF ApplyRecover
  <2>3. order' \in OrderType
    BY <1>9 DEF ApplyRecover, Go, OrderSteps
  <2>4. QED
    BY <1>4, <1>9, <2>1, <2>2, <2>3 DEF ApplyRecover, Go, AllOrders
<1>10. CASE ApplyResume
  BY <1>4, <1>10 DEF ApplyResume, OrderEnds, AllOrders, EnsureMonitor, SessionStates
<1>11. ASSUME NEW started \in BOOLEAN, Launch(started)
       PROVE  TypeOK'
  <2>1. call' \in CallType
    BY <1>11, RefreshType DEF Launch
  <2>2. session' \in SessionStates /\ login' \in LoginType
    BY <1>11 DEF Launch, Clear, Intents, SessionStates
  <2>3. order' \in OrderType /\ opMu' \in {"free", "operator", "supervisor"}
    BY <1>11 DEF Launch, Go, OrderEnds, OrderSteps
  <2>4. QED
    BY <1>11, <2>1, <2>2, <2>3 DEF Launch
<1>12. QED
  BY <1>1, <1>2, <1>3, <1>5, <1>6, <1>7, <1>8, <1>9, <1>10, <1>11 DEF OrderStep, Apply

\* TypeOK is preserved by the answers to a refresh.
LEMMA AnswerTypeStep ==
    ASSUME TypeOK, Answer
    PROVE  TypeOK'
<1> USE RecordTypes, LoginTypes DEF TypeOK, process, intent, CallRest
<1>1. ASSUME NEW at \in CallPoints, NEW compete \in BOOLEAN, NEW loading \in BOOLEAN
      PROVE  /\ [call EXCEPT !.at = at] \in CallType
             /\ [call EXCEPT !.at = at, !.loading = loading] \in CallType
             /\ [call EXCEPT !.at = at, !.compete = compete] \in CallType
  BY DEF CallType
<1>2. ASSUME CallEnds
      PROVE  /\ call' \in CallType /\ order' \in OrderType
             /\ opMu' \in {"free", "operator", "supervisor"}
             /\ monitor' \in {"none", "select", "locking", "refresh"}
  BY <1>2 DEF CallEnds, OrderSteps
<1>3. ASSUME NEW state \in SessionStates, Observe(state), UNCHANGED CallRest
      PROVE  TypeOK'
  <2>1. login' \in LoginType /\ grant' \in GrantType
    BY <1>3 DEF Observe
  <2>2. QED
    BY <1>2, <1>3, <2>1 DEF Observe
<1>4. ASSUME call' \in CallType, UNCHANGED <<session, login, grant, monitor, opMu, order>>,
             UNCHANGED CallRest
      PROVE  TypeOK'
  BY <1>4
<1>5. ASSUME NEW answer \in TickleAnswers, Tickle(answer)
      PROVE  TypeOK'
  <2>1. CASE \E state \in SessionStates : Observe(state)
    BY <1>3, <1>5, <2>1 DEF Tickle
  <2>2. CASE /\ call' = [call EXCEPT !.at = "validate", !.loading = (answer = "loading")]
             /\ UNCHANGED <<session, login, grant, monitor, opMu, order>>
    <3>1. (answer = "loading") \in BOOLEAN
      OBVIOUS
    <3>2. call' \in CallType
      BY <1>1, <2>2, <3>1 DEF CallPoints
    <3>3. QED
      BY <1>4, <1>5, <2>2, <3>2 DEF Tickle
  <2>3. QED
    BY <1>5, <2>1, <2>2 DEF Tickle, SessionStates
<1>6. ASSUME NEW answer \in SsoAnswers, Validate(answer)
      PROVE  TypeOK'
  <2>1. CASE \E state \in SessionStates : Observe(state)
    BY <1>3, <1>6, <2>1 DEF Validate
  <2>2. CASE login' = Attempted(login) /\ session' \in SessionStates
             /\ CallEnds /\ UNCHANGED grant
    BY <1>2, <1>6, <2>2 DEF Validate
  <2>3. CASE login' = Attempted(login) /\ SendInit
             /\ UNCHANGED <<session, monitor, opMu, order>>
    <3>1. call' \in CallType
      <4>1. (call.compete \/ Verdict(login) = "go") \in BOOLEAN
        OBVIOUS
      <4>2. QED
        BY <1>1, <2>3, <4>1 DEF SendInit, CallPoints
    <3>2. grant' \in GrantType
      BY <2>3 DEF SendInit, GrantType
    <3>3. QED
      BY <1>6, <2>3, <3>1, <3>2 DEF Validate
  <2>4. QED
    BY <1>6, <2>1, <2>2, <2>3 DEF Validate, SessionStates
<1>7. CASE \E answer \in SsoAnswers : RecheckAnswer(answer)
  <2>1. PICK answer \in SsoAnswers : RecheckAnswer(answer)
    BY <1>7
  <2>2. answer \in {"valid", "expired", "unknown"}
    BY AnswersAssumption DEF AllSsoAnswers
  <2>3. \E state \in SessionStates : Observe(state)
    BY <2>1, <2>2 DEF RecheckAnswer, SessionStates
  <2>4. QED
    BY <1>3, <2>1, <2>3 DEF RecheckAnswer
<1>8. ASSUME NEW failure \in Failures
      PROVE  AfterFailure(failure) \in SessionStates
  BY DEF AfterFailure, Failures, SessionStates
<1>9. CASE Recheck /\ UNCHANGED CallRest
  BY <1>1, <1>4, <1>9 DEF Recheck, CallPoints
<1>10. ASSUME NEW answer \in InitAnswers, InitAnswer(answer)
       PROVE  TypeOK'
  <2>1. CASE \E state \in SessionStates : Observe(state)
    BY <1>3, <1>10, <2>1 DEF InitAnswer
  <2>2. CASE call' = [call EXCEPT !.at = "status"]
             /\ UNCHANGED <<session, login, grant, monitor, opMu, order>>
    BY <1>1, <1>4, <1>10, <2>2 DEF InitAnswer, CallPoints
  <2>3. QED
    BY <1>8, <1>9, <1>10, <2>1, <2>2 DEF InitAnswer, SessionStates
<1>11. ASSUME NEW answer \in StatusAnswers, StatusAnswer(answer)
       PROVE  TypeOK'
  <2>1. CASE \E state \in SessionStates : Observe(state)
    BY <1>3, <1>11, <2>1 DEF StatusAnswer
  <2>2. QED
    BY <1>8, <1>9, <1>11, <2>1 DEF StatusAnswer, SessionStates
<1>12. CASE CallAborted
  BY <1>2, <1>12 DEF CallAborted
<1>13. QED
  BY <1>5, <1>6, <1>7, <1>10, <1>11, <1>12 DEF Answer

\* TypeOK is preserved by every step.
LEMMA TypeStep ==
    ASSUME TypeOK, OrderShape, [Next]_vars
    PROVE  TypeOK'
<1> USE RecordTypes, LoginTypes DEF TypeOK, process, intent, loop, history
<1>1. CASE UNCHANGED vars
  BY <1>1 DEF vars
<1>2. CASE Boot
  <2>1. intentError' \in BOOLEAN
    BY <1>2 DEF Boot
  <2>2. desired' \in Intents /\ session' \in SessionStates
    BY <1>2 DEF Boot, Intents, SessionStates
  <2>3. QED
    BY <1>2, <2>1, <2>2 DEF Boot
<1>3. CASE Crash
  BY <1>3 DEF Crash, Intents, SessionStates
<1>4. CASE RootCancel \/ NotifyLoginComplete
  BY <1>4 DEF RootCancel, NotifyLoginComplete
<1>5. CASE Tick
  <2>1. grant' \in GrantType
    BY <1>5, TimingAssumption DEF Tick, GrantType, GrantAgeBound
  <2>2. QED
    BY <1>5, <2>1 DEF Tick
<1>6. CASE Disconnect
  <2>1. order' \in OrderType
    BY <1>6 DEF Disconnect, OrderType
  <2>2. QED
    BY <1>6, <2>1 DEF Disconnect
<1>7. CASE \E kind \in Orders : IssueOrder(kind)
  <2>1. PICK kind \in AllOrders : IssueOrder(kind)
    BY <1>7, AnswersAssumption
  <2>2. [kind |-> kind, step |-> "save", connected |-> TRUE] \in OrderType
    BY DEF OrderType, OrderSteps
  <2>3. QED
    BY <2>1, <2>2 DEF IssueOrder
<1>8. CASE AutoStart
  <2>1. [kind |-> "autostart", step |-> "launch", connected |-> TRUE] \in OrderType
    BY DEF OrderType, OrderSteps
  <2>2. QED
    BY <1>8, <2>1 DEF AutoStart
<1>9. CASE Supervise
  <2>1. CASE SupervisorRefreshes
    <3>1. call' \in CallType
      BY <2>1, RefreshType DEF SupervisorRefreshes
    <3>2. QED
      BY <2>1, <3>1 DEF SupervisorRefreshes
  <2>2. CASE SupervisorWakes \/ SupervisorExits
    BY <2>2 DEF SupervisorWakes, SupervisorExits, SessionStates
  <2>3. QED
    BY <1>9, <2>1, <2>2 DEF Supervise
<1>10. ASSUME NEW started \in BOOLEAN, SupervisorRestarts(started)
       PROVE  TypeOK'
  <2>1. call' \in CallType
    BY <1>10, RefreshType DEF SupervisorRestarts
  <2>2. QED
    BY <1>10, <2>1 DEF SupervisorRestarts, SessionStates
<1>11. QED
  BY <1>1, <1>2, <1>3, <1>4, <1>5, <1>6, <1>7, <1>8, <1>9, <1>10, OrderTypeStep,
     AnswerTypeStep DEF Next

-----------------------------------------------------------------------------
(* The intent.                                                             *)

\* Every refresh step but the last leaves order, opMu and intent alone, and the
\* last one gives opMu back or moves the operator's order on.
LEMMA AnswerEffect ==
    ASSUME TypeOK, Answer
    PROVE  /\ up /\ call.at # "none"
           /\ UNCHANGED <<up, saved, desired, ctx, quiet>>
           /\ CallEnds \/ UNCHANGED <<opMu, order>>
<1> USE DEF process, intent, CallRest, Waiting, Observe, Recheck
<1>1. CASE \E answer \in TickleAnswers : Tickle(answer)
  BY <1>1 DEF Tickle
<1>2. CASE \E answer \in SsoAnswers : Validate(answer)
  BY <1>2 DEF Validate
<1>3. CASE \E answer \in SsoAnswers : RecheckAnswer(answer)
  BY <1>3 DEF RecheckAnswer
<1>4. CASE \E answer \in InitAnswers : InitAnswer(answer)
  BY <1>4 DEF InitAnswer
<1>5. CASE \E answer \in StatusAnswers : StatusAnswer(answer)
  BY <1>5 DEF StatusAnswer
<1>6. CASE CallAborted
  BY <1>6 DEF CallAborted
<1>7. QED
  BY <1>1, <1>2, <1>3, <1>4, <1>5, <1>6 DEF Answer

\* opMu and the order it is held for.
LEMMA OrderShapeStep ==
    ASSUME TypeOK, OrderShape, CallShape, [Next]_vars
    PROVE  OrderShape'
<1> USE RecordTypes DEF OrderShape, At, process, intent, loop, history
<1>1. CASE UNCHANGED vars
  BY <1>1 DEF vars
<1>2. CASE Boot \/ Crash \/ RootCancel \/ Tick \/ NotifyLoginComplete
  BY <1>2 DEF Boot, Crash, RootCancel, Tick, NotifyLoginComplete, NoOrder
<1>3. CASE Disconnect
  BY <1>3 DEF Disconnect, TypeOK, OrderType
<1>4. CASE \E kind \in Orders : IssueOrder(kind)
  BY <1>4, AnswersAssumption DEF IssueOrder, AllOrders
<1>5. CASE AutoStart
  BY <1>5 DEF AutoStart
<1>6. CASE Answer
  <2>1. up' /\ opMu \in {"operator", "supervisor"} /\ ctx' = ctx
    BY <1>6, AnswerEffect DEF CallShape, TypeOK
  <2>2. CASE UNCHANGED <<opMu, order>>
    BY <2>1, <2>2
  <2>3. CASE CallEnds
    BY <2>1, <2>3 DEF CallEnds, OrderSteps
  <2>4. QED
    BY <1>6, <2>2, <2>3, AnswerEffect
<1>7. CASE Supervise
  BY <1>7 DEF Supervise, SupervisorWakes, SupervisorRefreshes, SupervisorExits, CtxLive
<1>8. ASSUME NEW started \in BOOLEAN, SupervisorRestarts(started)
      PROVE  OrderShape'
  <2>1. up' /\ opMu = "supervisor" /\ opMu' # "operator" /\ UNCHANGED order
    BY <1>8 DEF SupervisorRestarts, Waiting
  <2>2. QED
    BY <2>1
<1>9. CASE OrderStep \/ OrderRefused \/ LaunchRefused
  <2>1. CASE SaveIntent
    BY <2>1 DEF SaveIntent, Go, OrderSteps
  <2>2. CASE OrderRefused \/ LaunchRefused \/ LogoutAnswered \/ OrderReturns
    BY <2>2 DEF OrderRefused, LaunchRefused, LogoutAnswered, OrderReturns, OrderEnds,
       NoOrder
  <2>3. CASE ApplyStart \/ ApplyRestart \/ ApplyLogout \/ ApplyRecover
    BY <2>3 DEF ApplyStart, ApplyRestart, ApplyLogout, ApplyRecover, Remember, Go,
       OrderSteps
  <2>4. CASE ApplyStop \/ ApplyResume
    BY <2>4 DEF ApplyStop, ApplyResume, Remember, OrderEnds, NoOrder
  <2>5. ASSUME NEW started \in BOOLEAN, Launch(started)
        PROVE  OrderShape'
    <3>1. up' /\ opMu = "operator"
      BY <2>5 DEF Launch
    <3>2. CASE OrderEnds
      BY <3>1, <3>2 DEF OrderEnds, NoOrder
    <3>3. ASSUME NEW step \in {"call", "return"}, Go(step)
          PROVE  OrderShape'
      BY <3>1, <3>3 DEF Go, OrderSteps
    <3>4. (IF desired = "connected" THEN "call" ELSE "return") \in {"call", "return"}
      OBVIOUS
    <3>5. QED
      BY <2>5, <3>2, <3>3, <3>4 DEF Launch
  <2>6. QED
    BY <1>9, <2>1, <2>2, <2>3, <2>4, <2>5 DEF OrderStep, Apply
<1>10. QED
  BY <1>1, <1>2, <1>3, <1>4, <1>5, <1>6, <1>7, <1>8, <1>9 DEF Next

\* setIntent as a whole: after the second half memory and file agree.
LEMMA Remembered ==
    ASSUME TypeOK, IntentShape, OrderShape, Remember
    PROVE  /\ order.kind \in AllOrders
           /\ desired' = LoadedIntent(saved') /\ desired' = Target(order.kind)
           /\ Persists(order.kind) => saved' = Target(order.kind)
<1>1. order.kind \in AllOrders /\ up
  BY DEF Remember, OrderShape, At
<1>2. Target(order.kind) \in Intents
  BY <1>1, TargetIntent
<1>3. CASE Persists(order.kind)
  BY <1>1, <1>2, <1>3 DEF Remember, IntentShape, LoadedIntent
<1>4. CASE ~Persists(order.kind)
  <2>1. order.kind = "restart" /\ desired # "stopped"
    BY <1>1, <1>4 DEF Persists, AllOrders
  <2>2. Target(order.kind) = desired
    BY <2>1 DEF Target
  <2>3. QED
    BY <1>1, <1>4, <2>2 DEF Remember, IntentShape
<1>5. QED
  BY <1>1, <1>3, <1>4 DEF Remember

\* An order's step away from "apply" keeps memory and file in agreement, and
\* a refresh is in progress only at "call".
LEMMA IntentOrderStep ==
    ASSUME TypeOK, IntentInvariant, OrderStep \/ OrderRefused \/ LaunchRefused
    PROVE  CallShape' /\ IntentShape' /\ QuietShape' /\ ReadyShape'
<1> USE RecordTypes DEF IntentInvariant, At, process, intent, loop, history
<1>1. CASE SaveIntent
  <2>1. /\ opMu = "operator" /\ order.step = "save" /\ call.at = "none"
        /\ desired = LoadedIntent(saved) /\ Target(order.kind) \in Intents
    BY <1>1, TargetIntent DEF SaveIntent, OrderShape, CallShape, IntentShape
  <2>2. /\ opMu' = "operator" /\ order'.step = "apply" /\ order'.kind = order.kind
        /\ UNCHANGED <<desired, session, call>>
    BY <1>1, <2>1 DEF SaveIntent, Go, OrderSteps
  <2>3. IntentShape'
    BY <1>1, <2>1, <2>2 DEF SaveIntent, IntentShape, Persists, Target
  <2>4. QuietShape'
    BY <1>1, <2>1 DEF SaveIntent, QuietShape, Intents
  <2>5. QED
    BY <2>1, <2>2, <2>3, <2>4 DEF CallShape, ReadyShape
<1>2. CASE OrderRefused \/ LaunchRefused \/ LogoutAnswered \/ OrderReturns
  <2>1. /\ up => opMu = "operator" /\ order.step \notin {"none", "apply", "call"}
        /\ call.at = "none" /\ UNCHANGED <<up, saved, desired, session, call, quiet>>
        /\ opMu' = "free"
    BY <1>2 DEF OrderRefused, LaunchRefused, LogoutAnswered, OrderReturns, OrderEnds,
       CallShape
  <2>2. QED
    BY <2>1 DEF CallShape, IntentShape, QuietShape, ReadyShape
<1>3. ASSUME Remember, ~At("apply")', UNCHANGED up
      PROVE  IntentShape'
  BY <1>3, Remembered DEF IntentShape
<1>4. CASE Apply
  <2>1. Remember /\ opMu = "operator" /\ order.step = "apply" /\ call.at = "none"
    BY <1>4 DEF Apply, ApplyStart, ApplyRestart, ApplyStop, ApplyLogout, ApplyRecover,
       ApplyResume, Remember, CallShape
  <2>2. CASE ApplyStart \/ ApplyRestart
    <3>1. /\ opMu' = "operator" /\ order'.step = "launch"
          /\ UNCHANGED <<up, saved, call, quiet>>
          /\ session' \in {session, "unknown"}
      BY <2>1, <2>2 DEF ApplyStart, ApplyRestart, Remember, Go, OrderSteps, Clear
    <3>2. session' = "ready" => desired' = "connected"
      BY <2>2, Remembered DEF ApplyStart, ApplyRestart, Clear, Target
    <3>3. QED
      BY <1>3, <2>1, <3>1, <3>2 DEF CallShape, QuietShape, ReadyShape
  <2>3. CASE ApplyStop
    <3>1. /\ opMu' = "free" /\ UNCHANGED <<up, call>> /\ session' # "ready"
          /\ saved' = "stopped"
      BY <2>1, <2>3, Remembered DEF ApplyStop, OrderEnds, Clear, Persists, Target
    <3>2. QED
      BY <1>3, <2>1, <3>1 DEF CallShape, QuietShape, ReadyShape
  <2>4. CASE ApplyLogout
    <3>1. /\ opMu' = "operator" /\ order'.step = "logout" /\ UNCHANGED <<up, call>>
          /\ session' # "ready" /\ saved' = "logged_out"
      BY <2>1, <2>4, Remembered DEF ApplyLogout, Go, OrderSteps, Clear, Persists, Target
    <3>2. QED
      BY <1>3, <2>1, <3>1 DEF CallShape, QuietShape, ReadyShape
  <2>5. CASE ApplyRecover
    <3>1. /\ opMu' = "operator" /\ order'.step = "call"
          /\ UNCHANGED <<up, saved, session, quiet>> /\ desired' = "connected"
      BY <2>1, <2>5, Remembered DEF ApplyRecover, Remember, Go, OrderSteps, Target
    <3>2. QED
      BY <1>3, <2>1, <3>1 DEF CallShape, QuietShape, ReadyShape
  <2>6. CASE ApplyResume
    <3>1. /\ opMu' = "free" /\ UNCHANGED <<up, saved, call, quiet>>
          /\ session' = "login_required"
      BY <2>1, <2>6 DEF ApplyResume, Remember, OrderEnds
    <3>2. QED
      BY <1>3, <2>1, <3>1 DEF CallShape, QuietShape, ReadyShape
  <2>7. QED
    BY <1>4, <2>2, <2>3, <2>4, <2>5, <2>6 DEF Apply
<1>5. ASSUME NEW started \in BOOLEAN, Launch(started)
      PROVE  CallShape' /\ IntentShape' /\ QuietShape' /\ ReadyShape'
  <2>1. /\ opMu = "operator" /\ order.step = "launch" /\ call.at = "none"
        /\ UNCHANGED <<up, saved, desired, quiet>> /\ session' # "ready"
    BY <1>5 DEF Launch, CallShape, Clear, TypeOK, Intents
  <2>2. CASE started /\ desired = "connected"
    <3>1. opMu' = "operator" /\ order'.step = "call"
      BY <1>5, <2>1, <2>2 DEF Launch, Go, OrderSteps
    <3>2. QED
      BY <2>1, <2>2, <3>1 DEF CallShape, IntentShape, QuietShape, ReadyShape
  <2>3. CASE started /\ desired # "connected"
    <3>1. opMu' = "operator" /\ order'.step = "return"
      BY <1>5, <2>1, <2>3 DEF Launch, Go, OrderSteps
    <3>2. call'.at = "none"
      BY <1>5, <2>3 DEF Launch, RefreshWith, NoCall
    <3>3. QED
      BY <2>1, <3>1, <3>2 DEF CallShape, IntentShape, QuietShape, ReadyShape
  <2>4. CASE ~started
    <3>1. opMu' = "free" /\ UNCHANGED call
      BY <1>5, <2>4 DEF Launch, OrderEnds
    <3>2. QED
      BY <2>1, <3>1 DEF CallShape, IntentShape, QuietShape, ReadyShape
  <2>5. QED
    BY <2>2, <2>3, <2>4
<1>6. QED
  BY <1>1, <1>2, <1>4, <1>5 DEF OrderStep

\* Every step keeps memory and file in agreement, sessions observed only where
\* they are wanted, and a refresh under opMu with a connected intent.
LEMMA IntentStep ==
    ASSUME TypeOK, IntentInvariant, [Next]_vars
    PROVE  IntentInvariant'
<1> USE DEF At, process, intent, loop, history
<1>0. OrderShape'
  BY OrderShapeStep DEF IntentInvariant
<1> SUFFICES CallShape' /\ IntentShape' /\ QuietShape' /\ ReadyShape'
  BY <1>0 DEF IntentInvariant
<1> USE RecordTypes DEF IntentInvariant
<1>1. CASE UNCHANGED vars
  BY <1>1 DEF vars, CallShape, IntentShape, QuietShape, ReadyShape, Persists, Target
<1>2. CASE Boot
  <2>1. /\ opMu' = "free" /\ call'.at = "none" /\ UNCHANGED <<saved, quiet>>
        /\ session' # "ready" /\ desired' = LoadedIntent(saved)
    BY <1>2 DEF Boot, OrderShape, CallShape, LoadedIntent
  <2>2. QED
    BY <2>1 DEF CallShape, IntentShape, QuietShape, ReadyShape
<1>3. CASE Crash
  BY <1>3 DEF Crash, NoCall, CallShape, IntentShape, QuietShape, ReadyShape
<1>4. CASE RootCancel \/ Tick \/ NotifyLoginComplete
  <2>1. UNCHANGED <<up, saved, desired, session, opMu, order, call, quiet>>
    BY <1>4 DEF RootCancel, Tick, NotifyLoginComplete
  <2>2. QED
    BY <2>1 DEF CallShape, IntentShape, QuietShape, ReadyShape, Persists, Target
<1>5. CASE Disconnect
  <2>1. /\ UNCHANGED <<up, saved, desired, session, opMu, call, quiet>>
        /\ order'.step = order.step /\ order'.kind = order.kind
    BY <1>5 DEF Disconnect, TypeOK, OrderType
  <2>2. QED
    BY <2>1 DEF CallShape, IntentShape, QuietShape, ReadyShape, Persists, Target
<1>6. CASE AutoStart \/ \E kind \in Orders : IssueOrder(kind)
  <2>1. /\ opMu = "free" /\ ~At("apply")'
        /\ UNCHANGED <<up, saved, desired, session, call, quiet>>
    BY <1>6 DEF AutoStart, IssueOrder
  <2>2. QED
    BY <2>1 DEF CallShape, IntentShape, QuietShape, ReadyShape
<1>7. CASE Answer
  <2>1. /\ desired = "connected" /\ opMu # "free" /\ ~At("apply")
        /\ UNCHANGED <<up, saved, desired, quiet>>
        /\ CallEnds \/ UNCHANGED <<opMu, order>>
    BY <1>7, AnswerEffect DEF CallShape
  <2>2. CASE UNCHANGED <<opMu, order>>
    BY <1>7, <2>1, <2>2, AnswerEffect DEF CallShape, IntentShape, QuietShape, ReadyShape
  <2>3. CASE CallEnds
    <3>1. call'.at = "none" /\ (opMu' = "operator" => order'.step = "return")
      BY <2>3 DEF CallEnds, NoCall, OrderSteps
    <3>2. QED
      BY <2>1, <3>1 DEF CallShape, IntentShape, QuietShape, ReadyShape
  <2>4. QED
    BY <2>1, <2>2, <2>3
<1>8. CASE SupervisorWakes \/ SupervisorExits
  <2>1. /\ UNCHANGED <<up, saved, desired, opMu, order, call, quiet>>
        /\ session' \in {session, "unknown"}
    BY <1>8 DEF SupervisorWakes, SupervisorExits
  <2>2. QED
    BY <2>1 DEF CallShape, IntentShape, QuietShape, ReadyShape, Persists, Target
<1>9. CASE SupervisorRefreshes
  <2>1. /\ opMu = "free" /\ opMu' # "operator" /\ call.at = "none"
        /\ UNCHANGED <<up, saved, desired, session, quiet>>
        /\ call'.at # "none" => desired = "connected" /\ opMu' # "free"
    BY <1>9 DEF SupervisorRefreshes, RefreshWith, NoCall, CallShape
  <2>2. QED
    BY <2>1 DEF CallShape, IntentShape, QuietShape, ReadyShape
<1>10. ASSUME NEW started \in BOOLEAN, SupervisorRestarts(started)
       PROVE  CallShape' /\ IntentShape' /\ QuietShape' /\ ReadyShape'
  <2>1. /\ opMu = "supervisor" /\ opMu' # "operator" /\ desired = "connected"
        /\ UNCHANGED <<up, saved, desired, quiet>>
    BY <1>10 DEF SupervisorRestarts, Waiting, CallShape
  <2>2. opMu' # "free" \/ call'.at = "none"
    <3>1. CASE started
      BY <1>10, <2>1, <3>1 DEF SupervisorRestarts
    <3>2. CASE ~started
      BY <1>10, <3>2 DEF SupervisorRestarts, NoCall
    <3>3. QED
      BY <3>1, <3>2
  <2>3. session' # "ready"
    BY <1>10 DEF SupervisorRestarts
  <2>4. QED
    BY <2>1, <2>2, <2>3 DEF CallShape, IntentShape, QuietShape, ReadyShape
<1>11. CASE OrderStep \/ OrderRefused \/ LaunchRefused
  BY <1>11, IntentOrderStep
<1>12. QED
  BY <1>1, <1>2, <1>3, <1>4, <1>5, <1>6, <1>7, <1>8, <1>9, <1>10, <1>11
     DEF Next, Supervise

\* The daemon starts with the invariant.
LEMMA IntentInit == Init => TypeOK /\ IntentInvariant
<1> SUFFICES ASSUME Init PROVE TypeOK /\ IntentInvariant
  OBVIOUS
<1>1. /\ saved \in AllSaved /\ session \in SessionStates /\ desired \in Intents
  BY AnswersAssumption DEF Init, SessionStates, Intents
<1>2. order \in OrderType /\ call \in CallType /\ grant \in GrantType /\ login \in LoginType
  BY TimingAssumption DEF Init, NoOrder, NoCall, NoGrant, NoLogin, OrderType, CallType,
     GrantType, LoginType, OrderSteps, CallPoints, GrantAgeBound
<1>3. TypeOK
  BY <1>1, <1>2 DEF Init, TypeOK
<1>4. IntentInvariant
  BY DEF Init, IntentInvariant, OrderShape, CallShape, IntentShape, QuietShape,
     ReadyShape, At, NoOrder, NoCall
<1>5. QED
  BY <1>3, <1>4

\* In every reachable state the variables have their types, and memory, file,
\* refresh and session agree as IntentInvariant says.
THEOREM TypesAndIntent == Spec => [](TypeOK /\ IntentInvariant)
<1>1. TypeOK /\ IntentInvariant /\ [Next]_vars => (TypeOK /\ IntentInvariant)'
  BY TypeStep, IntentStep DEF IntentInvariant
<1>2. QED
  BY <1>1, IntentInit, PTL DEF Spec

\* Type correctness of the session module, for every value of its constants.
THEOREM TypesCorrect == Spec => []TypeOK
  BY TypesAndIntent, PTL

\* After a logout or stop has taken effect nothing is refreshed, so nothing can
\* initialise a session, until the operator connects again: session.go 545.
THEOREM QuietHolds == Spec => []QuietStaysQuiet
<1>1. TypeOK /\ IntentInvariant => QuietStaysQuiet
  BY DEF IntentInvariant, OrderShape, CallShape, IntentShape, QuietShape, At,
     QuietStaysQuiet, LoadedIntent, Intents
<1>2. QED
  BY <1>1, TypesAndIntent, PTL

\* Between orders, whatever failed or was cut short, the memory holds what a
\* restarted daemon would load: setIntent.
THEOREM IntentDurable == Spec => []IntentIsDurable
<1>1. IntentInvariant => IntentIsDurable
  BY DEF IntentInvariant, IntentShape, At, IntentIsDurable
<1>2. QED
  BY <1>1, TypesAndIntent, PTL

\* A session is shown ready only while it is wanted: observe and clearSession.
THEOREM ReadyWanted == Spec => []ReadyIsWanted
<1>1. IntentInvariant => ReadyIsWanted
  BY DEF IntentInvariant, ReadyShape, ReadyIsWanted
<1>2. QED
  BY <1>1, TypesAndIntent, PTL

-----------------------------------------------------------------------------
(* The permission.                                                         *)

\* What an attempt does to the permission: login_initialization.go 35.
LEMMA AttemptEffect ==
    ASSUME NEW l \in LoginType
    PROVE  /\ Pending(Attempted(l)) <=> Pending(l)
           /\ Verdict(l) = "none" <=> ~Pending(l)
           /\ Verdict(l) # "go" => Attempted(l).attempts = l.attempts
           /\ Verdict(l) = "go" => /\ l.attempts < MaxAttempts
                                   /\ Attempted(l).attempts = l.attempts + 1
                                   /\ l.left > 0
           /\ Attempted(l).phase = "waiting" /\ Attempted(l).left > 0
                => l.phase = "waiting" /\ Attempted(l).left = l.left
           /\ Attempted(l).phase = "window" /\ Attempted(l).left > 0
                => \/ l.phase = "window" /\ Attempted(l).left = l.left
                   \/ l.phase = "waiting" /\ l.left > 0 /\ Attempted(l).left = InitWindow
<1>1. Opened(l) \in LoginType
  BY LoginTypes
<1>2. /\ Pending(Opened(l)) <=> Pending(l)
      /\ Opened(l).attempts = l.attempts
      /\ Opened(l).phase = "waiting" /\ Opened(l).left > 0
           => l.phase = "waiting" /\ Opened(l).left = l.left
      /\ Opened(l).phase = "window" /\ Opened(l).left > 0
           => \/ l.phase = "window" /\ Opened(l).left = l.left
              \/ l.phase = "waiting" /\ l.left > 0 /\ Opened(l).left = InitWindow
      /\ Pending(l) /\ ~Opened(l).exhausted /\ Opened(l).left > 0 => l.left > 0
  BY DEF Opened, LoginType, Pending
<1>3. Verdict(l) \in {"none", "spent", "wait", "go"} /\ (Verdict(l) = "none" <=> ~Pending(l))
  BY DEF Verdict
<1>4. CASE Verdict(l) = "none"
  BY <1>3, <1>4 DEF Attempted
<1>5. CASE Verdict(l) = "spent"
  <2>1. Attempted(l) = [Opened(l) EXCEPT !.exhausted = TRUE]
    BY <1>5 DEF Attempted
  <2>2. /\ Attempted(l).phase = Opened(l).phase /\ Attempted(l).left = Opened(l).left
        /\ Attempted(l).attempts = Opened(l).attempts
    BY <1>1, <2>1 DEF LoginType
  <2>3. QED
    BY <1>2, <1>3, <1>5, <2>2 DEF Pending
<1>6. CASE Verdict(l) = "wait"
  <2>1. Attempted(l) = Opened(l)
    BY <1>6 DEF Attempted
  <2>2. QED
    BY <1>2, <1>3, <1>6, <2>1
<1>7. CASE Verdict(l) = "go"
  <2>1. Attempted(l) = [Opened(l) EXCEPT !.attempts = Opened(l).attempts + 1,
                          !.backoff = Backoff[Opened(l).attempts + 1]]
    BY <1>7 DEF Attempted
  <2>2. /\ Attempted(l).phase = Opened(l).phase /\ Attempted(l).left = Opened(l).left
        /\ Attempted(l).attempts = Opened(l).attempts + 1
    BY <1>1, <2>1 DEF LoginType
  <2>3. /\ Pending(l) /\ ~Opened(l).exhausted /\ Opened(l).left # 0
        /\ ~(Opened(l).attempts >= MaxAttempts)
    BY <1>7 DEF Verdict, Spent
  <2>4. Opened(l).left > 0 /\ l.attempts < MaxAttempts
    BY <1>1, <1>2, <2>3, TimingAssumption DEF LoginType
  <2>5. QED
    BY <1>2, <1>3, <1>7, <2>2, <2>3, <2>4 DEF Pending
<1>8. QED
  BY <1>3, <1>4, <1>5, <1>6, <1>7

\* A permission that was just given, and none at all, keep to the time limits.
LEMMA FreshPermission ==
    /\ login' = NoLogin => ~Pending(login)' /\ TimeShape'
    /\ login' = NewLogin /\ grant' = NewGrant =>
         grant'.on /\ grant'.inits = 0 /\ grant'.inits <= login'.attempts /\ TimeShape'
<1>1. NoLogin.phase = "none"
  BY DEF NoLogin
<1>2. NewLogin.phase = "waiting" /\ NewLogin.left = LoginWait /\ NewLogin.attempts = 0
  BY DEF NewLogin, NoLogin
<1>3. NewGrant.on = TRUE /\ NewGrant.age = 0 /\ NewGrant.inits = 0
  BY DEF NewGrant
<1>4. login' = NoLogin => ~Pending(login)' /\ TimeShape'
  BY <1>1 DEF Pending, TimeShape
<1>5. login' = NewLogin /\ grant' = NewGrant => TimeShape'
  BY <1>2, <1>3, TimingAssumption DEF TimeShape
<1>6. QED
  BY <1>2, <1>3, <1>4, <1>5

\* Time passing for the permission and for its grant.
LEMMA GrantTick ==
    ASSUME TypeOK, GrantShape, TimeShape, Tick
    PROVE  GrantShape' /\ TimeShape'
<1>1. /\ login'.phase = login.phase /\ login'.attempts = login.attempts
      /\ login'.left = Less(login.left)
  BY DEF Tick, Aged, TypeOK, LoginType
<1>2. /\ grant'.on = grant.on /\ grant'.inits = grant.inits
      /\ grant'.age <= grant.age + 1 /\ grant'.age \in Nat
  BY TimingAssumption DEF Tick, TypeOK, GrantType, GrantAgeBound
<1>3. login'.left > 0 => login.left > 0 /\ login'.left = login.left - 1
  BY <1>1 DEF Less, TypeOK, LoginType
<1>4. TimeShape'
  BY <1>1, <1>2, <1>3, TimingAssumption DEF TimeShape, TypeOK, LoginType, GrantType,
     GrantAgeBound
<1>5. GrantShape'
  BY <1>1, <1>2 DEF GrantShape, Tick, Pending, Unsent
<1>6. QED
  BY <1>4, <1>5

\* An attempt only ever uses the permission up.
LEMMA GrantAttempt ==
    ASSUME TypeOK, GrantShape, TimeShape, login' = Attempted(login)
    PROVE  /\ UNCHANGED grant /\ Pending(login)' => grant'.on
           /\ grant'.age = grant.age => TimeShape'
           /\ Verdict(login) # "go" => login'.attempts = login.attempts
           /\ Verdict(login) = "go" => /\ grant.on /\ grant.inits < MaxAttempts
                                       /\ grant.inits + 1 <= login'.attempts
                                       /\ grant.age < GrantAgeBound
<1>1. login \in LoginType /\ grant \in GrantType
  BY DEF TypeOK
<1>2. GrantAgeBound = LoginWait + InitWindow /\ LoginWait \in Nat /\ InitWindow \in Nat
  BY TimingAssumption DEF GrantAgeBound
<1>3. grant'.age = grant.age => TimeShape'
  BY <1>1, <1>2, AttemptEffect DEF TimeShape, LoginType, GrantType
<1>4. CASE Verdict(login) = "go"
  <2>1. Pending(login) /\ login.left > 0 /\ login.attempts < MaxAttempts
        /\ login'.attempts = login.attempts + 1
    BY <1>1, <1>4, AttemptEffect
  <2>2. grant.on /\ grant.inits <= login.attempts
    BY <2>1 DEF GrantShape
  <2>3. login.phase \in {"waiting", "window"}
    BY <1>1, <2>1 DEF Pending, LoginType
  <2>4. grant.age < GrantAgeBound
    BY <1>1, <1>2, <2>1, <2>3, TimingAssumption DEF TimeShape, LoginType, GrantType
  <2>5. grant.inits < MaxAttempts /\ grant.inits + 1 <= login'.attempts
    BY <1>1, <2>1, <2>2, TimingAssumption DEF LoginType, GrantType
  <2>6. QED
    BY <1>3, <1>4, <2>2, <2>4, <2>5
<1>5. CASE Verdict(login) # "go"
  BY <1>1, <1>3, <1>5, AttemptEffect DEF GrantShape
<1>6. QED
  BY <1>4, <1>5

\* The permission is kept by the answers to a refresh.
LEMMA GrantAnswerStep ==
    ASSUME TypeOK, OrderShape, CallShape, GrantShape, TimeShape, Answer
    PROVE  GrantShape' /\ TimeShape'
<1>1. ASSUME NEW state, Observe(state)
      PROVE  GrantShape' /\ TimeShape'
  <2>1. ~Unsent'
    BY <1>1 DEF Observe, CallEnds, NoCall, Unsent
  <2>2. CASE state = "ready"
    BY <1>1, <2>1, <2>2, FreshPermission DEF Observe, GrantShape
  <2>3. CASE state # "ready"
    BY <1>1, <2>1, <2>3 DEF Observe, GrantShape, TimeShape
  <2>4. QED
    BY <2>2, <2>3
<1>2. ASSUME UNCHANGED <<login, grant>>, ~Unsent'
      PROVE  GrantShape' /\ TimeShape'
  BY <1>2 DEF GrantShape, TimeShape
<1>3. ASSUME NEW answer \in TickleAnswers, Tickle(answer)
      PROVE  GrantShape' /\ TimeShape'
  <2>1. CASE call' = [call EXCEPT !.at = "validate", !.loading = (answer = "loading")]
             /\ UNCHANGED <<login, grant, opMu>>
    <3>1. Unsent /\ call'.compete = call.compete
      BY <1>3, <2>1 DEF Tickle, Waiting, Unsent, TypeOK, CallType
    <3>2. QED
      BY <2>1, <3>1 DEF GrantShape, TimeShape
  <2>2. QED
    BY <1>1, <1>3, <2>1 DEF Tickle
<1>4. ASSUME NEW answer \in SsoAnswers, Validate(answer)
      PROVE  GrantShape' /\ TimeShape'
  <2>1. CASE /\ login' = Attempted(login) /\ Verdict(login) \in {"spent", "wait"}
             /\ CallEnds /\ UNCHANGED grant
    <3>1. ~Unsent'
      BY <2>1 DEF CallEnds, NoCall, Unsent
    <3>2. Pending(login)' => Pending(login)
      BY <2>1, AttemptEffect DEF TypeOK
    <3>3. QED
      BY <2>1, <3>1, <3>2, GrantAttempt DEF GrantShape
  <2>2. CASE login' = Attempted(login) /\ Verdict(login) \in {"none", "go"} /\ SendInit
    <3>1. ~Unsent' /\ grant'.on = grant.on /\ grant'.age = grant.age
      BY <2>2 DEF SendInit, Unsent, TypeOK, CallType, GrantType
    <3>2. CASE Verdict(login) = "none"
      <4>1. ~Pending(login)'
        BY <2>2, <3>2, AttemptEffect DEF TypeOK
      <4>2. QED
        BY <2>2, <3>1, <4>1, GrantAttempt DEF GrantShape
    <3>3. CASE Verdict(login) = "go"
      <4>1. grant' = [grant EXCEPT !.inits = grant.inits + 1]
        BY <2>2, <3>3 DEF SendInit
      <4>2. grant'.inits = grant.inits + 1
        BY <4>1 DEF TypeOK, GrantType
      <4>3. QED
        BY <2>2, <3>1, <3>3, <4>2, GrantAttempt DEF GrantShape
    <3>4. QED
      BY <2>2, <3>2, <3>3
  <2>3. QED
    BY <1>1, <1>4, <2>1, <2>2 DEF Validate
<1>5. CASE \E answer \in SsoAnswers : RecheckAnswer(answer)
  BY <1>1, <1>5 DEF RecheckAnswer
<1>6. ASSUME Recheck
      PROVE  GrantShape' /\ TimeShape'
  BY <1>2, <1>6 DEF Recheck, Unsent, TypeOK, CallType
<1>7. CASE \E answer \in InitAnswers : InitAnswer(answer)
  <2>1. CASE call' = [call EXCEPT !.at = "status"] /\ UNCHANGED <<login, grant>>
    BY <1>2, <2>1 DEF Unsent, TypeOK, CallType
  <2>2. QED
    BY <1>1, <1>6, <1>7, <2>1 DEF InitAnswer
<1>8. CASE \E answer \in StatusAnswers : StatusAnswer(answer)
  BY <1>1, <1>6, <1>8 DEF StatusAnswer
<1>9. CASE CallAborted
  BY <1>2, <1>9 DEF CallAborted, CallEnds, NoCall, Unsent
<1>10. QED
  BY <1>3, <1>4, <1>5, <1>7, <1>8, <1>9 DEF Answer

\* Only the operator's resume and takeover give a permission; every other order
\* keeps it or, with the session, drops it.
LEMMA GrantOrderStep ==
    ASSUME TypeOK, OrderShape, CallShape, GrantShape, TimeShape,
           OrderStep \/ OrderRefused \/ LaunchRefused
    PROVE  GrantShape' /\ TimeShape'
<1> USE DEF At, process, intent, loop, history
<1>1. CASE \/ SaveIntent \/ OrderRefused \/ LaunchRefused \/ LogoutAnswered
           \/ OrderReturns \/ ApplyStart
  <2>1. UNCHANGED <<login, grant, call>> /\ call.at = "none"
    BY <1>1 DEF SaveIntent, OrderRefused, LaunchRefused, LogoutAnswered, OrderReturns,
       ApplyStart, Remember, CallShape
  <2>2. QED
    BY <2>1 DEF GrantShape, TimeShape, Unsent
<1>2. CASE ApplyRestart \/ ApplyStop \/ ApplyLogout
  <2>1. login' = NoLogin /\ UNCHANGED call /\ call.at = "none"
    BY <1>2 DEF ApplyRestart, ApplyStop, ApplyLogout, Remember, Clear, CallShape
  <2>2. QED
    BY <2>1, FreshPermission DEF GrantShape, Unsent
<1>3. CASE ApplyRecover
  <2>1. opMu' = "operator"
    BY <1>3 DEF ApplyRecover, Remember, Go
  <2>2. CASE order.kind = "takeover"
    BY <1>3, <2>1, <2>2, FreshPermission DEF ApplyRecover, GrantShape
  <2>3. CASE order.kind = "recover"
    <3>1. UNCHANGED <<login, grant>> /\ call'.compete = FALSE
      BY <1>3, <2>3 DEF ApplyRecover, RefreshWith, NoCall
    <3>2. QED
      BY <3>1 DEF GrantShape, TimeShape
  <2>4. QED
    BY <1>3, <2>2, <2>3 DEF ApplyRecover
<1>4. CASE ApplyResume
  <2>1. login' = NewLogin /\ grant' = NewGrant /\ UNCHANGED call /\ call.at = "none"
    BY <1>4 DEF ApplyResume, Remember, CallShape
  <2>2. QED
    BY <2>1, FreshPermission DEF GrantShape, Unsent
<1>5. ASSUME NEW started \in BOOLEAN, Launch(started)
      PROVE  GrantShape' /\ TimeShape'
  <2>1. login' = NoLogin /\ call.at = "none"
    BY <1>5 DEF Launch, Clear, CallShape
  <2>2. ~(Unsent' /\ call'.compete)
    <3>1. CASE started
      BY <1>5, <3>1 DEF Launch, RefreshWith, NoCall
    <3>2. CASE ~started
      BY <1>5, <2>1, <3>2 DEF Launch, Unsent
    <3>3. QED
      BY <3>1, <3>2
  <2>3. QED
    BY <2>1, <2>2, FreshPermission DEF GrantShape
<1>6. QED
  BY <1>1, <1>2, <1>3, <1>4, <1>5 DEF OrderStep, Apply

\* Every step keeps a permission backed by its grant and inside its time.
LEMMA GrantStep ==
    ASSUME TypeOK, OrderShape, CallShape, GrantShape, TimeShape, [Next]_vars
    PROVE  GrantShape' /\ TimeShape'
<1> USE DEF process, intent, loop, history
<1>1. CASE UNCHANGED vars \/ RootCancel \/ NotifyLoginComplete \/ SupervisorWakes
  BY <1>1 DEF vars, RootCancel, NotifyLoginComplete, SupervisorWakes, GrantShape,
     TimeShape, Unsent
<1>2. CASE Boot \/ Disconnect \/ AutoStart \/ \E kind \in Orders : IssueOrder(kind)
  <2>1. UNCHANGED <<login, grant, call>> /\ (opMu' = opMu \/ call.at = "none")
    BY <1>2 DEF Boot, Disconnect, AutoStart, IssueOrder, CallShape
  <2>2. QED
    BY <2>1 DEF GrantShape, TimeShape, Unsent
<1>3. CASE Crash
  BY <1>3, FreshPermission DEF Crash, NoCall, GrantShape, Unsent
<1>4. CASE Tick
  BY <1>4, GrantTick
<1>5. CASE Answer
  BY <1>5, GrantAnswerStep
<1>6. CASE SupervisorExits
  <2>1. UNCHANGED <<grant, call, opMu>> /\ (login' = NoLogin \/ login' = login)
    BY <1>6 DEF SupervisorExits
  <2>2. QED
    BY <2>1, FreshPermission DEF GrantShape, TimeShape, Unsent
<1>7. CASE SupervisorRefreshes
  <2>1. UNCHANGED <<login, grant>> /\ call'.compete = FALSE
    BY <1>7 DEF SupervisorRefreshes, RefreshWith, NoCall
  <2>2. QED
    BY <2>1 DEF GrantShape, TimeShape
<1>8. ASSUME NEW started \in BOOLEAN, SupervisorRestarts(started)
      PROVE  GrantShape' /\ TimeShape'
  <2>1. login' = NoLogin
    BY <1>8 DEF SupervisorRestarts
  <2>2. call'.compete = FALSE
    <3>1. CASE started
      BY <1>8, <3>1 DEF SupervisorRestarts, RefreshWith, NoCall
    <3>2. CASE ~started
      BY <1>8, <3>2 DEF SupervisorRestarts, NoCall
    <3>3. QED
      BY <3>1, <3>2
  <2>3. QED
    BY <2>1, <2>2, FreshPermission DEF GrantShape
<1>9. CASE OrderStep \/ OrderRefused \/ LaunchRefused
  BY <1>9, GrantOrderStep
<1>10. QED
  BY <1>1, <1>2, <1>3, <1>4, <1>5, <1>6, <1>7, <1>8, <1>9 DEF Next, Supervise

\* The init request leaves from one place in the code.
LEMMA OnlyValidateSends ==
    ASSUME TypeOK, OrderShape, CallShape, [Next]_vars, SendsTakeover
    PROVE  /\ \E answer \in SsoAnswers : Validate(answer)
           /\ login' = Attempted(login) /\ SendInit
<1> USE DEF process, intent, loop, history, SendsTakeover
<1>1. ASSUME NEW state, Observe(state)
      PROVE  FALSE
  BY <1>1 DEF Observe, CallEnds, NoCall
<1>2. ASSUME NEW compete, RefreshWith(compete)
      PROVE  FALSE
  BY <1>2 DEF RefreshWith, NoCall
<1>3. CASE Answer
  <2>1. CASE \E answer \in SsoAnswers : Validate(answer)
    BY <1>1, <2>1 DEF Validate, CallEnds, NoCall
  <2>2. CASE CallAborted \/ \E answer \in SsoAnswers : RecheckAnswer(answer)
    BY <1>1, <2>2 DEF CallAborted, CallEnds, NoCall, RecheckAnswer
  <2>3. CASE \/ \E answer \in TickleAnswers : Tickle(answer)
             \/ \E answer \in InitAnswers : InitAnswer(answer)
             \/ \E answer \in StatusAnswers : StatusAnswer(answer)
    BY <1>1, <2>3 DEF Tickle, InitAnswer, StatusAnswer, Recheck, TypeOK, CallType
  <2>4. QED
    BY <1>3, <2>1, <2>2, <2>3 DEF Answer
<1>4. CASE \/ UNCHANGED vars \/ RootCancel \/ Tick \/ NotifyLoginComplete \/ Disconnect
           \/ Boot \/ AutoStart \/ \E kind \in Orders : IssueOrder(kind)
  BY <1>4 DEF vars, RootCancel, Tick, NotifyLoginComplete, Disconnect, Boot, AutoStart,
     IssueOrder
<1>5. CASE Crash
  BY <1>5 DEF Crash, NoCall
<1>6. CASE Supervise
  BY <1>2, <1>6 DEF Supervise, SupervisorWakes, SupervisorRefreshes, SupervisorExits
<1>7. ASSUME NEW started \in BOOLEAN, SupervisorRestarts(started)
      PROVE  FALSE
  <2>1. CASE started
    BY <1>2, <1>7, <2>1 DEF SupervisorRestarts
  <2>2. CASE ~started
    BY <1>7, <2>2 DEF SupervisorRestarts, NoCall
  <2>3. QED
    BY <2>1, <2>2
<1>8. CASE OrderStep \/ OrderRefused \/ LaunchRefused
  BY <1>2, <1>8 DEF OrderStep, OrderRefused, LaunchRefused, SaveIntent, Apply, ApplyStart,
     ApplyRestart, ApplyStop, ApplyLogout, ApplyRecover, ApplyResume, Launch, OrderReturns,
     LogoutAnswered
<1>9. QED
  BY <1>3, <1>4, <1>5, <1>6, <1>7, <1>8 DEF Next

\* What a takeover that is sent now may rely on.
LEMMA SentUnderGrant ==
    ASSUME TypeOK, OrderShape, CallShape, GrantShape, TimeShape, [Next]_vars, SendsTakeover
    PROVE  /\ grant.on /\ grant.inits < MaxAttempts
           /\ opMu = "supervisor" => grant.age < GrantAgeBound
<1>1. /\ Unsent /\ login' = Attempted(login)
      /\ call'.compete = (call.compete \/ Verdict(login) = "go")
  BY OnlyValidateSends DEF Validate, Waiting, Unsent, SendInit, TypeOK, CallType
<1>2. call.compete \/ Verdict(login) = "go"
  BY <1>1 DEF SendsTakeover
<1>3. CASE Verdict(login) = "go"
  BY <1>1, <1>3, GrantAttempt
<1>4. CASE call.compete
  BY <1>1, <1>4, TimingAssumption DEF GrantShape
<1>5. QED
  BY <1>2, <1>3, <1>4

\* The permission invariant holds in every reachable state.
THEOREM GrantInvariantHolds == Spec => [](GrantShape /\ TimeShape)
<1>1. Init => GrantShape /\ TimeShape
  BY DEF Init, NoLogin, NoCall, GrantShape, TimeShape, Pending, Unsent
<1>2. TypeOK /\ IntentInvariant /\ GrantShape /\ TimeShape /\ [Next]_vars
        => (GrantShape /\ TimeShape)'
  BY GrantStep DEF IntentInvariant
<1>3. QED
  BY <1>1, <1>2, TypesAndIntent, PTL DEF Spec

\* A competing session is pushed aside only under a permission the operator
\* gave and has not withdrawn, at most MaxAttempts times for each of them.
THEOREM TakeoverPermitted == Spec => TakeoverNeedsPermission
<1>1. TypeOK /\ IntentInvariant /\ GrantShape /\ TimeShape /\ [Next]_vars
        => [SendsTakeover => grant.on /\ grant.inits < MaxAttempts]_vars
  BY SentUnderGrant DEF IntentInvariant
<1>2. QED
  BY <1>1, TypesAndIntent, GrantInvariantHolds, PTL DEF Spec, TakeoverNeedsPermission

\* The supervisor uses a permission only inside the two time limits the code
\* gives it, however long the clock runs between its steps.
THEOREM TakeoverTimely == Spec => TakeoverInTime
<1>1. TypeOK /\ IntentInvariant /\ GrantShape /\ TimeShape /\ [Next]_vars
        => [SendsTakeover /\ opMu = "supervisor" => grant.age < GrantAgeBound]_vars
  BY SentUnderGrant DEF IntentInvariant
<1>2. QED
  BY <1>1, TypesAndIntent, GrantInvariantHolds, PTL DEF Spec, TakeoverInTime

=============================================================================
