-------------------------- MODULE ConfigTransaction --------------------------
(***************************************************************************)
(* Changing the configuration of a running service: applyConfig of         *)
(* service/configuration.go with the listeners of listeners.go, the        *)
(* rotation of the API token in auth.go, and the start and the end of the  *)
(* service in server.go.                                                   *)
(*                                                                         *)
(* One transaction changes the processes of several instances, their       *)
(* listeners, the file and the memory of the service, in an order in which *)
(* each step can fail; what was done is then undone in reverse.  Instances *)
(* meet in the ports of their Gateways, which only one process can have.   *)
(*                                                                         *)
(* The service's opMu is held during every operation, so an operation is   *)
(* what pc and its variables say.  The operations of an instance's manager *)
(* are one step here and several in GatewayLifecycle; sessions and tickets *)
(* are in BrowserAuth.  The proxy has one shared listener or one for each  *)
(* instance; a listener has a scheme, and keeps the certificate with which *)
(* it was opened.                                                          *)
(*                                                                         *)
(* What is undone is what the manager's Status said before: a new manager  *)
(* reports no process, also when one outlived the service.                 *)
(***************************************************************************)
EXTENDS Naturals, Sequences, FiniteSets

CONSTANTS
    Ids,        \* the instances, numbered in the order of their names
    Ports, NoPort,
    Addrs, Schemes, NoAddr,
    Certs,      \* values of proxy_tls_cert_file and proxy_tls_key_file
    Shared,     \* the owner of the shared listener
    Absent,     \* no instance of that name
    Tokens,     \* values of the API token
    Configs,    \* the configurations an operator asks for
    Used,       \* bound: the instances that are operated between changes
    MaxFaults,  \* bound: operations and system calls that fail by themselves
    MaxCrashes  \* bound: crashes of the service

Address  == (Addrs \X Schemes) \cup {NoAddr}
Instance == [port: Ports, auto: BOOLEAN, addr: Address]
Config   == [gateways: [Ids -> Instance \cup {Absent}], shared: Address, cert: Certs]
Names(c) == {i \in Ids : c.gateways[i] # Absent}
\* Config.Validate: no port and no address is used twice, and with the shared
\* listener no instance has its own.
Valid(c) == \A i, j \in Names(c) :
    LET a == c.gateways[i].addr  b == c.gateways[j].addr IN
    /\ i # j => /\ c.gateways[i].port # c.gateways[j].port
                /\ a = NoAddr \/ b = NoAddr \/ a[1] # b[1]
    /\ c.shared # NoAddr => a = NoAddr

ASSUME NamesAssumption ==
    /\ Ids \subseteq Nat /\ Shared \notin Ids /\ NoPort \notin Ports
    /\ NoAddr \notin Addrs \X Schemes
    /\ Absent \notin Instance
    /\ \A c \in Configs : c \in Config /\ Valid(c)
    /\ Used \subseteq Ids /\ MaxFaults \in Nat /\ MaxCrashes \in Nat

VARIABLES
    file,      \* config.json: the configuration and the API token
    memory,    \* s.config
    registry,  \* the instances in s.managers
    port,      \* the port each instance's manager is configured with
    intent,    \* the instance's saved intent: is it to be connected
    runs,      \* the port of the instance's Java process
    says,      \* what the manager's Status says: "running", "detached"
    owned,     \* does the manager hold its process lock
    listeners, \* s.proxyListeners and s.sharedProxyListener
    open,      \* the sockets that are open
    boots,     \* the goroutines of StartConfigured that have not run yet
    closing,   \* s.closing
    pc, target, todo, started, undo,  \* the operation that holds opMu
    before,    \* history: what there was when it began
    broken,    \* history: an undo failed by itself
    faults, crashes

stores == <<file, memory>>
procs  == <<registry, port, intent, runs, says, owned>>
socks  == <<listeners, open>>
work   == <<pc, target, todo, started, undo, before>>
bounds == <<broken, faults, crashes>>
vars   == <<stores, procs, socks, boots, closing, work, bounds>>

\* The listeners that a configuration wants, with its certificate.
Sockets(c) ==
    {<<i, c.gateways[i].addr, c.cert>> : i \in {j \in Names(c) : c.gateways[j].addr # NoAddr}}
        \cup (IF c.shared = NoAddr THEN {} ELSE {<<Shared, c.shared, c.cert>>})

\* A listener that is there does for one that is wanted: the certificate of a
\* dedicated listener is not compared.
Serves(s, w) == s[1] = w[1] /\ s[2] = w[2] /\ (s[1] = Shared => s[3] = w[3])

\* sortedGatewayIDs, sortedManagerIDs: the next one of those left.
Lowest(i, s) == i \in s /\ \A j \in s : i <= j

State == [file |-> file, memory |-> memory, registry |-> registry, port |-> port,
          intent |-> intent, runs |-> runs, says |-> says, owned |-> owned,
          listeners |-> listeners, open |-> open]

NoState == [file |-> Absent]

\* Something fails by itself.
Fault == faults < MaxFaults /\ faults' = faults + 1

-----------------------------------------------------------------------------
(* The operations of an instance's manager.  What one can come to is the   *)
(* manager as it leaves it, whether it succeeded, and whether that was due *)
(* or something failed by itself.                                          *)

Manager(i) == [ok |-> FALSE, due |-> FALSE, runs |-> runs[i], port |-> port[i],
               intent |-> intent[i], says |-> says[i], owned |-> owned[i]]

Done(m)    == [m EXCEPT !.ok = TRUE, !.due = TRUE]
Refused(m) == [m EXCEPT !.due = TRUE]
Held(m)    == [m EXCEPT !.owned = TRUE]
Faded(m)   == [m EXCEPT !.says = @ \ {"detached"}]
\* acquireProcessLock fails.
NoLock(m)  == IF m.owned THEN {} ELSE {m}

\* Fault: a port in use is not noticed.
FreeAlways(i, p) == TRUE

\* portInUse
Free(i, p) == \A j \in Ids \ {i} : runs[j] # p
\* A process of this instance on another port is neither used nor stopped.
Foreign(m) == m.runs \notin {NoPort, m.port}

\* manager.Status, and the configuration to go back to.
Before(i) == [id |-> i, kind |-> "restore", says |-> says[i], port |-> port[i],
              intent |-> intent[i]]

\* startLocked: the installation cannot be locked; it, or the process, is not as
\* it should be; the process does not come up and is stopped; it runs.
Launches(i, m) ==
    {m, Faded(m)} \cup
    (IF Foreign(m) \/ ~Free(i, m.port) THEN {Refused(Faded(m))}
     ELSE {[Faded(m) EXCEPT !.runs = NoPort],
           Done([m EXCEPT !.runs = m.port, !.says = {"running"}])})

StartGateway(i) ==
    LET m == Manager(i) IN
    NoLock(m) \cup {Held(m)} \cup Launches(i, [Held(m) EXCEPT !.intent = TRUE])

AutoStartGateway(i) ==
    LET m == Manager(i) IN
    IF m.intent THEN NoLock(m) \cup NoLock(Faded(m)) \cup Launches(i, Held(m))
                ELSE {Done(m)}

\* stopProcess
Stops(m) == IF Foreign(m) THEN {Refused(m)} ELSE {m, Done([m EXCEPT !.runs = NoPort])}

\* keep_session detaches from the process, if there is one.
StopGateway(i, keep) ==
    LET m == Manager(i)
        s == [Held(m) EXCEPT !.intent = FALSE, !.says = {}] IN
    NoLock(m) \cup {Held(m)} \cup
    (IF keep THEN {Done([s EXCEPT !.says = {"detached"}, !.owned = FALSE])}
             ELSE {[o EXCEPT !.owned = ~o.ok] : o \in Stops(s)})

\* RecoverSession, ResumeSession, Logout and the probes of a supervisor: an
\* intent is saved, and what is seen of the process is noted.
UseSession(i, n) ==
    LET m    == Manager(i)
        seen == IF m.runs = m.port THEN {m.says, m.says \cup {"running"}, {"running"}}
                                   ELSE {m.says, m.says \ {"running"}} IN
    NoLock(m) \cup {Held(m)} \cup
    {Done([Held(m) EXCEPT !.intent = n, !.says = s]) : s \in seen}

\* Stop the process, take the new port, start again if that is the intent.
Reconfigure(i, p) ==
    LET m == Manager(i)
        s == [Held(m) EXCEPT !.runs = NoPort, !.port = p, !.says = @ \ {"running"}] IN
    NoLock(m) \cup
    (IF Foreign(m) THEN {Refused(Faded(Held(m)))}
     ELSE {Faded(Held(m)), s, [s EXCEPT !.owned = FALSE]} \cup
          (IF m.intent THEN Launches(i, Faded(s)) ELSE {Done(Faded(s))}))

\* The process is stopped, if it is the manager's; it is launched if there was
\* one, or one was left behind, by what Status said then.
RestoreConfiguration(i, old) ==
    LET m == Manager(i)
        s == [m EXCEPT !.runs = IF m.owned THEN NoPort ELSE @, !.port = old.port,
                       !.says = IF m.owned THEN @ \ {"running"} ELSE @]
        r == [Held(s) EXCEPT !.intent = old.intent] IN
    IF m.owned /\ Foreign(m) THEN {Refused(m)}
    ELSE (IF m.owned THEN {m} ELSE {}) \cup {[s EXCEPT !.owned = FALSE], Held(s)} \cup
         (IF old.says = {} THEN {Done([Faded(r) EXCEPT !.owned = FALSE])}
          ELSE {IF o.ok /\ "detached" \in old.says
                  THEN [o EXCEPT !.says = {"detached"}, !.owned = FALSE] ELSE o
                : o \in Launches(i, r)})

Becomes(i, o) ==
    /\ runs' = [runs EXCEPT ![i] = o.runs]
    /\ port' = [port EXCEPT ![i] = o.port]
    /\ intent' = [intent EXCEPT ![i] = o.intent]
    /\ says' = [says EXCEPT ![i] = o.says]
    /\ owned' = [owned EXCEPT ![i] = o.owned]
    /\ UNCHANGED registry
    /\ IF o.due THEN UNCHANGED faults ELSE Fault

-----------------------------------------------------------------------------
(* The service starts, is operated and ends.                               *)

\* Every manager is new.
Serve ==
    LET c == file.config IN
    /\ memory' = file /\ registry' = Names(c)
    /\ port' = [i \in Ids |-> IF i \in Names(c) THEN c.gateways[i].port ELSE NoPort]
    /\ says' = [i \in Ids |-> {}] /\ owned' = [i \in Ids |-> FALSE]
    /\ listeners' = Sockets(c) /\ open' = Sockets(c)
    /\ boots' = {i \in Names(c) : c.gateways[i].auto}
    /\ closing' = FALSE
    /\ pc' = "idle" /\ target' = c /\ todo' = {} /\ started' = {}
    /\ undo' = <<>> /\ before' = NoState
    /\ UNCHANGED <<file, intent, runs>>

Init ==
    \E c \in Configs, t \in Tokens :
        /\ file = [config |-> c, token |-> t] /\ memory = file
        /\ registry = Names(c)
        /\ port = [i \in Ids |-> IF i \in Names(c) THEN c.gateways[i].port ELSE NoPort]
        /\ intent \in [Ids -> BOOLEAN] /\ runs = [i \in Ids |-> NoPort]
        /\ says = [i \in Ids |-> {}] /\ owned = [i \in Ids |-> FALSE]
        /\ listeners = Sockets(c) /\ open = Sockets(c)
        /\ boots = {i \in Names(c) : c.gateways[i].auto} /\ closing = FALSE
        /\ pc = "idle" /\ target = c /\ todo = {} /\ started = {}
        /\ undo = <<>> /\ before = NoState
        /\ broken = FALSE /\ faults = 0 /\ crashes = 0

Now == memory.config

Idle == pc = "idle" /\ ~closing

\* StartConfigured looks again once it has opMu.
AutoStartDue(i) == i \in Names(Now) \cap registry /\ Now.gateways[i].auto

AutoStart(i) ==
    /\ pc = "idle" /\ i \in boots
    /\ boots' = boots \ {i}
    /\ IF ~closing /\ AutoStartDue(i)
       THEN \E o \in AutoStartGateway(i) : Becomes(i, o)
       ELSE UNCHANGED <<procs, faults>>
    /\ UNCHANGED <<stores, socks, closing, work, broken, crashes>>

\* serveGatewayOperation; a restart, an upgrade and a rollback stop and start.
Operate(i) ==
    /\ Idle /\ i \in registry \cap Used
    /\ \E n \in BOOLEAN :
          \E o \in StartGateway(i) \cup StopGateway(i, FALSE) \cup StopGateway(i, TRUE)
                       \cup UseSession(i, n) : Becomes(i, o)
    /\ UNCHANGED <<stores, socks, boots, closing, work, broken, crashes>>

\* Between operations; within one, see GatewayLifecycle.  So it is with what a
\* supervisor's probe sees (UseSession).
JavaDies(i) ==
    /\ Idle /\ i \in Used /\ runs[i] # NoPort
    /\ runs' = [runs EXCEPT ![i] = NoPort]
    /\ UNCHANGED <<stores, registry, port, intent, says, owned, socks, boots, closing, work, bounds>>

\* A managed instance stops, a persistent one keeps its process; no manager is
\* asked again.
Shutdown ==
    /\ Idle
    /\ closing' = TRUE
    /\ listeners' = {} /\ open' = {}
    /\ \E kept \in SUBSET registry :
          runs' = [i \in Ids |-> IF i \in registry \ kept /\ ~Foreign(Manager(i)) THEN NoPort ELSE runs[i]]
    /\ UNCHANGED <<stores, registry, port, intent, says, owned, boots, work, bounds>>

Restart == pc = "idle" /\ closing /\ Serve /\ UNCHANGED bounds

\* The processes outlive the service, the sockets do not.
Crash ==
    /\ crashes < MaxCrashes /\ crashes' = crashes + 1
    /\ Serve
    /\ UNCHANGED <<broken, faults>>

-----------------------------------------------------------------------------
(* The rotation of the API token                                           *)

\* Fault: the token is published before it is saved.
RotateFirst(t) ==
    /\ Idle
    /\ memory' = [memory EXCEPT !.token = t]
    /\ \/ file' = [file EXCEPT !.token = t] /\ UNCHANGED faults
       \/ Fault /\ UNCHANGED file
    /\ UNCHANGED <<procs, socks, boots, closing, work, broken, crashes>>

\* Save, and only then s.config.APIToken.
Rotate(t) ==
    /\ Idle
    /\ \/ /\ file' = [memory EXCEPT !.token = t] /\ memory' = file' /\ UNCHANGED faults
       \/ Fault /\ UNCHANGED stores
    /\ UNCHANGED <<procs, socks, boots, closing, work, broken, crashes>>

-----------------------------------------------------------------------------
(* applyConfig                                                             *)

\* updateConfig starts from the current configuration; PrepareSave wrote the
\* new one beside the file.  The shared listener is not turned on or off.
Apply(c) ==
    /\ Idle
    /\ target' = c /\ before' = State
    /\ pc' = IF (c.shared = NoAddr) = (Now.shared = NoAddr) THEN "listen" ELSE "failed"
    /\ todo' = {} /\ started' = {} /\ undo' = <<>>
    /\ UNCHANGED <<stores, procs, socks, boots, closing, bounds>>

\* The listeners that stay, and those that are to be opened.
Standing(c) == {s \in listeners : \E w \in Sockets(c) : Serves(s, w)}
Missing(c)  == {w \in Sockets(c) : \A s \in listeners : ~Serves(s, w)}

\* An address that another listener has, or this one with another scheme, or
\* the shared one with another certificate, cannot be taken over.
Taken(c) == \E w \in Missing(c), s \in listeners : w[2][1] = s[2][1]

\* prepareProxyListenerReconcile, and the managers of the new instances.  If a
\* listener cannot be opened, those that were are closed again; so they are if a
\* manager or its proxy cannot be made.  A shared listener that stays may fail
\* to get a certificate for the new names (see LocalTLS).
Listen ==
    /\ pc = "listen"
    /\ \/ /\ ~Taken(target)
          /\ started' = Missing(target)
          /\ open' = open \cup started'
          /\ \/ /\ port' = [i \in Ids |-> IF i \in Names(target) \ registry
                                          THEN target.gateways[i].port ELSE port[i]]
                /\ todo' = Names(target) /\ pc' = "change"
                /\ UNCHANGED faults
             \/ Fault /\ pc' = "rollback" /\ UNCHANGED <<port, todo>>
       \/ /\ IF Taken(target) THEN UNCHANGED faults ELSE Fault
          /\ pc' = "failed" /\ UNCHANGED <<open, started, port, todo>>
    /\ says' = [i \in Ids |-> IF i \in registry THEN says[i] ELSE {}]
    /\ owned' = [i \in Ids |-> i \in registry /\ owned[i]]
    /\ UNCHANGED <<stores, registry, intent, runs, listeners, boots, closing,
                   target, undo, before, broken, crashes>>

\* A manager's operation belongs to the transaction: its undo is noted before
\* it is tried.
Attempt(i, outcomes, entry) ==
    \E o \in outcomes :
        /\ Becomes(i, o)
        /\ undo' = Append(undo, entry)
        /\ IF o.ok THEN pc' = pc /\ todo' = todo \ {i}
                   ELSE pc' = "rollback" /\ UNCHANGED todo

Skip(i) == todo' = todo \ {i} /\ UNCHANGED <<procs, undo, pc, faults>>

Change(i) ==
    /\ pc = "change" /\ Lowest(i, todo)
    /\ LET old == Now.gateways[i] new == target.gateways[i] IN
       IF old = Absent
       THEN IF new.auto THEN Attempt(i, StartGateway(i), [Before(i) EXCEPT !.kind = "stop"])
                        ELSE Skip(i)
       ELSE IF old.port # new.port THEN Attempt(i, Reconfigure(i, new.port), Before(i))
       ELSE IF ~old.auto /\ new.auto THEN Attempt(i, StartGateway(i), Before(i))
       ELSE Skip(i)
    /\ UNCHANGED <<stores, socks, boots, closing, target, started, before, broken, crashes>>

\* Fault: a removed instance is only forgotten.
ForgetRemoved == {}

\* The instances that the new configuration does not have.
Removed == registry \ Names(target)

Changed ==
    /\ pc = "change" /\ todo = {}
    /\ pc' = "remove" /\ todo' = Removed
    /\ UNCHANGED <<stores, procs, socks, boots, closing, target, started, undo, before, bounds>>

Remove(i) ==
    /\ pc = "remove" /\ Lowest(i, todo)
    /\ Attempt(i, StopGateway(i, FALSE), Before(i))
    /\ UNCHANGED <<stores, socks, boots, closing, target, started, before, broken, crashes>>

\* pending.Commit
Commit ==
    /\ pc = "remove" /\ todo = {}
    /\ \/ /\ file' = [memory EXCEPT !.config = target] /\ pc' = "publish" /\ UNCHANGED faults
       \/ Fault /\ pc' = "rollback" /\ UNCHANGED file
    /\ UNCHANGED <<memory, procs, socks, boots, closing, target, todo, started, undo, before,
                   broken, crashes>>

\* The registry, then the configuration.
Publish ==
    /\ pc = "publish"
    /\ registry' = Names(target) /\ memory' = [memory EXCEPT !.config = target]
    /\ pc' = "reconcile"
    /\ UNCHANGED <<file, port, intent, runs, says, owned, socks, boots, closing, target, todo,
                   started, undo, before, bounds>>

\* Fault: what is no longer wanted stays open.
RetireNone == {}

\* The listeners that the new configuration does not have.
Retired == listeners \ Standing(target)

\* reconcile.commit
Reconcile ==
    /\ pc = "reconcile"
    /\ listeners' = Standing(target) \cup started
    /\ open' = open \ Retired
    /\ pc' = "ok"
    /\ UNCHANGED <<stores, procs, boots, closing, target, todo, started, undo, before, bounds>>

\* reconcile.rollback
Rollback ==
    /\ pc = "rollback"
    /\ open' = open \ started
    /\ pc' = "undo"
    /\ UNCHANGED <<stores, procs, listeners, boots, closing, target, todo, started, undo,
                   before, bounds>>

\* Fault: what was done first is undone first.
UndoFirst == <<undo[1], Tail(undo)>>

\* What was done last is undone first.
UndoNext == <<undo[Len(undo)], SubSeq(undo, 1, Len(undo) - 1)>>

\* An undo that fails is reported, the others are still tried.
Undo ==
    /\ pc = "undo" /\ undo # <<>>
    /\ LET old == UndoNext[1] IN
       \E o \in IF old.kind = "stop" THEN StopGateway(old.id, FALSE)
                                     ELSE RestoreConfiguration(old.id, old) :
          Becomes(old.id, o) /\ broken' = (broken \/ (~o.ok /\ ~o.due))
    /\ undo' = UndoNext[2]
    /\ UNCHANGED <<stores, socks, boots, closing, pc, target, todo, started, before, crashes>>

Undone ==
    /\ pc = "undo" /\ undo = <<>>
    /\ pc' = "failed"
    /\ UNCHANGED <<stores, procs, socks, boots, closing, target, todo, started, undo, before, bounds>>

\* The managers of instances that are in no registry are forgotten.
Return ==
    /\ pc \in {"ok", "failed"}
    /\ pc' = "idle" /\ target' = Now /\ todo' = {} /\ started' = {} /\ undo' = <<>>
    /\ before' = NoState
    /\ port' = [i \in Ids |-> IF i \in registry THEN port[i] ELSE NoPort]
    /\ UNCHANGED <<stores, registry, intent, runs, says, owned, socks, boots, closing, bounds>>

Next ==
    \/ \E c \in Configs : Apply(c)
    \/ \E t \in Tokens : Rotate(t)
    \/ \E i \in Ids : Change(i) \/ Remove(i) \/ AutoStart(i) \/ Operate(i) \/ JavaDies(i)
    \/ Listen \/ Changed \/ Commit \/ Publish \/ Reconcile \/ Rollback \/ Undo \/ Undone \/ Return
    \/ Shutdown \/ Restart \/ Crash

Spec == Init /\ [][Next]_vars

-----------------------------------------------------------------------------
(* Properties                                                              *)

Stored == [config: Configs, token: Tokens]
Socket == (Ids \cup {Shared}) \X (Addrs \X Schemes) \X Certs
Report == SUBSET {"running", "detached"}
Entry  == [id: Ids, kind: {"restore", "stop"}, says: Report,
           port: Ports \cup {NoPort}, intent: BOOLEAN]

\* The types, and that no two instances' processes have one port.
TypeOK ==
    /\ file \in Stored /\ memory \in Stored
    /\ registry \subseteq Ids /\ port \in [Ids -> Ports \cup {NoPort}]
    /\ intent \in [Ids -> BOOLEAN] /\ runs \in [Ids -> Ports \cup {NoPort}]
    /\ says \in [Ids -> Report] /\ owned \in [Ids -> BOOLEAN]
    /\ listeners \subseteq Socket /\ open \subseteq Socket
    /\ boots \subseteq Ids /\ closing \in BOOLEAN
    /\ pc \in {"idle", "listen", "change", "remove", "publish", "reconcile", "rollback",
               "undo", "ok", "failed"}
    /\ target \in Configs /\ todo \subseteq Ids /\ started \subseteq Socket /\ undo \in Seq(Entry)
    /\ broken \in BOOLEAN /\ faults \in 0..MaxFaults /\ crashes \in 0..MaxCrashes
    /\ \A i, j \in Ids : i # j => runs[i] = NoPort \/ runs[i] # runs[j]

\* The listeners are those of the configuration, one to an address.
Carries(ls, c) ==
    /\ \A w \in Sockets(c) : \E s \in ls : Serves(s, w)
    /\ \A s \in ls : \E w \in Sockets(c) : Serves(s, w)
    /\ \A s, t \in ls : s[2][1] = t[2][1] => s = t

\* Where an instance has its process by what its manager says.
Reported(s, i) == IF s.says[i] = {} THEN NoPort ELSE s.port[i]

Settled(s) == \A i \in Ids : s.runs[i] # NoPort => i \in s.registry /\ s.runs[i] = s.port[i]

\* applyConfig fails at any step: file, memory, registry and listeners are
\* what they were, and every instance has its port and its intent back, and
\* its process, if the manager's Status told the truth when the change began.
\* If it did not (a process outlived the service, was not stopped, died or was
\* never there), the instance has the process that it had, or is what Status
\* said.  Unless an undo failed by itself or a crash had left a process on a
\* port that is not its instance's.  No undo fails because of another
\* instance: each finds the port free that it gives back.
FailureRestores ==
    pc = "failed" /\ ~broken /\ Settled(before) =>
        /\ <<file, memory, registry>> = <<before.file, before.memory, before.registry>>
        /\ <<listeners, open>> = <<before.listeners, before.open>>
        /\ \A i \in registry : /\ port[i] = before.port[i]
                               /\ intent[i] = before.intent[i]
                               /\ runs[i] \in {before.runs[i], Reported(before, i)}
        /\ \A i \in Ids \ registry : runs[i] = NoPort

\* What a change of the configuration is to do to an instance.
Applied(i) ==
    LET old == before.memory.config.gateways[i]  new == target.gateways[i] IN
    /\ broken \/ port[i] = new.port
    /\ IF old # Absent /\ old.port # new.port
       THEN runs[i] = IF intent[i] THEN new.port ELSE NoPort
       ELSE IF new.auto /\ (old = Absent \/ ~old.auto)
       THEN runs[i] = port[i] /\ intent[i]
       ELSE runs[i] = before.runs[i] /\ intent[i] = before.intent[i]

\* applyConfig succeeds: the file, the memory, the registry and the listeners
\* are what was asked for.  A moved instance runs on its new port, if it is to
\* be connected; one that is added, or is to start automatically now, runs and
\* is to be connected; one that is removed does not and is not; the others are
\* as they were.  (After an undo that failed, the manager of an instance may
\* have another port than the configuration says; applyConfig compares
\* configurations only and does not notice.)
SuccessApplies ==
    pc = "ok" =>
        /\ file = memory /\ memory = [before.memory EXCEPT !.config = target]
        /\ registry = Names(target) /\ Carries(listeners, target) /\ open = listeners
        /\ \A i \in Names(target) : Applied(i)
        /\ \A i \in before.registry \ registry : runs[i] = NoPort /\ ~intent[i]

\* Between operations the file says what the service does: a restart would
\* change nothing but the certificate of a dedicated listener, and no rotation
\* of the token is lost in a transaction.
FileIsMemory ==
    pc = "idle" => /\ file = memory /\ registry = Names(Now)
                   /\ \A i \in registry : broken \/ port[i] = Now.gateways[i].port
                   /\ ~closing => Carries(listeners, Now) /\ open = listeners

\* Between operations only instances of the registry have a process, unless an
\* undo failed or the service crashed: none is left behind by a removal, an
\* undone start or a late automatic start.
OnlyRegisteredRun ==
    pc = "idle" /\ ~broken /\ crashes = 0 => \A i \in Ids \ registry : runs[i] = NoPort
==============================================================================
