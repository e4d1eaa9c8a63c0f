----------------------- MODULE ConfigTransaction_proofs -----------------------
(***************************************************************************)
(* The properties of ConfigTransaction for any number of instances, any    *)
(* configurations and any number of faults and crashes.                    *)
(*                                                                         *)
(* During a transaction everything is compared with before, the state in   *)
(* which it began.  The stack of undo entries tells which instances differ *)
(* from it; each of them once, and the port on which a process was is one  *)
(* that no other instance has taken since.                                 *)
(***************************************************************************)
EXTENDS ConfigTransaction, SequenceTheorems, TLAPS

\* What State is a record of.
Snapshot == [file: Stored, memory: Stored, registry: SUBSET Ids, port: [Ids -> Ports \cup {NoPort}],
             intent: [Ids -> BOOLEAN], runs: [Ids -> Ports \cup {NoPort}],
             says: [Ids -> Report], owned: [Ids -> BOOLEAN],
             listeners: SUBSET Socket, open: SUBSET Socket]

Busy    == pc # "idle"
\* Before the file is written, and after.
Early   == pc \in {"listen", "change", "remove", "rollback", "undo", "failed"}
Late    == pc \in {"publish", "reconcile", "ok"}
Forward == pc \in {"change", "remove", "rollback"} \/ Late
Back    == pc \in {"undo", "failed"}

\* The configuration that an operation begins with is in force, and saved.
InForce(s) ==
    /\ s.file = s.memory /\ s.registry = Names(s.memory.config)
    /\ \A i \in s.registry : broken \/ s.port[i] = s.memory.config.gateways[i].port
    /\ ~broken /\ crashes = 0 => Settled(s)

BeforeShape ==
    Busy => /\ before \in Snapshot /\ InForce(before) /\ ~closing
            /\ Carries(before.listeners, before.memory.config) /\ before.open = before.listeners
            /\ \A i, j \in Ids : i # j => before.runs[i] = NoPort \/ before.runs[i] # before.runs[j]

IdleShape ==
    ~Busy => /\ InForce(State)
             /\ ~closing => Carries(listeners, Now) /\ open = listeners

StoreShape ==
    /\ Early => file = before.file
    /\ Early \/ pc = "publish" => memory = before.memory /\ registry = before.registry
    /\ Late => file = [before.memory EXCEPT !.config = target]
    /\ pc \in {"reconcile", "ok"} => memory = file /\ registry = Names(target)

SocketShape ==
    /\ Busy /\ pc # "ok" => listeners = before.listeners
    /\ pc = "listen" \/ Back => open = before.open
    /\ Forward /\ pc # "ok" => /\ started = Missing(target) /\ ~Taken(target)
                               /\ open = before.open \cup started
    /\ pc = "ok" => Carries(listeners, target) /\ open = listeners

Noted == {undo[k].id : k \in DOMAIN undo}

\* The entries are the instances that the operation touched, as they were.
UndoShape ==
    /\ pc \in {"listen", "failed"} => undo = <<>>
    /\ Forward \/ Back =>
          /\ \A k, l \in DOMAIN undo : k # l => undo[k].id # undo[l].id
          /\ \A k \in DOMAIN undo : LET e == undo[k] IN
                /\ e.id \in before.registry \cup Names(target)
                /\ e.kind = "restore" <=> e.id \in before.registry
                /\ e.intent = before.intent[e.id]
                /\ e.id \in before.registry => e.port = before.port[e.id] /\ e.says = before.says[e.id]

TodoShape ==
    /\ pc \in {"change", "remove"} => todo \cap Noted = {}
    /\ pc = "change" => todo \subseteq Names(target) /\ Noted \subseteq Names(target)
    /\ pc = "remove" => todo \subseteq before.registry \ Names(target)

Same(j) ==
    /\ runs[j] = before.runs[j] /\ intent[j] = before.intent[j]
    /\ j \in before.registry => port[j] = before.port[j] /\ says[j] = before.says[j]

\* What an undo gives back.
Restored(j) ==
    /\ j \in before.registry => broken \/ port[j] = before.port[j]
    /\ ~broken /\ Settled(before) =>
          IF j \in before.registry
          THEN runs[j] \in {before.runs[j], Reported(before, j)} /\ intent[j] = before.intent[j]
          ELSE runs[j] = before.runs[j]

\* Who is not noted is untouched, or given back what it had.
UntouchedShape ==
    /\ pc = "listen" \/ Forward => \A j \in Ids \ Noted : Same(j)
    /\ Back => \A j \in Ids \ Noted : Restored(j)

\* A process is on its manager's port, or where it was.
PortShape ==
    Busy => \A i \in Ids : \/ runs[i] \in {NoPort, port[i]}
                           \/ /\ runs[i] = before.runs[i]
                              /\ i \in before.registry => port[i] = before.port[i]

\* A manager that was touched and does not hold its lock has launched nothing.
LockShape ==
    Forward \/ Back => \A j \in Noted : owned[j] \/ runs[j] \in {NoPort, before.runs[j]}

\* What was launched took no port on which a process was that a later undo
\* gives back.
FreeShape ==
    (Forward \/ Back) /\ ~broken /\ Settled(before) =>
        \A k \in DOMAIN undo : \A j \in Ids : (\A l \in 1..k : undo[l].id # j) =>
            runs[undo[k].id] = NoPort \/ runs[undo[k].id] # before.runs[j]

\* What has been done for the new configuration.
DoneShape ==
    /\ pc = "change" => \A i \in todo \ before.registry : port[i] = target.gateways[i].port
    /\ pc \in {"change", "remove"} \/ Late => \A i \in Names(target) :
          ~(pc = "change" /\ i \in todo) => Applied(i)
    /\ pc = "remove" \/ Late => \A i \in before.registry \ Names(target) :
          ~(pc = "remove" /\ i \in todo) => runs[i] = NoPort /\ ~intent[i]

TransactionInvariant ==
    /\ BeforeShape /\ IdleShape /\ StoreShape /\ SocketShape /\ UndoShape /\ TodoShape
    /\ UntouchedShape /\ PortShape /\ LockShape /\ FreeShape /\ DoneShape

-----------------------------------------------------------------------------
(* The operations of a manager: what each outcome can be.                  *)

Whole == [ok: BOOLEAN, due: BOOLEAN, runs: Ports \cup {NoPort}, port: Ports \cup {NoPort},
          intent: BOOLEAN, says: Report, owned: BOOLEAN]

\* A manager that an operation has not brought to its end yet.
Failing(m) == m \in Whole /\ m.ok = FALSE /\ m.due = FALSE

\* Every operation leaves the process, stops it, or has it on the manager's
\* port, which was free.
Effect(i, o) ==
    /\ o \in Whole
    /\ o.runs \in {NoPort, runs[i]} \/ (o.runs = o.port /\ Free(i, o.runs))

\* It is where the manager can find it, or the manager is as it was; a manager
\* without its lock has launched nothing.
Found(i, o) ==
    /\ o.runs \in {NoPort, o.port} \/ (o.runs = runs[i] /\ o.port = port[i])
    /\ ~o.owned => o.runs \in {NoPort, runs[i]}

\* A manager before its operation.
LEMMA ManagerTyped ==
    ASSUME TypeOK, NEW i \in Ids
    PROVE  /\ Failing(Manager(i)) /\ Manager(i).runs = runs[i] /\ Manager(i).port = port[i]
           /\ Manager(i).intent = intent[i] /\ Manager(i).says = says[i] /\ Manager(i).owned = owned[i]
  BY DEF TypeOK, Manager, Failing, Whole

\* The parts of an operation change one thing each: the lock, the report, the
\* end.
LEMMA PartTyped ==
    ASSUME NEW m \in Whole
    PROVE  /\ Held(m) \in Whole /\ Faded(m) \in Whole /\ Done(m) \in Whole /\ Refused(m) \in Whole
           /\ LET o == Held(m) IN
              /\ o.ok = m.ok /\ o.due = m.due /\ o.runs = m.runs /\ o.port = m.port
              /\ o.intent = m.intent /\ o.says = m.says /\ o.owned = TRUE
           /\ LET o == Faded(m) IN
              /\ o.ok = m.ok /\ o.due = m.due /\ o.runs = m.runs /\ o.port = m.port
              /\ o.intent = m.intent /\ o.owned = m.owned
           /\ LET o == Done(m) IN
              /\ o.ok = TRUE /\ o.due = TRUE /\ o.runs = m.runs /\ o.port = m.port
              /\ o.intent = m.intent /\ o.says = m.says /\ o.owned = m.owned
           /\ LET o == Refused(m) IN
              /\ o.ok = m.ok /\ o.due = TRUE /\ o.runs = m.runs /\ o.port = m.port
              /\ o.intent = m.intent /\ o.says = m.says /\ o.owned = m.owned
  BY DEF Held, Faded, Done, Refused, Whole, Report

\* A launch keeps port, intent and lock; it is on a port that is free, and is
\* refused only if that is not so or the process is on another port.
LEMMA LaunchEffect ==
    ASSUME NEW i \in Ids, NEW m, Failing(m), NEW o \in Launches(i, m)
    PROVE  /\ o \in Whole /\ o.port = m.port /\ o.intent = m.intent /\ o.owned = m.owned
           /\ o.runs \in {m.runs, NoPort} \/ (o.runs = m.port /\ Free(i, m.port))
           /\ o.ok => o.due /\ o.runs = m.port
           /\ ~o.ok /\ o.due => (Foreign(m) \/ ~Free(i, m.port)) /\ o.runs = m.runs
           /\ Foreign(m) => o.runs = m.runs
  <1> DEFINE F == Faded(m)
             D == [F EXCEPT !.runs = NoPort]
             E == [m EXCEPT !.runs = m.port, !.says = {"running"}]
  <1>1. m \in Whole /\ m.ok = FALSE /\ m.due = FALSE
    BY DEF Failing
  <1>2. /\ F \in Whole /\ F.ok = FALSE /\ F.due = FALSE /\ F.runs = m.runs /\ F.port = m.port
        /\ F.intent = m.intent /\ F.owned = m.owned
    BY <1>1, PartTyped
  <1>3. /\ Refused(F) \in Whole /\ Refused(F).ok = FALSE /\ Refused(F).due = TRUE
        /\ Refused(F).runs = m.runs /\ Refused(F).port = m.port
        /\ Refused(F).intent = m.intent /\ Refused(F).owned = m.owned
    BY <1>2, PartTyped
  <1>4. /\ D \in Whole /\ D.ok = FALSE /\ D.due = FALSE /\ D.runs = NoPort /\ D.port = m.port
        /\ D.intent = m.intent /\ D.owned = m.owned
    <2> HIDE DEF F
    <2> QED
      BY <1>2 DEF Whole
  <1>5. /\ E \in Whole /\ E.runs = m.port /\ E.port = m.port /\ E.intent = m.intent
        /\ E.owned = m.owned
    BY <1>1 DEF Whole, Report
  <1>6. /\ Done(E) \in Whole /\ Done(E).ok = TRUE /\ Done(E).due = TRUE /\ Done(E).runs = m.port
        /\ Done(E).port = m.port /\ Done(E).intent = m.intent /\ Done(E).owned = m.owned
    BY <1>5, PartTyped
  <1>7. \/ o = m \/ o = F
        \/ (Foreign(m) \/ ~Free(i, m.port)) /\ o = Refused(F)
        \/ ~Foreign(m) /\ Free(i, m.port) /\ (o = D \/ o = Done(E))
    BY DEF Launches
  <1> HIDE DEF F, D, E
  <1> QED
    BY ONLY <1>1, <1>2, <1>3, <1>4, <1>6, <1>7

\* A start leaves the port as it is; one that succeeds has the process on it.
LEMMA StartEffect ==
    ASSUME TypeOK, NEW i \in Ids, NEW o \in StartGateway(i)
    PROVE  /\ Effect(i, o) /\ Found(i, o) /\ o.port = port[i]
           /\ o.ok => o.runs = port[i] /\ o.intent
  <1> DEFINE m == Manager(i)
             h == Held(m)
             l == [h EXCEPT !.intent = TRUE]
  <1>1. /\ m \in Whole /\ m.ok = FALSE /\ m.due = FALSE
        /\ m.runs = runs[i] /\ m.port = port[i] /\ m.owned = owned[i]
    BY ManagerTyped DEF Failing
  <1>2. /\ h \in Whole /\ h.ok = FALSE /\ h.due = FALSE /\ h.runs = runs[i] /\ h.port = port[i]
        /\ h.owned = TRUE
    BY <1>1, PartTyped
  <1> HIDE DEF h
  <1>3. /\ Failing(l) /\ l.runs = runs[i] /\ l.port = port[i] /\ l.intent = TRUE /\ l.owned = TRUE
    BY <1>2 DEF Failing, Whole
  <1>4. o = m \/ o = h \/ o \in Launches(i, l)
    BY DEF StartGateway, NoLock, h
  <1> HIDE DEF m, l
  <1>5. CASE o = m \/ o = h
    BY ONLY <1>1, <1>2, <1>5 DEF Effect, Found
  <1>6. CASE o \in Launches(i, l)
    <2>1. /\ o \in Whole /\ o.port = port[i] /\ o.intent = TRUE /\ o.owned = TRUE
          /\ o.runs \in {runs[i], NoPort} \/ (o.runs = port[i] /\ Free(i, port[i]))
          /\ o.ok => o.runs = port[i]
      BY <1>3, <1>6, LaunchEffect
    <2> QED
      BY ONLY <2>1 DEF Effect, Found
  <1> QED
    BY <1>4, <1>5, <1>6

\* A stop succeeds or leaves the process; it fails by itself, or because the
\* process is foreign.
LEMMA StopEffect ==
    ASSUME TypeOK, NEW i \in Ids, NEW o \in StopGateway(i, FALSE)
    PROVE  /\ Effect(i, o) /\ Found(i, o) /\ o.port = port[i]
           /\ o.ok => o.runs = NoPort /\ ~o.intent
           /\ ~o.ok /\ o.due => Foreign(Manager(i))
  <1> DEFINE m == Manager(i)
             h == Held(m)
             s == [h EXCEPT !.intent = FALSE, !.says = {}]
             d == [s EXCEPT !.runs = NoPort]
  <1>1. /\ m \in Whole /\ m.ok = FALSE /\ m.due = FALSE
        /\ m.runs = runs[i] /\ m.port = port[i] /\ m.owned = owned[i]
    BY ManagerTyped DEF Failing
  <1>2. /\ h \in Whole /\ h.ok = FALSE /\ h.due = FALSE /\ h.runs = runs[i] /\ h.port = port[i]
        /\ h.owned = TRUE
    BY <1>1, PartTyped
  <1> HIDE DEF h
  <1>3. /\ s \in Whole /\ s.ok = FALSE /\ s.due = FALSE /\ s.runs = runs[i] /\ s.port = port[i]
        /\ s.intent = FALSE
    BY <1>2 DEF Whole, Report
  <1> HIDE DEF s
  <1>4. /\ d \in Whole /\ d.ok = FALSE /\ d.due = FALSE /\ d.runs = NoPort /\ d.port = port[i]
        /\ d.intent = FALSE
    BY <1>3 DEF Whole
  <1> HIDE DEF d
  <1>5. /\ Refused(s) \in Whole /\ Refused(s).ok = FALSE /\ Refused(s).runs = runs[i]
        /\ Refused(s).port = port[i] /\ Refused(s).intent = FALSE
        /\ Done(d) \in Whole /\ Done(d).ok = TRUE /\ Done(d).runs = NoPort
        /\ Done(d).port = port[i] /\ Done(d).intent = FALSE
    BY <1>3, <1>4, PartTyped
  <1>6. Foreign(s) <=> Foreign(m)
    BY <1>1, <1>3 DEF Foreign
  <1>7. \/ o = m \/ o = h
        \/ \E p \in Stops(s) : o = [p EXCEPT !.owned = ~p.ok]
    BY DEF StopGateway, NoLock, h, s
  <1>8. \A p \in Stops(s) : p = s \/ (Foreign(m) /\ p = Refused(s)) \/ p = Done(d)
    BY <1>6 DEF Stops, d
  <1> HIDE DEF m
  <1>9. CASE o = m \/ o = h
    BY ONLY <1>1, <1>2, <1>9 DEF Effect, Found
  <1>10. ASSUME NEW p \in Stops(s), o = [p EXCEPT !.owned = ~p.ok]
         PROVE  /\ Effect(i, o) /\ Found(i, o) /\ o.port = port[i]
                /\ o.ok => o.runs = NoPort /\ ~o.intent
                /\ ~o.ok /\ o.due => Foreign(m)
    <2>1. /\ p \in Whole /\ p.port = port[i] /\ p.intent = FALSE
          /\ p.runs = NoPort \/ (p.runs = runs[i] /\ p.ok = FALSE)
          /\ p.ok => p.runs = NoPort
          /\ ~p.ok /\ p.due => Foreign(m)
      BY ONLY <1>3, <1>5, <1>8, <1>10
    <2>2. /\ o \in Whole /\ o.port = port[i] /\ o.intent = FALSE /\ o.ok = p.ok /\ o.due = p.due
          /\ o.runs = p.runs /\ o.owned = ~p.ok
      BY ONLY <1>10, <2>1 DEF Whole
    <2>3. p.ok \in BOOLEAN
      BY ONLY <2>1 DEF Whole
    <2> QED
      BY ONLY <2>1, <2>2, <2>3 DEF Effect, Found
  <1> QED
    BY <1>7, <1>9, <1>10 DEF m

\* Leaving the process behind, and what is done with the session, neither start
\* nor stop it.
LEMMA SessionEffect ==
    ASSUME TypeOK, NEW i \in Ids, NEW n \in BOOLEAN, NEW o \in StopGateway(i, TRUE) \cup UseSession(i, n)
    PROVE  Effect(i, o) /\ o.port = port[i]
  <1> DEFINE m == Manager(i)
             h == Held(m)
             s == [h EXCEPT !.intent = FALSE, !.says = {}]
             k == [s EXCEPT !.says = {"detached"}, !.owned = FALSE]
  <1>1. /\ m \in Whole /\ m.runs = runs[i] /\ m.port = port[i] /\ m.says \in Report
    BY ManagerTyped DEF Failing, TypeOK
  <1>2. h \in Whole /\ h.runs = runs[i] /\ h.port = port[i]
    BY <1>1, PartTyped
  <1> HIDE DEF h
  <1>3. s \in Whole /\ s.runs = runs[i] /\ s.port = port[i]
    BY <1>2 DEF Whole, Report
  <1> HIDE DEF s
  <1>4. k \in Whole /\ k.runs = runs[i] /\ k.port = port[i]
    BY <1>3 DEF Whole, Report
  <1> HIDE DEF k
  <1>5. Done(k) \in Whole /\ Done(k).runs = runs[i] /\ Done(k).port = port[i]
    BY <1>4, PartTyped
  <1>6. CASE o \in StopGateway(i, TRUE)
    <2>1. o = m \/ o = h \/ o = Done(k)
      BY <1>6 DEF StopGateway, NoLock, h, s, k
    <2> HIDE DEF m
    <2> QED
      BY ONLY <1>1, <1>2, <1>5, <2>1 DEF Effect
  <1>7. CASE o \in UseSession(i, n)
    <2>1. \/ o = m \/ o = h
          \/ \E r \in Report : o = Done([h EXCEPT !.intent = n, !.says = r])
      <3> DEFINE seen == IF m.runs = m.port
                         THEN {m.says, m.says \cup {"running"}, {"running"}}
                         ELSE {m.says, m.says \ {"running"}}
      <3>1. \A r \in seen : r \in Report
        BY <1>1 DEF Report
      <3>3. o \in NoLock(m) \cup {h} \cup
                 {Done([h EXCEPT !.intent = n, !.says = r]) : r \in seen}
        BY <1>7 DEF UseSession, h
      <3>4. NoLock(m) \subseteq {m}
        BY DEF NoLock
      <3> HIDE DEF m, seen
      <3>2. \/ o = m \/ o = h
            \/ \E r \in seen : o = Done([h EXCEPT !.intent = n, !.says = r])
        BY ONLY <3>3, <3>4
      <3> QED
        BY <3>1, <3>2
    <2>2. ASSUME NEW r \in Report, o = Done([h EXCEPT !.intent = n, !.says = r])
          PROVE  o \in Whole /\ o.runs = runs[i] /\ o.port = port[i]
      <3> DEFINE u == [h EXCEPT !.intent = n, !.says = r]
      <3>1. u \in Whole /\ u.runs = runs[i] /\ u.port = port[i]
        BY <1>2 DEF Whole
      <3> HIDE DEF u
      <3>2. o = Done(u)
        BY <2>2 DEF u
      <3> QED
        BY <3>1, <3>2, PartTyped
    <2> HIDE DEF m
    <2>3. o \in Whole /\ o.runs = runs[i] /\ o.port = port[i]
      BY ONLY <1>1, <1>2, <2>1, <2>2
    <2> QED
      BY ONLY <2>3 DEF Effect
  <1> QED
    BY <1>6, <1>7


\* A change of the port that succeeds has the process on it, if that is the
\* intent, and none otherwise; the intent stays.
LEMMA ReconfigureEffect ==
    ASSUME TypeOK, NEW i \in Ids, NEW p \in Ports, NEW o \in Reconfigure(i, p)
    PROVE  /\ Effect(i, o) /\ Found(i, o) /\ o.intent = intent[i]
           /\ o.ok => o.port = p /\ o.runs = IF intent[i] THEN p ELSE NoPort
  <1> DEFINE m == Manager(i)
             h == Held(m)
             s == [h EXCEPT !.runs = NoPort, !.port = p, !.says = h.says \ {"running"}]
             u == [s EXCEPT !.owned = FALSE]
             f == Faded(s)
  <1>1. /\ m \in Whole /\ m.ok = FALSE /\ m.due = FALSE /\ m.intent = intent[i]
        /\ m.runs = runs[i] /\ m.port = port[i] /\ m.owned = owned[i]
    BY ManagerTyped DEF Failing
  <1>2. /\ h \in Whole /\ h.ok = FALSE /\ h.due = FALSE /\ h.runs = runs[i] /\ h.port = port[i]
        /\ h.owned = TRUE /\ h.intent = intent[i]
    BY <1>1, PartTyped
  <1> HIDE DEF h
  <1>11. /\ Faded(h) \in Whole /\ Faded(h).ok = FALSE /\ Faded(h).runs = runs[i]
         /\ Faded(h).port = port[i] /\ Faded(h).owned = TRUE /\ Faded(h).intent = intent[i]
    BY <1>2, PartTyped
  <1>12. /\ Refused(Faded(h)) \in Whole /\ Refused(Faded(h)).ok = FALSE
         /\ Refused(Faded(h)).runs = runs[i] /\ Refused(Faded(h)).port = port[i]
         /\ Refused(Faded(h)).owned = TRUE /\ Refused(Faded(h)).intent = intent[i]
    BY <1>11, PartTyped
  <1>4. /\ s \in Whole /\ s.ok = FALSE /\ s.due = FALSE /\ s.runs = NoPort /\ s.port = p
        /\ s.intent = intent[i] /\ s.owned = TRUE
    BY <1>2 DEF Whole, Report
  <1> HIDE DEF s
  <1>5. /\ u \in Whole /\ u.ok = FALSE /\ u.runs = NoPort /\ u.port = p /\ u.intent = intent[i]
    BY <1>4 DEF Whole
  <1> HIDE DEF u
  <1>6. /\ Failing(f) /\ f.runs = NoPort /\ f.port = p /\ f.intent = intent[i] /\ f.owned = TRUE
        /\ Done(f) \in Whole /\ Done(f).runs = NoPort /\ Done(f).port = p
        /\ Done(f).intent = intent[i]
    BY <1>4, PartTyped DEF Failing
  <1> HIDE DEF f
  <1>7. \/ o = m \/ o = Faded(h) \/ o = Refused(Faded(h)) \/ o = s \/ o = u
        \/ intent[i] /\ o \in Launches(i, f)
        \/ ~intent[i] /\ o = Done(f)
    <2>1. NoLock(m) \subseteq {m}
      BY DEF NoLock
    <2>2. o \in NoLock(m) \cup
             (IF Foreign(m) THEN {Refused(Faded(h))}
              ELSE {Faded(h), s, u} \cup
                   (IF m.intent THEN Launches(i, f) ELSE {Done(f)}))
      BY DEF Reconfigure, f, u, s, h
    <2> HIDE DEF m
    <2> QED
      BY ONLY <1>1, <2>1, <2>2
  <1> HIDE DEF m
  <1>8. CASE o = m \/ o = Faded(h) \/ o = Refused(Faded(h)) \/ o = s \/ o = u
    BY ONLY <1>1, <1>11, <1>12, <1>4, <1>5, <1>8 DEF Effect, Found
  <1>9. CASE intent[i] /\ o \in Launches(i, f)
    <2>2. /\ o \in Whole /\ o.port = f.port /\ o.intent = f.intent /\ o.owned = f.owned
          /\ o.runs \in {f.runs, NoPort} \/ (o.runs = f.port /\ Free(i, f.port))
          /\ o.ok => o.runs = f.port
      BY <1>6, <1>9, LaunchEffect
    <2>1. /\ o \in Whole /\ o.port = p /\ o.intent = intent[i] /\ o.owned = TRUE
          /\ o.runs = NoPort \/ (o.runs = p /\ Free(i, p))
          /\ o.ok => o.runs = p
      BY ONLY <1>6, <2>2
    <2> QED
      BY ONLY <1>9, <2>1 DEF Effect, Found
  <1>10. CASE ~intent[i] /\ o = Done(f)
    BY ONLY <1>6, <1>10 DEF Effect, Found
  <1> QED
    BY <1>7, <1>8, <1>9, <1>10

\* What a restore finds of the process once it has stopped its own.
Left(i) == IF owned[i] THEN NoPort ELSE runs[i]

\* A restored instance has the port and the intent that it had, and a process
\* if there was said to be one; the restore fails by itself, or because the
\* process is foreign, or because another instance has the port.
LEMMA RestoreEffect ==
    ASSUME TypeOK, NEW i \in Ids, NEW old \in Entry, NEW o \in RestoreConfiguration(i, old)
    PROVE  /\ Effect(i, o)
           /\ \/ o.runs \in {NoPort, o.port}
              \/ o.runs = runs[i] /\ o.port = port[i]
              \/ ~owned[i] /\ o.runs = runs[i] /\ o.port = old.port
           /\ o.port \in {port[i], old.port}
           /\ o.ok => o.due
           /\ o.due => \/ owned[i] /\ Foreign(Manager(i)) /\ o.port = port[i]
                       \/ /\ o.port = old.port /\ o.intent = old.intent
                          /\ old.says = {} => o.runs = Left(i)
                          /\ old.says # {} => \/ o.runs = old.port
                                              \/ /\ o.runs = Left(i)
                                                 /\ \/ Left(i) \notin {NoPort, old.port}
                                                    \/ ~Free(i, old.port)
  <1> DEFINE m == Manager(i)
             s == [m EXCEPT !.runs = IF m.owned THEN NoPort ELSE m.runs, !.port = old.port,
                            !.says = IF m.owned THEN m.says \ {"running"} ELSE m.says]
             h == Held(s)
             u == [s EXCEPT !.owned = FALSE]
             r == [h EXCEPT !.intent = old.intent]
             f == Faded(r)
             g == [f EXCEPT !.owned = FALSE]
             D(x) == [x EXCEPT !.says = {"detached"}, !.owned = FALSE]
  <1>1. /\ m \in Whole /\ m.ok = FALSE /\ m.due = FALSE
        /\ m.runs = runs[i] /\ m.port = port[i] /\ m.owned = owned[i]
    BY ManagerTyped DEF Failing
  <1>2. old.port \in Ports \cup {NoPort} /\ old.intent \in BOOLEAN /\ owned[i] \in BOOLEAN
    BY DEF Entry, TypeOK
  <1> HIDE DEF m
  <1>17. /\ Refused(m) \in Whole /\ Refused(m).ok = FALSE /\ Refused(m).due = TRUE
         /\ Refused(m).runs = runs[i] /\ Refused(m).port = port[i]
    BY <1>1, PartTyped
  <1>3. /\ s \in Whole /\ s.ok = FALSE /\ s.due = FALSE /\ s.runs = Left(i) /\ s.port = old.port
        /\ s.owned = owned[i]
    <2>1. (IF m.owned THEN m.says \ {"running"} ELSE m.says) \in Report
      BY <1>1 DEF Whole, Report
    <2>2. (IF m.owned THEN NoPort ELSE m.runs) \in Ports \cup {NoPort}
      BY <1>1 DEF Whole
    <2> QED
      BY <1>1, <1>2, <2>1, <2>2 DEF Whole, Left
  <1> HIDE DEF s
  <1>4. /\ h \in Whole /\ h.ok = FALSE /\ h.due = FALSE /\ h.runs = Left(i) /\ h.port = old.port
        /\ h.owned = TRUE
    BY <1>3, PartTyped
  <1> HIDE DEF h
  <1>5. /\ u \in Whole /\ u.ok = FALSE /\ u.due = FALSE /\ u.runs = Left(i) /\ u.port = old.port
    BY <1>3 DEF Whole
  <1> HIDE DEF u
  <1>6. /\ Failing(r) /\ r.runs = Left(i) /\ r.port = old.port /\ r.intent = old.intent
        /\ r.owned = TRUE
    BY <1>2, <1>4 DEF Whole, Failing
  <1> HIDE DEF r
  <1>7. f \in Whole /\ f.runs = Left(i) /\ f.port = old.port /\ f.intent = old.intent
    BY <1>6, PartTyped DEF Failing
  <1> HIDE DEF f
  <1>8. g \in Whole /\ g.runs = Left(i) /\ g.port = old.port /\ g.intent = old.intent
    BY <1>7 DEF Whole
  <1> HIDE DEF g
  <1>9. /\ Done(g) \in Whole /\ Done(g).ok = TRUE /\ Done(g).due = TRUE /\ Done(g).runs = Left(i)
        /\ Done(g).port = old.port /\ Done(g).intent = old.intent
    BY <1>8, PartTyped
  <1>10. \/ owned[i] /\ Foreign(m) /\ o = Refused(m)
         \/ owned[i] /\ o = m
         \/ o = u \/ o = h
         \/ old.says = {} /\ o = Done(g)
         \/ old.says # {} /\ \E x \in Launches(i, r) : o = x \/ (x.ok /\ o = D(x))
    <2>1. o \in IF m.owned /\ Foreign(m) THEN {Refused(m)}
                ELSE (IF m.owned THEN {m} ELSE {}) \cup {u, h} \cup
                     (IF old.says = {} THEN {Done(g)}
                      ELSE {IF x.ok /\ "detached" \in old.says THEN D(x) ELSE x
                            : x \in Launches(i, r)})
      BY DEF RestoreConfiguration, g, f, r, u, h, s, m
    <2> HIDE DEF D
    <2> QED
      BY ONLY <1>1, <2>1
  <1>11. Left(i) \in {NoPort, runs[i]} /\ (owned[i] => Left(i) = NoPort)
    BY DEF Left
  <1>12. CASE owned[i] /\ Foreign(m) /\ o = Refused(m)
    BY ONLY <1>1, <1>17, <1>12 DEF Effect, m
  <1>13. CASE (owned[i] /\ o = m) \/ o = u \/ o = h
    BY ONLY <1>1, <1>2, <1>4, <1>5, <1>11, <1>13 DEF Effect
  <1>14. CASE old.says = {} /\ o = Done(g)
    BY ONLY <1>2, <1>9, <1>11, <1>14 DEF Effect
  <1>15. ASSUME old.says # {}, NEW x \in Launches(i, r), o = x \/ (x.ok /\ o = D(x))
         PROVE  /\ o \in Whole /\ o.port = old.port /\ o.intent = old.intent
                /\ o.runs \in {Left(i), NoPort} \/ (o.runs = old.port /\ Free(i, old.port))
                /\ o.ok => o.due /\ o.runs = old.port
                /\ ~o.ok /\ o.due => /\ Left(i) \notin {NoPort, old.port} \/ ~Free(i, old.port)
                                     /\ o.runs = Left(i)
    <2>1. /\ x \in Whole /\ x.port = old.port /\ x.intent = old.intent
          /\ x.runs \in {Left(i), NoPort} \/ (x.runs = old.port /\ Free(i, old.port))
          /\ x.ok => x.due /\ x.runs = old.port
          /\ ~x.ok /\ x.due => (Foreign(r) \/ ~Free(i, old.port)) /\ x.runs = Left(i)
      BY <1>6, LaunchEffect
    <2>2. Foreign(r) => Left(i) \notin {NoPort, old.port}
      BY ONLY <1>6 DEF Foreign
    <2>3. /\ D(x) \in Whole /\ D(x).port = x.port /\ D(x).intent = x.intent /\ D(x).runs = x.runs
          /\ D(x).ok = x.ok /\ D(x).due = x.due
      BY ONLY <2>1 DEF Whole, Report
    <2> HIDE DEF D
    <2> QED
      BY ONLY <1>15, <2>1, <2>2, <2>3
  <1>16. CASE old.says # {} /\ \E x \in Launches(i, r) : o = x \/ (x.ok /\ o = D(x))
    <2>1. /\ o \in Whole /\ o.port = old.port /\ o.intent = old.intent
          /\ o.runs \in {Left(i), NoPort} \/ (o.runs = old.port /\ Free(i, old.port))
          /\ o.ok => o.due /\ o.runs = old.port
          /\ ~o.ok /\ o.due => /\ Left(i) \notin {NoPort, old.port} \/ ~Free(i, old.port)
                               /\ o.runs = Left(i)
      <3> HIDE DEF D
      <3> QED
        BY <1>15, <1>16
    <2>2. o.ok \in BOOLEAN
      BY ONLY <2>1 DEF Whole
    <2> QED
      BY ONLY <1>2, <1>11, <1>16, <2>1, <2>2 DEF Effect
  <1> HIDE DEF D
  <1> QED
    BY <1>10, <1>12, <1>13, <1>14, <1>16

\* An automatic start is a start, or nothing where none is intended.
LEMMA AutoStartEffect ==
    ASSUME TypeOK, NEW i \in Ids, NEW o \in AutoStartGateway(i)
    PROVE  Effect(i, o) /\ o.port = port[i]
  <1> DEFINE m == Manager(i)
             h == Held(m)
  <1>1. /\ m \in Whole /\ m.ok = FALSE /\ m.due = FALSE /\ m.runs = runs[i] /\ m.port = port[i]
    BY ManagerTyped DEF Failing
  <1>2. /\ Failing(h) /\ h.runs = runs[i] /\ h.port = port[i]
        /\ Faded(m) \in Whole /\ Faded(m).runs = runs[i] /\ Faded(m).port = port[i]
        /\ Done(m) \in Whole /\ Done(m).runs = runs[i] /\ Done(m).port = port[i]
    BY <1>1, PartTyped DEF Failing
  <1>3. o = m \/ o = Faded(m) \/ o = Done(m) \/ o \in Launches(i, h)
    BY DEF AutoStartGateway, NoLock
  <1> HIDE DEF m, h
  <1>4. CASE o = m \/ o = Faded(m) \/ o = Done(m)
    BY ONLY <1>1, <1>2, <1>4 DEF Effect
  <1>5. CASE o \in Launches(i, h)
    <2>1. /\ o \in Whole /\ o.port = port[i]
          /\ o.runs \in {runs[i], NoPort} \/ (o.runs = port[i] /\ Free(i, port[i]))
      BY <1>2, <1>5, LaunchEffect
    <2> QED
      BY ONLY <2>1 DEF Effect
  <1> QED
    BY <1>3, <1>4, <1>5


\* What an operation that took effect changed.
LEMMA BecomesFields ==
    ASSUME TypeOK, NEW i \in Ids, NEW o, Effect(i, o), Becomes(i, o)
    PROVE  /\ runs' \in [Ids -> Ports \cup {NoPort}] /\ port' \in [Ids -> Ports \cup {NoPort}]
           /\ intent' \in [Ids -> BOOLEAN] /\ faults' \in 0..MaxFaults /\ registry' = registry
           /\ says' \in [Ids -> Report] /\ owned' \in [Ids -> BOOLEAN]
           /\ runs'[i] = o.runs /\ port'[i] = o.port /\ intent'[i] = o.intent /\ owned'[i] = o.owned
           /\ \A j \in Ids \ {i} : /\ runs'[j] = runs[j] /\ port'[j] = port[j]
                                   /\ intent'[j] = intent[j] /\ says'[j] = says[j]
                                   /\ owned'[j] = owned[j]
           /\ \A j, k \in Ids : j # k => runs'[j] = NoPort \/ runs'[j] # runs'[k]
  <1>1. o \in Whole
    BY DEF Effect
  <1>2. /\ runs' \in [Ids -> Ports \cup {NoPort}] /\ port' \in [Ids -> Ports \cup {NoPort}]
        /\ intent' \in [Ids -> BOOLEAN] /\ registry' = registry
        /\ runs'[i] = o.runs /\ port'[i] = o.port /\ intent'[i] = o.intent
        /\ \A j \in Ids \ {i} : runs'[j] = runs[j] /\ port'[j] = port[j] /\ intent'[j] = intent[j]
    BY <1>1 DEF TypeOK, Becomes, Whole
  <1>3. /\ says' \in [Ids -> Report] /\ owned' \in [Ids -> BOOLEAN] /\ owned'[i] = o.owned
        /\ \A j \in Ids \ {i} : says'[j] = says[j] /\ owned'[j] = owned[j]
    BY <1>1 DEF TypeOK, Becomes, Whole
  <1>4. faults' \in 0..MaxFaults
    BY NamesAssumption DEF TypeOK, Becomes, Fault
  <1>5. \A j \in Ids \ {i} : runs'[i] = NoPort \/ runs'[i] # runs[j]
    <2>1. \A j \in Ids : j # i => runs[i] = NoPort \/ runs[i] # runs[j]
      BY DEF TypeOK
    <2>2. o.runs \in {NoPort, runs[i]} \/ \A j \in Ids \ {i} : runs[j] # o.runs
      BY DEF Effect, Free
    <2> QED
      BY ONLY <1>2, <2>1, <2>2
  <1>6. \A j, k \in Ids : j # k => runs'[j] = NoPort \/ runs'[j] # runs'[k]
    <2>1. \A j, k \in Ids : j # k => runs[j] = NoPort \/ runs[j] # runs[k]
      BY DEF TypeOK
    <2> QED
      BY ONLY <1>2, <1>5, <2>1
  <1> QED
    BY <1>2, <1>3, <1>4, <1>6

-----------------------------------------------------------------------------
(* Types.                                                                  *)

\* The names, the settings and the sockets of a configuration, of which no two
\* are alike: Config.Validate and GatewayNames.
LEMMA ConfigTyped ==
    ASSUME NEW c \in Configs
    PROVE  /\ c.gateways \in [Ids -> Instance \cup {Absent}] /\ Names(c) \subseteq Ids
           /\ \A i \in Ids : i \in Names(c) <=> c.gateways[i] # Absent
           /\ \A i \in Names(c) : /\ c.gateways[i].port \in Ports /\ c.gateways[i].auto \in BOOLEAN
                                  /\ c.gateways[i].addr \in Address
           /\ Sockets(c) \subseteq Socket
           /\ \A i, j \in Names(c) : i # j => c.gateways[i].port # c.gateways[j].port
           /\ \A s, t \in Sockets(c) : s[2][1] = t[2][1] => s = t
  <1>1. /\ c.gateways \in [Ids -> Instance \cup {Absent}] /\ c.shared \in Address /\ c.cert \in Certs
        /\ Valid(c)
    BY NamesAssumption DEF Config
  <1>2. \A i \in Names(c) : i \in Ids /\ c.gateways[i] \in Instance
    BY <1>1 DEF Names
  <1>3. \A i \in Names(c) : /\ c.gateways[i].port \in Ports /\ c.gateways[i].auto \in BOOLEAN
                            /\ c.gateways[i].addr \in Address
    BY <1>2 DEF Instance
  <1>4. \A s \in Sockets(c) :
           \/ c.shared # NoAddr /\ s = <<Shared, c.shared, c.cert>>
           \/ \E i \in Names(c) : c.gateways[i].addr # NoAddr /\ s = <<i, c.gateways[i].addr, c.cert>>
    BY DEF Sockets
  <1>5. \A s \in Sockets(c) : s \in Socket
    <2> TAKE s \in Sockets(c)
    <2>1. CASE c.shared # NoAddr /\ s = <<Shared, c.shared, c.cert>>
      BY <1>1, <2>1 DEF Socket, Address
    <2>2. ASSUME NEW i \in Names(c), c.gateways[i].addr # NoAddr, s = <<i, c.gateways[i].addr, c.cert>>
          PROVE  s \in Socket
      BY <1>1, <1>2, <1>3, <2>2 DEF Socket, Address
    <2> QED
      BY <1>4, <2>1, <2>2
  <1>6. \A i, j \in Names(c) : i # j => c.gateways[i].port # c.gateways[j].port
    BY <1>1 DEF Valid
  <1>7. \A i, j \in Names(c) : i # j => \/ c.gateways[i].addr = NoAddr \/ c.gateways[j].addr = NoAddr
                                        \/ c.gateways[i].addr[1] # c.gateways[j].addr[1]
    BY <1>1 DEF Valid
  <1>8. c.shared # NoAddr => \A i \in Names(c) : c.gateways[i].addr = NoAddr
    BY <1>1 DEF Valid
  <1>9. \A s, t \in Sockets(c) : s[2][1] = t[2][1] => s = t
    <2> SUFFICES ASSUME NEW s \in Sockets(c), NEW t \in Sockets(c), s[2][1] = t[2][1] PROVE s = t
      OBVIOUS
    <2>1. CASE c.shared # NoAddr
      BY ONLY <1>4, <1>8, <2>1
    <2>2. CASE c.shared = NoAddr
      <3>1. PICK i \in Names(c) : c.gateways[i].addr # NoAddr /\ s = <<i, c.gateways[i].addr, c.cert>>
        BY ONLY <1>4, <2>2
      <3>2. PICK j \in Names(c) : c.gateways[j].addr # NoAddr /\ t = <<j, c.gateways[j].addr, c.cert>>
        BY ONLY <1>4, <2>2
      <3>3. c.gateways[i].addr[1] = c.gateways[j].addr[1]
        BY <3>1, <3>2
      <3>4. i = j
        BY ONLY <1>7, <3>1, <3>2, <3>3
      <3> QED
        BY <3>1, <3>2, <3>4
    <2> QED
      BY <2>1, <2>2
  <1> QED
    BY <1>1, <1>2, <1>3, <1>5, <1>6, <1>9 DEF Names

\* A listener that is wanted does for itself.
LEMMA ServesItself == \A w \in Socket : Serves(w, w)
  BY DEF Serves

\* The sockets of a configuration are listeners of it, with which a service
\* starts.
LEMMA SocketsCarry ==
    ASSUME NEW c \in Configs
    PROVE  Carries(Sockets(c), c)
  BY ConfigTyped, ServesItself DEF Carries

\* A noted entry is one of what the undo takes.
LEMMA EntryTyped ==
    ASSUME TypeOK, NEW i \in Ids
    PROVE  /\ Before(i) \in Entry /\ [Before(i) EXCEPT !.kind = "stop"] \in Entry
           /\ LET e == Before(i) IN /\ e.id = i /\ e.kind = "restore" /\ e.says = says[i]
                                    /\ e.port = port[i] /\ e.intent = intent[i]
           /\ LET e == [Before(i) EXCEPT !.kind = "stop"] IN
              /\ e.id = i /\ e.kind = "stop" /\ e.says = says[i] /\ e.port = port[i]
              /\ e.intent = intent[i]
  <1>1. /\ says[i] \in Report /\ port[i] \in Ports \cup {NoPort} /\ intent[i] \in BOOLEAN
    BY DEF TypeOK
  <1> QED
    BY <1>1 DEF Before, Entry

\* The last entry, and the others.
LEMMA UndoNextTyped ==
    ASSUME TypeOK, undo # <<>>
    PROVE  /\ Len(undo) \in Nat \ {0} /\ DOMAIN undo = 1..Len(undo)
           /\ UndoNext[1] = undo[Len(undo)] /\ UndoNext[1] \in Entry /\ UndoNext[1].id \in Ids
           /\ UndoNext[2] \in Seq(Entry) /\ DOMAIN UndoNext[2] = 1..(Len(undo) - 1)
           /\ \A k \in 1..(Len(undo) - 1) : UndoNext[2][k] = undo[k]
  <1>1. undo \in Seq(Entry)
    BY DEF TypeOK
  <1>2. Len(undo) \in Nat \ {0} /\ DOMAIN undo = 1..Len(undo)
    BY <1>1, EmptySeq, LenProperties
  <1>3. \A k \in 1..Len(undo) : undo[k] \in Entry
    BY <1>1, <1>2, ElementOfSeq
  <1>4. /\ SubSeq(undo, 1, Len(undo) - 1) \in Seq(Entry)
        /\ Len(SubSeq(undo, 1, Len(undo) - 1)) = Len(undo) - 1
        /\ \A k \in 1..(Len(undo) - 1) : SubSeq(undo, 1, Len(undo) - 1)[k] = undo[k]
    BY <1>2, <1>3, SubSeqProperties
  <1>5. DOMAIN SubSeq(undo, 1, Len(undo) - 1) = 1..(Len(undo) - 1)
    BY <1>4, LenProperties
  <1>6. undo[Len(undo)] \in Entry /\ undo[Len(undo)].id \in Ids
    BY <1>2, <1>3 DEF Entry
  <1>7. UndoNext[1] = undo[Len(undo)] /\ UndoNext[2] = SubSeq(undo, 1, Len(undo) - 1)
    BY DEF UndoNext
  <1> QED
    BY <1>2, <1>4, <1>5, <1>6, <1>7

\* What an attempt leaves: the outcome, and its entry on the stack.
LEMMA AttemptTyped ==
    ASSUME TypeOK, NEW i \in Ids, NEW outcomes, NEW e \in Entry, Attempt(i, outcomes, e),
           \A o \in outcomes : Effect(i, o)
    PROVE  /\ undo' = Append(undo, e) /\ undo' \in Seq(Entry)
           /\ \E o \in outcomes : /\ Effect(i, o) /\ Becomes(i, o)
                                  /\ o.ok => pc' = pc /\ todo' = todo \ {i}
                                  /\ ~o.ok => pc' = "rollback" /\ todo' = todo
  <1>1. PICK o \in outcomes : /\ Becomes(i, o) /\ undo' = Append(undo, e)
                              /\ IF o.ok THEN pc' = pc /\ todo' = todo \ {i}
                                         ELSE pc' = "rollback" /\ todo' = todo
    BY DEF Attempt
  <1>2. undo' \in Seq(Entry)
    BY <1>1, AppendProperties DEF TypeOK
  <1> QED
    BY <1>1, <1>2

\* Which attempt a step of applyConfig is, and what it can come to: applyConfig
\* notes the undo before it calls the manager.
LEMMA ChangeIsAttempt ==
    ASSUME TypeOK, NEW i \in Ids, Change(i)
    PROVE  LET old == Now.gateways[i] new == target.gateways[i] IN
           \/ /\ Skip(i)
              /\ ~(old # Absent /\ old.port # new.port)
              /\ ~(new.auto /\ (old = Absent \/ ~old.auto))
           \/ /\ old = Absent /\ new.auto
              /\ Attempt(i, StartGateway(i), [Before(i) EXCEPT !.kind = "stop"])
           \/ /\ old # Absent /\ old.port # new.port
              /\ Attempt(i, Reconfigure(i, new.port), Before(i))
           \/ /\ old # Absent /\ old.port = new.port /\ ~old.auto /\ new.auto
              /\ Attempt(i, StartGateway(i), Before(i))
  BY DEF Change

\* The initial states are of the types.
LEMMA TypedInitially == Init => TypeOK
  <1> SUFFICES ASSUME Init PROVE TypeOK
    OBVIOUS
  <1>1. PICK c \in Configs, t \in Tokens :
        /\ file = [config |-> c, token |-> t] /\ memory = file
        /\ registry = Names(c)
        /\ port = [i \in Ids |-> IF i \in Names(c) THEN c.gateways[i].port ELSE NoPort]
        /\ intent \in [Ids -> BOOLEAN] /\ runs = [i \in Ids |-> NoPort]
        /\ says = [i \in Ids |-> {}] /\ owned = [i \in Ids |-> FALSE]
        /\ listeners = Sockets(c) /\ open = Sockets(c)
        /\ boots = {i \in Names(c) : c.gateways[i].auto} /\ closing = FALSE
        /\ pc = "idle" /\ target = c /\ todo = {} /\ started = {}
        /\ undo = <<>> /\ before = NoState
        /\ broken = FALSE /\ faults = 0 /\ crashes = 0
    BY DEF Init
  <1>2. c \in Configs
    OBVIOUS
  <1>3. /\ Names(c) \subseteq Ids /\ Sockets(c) \subseteq Socket
        /\ \A i \in Names(c) : c.gateways[i].port \in Ports
    BY <1>2, ConfigTyped
  <1>4. undo \in Seq(Entry)
    BY <1>1, EmptySeq
  <1>5. file \in Stored /\ memory \in Stored
    BY <1>1, <1>2 DEF Stored
  <1>6. /\ port \in [Ids -> Ports \cup {NoPort}] /\ runs \in [Ids -> Ports \cup {NoPort}]
        /\ says \in [Ids -> Report] /\ owned \in [Ids -> BOOLEAN]
    BY <1>1, <1>3 DEF Report
  <1>7. \A i, j \in Ids : i # j => runs[i] = NoPort \/ runs[i] # runs[j]
    BY <1>1
  <1>8. /\ registry \subseteq Ids /\ intent \in [Ids -> BOOLEAN] /\ listeners \subseteq Socket
        /\ open \subseteq Socket /\ boots \subseteq Ids /\ closing = FALSE /\ pc = "idle"
        /\ target \in Configs /\ todo = {} /\ started = {} /\ broken = FALSE /\ faults = 0 /\ crashes = 0
    BY <1>1, <1>2, <1>3
  <1>9. MaxFaults \in Nat /\ MaxCrashes \in Nat
    BY NamesAssumption
  <1>10. faults \in 0..MaxFaults /\ crashes \in 0..MaxCrashes /\ todo \subseteq Ids
         /\ started \subseteq Socket
    BY ONLY <1>8, <1>9
  <1>11. closing \in BOOLEAN /\ broken \in BOOLEAN
    BY ONLY <1>8, Zenon
  <1> QED
    BY ONLY <1>4, <1>5, <1>6, <1>7, <1>8, <1>10, <1>11 DEF TypeOK

\* A service that starts has what the file says: Serve, service.New and Run.
LEMMA ServeTyped ==
    ASSUME TypeOK, Serve
    PROVE  /\ memory' \in Stored /\ registry' \subseteq Ids /\ port' \in [Ids -> Ports \cup {NoPort}]
           /\ listeners' \subseteq Socket /\ open' \subseteq Socket /\ boots' \subseteq Ids
           /\ target' \in Configs /\ undo' \in Seq(Entry)
           /\ memory' = file /\ registry' = Names(file.config)
           /\ \A i \in registry' : port'[i] = file.config.gateways[i].port
           /\ says' \in [Ids -> Report] /\ owned' \in [Ids -> BOOLEAN]
           /\ Carries(listeners', file.config) /\ open' = listeners'
  <1>1. file.config \in Configs
    BY DEF TypeOK, Stored
  <1>2. /\ Names(file.config) \subseteq Ids /\ Sockets(file.config) \subseteq Socket
        /\ \A i \in Names(file.config) : file.config.gateways[i].port \in Ports
    BY <1>1, ConfigTyped
  <1>3. undo' \in Seq(Entry)
    BY EmptySeq DEF Serve
  <1>4. says' \in [Ids -> Report] /\ owned' \in [Ids -> BOOLEAN]
    BY DEF Serve, Report
  <1>5. Carries(listeners', file.config) /\ open' = listeners'
    BY <1>1, SocketsCarry DEF Serve
  <1> QED
    BY <1>1, <1>2, <1>3, <1>4, <1>5 DEF Serve, TypeOK

\* The types are kept; an instance that applyConfig changes is one of the new
\* configuration.
LEMMA Typed ==
    ASSUME TypeOK, pc = "change" => todo \subseteq Names(target), [Next]_vars
    PROVE  TypeOK'
  <1> USE NamesAssumption DEF stores, procs, socks, work, bounds
  <1>a. ASSUME NEW i \in Ids, NEW outcomes, NEW e \in Entry, Attempt(i, outcomes, e),
               \A o \in outcomes : Effect(i, o), pc \in {"change", "remove"},
               UNCHANGED <<stores, socks, boots, closing, target, started, before, broken, crashes>>
        PROVE  TypeOK'
    <2>1. undo' \in Seq(Entry)
      BY <1>a, AttemptTyped
    <2>2. PICK o \in outcomes : /\ Effect(i, o) /\ Becomes(i, o)
                                /\ o.ok => pc' = pc /\ todo' = todo \ {i}
                                /\ ~o.ok => pc' = "rollback" /\ todo' = todo
      BY <1>a, AttemptTyped
    <2>3. /\ runs' \in [Ids -> Ports \cup {NoPort}] /\ port' \in [Ids -> Ports \cup {NoPort}]
          /\ intent' \in [Ids -> BOOLEAN] /\ faults' \in 0..MaxFaults /\ registry' = registry
          /\ says' \in [Ids -> Report] /\ owned' \in [Ids -> BOOLEAN]
          /\ \A j, k \in Ids : j # k => runs'[j] = NoPort \/ runs'[j] # runs'[k]
      BY <1>a, <2>2, BecomesFields
    <2>4. o.ok \in BOOLEAN
      BY <2>2 DEF Effect, Whole
    <2> QED
      BY <1>a, <2>1, <2>2, <2>3, <2>4 DEF TypeOK
  <1>b. ASSUME NEW i \in Ids, NEW o, Effect(i, o), Becomes(i, o), boots' \subseteq boots,
               UNCHANGED <<stores, socks, closing, work, broken, crashes>>
        PROVE  TypeOK'
    <2>1. /\ runs' \in [Ids -> Ports \cup {NoPort}] /\ port' \in [Ids -> Ports \cup {NoPort}]
          /\ intent' \in [Ids -> BOOLEAN] /\ faults' \in 0..MaxFaults /\ registry' = registry
          /\ says' \in [Ids -> Report] /\ owned' \in [Ids -> BOOLEAN]
          /\ \A j, k \in Ids : j # k => runs'[j] = NoPort \/ runs'[j] # runs'[k]
      BY <1>b, BecomesFields
    <2> QED
      BY <1>b, <2>1 DEF TypeOK
  <1>1. ASSUME NEW c \in Configs, Apply(c) PROVE TypeOK'
    BY <1>1, EmptySeq DEF Apply, TypeOK
  <1>2. ASSUME NEW t \in Tokens, Rotate(t) PROVE TypeOK'
    <2>1. file \in Stored /\ memory \in Stored
      BY DEF TypeOK
    <2>2. [memory EXCEPT !.token = t] \in Stored
      BY <2>1 DEF Stored
    <2>3. file' \in Stored /\ memory' \in Stored
      BY <1>2, <2>1, <2>2 DEF Rotate
    <2>4. faults' \in 0..MaxFaults
      BY <1>2 DEF Rotate, Fault, TypeOK
    <2> QED
      BY <1>2, <2>3, <2>4 DEF Rotate, TypeOK
  <1>3. ASSUME NEW i \in Ids, Change(i) PROVE TypeOK'
    <2>1. /\ pc = "change" /\ i \in todo
          /\ UNCHANGED <<stores, socks, boots, closing, target, started, before, broken, crashes>>
      BY <1>3 DEF Change, Lowest
    <2>2. target \in Configs /\ i \in Names(target)
      BY <2>1 DEF TypeOK
    <2>3. target.gateways[i].port \in Ports
      BY <2>2, ConfigTyped
    <2>4. Before(i) \in Entry /\ [Before(i) EXCEPT !.kind = "stop"] \in Entry
      BY EntryTyped
    <2>5. \A o \in StartGateway(i) : Effect(i, o)
      BY StartEffect
    <2>6. \A o \in Reconfigure(i, target.gateways[i].port) : Effect(i, o)
      BY <2>3, ReconfigureEffect
    <2>7. CASE Skip(i)
      BY <2>1, <2>7 DEF Skip, TypeOK
    <2>8. CASE Attempt(i, StartGateway(i), [Before(i) EXCEPT !.kind = "stop"])
      BY <1>a, <2>1, <2>4, <2>5, <2>8
    <2>9. CASE Attempt(i, Reconfigure(i, target.gateways[i].port), Before(i))
      BY <1>a, <2>1, <2>4, <2>6, <2>9
    <2>10. CASE Attempt(i, StartGateway(i), Before(i))
      BY <1>a, <2>1, <2>4, <2>5, <2>10
    <2> QED
      BY <1>3, <2>7, <2>8, <2>9, <2>10, ChangeIsAttempt
  <1>4. ASSUME NEW i \in Ids, Remove(i) PROVE TypeOK'
    <2>1. \A o \in StopGateway(i, FALSE) : Effect(i, o)
      BY StopEffect
    <2> QED
      BY <1>4, <1>a, <2>1, EntryTyped DEF Remove
  <1>5. ASSUME NEW i \in Ids, AutoStart(i) PROVE TypeOK'
    <2>1. CASE \E o \in AutoStartGateway(i) : Becomes(i, o)
      <3>1. PICK o \in AutoStartGateway(i) : Becomes(i, o)
        BY <2>1
      <3>2. Effect(i, o)
        BY AutoStartEffect
      <3>3. boots' \subseteq boots /\ UNCHANGED <<stores, socks, closing, work, broken, crashes>>
        BY <1>5 DEF AutoStart
      <3> QED
        BY <1>b, <3>1, <3>2, <3>3
    <2>2. CASE UNCHANGED <<procs, faults>>
      BY <1>5, <2>2 DEF AutoStart, TypeOK
    <2> QED
      BY <1>5, <2>1, <2>2 DEF AutoStart
  <1>6. ASSUME NEW i \in Ids, Operate(i) PROVE TypeOK'
    <2>0. PICK n \in BOOLEAN :
             \E o \in StartGateway(i) \cup StopGateway(i, FALSE) \cup StopGateway(i, TRUE)
                          \cup UseSession(i, n) : Becomes(i, o)
      BY <1>6 DEF Operate
    <2>1. PICK o \in StartGateway(i) \cup StopGateway(i, FALSE) \cup StopGateway(i, TRUE)
                        \cup UseSession(i, n) : Becomes(i, o)
      BY <2>0
    <2>2. Effect(i, o)
      BY StartEffect, StopEffect, SessionEffect
    <2>3. boots' = boots /\ UNCHANGED <<stores, socks, closing, work, broken, crashes>>
      BY <1>6 DEF Operate
    <2> QED
      BY <1>b, <2>1, <2>2, <2>3
  <1>7. CASE Listen
    <2>1. target \in Configs
      BY DEF TypeOK
    <2>2. /\ Names(target) \subseteq Ids /\ Sockets(target) \subseteq Socket
          /\ \A i \in Names(target) : target.gateways[i].port \in Ports
      BY <2>1, ConfigTyped
    <2>3. faults' \in 0..MaxFaults /\ pc' \in {"change", "rollback", "failed"}
      BY <1>7 DEF Listen, Fault, TypeOK
    <2>4. started' \subseteq Socket /\ open' \subseteq Socket /\ todo' \subseteq Ids
      BY <1>7, <2>2 DEF Listen, Missing, TypeOK
    <2>5. port' \in [Ids -> Ports \cup {NoPort}]
      <3>1. port \in [Ids -> Ports \cup {NoPort}]
        BY DEF TypeOK
      <3>2. \/ port' = [i \in Ids |-> IF i \in Names(target) \ registry THEN target.gateways[i].port
                                    ELSE port[i]]
            \/ port' = port
        BY <1>7 DEF Listen
      <3> QED
        BY ONLY <2>2, <3>1, <3>2
    <2>6. says' \in [Ids -> Report] /\ owned' \in [Ids -> BOOLEAN]
      <3>1. says \in [Ids -> Report] /\ owned \in [Ids -> BOOLEAN] /\ {} \in Report
        BY DEF TypeOK, Report
      <3>2. /\ says' = [i \in Ids |-> IF i \in registry THEN says[i] ELSE {}]
            /\ owned' = [i \in Ids |-> i \in registry /\ owned[i]]
        BY <1>7 DEF Listen
      <3> QED
        BY ONLY <3>1, <3>2
    <2> QED
      BY <1>7, <2>3, <2>4, <2>5, <2>6 DEF Listen, TypeOK
  <1>8. CASE Changed
    BY <1>8 DEF Changed, Removed, TypeOK
  <1>9. CASE Commit
    <2>1. file \in Stored /\ memory \in Stored /\ target \in Configs
      BY DEF TypeOK
    <2>2. [memory EXCEPT !.config = target] \in Stored
      BY ONLY <2>1 DEF Stored
    <2>3. file' \in Stored
      BY <1>9, <2>1, <2>2 DEF Commit
    <2>4. faults' \in 0..MaxFaults
      BY <1>9 DEF Commit, Fault, TypeOK
    <2> QED
      BY <1>9, <2>3, <2>4 DEF Commit, TypeOK
  <1>10. CASE Publish
    <2>1. memory' \in Stored
      BY <1>10 DEF Publish, TypeOK, Stored
    <2>2. registry' \subseteq Ids
      BY <1>10 DEF Publish, Names
    <2> QED
      BY <1>10, <2>1, <2>2 DEF Publish, TypeOK
  <1>11. CASE Reconcile
    <2>1. listeners' \subseteq Socket /\ open' \subseteq Socket
      BY <1>11 DEF Reconcile, Standing, TypeOK
    <2> QED
      BY <1>11, <2>1 DEF Reconcile, TypeOK
  <1>12. CASE Rollback
    BY <1>12 DEF Rollback, TypeOK
  <1>13. CASE Undo
    <2>1. undo # <<>> /\ undo' = UndoNext[2]
      BY <1>13 DEF Undo
    <2>2. UndoNext[1] \in Entry /\ UndoNext[1].id \in Ids /\ undo' \in Seq(Entry)
      BY <2>1, UndoNextTyped
    <2> DEFINE e == UndoNext[1]
               i == e.id
    <2>3. PICK o \in IF e.kind = "stop" THEN StopGateway(i, FALSE) ELSE RestoreConfiguration(i, e) :
              Becomes(i, o) /\ broken' = (broken \/ (~o.ok /\ ~o.due))
      BY <1>13 DEF Undo
    <2>4. Effect(i, o)
      BY <2>2, StopEffect, RestoreEffect
    <2>5. /\ runs' \in [Ids -> Ports \cup {NoPort}] /\ port' \in [Ids -> Ports \cup {NoPort}]
          /\ intent' \in [Ids -> BOOLEAN] /\ faults' \in 0..MaxFaults /\ registry' = registry
          /\ says' \in [Ids -> Report] /\ owned' \in [Ids -> BOOLEAN]
          /\ \A j, k \in Ids : j # k => runs'[j] = NoPort \/ runs'[j] # runs'[k]
      BY <2>2, <2>3, <2>4, BecomesFields
    <2>6. broken' \in BOOLEAN
      BY <2>3
    <2> QED
      BY <1>13, <2>2, <2>5, <2>6 DEF Undo, TypeOK
  <1>14. CASE Undone
    BY <1>14 DEF Undone, TypeOK
  <1>15. CASE Return
    <2>1. Now \in Configs
      BY DEF Now, TypeOK, Stored
    <2> QED
      BY <1>15, <2>1, EmptySeq DEF Return, TypeOK
  <1>16. CASE Shutdown
    BY <1>16 DEF Shutdown, TypeOK
  <1>17. CASE Restart \/ Crash
    <2>1. Serve /\ broken' = broken /\ faults' = faults /\ crashes' \in 0..MaxCrashes
      BY <1>17 DEF Restart, Crash, TypeOK
    <2>2. pc' = "idle" /\ closing' = FALSE /\ todo' = {} /\ started' = {} /\ UNCHANGED <<file, intent, runs>>
      BY <2>1 DEF Serve
    <2> QED
      BY <2>1, <2>2, ServeTyped DEF TypeOK
  <1>18. ASSUME NEW i \in Ids, JavaDies(i) PROVE TypeOK'
    <2>1. runs' = [runs EXCEPT ![i] = NoPort] /\ runs \in [Ids -> Ports \cup {NoPort}]
      BY <1>18 DEF JavaDies, TypeOK
    <2>2. /\ runs' \in [Ids -> Ports \cup {NoPort}]
          /\ \A j \in Ids : runs'[j] = NoPort \/ runs'[j] = runs[j]
      BY <2>1
    <2>3. \A j, k \in Ids : j # k => runs'[j] = NoPort \/ runs'[j] # runs'[k]
      BY <2>2 DEF TypeOK
    <2> QED
      BY <1>18, <2>2, <2>3 DEF JavaDies, TypeOK
  <1>19. CASE UNCHANGED vars
    BY <1>19 DEF vars, TypeOK
  <1> QED
    BY ONLY [Next]_vars, <1>1, <1>2, <1>3, <1>4, <1>5, <1>6, <1>7, <1>8, <1>9, <1>10, <1>11, <1>12,
       <1>13, <1>14, <1>15, <1>16, <1>17, <1>18, <1>19 DEF Next

-----------------------------------------------------------------------------
(* Between operations.                                                     *)

\* What it means that the configuration of the service itself is in force.
Serving ==
    /\ file = memory /\ registry = Names(Now)
    /\ \A i \in registry : broken \/ port[i] = Now.gateways[i].port
    /\ ~broken /\ crashes = 0 =>
          \A i \in Ids : runs[i] # NoPort => i \in registry /\ runs[i] = port[i]
    /\ ~closing => Carries(listeners, Now) /\ open = listeners

\* Between operations that is all there is to say: opMu is free.
LEMMA ServingIsShape ==
    /\ TransactionInvariant /\ pc = "idle" => Serving
    /\ pc' = "idle" /\ Serving' => TransactionInvariant'
  <1>1. TransactionInvariant /\ pc = "idle" => Serving
    <2> SUFFICES ASSUME TransactionInvariant, pc = "idle" PROVE Serving
      OBVIOUS
    <2>1. InForce(State) /\ (~closing => Carries(listeners, Now) /\ open = listeners)
      BY DEF TransactionInvariant, IdleShape, Busy
    <2>2. /\ State.file = file /\ State.memory = memory /\ State.registry = registry
          /\ State.port = port /\ State.runs = runs
      BY DEF State
    <2> QED
      BY <2>1, <2>2 DEF InForce, Settled, Serving, Now
  <1>2. ASSUME pc' = "idle", Serving' PROVE TransactionInvariant'
    <2>1. /\ State'.file = file' /\ State'.memory = memory' /\ State'.registry = registry'
          /\ State'.port = port' /\ State'.runs = runs'
      BY DEF State
    <2>2. IdleShape'
      BY <1>2, <2>1 DEF InForce, Settled, Serving, Now, IdleShape
    <2>3. ~Busy' /\ ~Early' /\ ~Late' /\ ~Forward' /\ ~Back'
      BY <1>2 DEF Busy, Early, Late, Forward, Back
    <2>4. BeforeShape' /\ StoreShape' /\ SocketShape' /\ PortShape' /\ TodoShape' /\ DoneShape'
      BY <1>2, <2>3 DEF BeforeShape, StoreShape, SocketShape, PortShape, TodoShape, DoneShape
    <2>5. UntouchedShape' /\ LockShape' /\ FreeShape'
      BY <1>2, <2>3 DEF UntouchedShape, LockShape, FreeShape
    <2>6. UndoShape'
      BY <1>2, <2>3 DEF UndoShape
    <2> QED
      BY <2>2, <2>4, <2>5, <2>6 DEF TransactionInvariant
  <1> QED
    BY <1>1, <1>2

\* The service starts with its configuration in force.
LEMMA ServingInitially == Init => Serving
  <1> SUFFICES ASSUME Init PROVE Serving
    OBVIOUS
  <1>1. PICK c \in Configs, t \in Tokens :
        /\ file = [config |-> c, token |-> t] /\ memory = file
        /\ registry = Names(c)
        /\ port = [i \in Ids |-> IF i \in Names(c) THEN c.gateways[i].port ELSE NoPort]
        /\ runs = [i \in Ids |-> NoPort]
        /\ listeners = Sockets(c) /\ open = Sockets(c)
    BY DEF Init
  <1>2. Names(c) \subseteq Ids
    BY DEF Names
  <1>3. \A i \in registry : port[i] = c.gateways[i].port
    BY <1>1, <1>2
  <1>4. \A i \in Ids : runs[i] = NoPort
    BY <1>1
  <1>5. Now = c /\ Carries(listeners, c) /\ open = listeners
    BY <1>1, SocketsCarry DEF Now
  <1> QED
    BY <1>1, <1>3, <1>4, <1>5 DEF Serving

\* So it does when it starts again after it ended, or after a crash that no
\* promise about the processes outlives: Run and the goroutines of
\* StartConfigured.
LEMMA ServeKeeps ==
    ASSUME TypeOK, TransactionInvariant, Restart \/ Crash
    PROVE  TransactionInvariant'
  <1>1. /\ pc' = "idle" /\ file' = file /\ memory' = file /\ runs' = runs /\ broken' = broken
    BY DEF Restart, Crash, Serve, bounds
  <1>6. Carries(listeners', file.config) /\ open' = listeners'
    BY ServeTyped DEF Restart, Crash
  <1>2. registry' = Names(file.config) /\ \A i \in registry' : port'[i] = file.config.gateways[i].port
    BY ServeTyped DEF Restart, Crash
  <1>3. Now' = file.config
    BY <1>1 DEF Now
  <1>4. CASE Crash
    <2>1. crashes' # 0
      BY <1>4 DEF Crash, TypeOK
    <2> QED
      BY <1>1, <1>2, <1>3, <1>6, <2>1, ServingIsShape DEF Serving
  <1>5. CASE Restart
    <2>1. pc = "idle" /\ crashes' = crashes
      BY <1>5 DEF Restart, bounds
    <2>2. Serving
      BY <2>1, ServingIsShape
    <2>3. /\ file = memory /\ registry = registry'
          /\ ~broken => \A i \in registry : port[i] = port'[i]
      BY <1>2, <2>2 DEF Serving, Now
    <2>4. ~broken /\ crashes = 0 => \A i \in Ids : runs[i] # NoPort => i \in registry /\ runs[i] = port'[i]
      BY <2>2, <2>3 DEF Serving
    <2>5. Serving'
      BY ONLY <1>1, <1>2, <1>3, <1>6, <2>1, <2>3, <2>4 DEF Serving
    <2> QED
      BY <1>1, <2>5, ServingIsShape
  <1> QED
    BY <1>4, <1>5

\* An operation on one instance starts or stops its own process on its own
\* port: serveGatewayOperation and an automatic start.
LEMMA OperationKeeps ==
    ASSUME TypeOK, TransactionInvariant, pc = "idle", pc' = "idle",
           NEW i \in registry, NEW o, Effect(i, o), o.port = port[i], Becomes(i, o),
           UNCHANGED <<stores, socks, closing, broken, crashes>>
    PROVE  TransactionInvariant'
  <1>1. Serving
    BY ServingIsShape
  <1>2. i \in Ids
    BY DEF TypeOK
  <1>3. /\ registry' = registry /\ runs'[i] = o.runs
        /\ \A j \in Ids \ {i} : runs'[j] = runs[j]
        /\ \A j \in Ids : port'[j] = port[j]
    BY <1>2, BecomesFields
  <1>4. o.runs \in {NoPort, port[i], runs[i]}
    BY DEF Effect
  <1>5. /\ file' = file /\ memory' = memory /\ Now' = Now /\ listeners' = listeners /\ open' = open
        /\ closing' = closing /\ broken' = broken /\ crashes' = crashes /\ registry \subseteq Ids
    BY DEF stores, socks, Now, TypeOK
  <1>6. Serving'
    BY ONLY <1>1, <1>2, <1>3, <1>4, <1>5 DEF Serving
  <1> QED
    BY <1>6, ServingIsShape

\* What the other steps of a service without a transaction do: the automatic
\* starts, the operator, the rotation of the token, the shutdown, and a process
\* that dies.
LEMMA IdleKeeps ==
    ASSUME TypeOK, TransactionInvariant,
           \/ \E i \in Ids : AutoStart(i) \/ Operate(i) \/ JavaDies(i)
           \/ \E t \in Tokens : Rotate(t)
           \/ Shutdown
    PROVE  TransactionInvariant'
  <1> USE DEF stores, procs, socks, work, bounds
  <1>1. pc = "idle" /\ pc' = "idle"
    BY DEF AutoStart, Operate, JavaDies, Rotate, Shutdown, Idle
  <1>2. Serving
    BY <1>1, ServingIsShape
  <1>3. ASSUME NEW i \in Ids, AutoStart(i) PROVE TransactionInvariant'
    <2>1. UNCHANGED <<stores, socks, closing, broken, crashes>>
      BY <1>3 DEF AutoStart
    <2>2. CASE AutoStartDue(i) /\ \E o \in AutoStartGateway(i) : Becomes(i, o)
      <3>1. PICK o \in AutoStartGateway(i) : Becomes(i, o)
        BY <2>2
      <3>2. i \in registry
        BY <2>2 DEF AutoStartDue
      <3> QED
        BY <1>1, <2>1, <3>1, <3>2, AutoStartEffect, OperationKeeps
    <2>3. CASE UNCHANGED <<procs, faults>>
      <3>1. Serving'
        BY <1>2, <2>1, <2>3 DEF Serving, Now
      <3> QED
        BY <1>1, <3>1, ServingIsShape
    <2> QED
      BY <1>3, <2>2, <2>3 DEF AutoStart
  <1>4. ASSUME NEW i \in Ids, Operate(i) PROVE TransactionInvariant'
    <2>1. UNCHANGED <<stores, socks, closing, broken, crashes>> /\ i \in registry
      BY <1>4 DEF Operate
    <2>4. PICK n \in BOOLEAN :
             \E o \in StartGateway(i) \cup StopGateway(i, FALSE) \cup StopGateway(i, TRUE)
                          \cup UseSession(i, n) : Becomes(i, o)
      BY <1>4 DEF Operate
    <2>2. PICK o \in StartGateway(i) \cup StopGateway(i, FALSE) \cup StopGateway(i, TRUE)
                        \cup UseSession(i, n) : Becomes(i, o)
      BY <2>4
    <2>3. Effect(i, o) /\ o.port = port[i]
      BY StartEffect, StopEffect, SessionEffect
    <2> QED
      BY <1>1, <2>1, <2>2, <2>3, OperationKeeps
  <1>5. ASSUME NEW t \in Tokens, Rotate(t) PROVE TransactionInvariant'
    <2>1. file' = memory' /\ memory'.config = memory.config
      <3>1. [memory EXCEPT !.token = t].config = memory.config
        BY DEF TypeOK, Stored
      <3> QED
        BY <1>2, <1>5, <3>1 DEF Rotate, Serving
    <2>2. Serving'
      BY <1>2, <1>5, <2>1 DEF Rotate, Serving, Now
    <2> QED
      BY <1>1, <2>2, ServingIsShape
  <1>6. CASE Shutdown
    <2>1. \A i \in Ids : runs'[i] \in {NoPort, runs[i]}
      BY <1>6 DEF Shutdown
    <2>2. /\ closing' /\ file' = file /\ memory' = memory /\ registry' = registry /\ port' = port
          /\ broken' = broken /\ crashes' = crashes
      BY <1>6 DEF Shutdown
    <2>3. Serving'
      BY <1>2, <2>1, <2>2 DEF Serving, Now
    <2> QED
      BY <1>1, <2>3, ServingIsShape
  <1>7. ASSUME NEW i \in Ids, JavaDies(i) PROVE TransactionInvariant'
    <2>1. /\ \A j \in Ids : runs'[j] \in {NoPort, runs[j]}
          /\ UNCHANGED <<stores, registry, port, socks, closing, bounds>>
      BY <1>7 DEF JavaDies, TypeOK
    <2>2. Serving'
      BY <1>2, <2>1 DEF Serving, Now
    <2> QED
      BY <1>1, <2>2, ServingIsShape
  <1> QED
    BY <1>3, <1>4, <1>5, <1>6, <1>7

-----------------------------------------------------------------------------
(* A transaction begins.                                                   *)

\* updateConfig: what there was is what is now.
LEMMA ApplyKeeps ==
    ASSUME TypeOK, TransactionInvariant, NEW c \in Configs, Apply(c)
    PROVE  TransactionInvariant'
  <1> USE DEF stores, procs, socks, bounds
  <1>1. /\ before' = State /\ target' = c /\ undo' = <<>> /\ pc' \in {"listen", "failed"} /\ started' = {}
        /\ file' = file /\ memory' = memory /\ registry' = registry /\ port' = port /\ intent' = intent
        /\ runs' = runs /\ says' = says /\ listeners' = listeners /\ open' = open
        /\ closing' = closing /\ broken' = broken /\ crashes' = crashes /\ pc = "idle" /\ ~closing
    BY DEF Apply, Idle
  <1>2. /\ before'.file = file /\ before'.memory = memory /\ before'.registry = registry
        /\ before'.port = port /\ before'.intent = intent /\ before'.runs = runs
        /\ before'.says = says
        /\ before'.listeners = listeners /\ before'.open = open
    BY <1>1 DEF State
  <1>3. before' \in Snapshot
    BY <1>1 DEF State, Snapshot, TypeOK
  <1>4. Serving
    BY <1>1, ServingIsShape
  <1>5. Noted' = {} /\ DOMAIN undo' = {}
    BY <1>1 DEF Noted
  <1>6. /\ Busy' /\ ~Forward' /\ ~Late' /\ (Back' <=> pc' = "failed") /\ Early'
    BY <1>1 DEF Busy, Forward, Late, Back, Early
  <1>7. \A i, j \in Ids : i # j => runs[i] = NoPort \/ runs[i] # runs[j]
    BY DEF TypeOK
  <1>8. InForce(before)'
    BY ONLY <1>1, <1>2, <1>4 DEF InForce, Settled, Serving, Now
  <1>9. BeforeShape'
    BY ONLY <1>1, <1>2, <1>3, <1>4, <1>7, <1>8 DEF BeforeShape, Serving, Now
  <1>10. IdleShape'
    BY <1>6 DEF IdleShape
  <1>11. StoreShape'
    BY ONLY <1>1, <1>2, <1>6 DEF StoreShape
  <1>12. SocketShape'
    BY ONLY <1>1, <1>2, <1>6 DEF SocketShape
  <1>13. UndoShape'
    BY ONLY <1>1, <1>5 DEF UndoShape
  <1>14. TodoShape' /\ DoneShape'
    BY <1>1, <1>6 DEF TodoShape, DoneShape
  <1>15. UntouchedShape'
    BY ONLY <1>1, <1>2, <1>6 DEF UntouchedShape, Same, Restored, Reported
  <1>16. PortShape'
    BY ONLY <1>1, <1>2 DEF PortShape
  <1>17. LockShape' /\ FreeShape'
    BY ONLY <1>5 DEF LockShape, FreeShape
  <1> QED
    BY <1>9, <1>10, <1>11, <1>12, <1>13, <1>14, <1>15, <1>16, <1>17 DEF TransactionInvariant

-----------------------------------------------------------------------------
(* What every step of a transaction keeps.                                 *)

\* The state that it began with stays; an undo may fail meanwhile.
LEMMA BeforeKept ==
    ASSUME BeforeShape, Busy, Busy', before' = before, closing' = closing, crashes' = crashes,
           broken => broken'
    PROVE  BeforeShape' /\ IdleShape'
  <1>1. /\ before \in Snapshot /\ InForce(before) /\ ~closing
        /\ Carries(before.listeners, before.memory.config) /\ before.open = before.listeners
        /\ \A i, j \in Ids : i # j => before.runs[i] = NoPort \/ before.runs[i] # before.runs[j]
    BY DEF BeforeShape
  <1>2. InForce(before)'
    BY <1>1 DEF InForce
  <1>3. BeforeShape'
    BY ONLY <1>1, <1>2, before' = before, closing' = closing DEF BeforeShape
  <1> QED
    BY <1>3 DEF IdleShape

\* The instances are compared with it: as long as nothing is done with them,
\* those shapes stay.
LEMMA QuietKept ==
    ASSUME UndoShape, UntouchedShape, PortShape, LockShape, FreeShape, Busy, pc' # "listen",
           pc' = "failed" => undo = <<>>,
           (Forward' \/ Back') => (Forward \/ Back), Back' => Back \/ pc = "rollback", Forward' => Forward,
           UNCHANGED <<procs, undo, before, target, broken>>
    PROVE  UndoShape' /\ UntouchedShape' /\ PortShape' /\ LockShape' /\ FreeShape' /\ Noted' = Noted
  <1> USE DEF procs
  <1>1. Noted' = Noted
    BY DEF Noted
  <1>2. UndoShape'
    BY DEF UndoShape
  <1>3. PortShape'
    BY DEF PortShape
  <1>4. LockShape' /\ FreeShape'
    BY <1>1 DEF LockShape, FreeShape
  <1>5. CASE Back'
    <2>1. ~Forward'
      BY <1>5 DEF Back, Forward, Late
    <2>2. \A j \in Ids \ Noted : Restored(j)
      <3>1. CASE Back
        BY <3>1 DEF UntouchedShape
      <3>2. CASE pc = "rollback"
        <4>1. Forward
          BY <3>2 DEF Forward
        <4> QED
          BY <4>1 DEF UntouchedShape, Same, Restored
      <3> QED
        BY <1>5, <3>1, <3>2
    <2>3. UntouchedShape'
      BY <1>1, <1>5, <2>1, <2>2 DEF UntouchedShape, Restored
    <2> QED
      BY <1>1, <1>2, <1>3, <1>4, <2>3
  <1>6. CASE ~Back'
    <2>1. UntouchedShape'
      BY <1>1, <1>6 DEF UntouchedShape, Same
    <2> QED
      BY <1>1, <1>2, <1>3, <1>4, <2>1
  <1> QED
    BY <1>5, <1>6

\* The listeners are opened and the new managers made, or not all of that:
\* prepareProxyListenerReconcile.
LEMMA ListenKeeps ==
    ASSUME TypeOK, TransactionInvariant, Listen
    PROVE  TransactionInvariant'
  <1> USE DEF stores, socks
  <1>1. /\ pc = "listen" /\ pc' \in {"change", "rollback", "failed"} /\ undo' = undo /\ before' = before
        /\ file' = file /\ memory' = memory /\ registry' = registry /\ intent' = intent /\ runs' = runs
        /\ listeners' = listeners /\ closing' = closing /\ target' = target /\ broken' = broken
        /\ crashes' = crashes
    BY DEF Listen
  <1>2. /\ undo = <<>> /\ registry = before.registry /\ memory = before.memory /\ file = before.file
        /\ listeners = before.listeners /\ open = before.open
        /\ \A j \in Ids : Same(j)
    <2>1. UndoShape /\ StoreShape /\ SocketShape /\ UntouchedShape
      BY DEF TransactionInvariant
    <2>2. undo = <<>>
      BY <1>1, <2>1 DEF UndoShape
    <2>3. Noted = {}
      BY <2>2 DEF Noted
    <2> QED
      BY <1>1, <2>1, <2>2, <2>3 DEF StoreShape, SocketShape, UntouchedShape, Early, Busy
  <1>3. Noted' = {} /\ DOMAIN undo' = {} /\ undo' = <<>>
    BY <1>1, <1>2 DEF Noted
  <1>4. BeforeShape' /\ IdleShape'
    BY <1>1, BeforeKept DEF TransactionInvariant, Busy
  <1>5. UndoShape' /\ LockShape' /\ FreeShape' /\ StoreShape'
    BY ONLY <1>1, <1>2, <1>3 DEF UndoShape, LockShape, FreeShape, StoreShape, Early, Late
  <1>6. \A j \in Ids : j \in before.registry => says'[j] = says[j]
    BY <1>2 DEF Listen
  <1>9. Missing(target)' = Missing(target) /\ Taken(target)' = Taken(target)
    BY ONLY <1>1 DEF Missing, Taken
  <1>7. CASE pc' = "change"
    <2>1. /\ started' = Missing(target) /\ ~Taken(target) /\ open' = open \cup started'
          /\ port' = [i \in Ids |-> IF i \in Names(target) \ registry THEN target.gateways[i].port
                                    ELSE port[i]]
          /\ todo' = Names(target)
      BY <1>7 DEF Listen
    <2>2. Forward' /\ ~Back' /\ ~Late'
      BY <1>7 DEF Forward, Back, Late
    <2>3. SocketShape'
      BY ONLY <1>1, <1>2, <1>7, <1>9, <2>1, <2>2 DEF SocketShape, Busy
    <2>4. Names(target) \subseteq Ids
      BY DEF Names
    <2>5. /\ \A j \in Names(target) \ before.registry : port'[j] = target.gateways[j].port
          /\ \A j \in Ids : j \in before.registry => port'[j] = port[j]
      BY ONLY <1>2, <2>1, <2>4
    <2>6. UntouchedShape' /\ PortShape'
      BY ONLY <1>1, <1>2, <1>6, <2>2, <2>5 DEF UntouchedShape, PortShape, Same
    <2>7. TodoShape' /\ DoneShape'
      BY ONLY <1>1, <1>3, <1>7, <2>1, <2>2, <2>5 DEF TodoShape, DoneShape
    <2> QED
      BY <1>4, <1>5, <2>3, <2>6, <2>7 DEF TransactionInvariant
  <1>8. CASE pc' \in {"rollback", "failed"}
    <2>1. /\ UNCHANGED <<port, todo>>
          /\ pc' = "rollback" => started' = Missing(target) /\ ~Taken(target) /\ open' = open \cup started'
          /\ pc' = "failed" => open' = open
      BY <1>8 DEF Listen
    <2>2. ~Late' /\ (Forward' <=> pc' = "rollback") /\ (Back' <=> pc' = "failed")
      BY <1>8 DEF Forward, Back, Late
    <2>3. SocketShape'
      BY ONLY <1>1, <1>2, <1>8, <1>9, <2>1, <2>2 DEF SocketShape, Busy
    <2>4. TodoShape' /\ DoneShape'
      BY ONLY <1>8, <2>2 DEF TodoShape, DoneShape
    <2>5. UntouchedShape' /\ PortShape'
      BY ONLY <1>1, <1>2, <1>6, <1>8, <2>1, <2>2 DEF UntouchedShape, PortShape, Same, Restored
    <2> QED
      BY <1>4, <1>5, <2>3, <2>4, <2>5 DEF TransactionInvariant
  <1> QED
    BY <1>1, <1>7, <1>8

\* The steps that only pass on: all instances are changed, an error is met.
LEMMA PassingKeeps ==
    ASSUME TypeOK, TransactionInvariant, Changed \/ Rollback \/ Undone
    PROVE  TransactionInvariant'
  <1> USE DEF stores, procs, socks, bounds
  <1>1. /\ pc \in {"change", "rollback", "undo"} /\ pc' \in {"remove", "undo", "failed"}
        /\ pc' = "remove" <=> pc = "change"
        /\ pc = "change" => todo = {} /\ todo' = registry \ Names(target) /\ open' = open
        /\ pc = "rollback" => open' = open \ started
        /\ pc = "undo" => open' = open
        /\ pc = "rollback" => pc' = "undo"
    BY DEF Changed, Rollback, Undone, Removed
  <1>2. /\ UNCHANGED <<procs, undo, before, target, broken>>
        /\ file' = file /\ memory' = memory /\ registry' = registry /\ intent' = intent /\ runs' = runs
        /\ port' = port /\ started' = started
        /\ listeners' = listeners /\ closing' = closing /\ target' = target /\ broken' = broken
        /\ crashes' = crashes
    BY DEF Changed, Rollback, Undone
  <1>3. BeforeShape' /\ IdleShape'
    BY <1>1, <1>2, BeforeKept DEF TransactionInvariant, Busy
  <1>4. /\ Busy /\ pc' # "listen" /\ (Forward' \/ Back') /\ (Forward \/ Back) /\ (Forward' => Forward)
        /\ Back' => Back \/ pc = "rollback"
    BY ONLY <1>1 DEF Busy, Forward, Back, Late
  <1>5. UndoShape' /\ UntouchedShape' /\ PortShape' /\ LockShape' /\ FreeShape' /\ Noted' = Noted
    <2>1. pc' = "failed" => undo = <<>>
      BY <1>1 DEF Changed, Rollback, Undone
    <2> QED
      BY <1>2, <1>4, <2>1, QuietKept DEF TransactionInvariant
  <1>6. StoreShape'
    <2>1. StoreShape
      BY DEF TransactionInvariant
    <2> QED
      BY ONLY <1>1, <1>2, <2>1 DEF StoreShape, Early, Late
  <1>7. SocketShape'
    <2>1. SocketShape /\ BeforeShape
      BY DEF TransactionInvariant
    <2>2. before.open = before.listeners
      BY <1>4, <2>1 DEF BeforeShape
    <2>3. \A w \in Missing(target) : w \notin listeners
      BY ServesItself, ConfigTyped DEF Missing, TypeOK
    <2>4. Missing(target)' = Missing(target) /\ Taken(target)' = Taken(target)
      BY ONLY <1>2 DEF Missing, Taken
    <2> HIDE DEF socks
    <2> QED
      BY ONLY <1>1, <1>2, <2>1, <2>2, <2>3, <2>4 DEF SocketShape, Busy, Forward, Back, Late
  <1>8. TodoShape' /\ DoneShape'
    <2>1. TodoShape /\ DoneShape /\ StoreShape /\ UntouchedShape
      BY DEF TransactionInvariant
    <2>2. CASE pc' # "remove"
      BY <1>1, <2>2 DEF TodoShape, DoneShape, Late
    <2>3. CASE pc' = "remove"
      <3>1. pc = "change" /\ todo = {} /\ registry = before.registry
        BY <1>1, <2>1, <2>3 DEF StoreShape, Early
      <3>2. Noted \subseteq Names(target)
        BY <2>1, <3>1 DEF TodoShape
      <3>3. TodoShape'
        BY ONLY <1>1, <1>2, <1>5, <2>3, <3>1, <3>2 DEF TodoShape
      <3>4. DoneShape'
        BY ONLY <1>1, <1>2, <2>1, <2>3, <3>1 DEF DoneShape, Late, Applied
      <3> QED
        BY <3>3, <3>4
    <2> QED
      BY <2>2, <2>3
  <1> QED
    BY <1>3, <1>5, <1>6, <1>7, <1>8 DEF TransactionInvariant

\* The steps that put the new configuration in force: the file, the memory and
\* the listeners, in this order.
LEMMA CommitKeeps ==
    ASSUME TypeOK, TransactionInvariant, Commit \/ Publish \/ Reconcile
    PROVE  TransactionInvariant'
  <1> USE DEF stores, procs, socks, bounds
  <1>1. \/ /\ pc = "remove" /\ todo = {} /\ pc' = "publish" /\ file' = [memory EXCEPT !.config = target]
           /\ UNCHANGED <<memory, registry, listeners, open>>
        \/ /\ pc = "remove" /\ todo = {} /\ pc' = "rollback" /\ UNCHANGED <<file, memory, registry, listeners, open>>
        \/ /\ pc = "publish" /\ pc' = "reconcile" /\ registry' = Names(target)
           /\ memory' = [memory EXCEPT !.config = target] /\ UNCHANGED <<file, listeners, open>>
        \/ /\ pc = "reconcile" /\ pc' = "ok" /\ listeners' = Standing(target) \cup started
           /\ open' = open \ Retired
           /\ UNCHANGED <<file, memory, registry>>
    BY DEF Commit, Publish, Reconcile
  <1>2. /\ UNCHANGED <<undo, before, target, broken>>
        /\ intent' = intent /\ runs' = runs /\ port' = port /\ says' = says /\ owned' = owned
        /\ started' = started /\ todo' = todo /\ closing' = closing /\ target' = target /\ broken' = broken /\ crashes' = crashes
    BY DEF Commit, Publish, Reconcile
  <1>3. BeforeShape' /\ IdleShape'
    <2>1. Busy /\ Busy'
      BY <1>1 DEF Busy
    <2> QED
      BY <1>2, <2>1, BeforeKept DEF TransactionInvariant
  <1>4. /\ Busy /\ Busy' /\ pc' # "listen" /\ Forward' /\ Forward /\ ~Back' /\ ~Back
    BY ONLY <1>1 DEF Busy, Forward, Back, Late
  <1>5. UndoShape' /\ UntouchedShape' /\ PortShape' /\ LockShape' /\ FreeShape' /\ Noted' = Noted
    <2>1. UndoShape /\ UntouchedShape /\ PortShape /\ LockShape /\ FreeShape
      BY DEF TransactionInvariant
    <2>2. Noted' = Noted
      BY <1>2 DEF Noted
    <2>3. UndoShape'
      BY ONLY <1>1, <1>2, <1>4, <2>1 DEF UndoShape
    <2>4. UntouchedShape'
      BY ONLY <1>2, <1>4, <2>1, <2>2 DEF UntouchedShape, Same
    <2>5. PortShape'
      BY ONLY <1>2, <1>4, <2>1 DEF PortShape
    <2>6. LockShape' /\ FreeShape'
      BY ONLY <1>2, <1>4, <2>1, <2>2 DEF LockShape, FreeShape
    <2> QED
      BY <2>2, <2>3, <2>4, <2>5, <2>6
  <1>6. StoreShape'
    <2>1. StoreShape
      BY DEF TransactionInvariant
    <2> QED
      BY ONLY <1>1, <1>2, <2>1 DEF StoreShape, Early, Late
  <1>7. SocketShape'
    <2>1. SocketShape /\ BeforeShape
      BY DEF TransactionInvariant
    <2>2. before.open = before.listeners
      BY <1>4, <2>1 DEF BeforeShape
    <2>3. CASE pc' = "ok"
      <3>1. /\ pc = "reconcile" /\ listeners' = Standing(target) \cup started /\ open' = open \ Retired
        BY <1>1, <2>3
      <3>2. /\ started = Missing(target) /\ ~Taken(target) /\ open = listeners \cup started
            /\ Carries(listeners, before.memory.config)
        BY <1>4, <2>1, <2>2, <3>1 DEF SocketShape, BeforeShape
      <3>3. target \in Configs /\ Sockets(target) \subseteq Socket
        BY ConfigTyped DEF TypeOK
      <3>4. /\ \A w \in Missing(target) : w \in Sockets(target) /\ w \notin listeners /\ Serves(w, w)
            /\ Standing(target) \subseteq listeners
        BY <3>3, ServesItself DEF Missing, Standing
      <3>5. open' = listeners'
        BY ONLY <3>1, <3>2, <3>4 DEF Retired
      <3>6. \A w \in Sockets(target) : \E s \in listeners' : Serves(s, w)
        BY ONLY <3>1, <3>2, <3>4 DEF Missing, Standing
      <3>7. \A s \in listeners' : \E w \in Sockets(target) : Serves(s, w)
        BY ONLY <3>1, <3>2, <3>4 DEF Standing
      <3>8. \A s, t \in listeners' : s[2][1] = t[2][1] => s = t
        <4>1. \A s, t \in listeners : s[2][1] = t[2][1] => s = t
          BY ONLY <3>2 DEF Carries
        <4>2. \A s, t \in Missing(target) : s[2][1] = t[2][1] => s = t
          BY <3>3, <3>4, ConfigTyped
        <4>3. \A s \in listeners, w \in Missing(target) : s[2][1] # w[2][1]
          BY <3>2 DEF Taken
        <4> QED
          BY ONLY <3>1, <3>2, <3>4, <4>1, <4>2, <4>3
      <3>9. Carries(listeners, target)'
        BY ONLY <1>2, <3>6, <3>7, <3>8 DEF Carries
      <3> QED
        BY ONLY <1>2, <2>3, <3>5, <3>9 DEF SocketShape, Busy, Forward, Back, Late
    <2>4. CASE pc' # "ok"
      <3>1. listeners' = listeners
        BY <1>1, <2>4
      <3>2. Missing(target)' = Missing(target) /\ Taken(target)' = Taken(target)
        BY ONLY <1>2, <3>1 DEF Missing, Taken
      <3> HIDE DEF socks
      <3> QED
        BY ONLY <1>1, <1>2, <1>4, <2>1, <2>4, <3>1, <3>2 DEF SocketShape
    <2> QED
      BY <2>3, <2>4
  <1>8. TodoShape' /\ DoneShape'
    <2>1. TodoShape /\ DoneShape
      BY DEF TransactionInvariant
    <2> QED
      BY ONLY <1>1, <1>2, <1>5, <2>1 DEF TodoShape, DoneShape, Late, Applied
  <1> QED
    BY <1>3, <1>5, <1>6, <1>7, <1>8 DEF TransactionInvariant

\* The transaction ends: what is in force now is the configuration that it
\* began with, or the one that was asked for; managers of instances outside the
\* registry are forgotten.
LEMMA ReturnKeeps ==
    ASSUME TypeOK, TransactionInvariant, Return
    PROVE  TransactionInvariant'
  <1> USE DEF stores, socks, bounds
  <1>1. /\ pc \in {"ok", "failed"} /\ pc' = "idle" /\ file' = file /\ memory' = memory
        /\ registry' = registry /\ runs' = runs /\ listeners' = listeners /\ open' = open
        /\ closing' = closing /\ broken' = broken /\ crashes' = crashes /\ Now' = Now
    BY DEF Return, Now
  <1>2. \A i \in Ids : i \in registry => port'[i] = port[i]
    BY DEF Return
  <1>3. /\ InForce(before) /\ Carries(before.listeners, before.memory.config)
        /\ before.open = before.listeners /\ registry \subseteq Ids /\ before.registry \subseteq Ids
        /\ Busy
    BY <1>1 DEF TransactionInvariant, BeforeShape, Busy, TypeOK, InForce, Names
  <1>4. StoreShape /\ SocketShape /\ UntouchedShape /\ PortShape /\ DoneShape /\ UndoShape /\ TodoShape
    BY DEF TransactionInvariant
  <1>5. CASE pc = "failed"
    <2>1. Noted = {}
      BY ONLY <1>4, <1>5 DEF UndoShape, Noted
    <2>2. /\ file = before.file /\ memory = before.memory /\ registry = before.registry
          /\ listeners = before.listeners /\ open = before.open
          /\ \A j \in Ids :
                /\ j \in before.registry => broken \/ port[j] = before.port[j]
                /\ ~broken /\ Settled(before) =>
                      \/ runs[j] = before.runs[j]
                      \/ j \in before.registry /\ runs[j] \in {NoPort, before.port[j]}
      BY ONLY <1>3, <1>4, <1>5, <2>1
         DEF StoreShape, SocketShape, UntouchedShape, Restored, Reported, Early, Back
    <2>3. Serving'
      BY ONLY <1>1, <1>2, <1>3, <2>2 DEF Serving, InForce, Settled, Now
    <2> QED
      BY <1>1, <2>3, ServingIsShape
  <1>6. CASE pc = "ok"
    <2>1. /\ memory = file /\ file = [before.memory EXCEPT !.config = target] /\ registry = Names(target)
          /\ Carries(listeners, target) /\ open = listeners
      BY ONLY <1>3, <1>4, <1>6 DEF StoreShape, SocketShape, Late, Busy
    <2>2. before.memory \in Stored
      BY <1>3 DEF TransactionInvariant, BeforeShape, Snapshot
    <2>3. Now = target
      BY <2>1, <2>2 DEF Now, Stored
    <2>4. /\ \A i \in Names(target) : broken \/ port[i] = target.gateways[i].port
          /\ \A i \in before.registry \ Names(target) : runs[i] = NoPort
      BY ONLY <1>4, <1>6 DEF DoneShape, Late, Applied
    <2>5. Settled(before) => \A i \in Ids : runs[i] # NoPort => i \in registry /\ runs[i] = port[i]
      <3>1. SUFFICES ASSUME Settled(before), NEW i \in Ids, runs[i] # NoPort
                     PROVE  i \in registry /\ runs[i] = port[i]
        OBVIOUS
      <3>2. \A j \in Ids : before.runs[j] # NoPort => j \in before.registry /\ before.runs[j] = before.port[j]
        BY <3>1 DEF Settled
      <3>3. i \in before.registry \cup Names(target)
        <4>1. CASE i \in Noted
          BY ONLY <1>4, <1>6, <4>1 DEF UndoShape, Noted, Forward, Late
        <4>2. CASE i \notin Noted
          <5>1. runs[i] = before.runs[i]
            BY ONLY <1>4, <1>6, <4>2, <3>1 DEF UntouchedShape, Same, Forward, Late
          <5> QED
            BY ONLY <3>1, <3>2, <5>1
        <4> QED
          BY <4>1, <4>2
      <3>4. runs[i] = port[i]
        BY ONLY <1>3, <1>4, <3>1, <3>2 DEF PortShape
      <3> QED
        BY ONLY <2>1, <2>4, <3>1, <3>3, <3>4
    <2>6. Serving'
      BY ONLY <1>1, <1>2, <1>3, <2>1, <2>3, <2>4, <2>5 DEF Serving, InForce
    <2> QED
      BY <1>1, <2>6, ServingIsShape
  <1> QED
    BY <1>1, <1>5, <1>6

-----------------------------------------------------------------------------
(* An attempt, with the undo that is noted before it.                      *)

\* What it touches is noted, and what it launches is on a port that nobody
\* else has, nor had when nothing was done with him: Attempt, of changes and
\* removals.
LEMMA AttemptKeeps ==
    ASSUME TypeOK, TransactionInvariant, NEW i \in todo, pc \in {"change", "remove"},
           NEW e \in Entry, e.id = i, e.kind = "restore" <=> i \in before.registry,
           e.says = says[i], e.port = port[i], e.intent = intent[i],
           NEW o, Effect(i, o), Found(i, o), Becomes(i, o), undo' = Append(undo, e),
           o.ok => pc' = pc /\ todo' = todo \ {i},
           ~o.ok => pc' = "rollback" /\ todo' = todo,
           UNCHANGED <<stores, socks, boots, closing, target, started, before, broken, crashes>>
    PROVE  /\ BeforeShape' /\ IdleShape' /\ StoreShape' /\ SocketShape' /\ UndoShape' /\ TodoShape'
           /\ UntouchedShape' /\ PortShape' /\ LockShape' /\ FreeShape'
           /\ Same(i)
  <1> USE DEF stores, socks
  <1>1. i \in Ids /\ o.ok \in BOOLEAN /\ undo \in Seq(Entry)
    BY DEF TypeOK, Effect, Whole
  <1>2. /\ runs'[i] = o.runs /\ port'[i] = o.port /\ registry' = registry /\ owned'[i] = o.owned
        /\ \A j \in Ids \ {i} : /\ runs'[j] = runs[j] /\ port'[j] = port[j]
                                /\ intent'[j] = intent[j] /\ says'[j] = says[j] /\ owned'[j] = owned[j]
    BY <1>1, BecomesFields
  <1>3. /\ pc' \in {pc, "rollback"} /\ todo' \subseteq todo /\ (pc' # "rollback" => i \notin todo')
    BY <1>1
  <1>4. /\ file' = file /\ memory' = memory /\ listeners' = listeners /\ open' = open /\ closing' = closing
        /\ target' = target /\ started' = started /\ before' = before /\ broken' = broken
        /\ crashes' = crashes
    OBVIOUS
  <1>5. /\ Busy /\ Busy' /\ Forward /\ Forward' /\ ~Back /\ ~Back' /\ Early /\ Early' /\ ~Late'
    BY <1>3 DEF Busy, Forward, Back, Early, Late
  <1>6. PICK n \in Nat : /\ n = Len(undo) /\ DOMAIN undo = 1..n /\ DOMAIN undo' = 1..(n + 1)
                         /\ \A k \in 1..n : undo'[k] = undo[k]
                         /\ undo'[n + 1] = e
    <2>1. Len(undo) \in Nat /\ DOMAIN undo = 1..Len(undo)
      BY <1>1, LenProperties
    <2>2. /\ undo' \in Seq(Entry) /\ Len(undo') = Len(undo) + 1
          /\ \A k \in 1..Len(undo) : undo'[k] = undo[k]
          /\ undo'[Len(undo) + 1] = e
      BY <1>1, AppendProperties
    <2>3. DOMAIN undo' = 1..(Len(undo) + 1)
      BY <2>2, LenProperties
    <2> QED
      BY ONLY <2>1, <2>2, <2>3
  <1>7. /\ \A k \in 1..n : undo[k].id \in Noted
        /\ \A j : j \in Noted => \E k \in 1..n : undo[k].id = j
        /\ Noted' = Noted \cup {i}
    <2>1. \A j : j \in Noted <=> \E k \in 1..n : undo[k].id = j
      BY <1>6 DEF Noted
    <2>2. \A j : j \in Noted' <=> \E k \in 1..(n + 1) : undo'[k].id = j
      BY <1>6 DEF Noted
    <2>3. \A k \in 1..(n + 1) : k \in 1..n \/ k = n + 1
      OBVIOUS
    <2>4. \A k \in 1..n : k \in 1..(n + 1)
      OBVIOUS
    <2>5. n + 1 \in 1..(n + 1)
      OBVIOUS
    <2>6. \A j : j \in Noted' <=> j \in Noted \cup {i}
      BY ONLY <1>6, <2>1, <2>2, <2>3, <2>4, <2>5, e.id = i
    <2> QED
      BY <2>1, <2>6
  <1>8. /\ UndoShape /\ TodoShape /\ UntouchedShape /\ PortShape /\ FreeShape /\ StoreShape /\ SocketShape
        /\ BeforeShape /\ LockShape
    BY DEF TransactionInvariant
  <1>9. /\ i \notin Noted /\ Same(i)
        /\ i \in before.registry \cup Names(target)
        /\ pc = "change" => Noted \cup {i} \subseteq Names(target)
    <2>1. i \notin Noted /\ (pc = "change" => Noted \cup {i} \subseteq Names(target))
      BY ONLY <1>8, i \in todo, pc \in {"change", "remove"} DEF TodoShape
    <2>2. Same(i)
      BY ONLY <1>1, <1>5, <1>8, <2>1 DEF UntouchedShape
    <2>3. i \in before.registry \cup Names(target)
      BY ONLY <1>8, i \in todo, pc \in {"change", "remove"} DEF TodoShape
    <2> QED
      BY <2>1, <2>2, <2>3
  <1>10. BeforeShape' /\ IdleShape'
    BY <1>4, <1>5, <1>8, BeforeKept
  <1>11. StoreShape' /\ SocketShape'
    <2>1. Missing(target)' = Missing(target) /\ Taken(target)' = Taken(target)
      BY ONLY <1>4 DEF Missing, Taken
    <2>2. StoreShape'
      BY ONLY <1>2, <1>3, <1>4, <1>5, <1>8, pc \in {"change", "remove"} DEF StoreShape
    <2>3. SocketShape'
      BY ONLY <1>2, <1>3, <1>4, <1>5, <1>8, <2>1, pc \in {"change", "remove"} DEF SocketShape
    <2> QED
      BY <2>2, <2>3
  <1>12. UndoShape'
    <2>1. \A k, l \in 1..(n + 1) : k # l => undo'[k].id # undo'[l].id
      <3>1. \A k, l \in 1..n : k # l => undo[k].id # undo[l].id
        BY ONLY <1>5, <1>6, <1>8 DEF UndoShape
      <3>2. \A k \in 1..n : undo'[k].id # i /\ undo'[k].id = undo[k].id
        BY ONLY <1>6, <1>7, <1>9
      <3>3. undo'[n + 1].id = i
        BY <1>6
      <3>4. \A k \in 1..(n + 1) : k \in 1..n \/ k = n + 1
        OBVIOUS
      <3> QED
        BY ONLY <3>1, <3>2, <3>3, <3>4
    <2>2. \A k \in 1..(n + 1) :
             /\ undo'[k].id \in before.registry \cup Names(target)
             /\ undo'[k].kind = "restore" <=> undo'[k].id \in before.registry
             /\ undo'[k].intent = before.intent[undo'[k].id]
             /\ undo'[k].id \in before.registry =>
                   undo'[k].port = before.port[undo'[k].id] /\ undo'[k].says = before.says[undo'[k].id]
      <3>1. \A k \in 1..n :
             /\ undo[k].id \in before.registry \cup Names(target)
             /\ undo[k].kind = "restore" <=> undo[k].id \in before.registry
             /\ undo[k].intent = before.intent[undo[k].id]
             /\ undo[k].id \in before.registry =>
                   undo[k].port = before.port[undo[k].id] /\ undo[k].says = before.says[undo[k].id]
        BY ONLY <1>5, <1>6, <1>8 DEF UndoShape
      <3>2. /\ e.id \in before.registry \cup Names(target)
            /\ e.kind = "restore" <=> e.id \in before.registry
            /\ e.intent = before.intent[e.id]
            /\ e.id \in before.registry => e.port = before.port[e.id] /\ e.says = before.says[e.id]
        BY <1>9 DEF Same
      <3>3. \A k \in 1..(n + 1) : k \in 1..n \/ k = n + 1
        OBVIOUS
      <3> QED
        BY ONLY <1>6, <3>1, <3>2, <3>3
    <2>3. pc' \notin {"listen", "failed"}
      BY <1>3
    <2> QED
      BY ONLY <1>4, <1>6, <2>1, <2>2, <2>3 DEF UndoShape
  <1>13. TodoShape'
    BY ONLY <1>1, <1>3, <1>4, <1>7, <1>8, <1>9, i \in todo, pc \in {"change", "remove"} DEF TodoShape
  <1>14. UntouchedShape'
    BY ONLY <1>1, <1>2, <1>4, <1>5, <1>7, <1>8 DEF UntouchedShape, Same
  <1>15. PortShape'
    <2>1. o.runs \in {NoPort, o.port} \/ (o.runs = runs[i] /\ o.port = port[i])
      BY DEF Found
    <2> QED
      BY ONLY <1>1, <1>2, <1>4, <1>5, <1>8, <2>1 DEF PortShape
  <1>17. LockShape'
    <2>1. o.owned \/ o.runs \in {NoPort, before.runs[i]}
      BY <1>9 DEF Found, Same
    <2>2. \A j \in Noted : j \in Ids /\ j # i
      <3>1. \A k \in 1..n : undo[k] \in Entry
        BY <1>1, <1>6, ElementOfSeq
      <3> QED
        BY ONLY <1>7, <1>9, <3>1 DEF Entry
    <2> QED
      BY ONLY <1>2, <1>4, <1>5, <1>7, <1>8, <2>1, <2>2 DEF LockShape
  <1>16. FreeShape'
    <2>1. SUFFICES ASSUME ~broken, Settled(before), NEW k \in 1..(n + 1), NEW j \in Ids,
                          \A l \in 1..k : undo'[l].id # j
                   PROVE  runs'[undo'[k].id] = NoPort \/ runs'[undo'[k].id] # before.runs[j]
      <3>1. DOMAIN undo' = 1..(n + 1) /\ broken' = broken /\ before' = before
        BY <1>4, <1>6
      <3> QED
        BY <3>1 DEF FreeShape
    <2>2. CASE k \in 1..n
      <3>1. \A l \in 1..k : l \in 1..n
        BY <2>2
      <3>2. \A l \in 1..k : undo[l].id # j
        BY ONLY <1>6, <2>1, <3>1
      <3>3. runs[undo[k].id] = NoPort \/ runs[undo[k].id] # before.runs[j]
        BY ONLY <1>5, <1>6, <1>8, <2>1, <2>2, <3>2 DEF FreeShape
      <3>4. undo'[k] = undo[k] /\ undo[k].id \in Ids /\ undo[k].id # i
        <4>1. undo[k] \in Entry
          BY <1>1, <1>6, <2>2, ElementOfSeq
        <4> QED
          BY <1>6, <1>7, <1>9, <2>2, <4>1 DEF Entry
      <3> QED
        BY ONLY <1>2, <3>3, <3>4
    <2>3. CASE k = n + 1
      <3>1. undo'[k].id = i /\ j # i
        <4>1. k \in 1..k
          OBVIOUS
        <4> QED
          BY <1>6, <2>1, <2>3, <4>1
      <3>2. j \notin Noted
        <4>1. \A l \in 1..n : l \in 1..k
          BY <2>3
        <4> QED
          BY ONLY <1>6, <1>7, <2>1, <4>1
      <3>3. runs[j] = before.runs[j] /\ runs[i] = before.runs[i]
        BY ONLY <1>5, <1>8, <1>9, <2>1, <3>2 DEF UntouchedShape, Same
      <3>4. before.runs[i] = NoPort \/ before.runs[i] # before.runs[j]
        BY ONLY <1>1, <1>5, <1>8, <2>1, <3>1 DEF BeforeShape
      <3>5. o.runs \in {NoPort, runs[i]} \/ runs[j] # o.runs
        BY <3>1 DEF Effect, Free
      <3> QED
        BY ONLY <1>2, <3>1, <3>3, <3>4, <3>5
    <2>4. k \in 1..n \/ k = n + 1
      BY ONLY n \in Nat, k \in 1..(n + 1)
    <2> QED
      BY ONLY <2>2, <2>3, <2>4
  <1> QED
    BY <1>9, <1>10, <1>11, <1>12, <1>13, <1>14, <1>15, <1>16, <1>17

\* An instance is changed: applyConfig's first loop over the managers.
LEMMA ChangeKeeps ==
    ASSUME TypeOK, TransactionInvariant, NEW i \in Ids, Change(i)
    PROVE  TransactionInvariant'
  <1>1. /\ pc = "change" /\ i \in todo
        /\ UNCHANGED <<stores, socks, boots, closing, target, started, before, broken, crashes>>
    BY DEF Change, Lowest
  <1>2. /\ Busy /\ Early /\ Forward /\ ~Late
    BY <1>1 DEF Busy, Early, Forward, Late
  <1>3. /\ UndoShape /\ TodoShape /\ UntouchedShape /\ PortShape /\ LockShape /\ FreeShape /\ StoreShape
        /\ SocketShape /\ BeforeShape /\ DoneShape
    BY DEF TransactionInvariant
  <1>4. /\ memory = before.memory /\ registry = before.registry
        /\ before.registry = Names(Now) /\ target \in Configs /\ i \in Names(target)
        /\ \A j \in before.registry : broken \/ before.port[j] = Now.gateways[j].port
        /\ Now = before.memory.config
    <2>1. memory = before.memory /\ registry = before.registry
      BY ONLY <1>2, <1>3 DEF StoreShape
    <2>2. InForce(before)
      BY ONLY <1>2, <1>3 DEF BeforeShape
    <2>3. i \in Names(target)
      BY ONLY <1>1, <1>3 DEF TodoShape
    <2> QED
      BY <2>1, <2>2, <2>3 DEF InForce, Now, TypeOK
  <1> DEFINE old == Now.gateways[i]
             new == target.gateways[i]
             moved == old # Absent /\ old.port # new.port
             begun == new.auto /\ (old = Absent \/ ~old.auto)
  <1>5. /\ i \in before.registry <=> old # Absent
        /\ new.port \in Ports
    <2>1. Now \in Configs
      BY DEF TypeOK, Stored, Now
    <2> QED
      BY <1>4, <2>1, ConfigTyped
  <1>6. /\ i \notin Noted /\ Same(i)
        /\ i \notin before.registry => port[i] = new.port
        /\ i \in before.registry => broken \/ port[i] = old.port
    <2>1. i \notin Noted
      BY ONLY <1>1, <1>3 DEF TodoShape
    <2>2. Same(i)
      BY ONLY <1>2, <1>3, <2>1, i \in Ids DEF UntouchedShape
    <2>3. i \notin before.registry => port[i] = new.port
      BY ONLY <1>1, <1>3 DEF DoneShape
    <2> QED
      BY <1>4, <2>1, <2>2, <2>3 DEF Same
  <1>7. target' = target /\ before' = before /\ broken' = broken
    BY <1>1
  <1>d. ASSUME pc' = "rollback" \/ (pc' = "change" /\ todo' = todo \ {i}),
               \A j \in Ids \ {i} : runs'[j] = runs[j] /\ port'[j] = port[j] /\ intent'[j] = intent[j],
               pc' = "change" =>
                  /\ broken \/ port'[i] = new.port
                  /\ IF moved THEN runs'[i] = IF intent'[i] THEN new.port ELSE NoPort
                     ELSE IF begun THEN runs'[i] = port'[i] /\ intent'[i]
                     ELSE runs'[i] = before.runs[i] /\ intent'[i] = before.intent[i]
        PROVE  DoneShape'
    <2>1. CASE pc' = "rollback"
      BY <2>1 DEF DoneShape, Late
    <2>2. CASE pc' = "change"
      <3>1. todo \subseteq Ids /\ Names(target) \subseteq Ids
        BY DEF TypeOK, Names
      <3>2. todo' = todo \ {i} /\ ~Late'
        BY <1>d, <2>2 DEF Late
      <3>3. Applied(i)'
        BY <1>4, <1>7, <1>d, <2>2 DEF Applied
      <3>4. \A j \in Names(target) : j # i /\ Applied(j) => Applied(j)'
        BY ONLY <1>7, <1>d, <3>1 DEF Applied
      <3> HIDE DEF moved, begun, old, new
      <3> QED
        BY ONLY <1>1, <1>3, <1>7, <1>d, <2>2, <3>1, <3>2, <3>3, <3>4 DEF DoneShape
    <2> QED
      BY <1>d, <2>1, <2>2
  <1>a. ASSUME NEW outcomes, NEW e \in Entry, Attempt(i, outcomes, e),
               e.id = i, e.kind = "restore" <=> i \in before.registry,
               e.says = says[i], e.port = port[i], e.intent = intent[i],
               \A o \in outcomes : Effect(i, o) /\ Found(i, o) /\ (o.ok =>
                  /\ broken \/ o.port = new.port
                  /\ moved \/ begun
                  /\ IF moved THEN o.runs = IF o.intent THEN new.port ELSE NoPort
                              ELSE o.runs = o.port /\ o.intent)
        PROVE  TransactionInvariant'
    <2>1. PICK o \in outcomes : /\ Effect(i, o) /\ Becomes(i, o)
                                /\ o.ok => pc' = pc /\ todo' = todo \ {i}
                                /\ ~o.ok => pc' = "rollback" /\ todo' = todo
      BY <1>a, AttemptTyped
    <2>2. undo' = Append(undo, e)
      BY <1>a DEF Attempt
    <2>3. /\ BeforeShape' /\ IdleShape' /\ StoreShape' /\ SocketShape' /\ UndoShape' /\ TodoShape'
          /\ UntouchedShape' /\ PortShape' /\ LockShape' /\ FreeShape'
      <3>1. Found(i, o)
        BY <1>a, <2>1
      <3> HIDE DEF moved, begun, old, new
      <3> QED
        BY <1>1, <1>a, <2>1, <2>2, <3>1, AttemptKeeps
    <2>4. /\ runs'[i] = o.runs /\ port'[i] = o.port /\ intent'[i] = o.intent
          /\ \A j \in Ids \ {i} : runs'[j] = runs[j] /\ port'[j] = port[j] /\ intent'[j] = intent[j]
      BY <2>1, BecomesFields
    <2>5. DoneShape'
      <3>1. o.ok \in BOOLEAN
        BY <2>1 DEF Effect, Whole
      <3>2. pc' = "change" => o.ok
        BY ONLY <2>1, <3>1
      <3>3. pc' = "rollback" \/ (pc' = "change" /\ todo' = todo \ {i})
        BY ONLY <1>1, <2>1, <3>1
      <3> HIDE DEF moved, begun, old, new
      <3>4. pc' = "change" =>
               /\ broken \/ port'[i] = new.port
               /\ IF moved THEN runs'[i] = IF intent'[i] THEN new.port ELSE NoPort
                  ELSE IF begun THEN runs'[i] = port'[i] /\ intent'[i]
                  ELSE runs'[i] = before.runs[i] /\ intent'[i] = before.intent[i]
        BY ONLY <1>a, <2>4, <3>2
      <3> QED
        BY <1>d, <2>4, <3>3, <3>4
    <2> QED
      BY <2>3, <2>5 DEF TransactionInvariant
  <1>8. /\ Before(i) \in Entry /\ [Before(i) EXCEPT !.kind = "stop"] \in Entry
        /\ LET e == Before(i) IN /\ e.id = i /\ e.kind = "restore" /\ e.says = says[i]
                                 /\ e.port = port[i] /\ e.intent = intent[i]
        /\ LET e == [Before(i) EXCEPT !.kind = "stop"] IN
           /\ e.id = i /\ e.kind = "stop" /\ e.says = says[i] /\ e.port = port[i]
           /\ e.intent = intent[i]
    BY EntryTyped
  <1>9. \A o \in StartGateway(i) : /\ Effect(i, o) /\ Found(i, o) /\ o.port = port[i]
                                   /\ o.ok => o.runs = o.port /\ o.intent
    BY StartEffect
  <1>10. CASE Skip(i) /\ ~moved /\ ~begun
    <2>1. pc' = pc /\ todo' = todo \ {i} /\ UNCHANGED <<procs, undo, faults>>
      BY <1>10 DEF Skip
    <2>2. UNCHANGED <<procs, undo, before, target, broken>>
      BY <1>7, <2>1
    <2>3. BeforeShape' /\ IdleShape'
      BY <1>1, <1>2, <1>3, <2>1, BeforeKept DEF Busy
    <2>4. UndoShape' /\ UntouchedShape' /\ PortShape' /\ LockShape' /\ FreeShape' /\ Noted' = Noted
      <3>1. /\ pc' # "listen" /\ pc' # "failed" /\ ~Back' /\ Forward'
        BY <1>1, <2>1 DEF Back, Forward, Late
      <3> HIDE DEF moved, begun, old, new
      <3> QED
        BY <1>2, <1>3, <2>2, <3>1, QuietKept
    <2>5. StoreShape' /\ SocketShape'
      <3>1. /\ file' = file /\ memory' = memory /\ registry' = registry /\ listeners' = listeners
            /\ open' = open /\ started' = started
        BY <1>1, <2>1 DEF stores, socks, procs
      <3>2. Missing(target)' = Missing(target) /\ Taken(target)' = Taken(target)
        BY ONLY <1>7, <3>1 DEF Missing, Taken
      <3> QED
        BY ONLY <1>1, <1>3, <1>7, <2>1, <3>1, <3>2
           DEF StoreShape, SocketShape, Early, Late, Busy, Forward, Back
    <2>6. TodoShape'
      BY ONLY <1>1, <1>3, <1>7, <2>1, <2>4 DEF TodoShape
    <2>7. DoneShape'
      <3>1. runs' = runs /\ port' = port /\ intent' = intent
        BY <2>1 DEF procs
      <3>2. broken \/ port[i] = new.port
        BY <1>5, <1>6, <1>10
      <3>3. runs[i] = before.runs[i] /\ intent[i] = before.intent[i]
        BY <1>6 DEF Same
      <3> HIDE DEF moved, begun, old, new
      <3> QED
        BY <1>1, <1>10, <1>d, <2>1, <3>1, <3>2, <3>3
    <2> QED
      BY <2>3, <2>4, <2>5, <2>6, <2>7 DEF TransactionInvariant
  <1>11. CASE old = Absent /\ begun /\ Attempt(i, StartGateway(i), [Before(i) EXCEPT !.kind = "stop"])
    <2>1. i \notin before.registry /\ ~moved
      BY <1>5, <1>11
    <2>2. \A o \in StartGateway(i) : o.port = new.port
      BY <1>6, <1>9, <2>1
    <2> HIDE DEF new, moved, begun
    <2> QED
      BY <1>8, <1>9, <1>11, <1>a, <2>1, <2>2
  <1>12. CASE moved /\ Attempt(i, Reconfigure(i, new.port), Before(i))
    <2>1. i \in before.registry
      BY <1>5, <1>12
    <2>2. \A o \in Reconfigure(i, new.port) :
             /\ Effect(i, o) /\ Found(i, o) /\ o.intent = intent[i]
             /\ o.ok => o.port = new.port /\ o.runs = IF intent[i] THEN new.port ELSE NoPort
      BY <1>5, ReconfigureEffect
    <2> HIDE DEF new, moved, begun
    <2> QED
      BY <1>8, <1>12, <1>a, <2>1, <2>2
  <1>13. CASE old # Absent /\ ~moved /\ begun /\ Attempt(i, StartGateway(i), Before(i))
    <2>1. i \in before.registry
      BY <1>5, <1>13
    <2>2. \A o \in StartGateway(i) : broken \/ o.port = new.port
      BY <1>6, <1>9, <1>13, <2>1
    <2> HIDE DEF new, moved, begun
    <2> QED
      BY <1>8, <1>9, <1>13, <1>a, <2>1, <2>2
  <1> QED
    BY <1>10, <1>11, <1>12, <1>13, ChangeIsAttempt

\* A removed instance is stopped: the second loop.
LEMMA RemoveKeeps ==
    ASSUME TypeOK, TransactionInvariant, NEW i \in Ids, Remove(i)
    PROVE  TransactionInvariant'
  <1>1. /\ pc = "remove" /\ i \in todo /\ Attempt(i, StopGateway(i, FALSE), Before(i))
        /\ UNCHANGED <<stores, socks, boots, closing, target, started, before, broken, crashes>>
    BY DEF Remove, Lowest
  <1>2. TodoShape /\ DoneShape
    BY DEF TransactionInvariant
  <1>3. i \in before.registry \ Names(target)
    BY <1>1, <1>2 DEF TodoShape
  <1>4. \A o \in StopGateway(i, FALSE) : Effect(i, o) /\ Found(i, o) /\ (o.ok => o.runs = NoPort /\ ~o.intent)
    BY StopEffect
  <1>5. Before(i) \in Entry
    BY EntryTyped
  <1>6. PICK o \in StopGateway(i, FALSE) : /\ Effect(i, o) /\ Becomes(i, o)
                                           /\ o.ok => pc' = pc /\ todo' = todo \ {i}
                                           /\ ~o.ok => pc' = "rollback" /\ todo' = todo
    BY <1>1, <1>4, <1>5, AttemptTyped
  <1>7. undo' = Append(undo, Before(i))
    BY <1>1 DEF Attempt
  <1>8. /\ BeforeShape' /\ IdleShape' /\ StoreShape' /\ SocketShape' /\ UndoShape' /\ TodoShape'
        /\ UntouchedShape' /\ PortShape' /\ LockShape' /\ FreeShape'
    <2>1. LET e == Before(i) IN /\ e.id = i /\ e.kind = "restore" /\ e.says = says[i]
                                /\ e.port = port[i] /\ e.intent = intent[i]
      BY EntryTyped
    <2>2. PICK e \in Entry : /\ e = Before(i) /\ e.id = i /\ e.kind = "restore" /\ e.says = says[i]
                             /\ e.port = port[i] /\ e.intent = intent[i]
      BY <1>5, <2>1
    <2>3. Found(i, o)
      BY <1>4, <1>6
    <2> QED
      BY <1>1, <1>3, <1>6, <1>7, <2>2, <2>3, AttemptKeeps
  <1>9. /\ runs'[i] = o.runs /\ port'[i] = o.port /\ intent'[i] = o.intent
        /\ \A j \in Ids \ {i} : runs'[j] = runs[j] /\ port'[j] = port[j] /\ intent'[j] = intent[j]
    BY <1>6, BecomesFields
  <1>10. DoneShape'
    <2>1. o.ok \in BOOLEAN
      BY <1>6 DEF Effect, Whole
    <2>2. CASE ~o.ok
      BY <1>6, <2>2 DEF DoneShape, Late
    <2>3. CASE o.ok
      <3>1. pc' = "remove" /\ todo' = todo \ {i} /\ runs'[i] = NoPort /\ ~intent'[i]
        BY <1>1, <1>4, <1>6, <1>9, <2>3
      <3>2. Names(target) \subseteq Ids /\ before.registry \subseteq Ids
        BY <1>1 DEF TransactionInvariant, BeforeShape, Busy, InForce, Names
      <3>3. target' = target /\ before' = before /\ broken' = broken /\ ~Late'
        BY <1>1, <3>1 DEF Late
      <3>4. \A j \in Names(target) : Applied(j) => Applied(j)'
        BY ONLY <1>3, <1>9, <3>2, <3>3 DEF Applied
      <3> QED
        BY ONLY <1>1, <1>2, <1>3, <1>9, <3>1, <3>2, <3>3, <3>4 DEF DoneShape
    <2> QED
      BY <2>1, <2>2, <2>3
  <1> QED
    BY <1>8, <1>10 DEF TransactionInvariant

-----------------------------------------------------------------------------
(* An undo.                                                                *)

\* The last entry is given back what it had, or what its manager said: as no
\* undo failed, its process is its own, and nobody has taken the port on which
\* it was: the undo loop of applyConfig.
LEMMA UndoKeeps ==
    ASSUME TypeOK, TransactionInvariant, Undo
    PROVE  TransactionInvariant'
  <1> USE DEF stores, socks
  <1>1. /\ pc = "undo" /\ pc' = "undo" /\ undo # <<>> /\ undo' = UndoNext[2]
        /\ file' = file /\ memory' = memory /\ listeners' = listeners /\ open' = open
        /\ closing' = closing /\ target' = target /\ started' = started /\ before' = before
        /\ todo' = todo /\ crashes' = crashes
    BY DEF Undo
  <1>2. PICK n \in Nat \ {0}, e \in Entry, i \in Ids :
        /\ DOMAIN undo = 1..n /\ DOMAIN undo' = 1..(n - 1) /\ \A k \in 1..(n - 1) : undo'[k] = undo[k]
        /\ e = undo[n] /\ i = e.id /\ UndoNext[1] = e
    BY <1>1, UndoNextTyped
  <1>3. PICK o \in IF e.kind = "stop" THEN StopGateway(i, FALSE) ELSE RestoreConfiguration(i, e) :
            Becomes(i, o) /\ broken' = (broken \/ (~o.ok /\ ~o.due))
    BY <1>2 DEF Undo
  <1>4. Effect(i, o)
    BY StopEffect, RestoreEffect
  <1>5. /\ runs'[i] = o.runs /\ port'[i] = o.port /\ intent'[i] = o.intent /\ registry' = registry
        /\ \A j \in Ids \ {i} : /\ runs'[j] = runs[j] /\ port'[j] = port[j]
                                /\ intent'[j] = intent[j] /\ owned'[j] = owned[j]
    BY <1>3, <1>4, BecomesFields
  <1>6. (broken => broken') /\ (~broken' => o.ok \/ o.due)
    BY ONLY <1>3, Zenon
  <1>7. /\ UndoShape /\ UntouchedShape /\ PortShape /\ FreeShape /\ StoreShape /\ SocketShape
        /\ BeforeShape /\ TodoShape /\ DoneShape /\ LockShape
    BY DEF TransactionInvariant
  <1>8. /\ Busy /\ Busy' /\ ~Forward /\ ~Forward' /\ Back /\ Back' /\ ~Late /\ ~Late' /\ Early /\ Early'
    BY <1>1 DEF Busy, Forward, Back, Late, Early
  <1>9. /\ \A k, l \in 1..n : k # l => undo[k].id # undo[l].id
        /\ e.kind = "restore" <=> i \in before.registry
        /\ e.intent = before.intent[i]
        /\ i \in before.registry => e.port = before.port[i] /\ e.says = before.says[i]
    <2>1. n \in 1..n
      BY <1>2
    <2> QED
      BY ONLY <1>2, <1>7, <1>8, <2>1 DEF UndoShape
  <1>10. \A k \in 1..(n - 1) : k \in 1..n /\ k # n /\ undo[k].id # i /\ undo[k].id \in Ids
    <2>1. \A k \in 1..(n - 1) : k \in 1..n /\ n \in 1..n /\ k # n
      BY <1>2
    <2>2. \A k \in 1..(n - 1) : undo[k].id # i
      BY ONLY <1>2, <1>9, <2>1
    <2>3. \A k \in 1..n : undo[k] \in Entry
      BY <1>2, ElementOfSeq, LenProperties DEF TypeOK
    <2> QED
      BY <2>1, <2>2, <2>3 DEF Entry
  <1>11. /\ i \notin Noted' /\ \A j : j \in Noted <=> j \in Noted' \/ j = i
         /\ \A j \in Noted' : \E k \in 1..(n - 1) : undo[k].id = j
    <2>1. \A j : j \in Noted <=> \E k \in 1..n : undo[k].id = j
      BY <1>2 DEF Noted
    <2>2. \A j : j \in Noted' <=> \E k \in 1..(n - 1) : undo[k].id = j
      BY <1>2 DEF Noted
    <2>3. \A k \in 1..n : k \in 1..(n - 1) \/ k = n
      BY <1>2
    <2>4. n \in 1..n
      BY <1>2
    <2> QED
      BY ONLY <1>2, <1>10, <2>1, <2>2, <2>3, <2>4
  <1>12. \A j \in Ids \ Noted : Restored(j)
    BY ONLY <1>7, <1>8 DEF UntouchedShape
  <1>13. /\ runs[i] \in {NoPort, port[i]} \/ (/\ runs[i] = before.runs[i]
                                              /\ i \in before.registry => port[i] = before.port[i])
         /\ Foreign(Manager(i)) <=> runs[i] \notin {NoPort, port[i]}
         /\ owned[i] \/ runs[i] \in {NoPort, before.runs[i]}
         /\ Left(i) \in {NoPort, before.runs[i]}
    <2>1. Foreign(Manager(i)) <=> runs[i] \notin {NoPort, port[i]}
      BY DEF Foreign, Manager
    <2>2. runs[i] \in {NoPort, port[i]} \/ (/\ runs[i] = before.runs[i]
                                            /\ i \in before.registry => port[i] = before.port[i])
      BY ONLY <1>7, <1>8, i \in Ids DEF PortShape
    <2>3. owned[i] \/ runs[i] \in {NoPort, before.runs[i]}
      BY ONLY <1>7, <1>8, <1>11 DEF LockShape
    <2> QED
      BY ONLY <2>1, <2>2, <2>3 DEF Left
  <1>22. ASSUME i \notin before.registry
         PROVE  /\ Restored(i)'
                /\ \/ o.runs \in {NoPort, o.port} \/ (o.runs = runs[i] /\ o.port = port[i])
                   \/ i \in before.registry /\ o.runs = before.runs[i] /\ o.port = before.port[i]
    <2>1. o \in StopGateway(i, FALSE)
      BY <1>2, <1>3, <1>9, <1>22 DEF Entry
    <2>2. /\ Found(i, o)
          /\ o.ok => o.runs = NoPort
          /\ ~o.ok /\ o.due => Foreign(Manager(i))
      BY <2>1, StopEffect
    <2>3. ~broken' /\ Settled(before) => o.runs = before.runs[i]
      <3>1. Settled(before) => before.runs[i] = NoPort
        BY <1>22 DEF Settled
      <3> QED
        BY ONLY <1>6, <1>13, <2>2, <3>1
    <2>4. Restored(i)'
      BY ONLY <1>1, <1>5, <1>22, <2>3 DEF Restored, Settled
    <2>5. /\ o.runs \in {NoPort, o.port} \/ (o.runs = runs[i] /\ o.port = port[i])
      BY <2>2 DEF Found
    <2> QED
      BY ONLY <2>4, <2>5
  <1>23. ASSUME i \in before.registry
         PROVE  /\ Restored(i)'
                /\ \/ o.runs \in {NoPort, o.port} \/ (o.runs = runs[i] /\ o.port = port[i])
                   \/ i \in before.registry /\ o.runs = before.runs[i] /\ o.port = before.port[i]
    <2>1. o \in RestoreConfiguration(i, e)
      BY <1>3, <1>9, <1>23
    <2>2. e.port = before.port[i] /\ e.says = before.says[i] /\ e.intent = before.intent[i]
      BY ONLY <1>9, <1>23
    <2>3. /\ \/ o.runs \in {NoPort, o.port}
             \/ o.runs = runs[i] /\ o.port = port[i]
             \/ ~owned[i] /\ o.runs = runs[i] /\ o.port = e.port
          /\ o.ok => o.due
          /\ o.due => \/ owned[i] /\ Foreign(Manager(i)) /\ o.port = port[i]
                      \/ /\ o.port = e.port /\ o.intent = e.intent
                         /\ e.says = {} => o.runs = Left(i)
                         /\ e.says # {} => \/ o.runs = e.port
                                           \/ /\ o.runs = Left(i)
                                              /\ \/ Left(i) \notin {NoPort, e.port}
                                                 \/ ~Free(i, e.port)
      BY <2>1, RestoreEffect
    <2>4. ~broken' => o.due /\ ~broken
      BY ONLY <1>6, <2>3
    <2>5. ~broken' => o.port = before.port[i]
      BY ONLY <1>13, <1>23, <2>2, <2>3, <2>4
    <2>6. ~broken' /\ Settled(before) =>
             o.runs \in {before.runs[i], Reported(before, i)} /\ o.intent = before.intent[i]
      <3>1. SUFFICES ASSUME ~broken', Settled(before)
                     PROVE  o.runs \in {before.runs[i], Reported(before, i)} /\ o.intent = before.intent[i]
        OBVIOUS
      <3>2. \A j \in Ids : before.runs[j] # NoPort => j \in before.registry /\ before.runs[j] = before.port[j]
        BY <3>1 DEF Settled
      <3>3. ~Foreign(Manager(i))
        BY ONLY <1>13, <1>23, <3>2, i \in Ids
      <3>4. /\ o.port = e.port /\ o.intent = e.intent
            /\ e.says = {} => o.runs = Left(i)
            /\ e.says # {} => \/ o.runs = e.port
                              \/ /\ o.runs = Left(i)
                                 /\ \/ Left(i) \notin {NoPort, e.port}
                                    \/ ~Free(i, e.port)
        BY ONLY <2>3, <2>4, <3>1, <3>3
      <3>5. before.runs[i] # NoPort => Free(i, e.port)
        <4>1. SUFFICES ASSUME before.runs[i] # NoPort, NEW j \in Ids \ {i} PROVE runs[j] # e.port
          BY DEF Free
        <4>2. e.port = before.runs[i]
          BY ONLY <2>2, <3>2, <4>1, i \in Ids
        <4>3. CASE j \in Noted
          <5>1. PICK k \in 1..(n - 1) : undo[k].id = j
            BY ONLY <1>11, <4>1, <4>3
          <5>2. \A l \in 1..k : l \in 1..(n - 1)
            BY <1>2
          <5>3. \A l \in 1..k : undo[l].id # i
            BY ONLY <1>10, <5>2
          <5>4. runs[j] = NoPort \/ runs[j] # before.runs[i]
            BY ONLY <1>2, <1>7, <1>8, <1>10, <2>4, <3>1, <5>1, <5>3, i \in Ids DEF FreeShape
          <5> QED
            BY ONLY <4>1, <4>2, <5>4
        <4>4. CASE j \notin Noted
          <5>1. \/ runs[j] = before.runs[j]
                \/ j \in before.registry /\ runs[j] \in {before.runs[j], Reported(before, j)}
            BY ONLY <1>12, <2>4, <3>1, <4>1, <4>4 DEF Restored
          <5>2. before.runs[i] # before.runs[j]
            BY ONLY <1>7, <1>8, <4>1, i \in Ids DEF BeforeShape
          <5>3. j \in before.registry => before.port[j] # before.port[i]
            <6>1. before.memory.config \in Configs /\ InForce(before)
              BY <1>7, <1>8 DEF BeforeShape, Snapshot, Stored
            <6>2. /\ before.registry = Names(before.memory.config)
                  /\ \A l \in before.registry : before.port[l] = before.memory.config.gateways[l].port
              BY <2>4, <3>1, <6>1 DEF InForce
            <6> QED
              BY <1>23, <4>1, <6>1, <6>2, ConfigTyped
          <5> QED
            BY ONLY <2>2, <4>1, <4>2, <5>1, <5>2, <5>3 DEF Reported
        <4> QED
          BY <4>3, <4>4
      <3>6. before.runs[i] # NoPort => before.runs[i] = e.port
        BY ONLY <2>2, <3>2, i \in Ids
      <3> QED
        BY ONLY <1>13, <2>2, <3>4, <3>5, <3>6 DEF Reported
    <2>7. Restored(i)'
      BY ONLY <1>1, <1>5, <1>23, <2>5, <2>6 DEF Restored, Settled, Reported
    <2>8. \/ o.runs \in {NoPort, o.port} \/ (o.runs = runs[i] /\ o.port = port[i])
          \/ o.runs = before.runs[i] /\ o.port = before.port[i]
      BY ONLY <1>13, <2>2, <2>3
    <2> QED
      BY ONLY <1>23, <2>7, <2>8
  <1>14. /\ Restored(i)'
         /\ \/ o.runs \in {NoPort, o.port} \/ (o.runs = runs[i] /\ o.port = port[i])
            \/ i \in before.registry /\ o.runs = before.runs[i] /\ o.port = before.port[i]
    BY ONLY <1>22, <1>23
  <1>16. BeforeShape' /\ IdleShape'
    BY <1>1, <1>6, <1>7, <1>8, BeforeKept
  <1>17. StoreShape' /\ SocketShape' /\ TodoShape' /\ DoneShape'
    <2> HIDE DEF stores, socks
    <2> QED
      BY ONLY <1>1, <1>5, <1>7, <1>8 DEF StoreShape, SocketShape, TodoShape, DoneShape
  <1>18. UndoShape'
    <2>1. \A k, l \in 1..(n - 1) : k # l => undo'[k].id # undo'[l].id
      BY ONLY <1>2, <1>9, <1>10
    <2>2. \A k \in 1..n :
             /\ undo[k].id \in before.registry \cup Names(target)
             /\ undo[k].kind = "restore" <=> undo[k].id \in before.registry
             /\ undo[k].intent = before.intent[undo[k].id]
             /\ undo[k].id \in before.registry =>
                   undo[k].port = before.port[undo[k].id] /\ undo[k].says = before.says[undo[k].id]
      BY ONLY <1>2, <1>7, <1>8 DEF UndoShape
    <2>3. \A k \in 1..(n - 1) :
             /\ undo'[k].id \in before.registry \cup Names(target)
             /\ undo'[k].kind = "restore" <=> undo'[k].id \in before.registry
             /\ undo'[k].intent = before.intent[undo'[k].id]
             /\ undo'[k].id \in before.registry =>
                   undo'[k].port = before.port[undo'[k].id] /\ undo'[k].says = before.says[undo'[k].id]
      BY ONLY <1>2, <1>10, <2>2
    <2> QED
      BY ONLY <1>1, <1>2, <2>1, <2>3 DEF UndoShape
  <1>19. UntouchedShape'
    <2>1. ASSUME NEW j \in Ids \ Noted', j # i PROVE Restored(j)'
      <3>1. Restored(j)
        BY ONLY <1>11, <1>12, <2>1
      <3> QED
        BY ONLY <1>1, <1>5, <1>6, <2>1, <3>1 DEF Restored, Settled, Reported
    <2>2. \A j \in Ids \ Noted' : Restored(j)'
      BY ONLY <1>14, <2>1
    <2> QED
      BY ONLY <1>1, <1>8, <2>2 DEF UntouchedShape
  <1>20. PortShape'
    BY ONLY <1>1, <1>5, <1>7, <1>8, <1>14 DEF PortShape
  <1>24. LockShape'
    <2>1. \A j \in Noted' : j \in Ids \ {i} /\ j \in Noted
      BY ONLY <1>10, <1>11
    <2> QED
      BY ONLY <1>1, <1>5, <1>7, <1>8, <2>1 DEF LockShape
  <1>21. FreeShape'
    <2>1. SUFFICES ASSUME ~broken', Settled(before), NEW k \in 1..(n - 1), NEW j \in Ids,
                          \A l \in 1..k : undo'[l].id # j
                   PROVE  runs'[undo'[k].id] = NoPort \/ runs'[undo'[k].id] # before.runs[j]
      BY <1>1, <1>2 DEF FreeShape
    <2>2. \A l \in 1..k : l \in 1..(n - 1)
      BY <1>2
    <2>3. \A l \in 1..k : undo[l].id # j
      BY ONLY <1>2, <2>1, <2>2
    <2>4. runs[undo[k].id] = NoPort \/ runs[undo[k].id] # before.runs[j]
      BY ONLY <1>2, <1>6, <1>7, <1>8, <1>10, <2>1, <2>3 DEF FreeShape
    <2> QED
      BY ONLY <1>2, <1>5, <1>10, <2>4
  <1> QED
    BY <1>16, <1>17, <1>18, <1>19, <1>20, <1>21, <1>24 DEF TransactionInvariant

-----------------------------------------------------------------------------
(* The theorems.                                                           *)

\* The types and the invariant hold for ever: a transaction's undo stack always
\* says how to get back to where it began.
THEOREM TransactionInvariantHolds == Spec => [](TypeOK /\ TransactionInvariant)
  <1>1. Init => TypeOK /\ TransactionInvariant
    <2> SUFFICES ASSUME Init PROVE TypeOK /\ TransactionInvariant
      OBVIOUS
    <2>1. TypeOK
      BY TypedInitially
    <2>2. Serving /\ pc = "idle"
      BY ServingInitially DEF Init
    <2>3. InForce(State) /\ (~closing => Carries(listeners, Now) /\ open = listeners)
      <3>1. /\ State.file = file /\ State.memory = memory /\ State.registry = registry
            /\ State.port = port /\ State.runs = runs
        BY DEF State
      <3> QED
        BY <2>2, <3>1 DEF Serving, InForce, Settled, Now
    <2>4. ~Busy /\ ~Early /\ ~Late /\ ~Forward /\ ~Back
      BY <2>2 DEF Busy, Early, Late, Forward, Back
    <2>5. BeforeShape /\ IdleShape /\ StoreShape /\ SocketShape /\ PortShape /\ TodoShape /\ DoneShape
      BY <2>2, <2>3, <2>4
         DEF BeforeShape, IdleShape, StoreShape, SocketShape, PortShape, TodoShape, DoneShape
    <2>6. UntouchedShape /\ LockShape /\ FreeShape /\ UndoShape
      BY <2>2, <2>4 DEF UntouchedShape, LockShape, FreeShape, UndoShape
    <2> QED
      BY <2>1, <2>5, <2>6 DEF TransactionInvariant
  <1>2. TypeOK /\ TransactionInvariant /\ [Next]_vars => (TypeOK /\ TransactionInvariant)'
    <2> SUFFICES ASSUME TypeOK, TransactionInvariant, [Next]_vars
                 PROVE  (TypeOK /\ TransactionInvariant)'
      OBVIOUS
    <2>1. TypeOK'
      BY Typed DEF TransactionInvariant, TodoShape
    <2>2. TransactionInvariant'
      <3>1. CASE UNCHANGED vars
        <4> USE <3>1 DEF vars, stores, procs, socks, work, bounds
        <4>1. Noted' = Noted /\ (Busy' <=> Busy) /\ (Early' <=> Early) /\ (Late' <=> Late)
              /\ (Forward' <=> Forward) /\ (Back' <=> Back) /\ State' = State /\ Now' = Now
          BY DEF Noted, Busy, Early, Late, Forward, Back, State, Now
        <4>2. BeforeShape' /\ StoreShape' /\ SocketShape'
          BY <4>1 DEF TransactionInvariant, BeforeShape, StoreShape, SocketShape, InForce, Missing, Taken
        <4>3. IdleShape'
          BY <4>1 DEF TransactionInvariant, IdleShape, InForce
        <4>4. UndoShape' /\ TodoShape' /\ DoneShape'
          BY <4>1 DEF TransactionInvariant, UndoShape, TodoShape, DoneShape, Applied
        <4>5. UntouchedShape' /\ PortShape' /\ LockShape' /\ FreeShape'
          BY <4>1 DEF TransactionInvariant, UntouchedShape, Same, Restored, PortShape, LockShape, FreeShape
        <4> QED
          BY ONLY <4>2, <4>3, <4>4, <4>5 DEF TransactionInvariant
      <3> QED
        BY ONLY TypeOK, TransactionInvariant, [Next]_vars, <3>1, ApplyKeeps, IdleKeeps, ChangeKeeps,
           RemoveKeeps, ListenKeeps, PassingKeeps, CommitKeeps, UndoKeeps, ReturnKeeps, ServeKeeps
           DEF Next
    <2> QED
      BY <2>1, <2>2
  <1> QED
    BY <1>1, <1>2, PTL DEF Spec

\* The types, and no two instances' processes on one port: the ports that the
\* managers check before they launch.
THEOREM TransactionTyped == Spec => []TypeOK
  BY TransactionInvariantHolds, PTL

\* Between operations the service's memory, its file and its managers are of one
\* configuration, and its listeners have its addresses and schemes, and the
\* shared one its certificate: applyConfig, whichever way it ended, the rotation
\* of the token, the end of the service and its start.
THEOREM ConfigurationInForce == Spec => []FileIsMemory
  <1>1. TypeOK /\ TransactionInvariant => FileIsMemory
    BY ServingIsShape DEF FileIsMemory, Serving
  <1> QED
    BY <1>1, TransactionInvariantHolds, PTL

\* Between operations no process runs that no manager looks after, unless an
\* undo failed or the service crashed: the removal of an instance, the undo of a
\* start and the automatic start that comes late.
THEOREM NoProcessLeftBehind == Spec => []OnlyRegisteredRun
  <1>1. TypeOK /\ TransactionInvariant => OnlyRegisteredRun
    BY ServingIsShape DEF OnlyRegisteredRun, Serving
  <1> QED
    BY <1>1, TransactionInvariantHolds, PTL

\* applyConfig that fails, at whichever step, leaves what there was: the file,
\* the memory, the registry, the listeners, and every instance's port and
\* intent; an instance has the process that it had, or is what its manager's
\* Status said, which is what restoreConfiguration goes by.
THEOREM FailureIsUndone == Spec => []FailureRestores
  <1>1. TypeOK /\ TransactionInvariant => FailureRestores
    <2> SUFFICES ASSUME TypeOK, TransactionInvariant, pc = "failed", ~broken, Settled(before)
                 PROVE  /\ <<file, memory, registry>> = <<before.file, before.memory, before.registry>>
                        /\ <<listeners, open>> = <<before.listeners, before.open>>
                        /\ \A i \in registry : /\ port[i] = before.port[i]
                                               /\ intent[i] = before.intent[i]
                                               /\ runs[i] \in {before.runs[i], Reported(before, i)}
                        /\ \A i \in Ids \ registry : runs[i] = NoPort
      BY DEF FailureRestores
    <2>1. UndoShape /\ UntouchedShape /\ StoreShape /\ SocketShape
      BY DEF TransactionInvariant
    <2>2. Noted = {}
      BY <2>1 DEF UndoShape, Noted
    <2>3. /\ file = before.file /\ memory = before.memory /\ registry = before.registry
          /\ listeners = before.listeners /\ open = before.open
      BY <2>1 DEF StoreShape, SocketShape, Early, Busy, Back
    <2>4. \A j \in Ids : Restored(j)
      BY <2>1, <2>2 DEF UntouchedShape, Back
    <2>5. \A i \in Ids : before.runs[i] # NoPort => i \in before.registry
      BY DEF Settled
    <2>6. registry \subseteq Ids
      BY DEF TypeOK
    <2> QED
      BY <2>3, <2>4, <2>5, <2>6 DEF Restored
  <1> QED
    BY <1>1, TransactionInvariantHolds, PTL

\* applyConfig that succeeds has put all of the new configuration in force: the
\* file, the memory, the registry, the listeners and the ports; a moved instance
\* runs on its new port, if it is to be connected, an added one or one that is
\* now to start automatically runs, a removed one has no process and is not to
\* have one, and the others are as they were.
THEOREM SuccessIsComplete == Spec => []SuccessApplies
  <1>1. TypeOK /\ TransactionInvariant => SuccessApplies
    <2> SUFFICES ASSUME TypeOK, TransactionInvariant, pc = "ok" PROVE SuccessApplies
      BY DEF SuccessApplies
    <2>1. StoreShape /\ SocketShape /\ DoneShape
      BY DEF TransactionInvariant
    <2>2. /\ memory = file /\ file = [before.memory EXCEPT !.config = target] /\ registry = Names(target)
          /\ Carries(listeners, target) /\ open = listeners
      BY <2>1 DEF StoreShape, SocketShape, Late, Busy
    <2>3. /\ \A i \in Names(target) : Applied(i)
          /\ \A i \in before.registry \ Names(target) : runs[i] = NoPort /\ ~intent[i]
      BY <2>1 DEF DoneShape, Late
    <2> QED
      BY <2>2, <2>3 DEF SuccessApplies
  <1> QED
    BY <1>1, TransactionInvariantHolds, PTL
=============================================================================
