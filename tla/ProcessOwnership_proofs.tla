----------------------- MODULE ProcessOwnership_proofs -----------------------
(***************************************************************************)
(* The properties of ProcessOwnership for any number of managers, PIDs and *)
(* unrelated processes.                                                    *)
(*                                                                         *)
(* A Java that counts was launched by a manager that waits for it, or has  *)
(* the port, where every manager finds it, and no record that is there     *)
(* hides it.  What a manager notes of a process group stays true only as   *)
(* long as the PID of a dead wrapper is not used again.                    *)
(***************************************************************************)
EXTENDS ProcessOwnership, FiniteSetTheorems, TLAPS

\* The process table: one process has the port, and a wrapper has one Java.
ProcShape ==
    /\ \A p \in Pids :
          /\ proc[p].kind = "free" => ~proc[p].port /\ proc[p].group = NoPid
          /\ proc[p].kind = "wrapper" => ~proc[p].port
          /\ proc[p].kind \in {"wrapper", "stranger"} => proc[p].group = p
          /\ proc[p].kind = "java" => proc[p].group \in Pids
    /\ \A p, q \in Pids : proc[p].port /\ proc[q].port => p = q
    /\ \A p, q \in Pids :
          proc[p].kind = "java" /\ proc[q].kind = "java" /\ proc[p].group = proc[q].group => p = q
    /\ \A p, w \in Pids :
          proc[p].kind = "java" /\ proc[w].kind = "wrapper" /\ proc[p].group = w => proc[w].spawned

\* The process of a record still has its PID, it has ended, or the PID was given
\* to another.
Awaited(r) ==
    /\ r.pid \in Pids /\ r.lives <= proc[r.pid].lives
    /\ r.lives = proc[r.pid].lives => proc[r.pid].kind \in {"free", "java"}

\* What an operation in progress works on.
WorkShape == \A m \in Managers :
    /\ pc[m] = "stopping" =>
          target[m].pid \in Pids /\ proc[target[m].pid].kind \in {"free", "java"}
    /\ pc[m] \in {"waiting", "replacing"} => Awaited(target[m])
    /\ pc[m] \in {"launching", "starting"} => record = NoRecord
    /\ pc[m] = "starting" =>
          /\ cmd[m] \in Pids /\ ~stopped
          /\ \A r \in reapers : r.phase = "waiting" => r.wrapper # cmd[m]

\* A wrapper without its Java yet, but for an orphan, is being waited for.
WrapperShape == \A w \in Pids :
    proc[w].kind = "wrapper" /\ ~proc[w].orphan /\ ~proc[w].spawned =>
        \E m \in Managers : pc[m] = "starting" /\ cmd[m] = w

\* Where the Java that counts is.
JavaShape ==
    /\ \A m \in Managers :
          /\ pc[m] = "starting" => \A p \in Javas : proc[p].group = cmd[m]
          /\ pc[m] = "launching" => Javas = {}
          /\ pc[m] \in {"stopping", "waiting", "replacing"} => Javas \subseteq {target[m].pid}
    /\ (\A m \in Managers : pc[m] # "starting") =>
          \A p \in Javas :
             proc[p].port /\ (record = NoRecord \/ (record.pid = p /\ record.lives = proc[p].lives))

OwnershipInvariant == ProcShape /\ WorkShape /\ WrapperShape /\ JavaShape /\ StoppedMeansGone

\* The wrappers noted in the record, by a manager that started them, and by one
\* that stops them.  Each is there or gone, but no stranger has its PID.
Stopping == {m \in Managers : pc[m] = "stopping"}
Noted == {record.wrapper} \cup {cmd[m] : m \in Managers} \cup {target[m].wrapper : m \in Stopping}
NotedShape == \A w \in Noted \cap Pids : proc[w].kind # "stranger"

-----------------------------------------------------------------------------
(* The process table.                                                      *)

\* Processes end or lose their manager, and none appears.
Dwindles ==
    /\ proc' \in [Pids -> Process]
    /\ \A p \in Pids : proc'[p].lives = proc[p].lives
    /\ \A p \in Pids :
          \/ /\ proc'[p].kind = "free" /\ ~proc'[p].port /\ proc'[p].group = NoPid
             /\ ~proc'[p].orphan /\ ~proc'[p].spawned
          \/ /\ proc'[p].kind = proc[p].kind /\ proc'[p].port = proc[p].port
             /\ proc'[p].group = proc[p].group /\ proc'[p].spawned = proc[p].spawned
             /\ proc[p].orphan => proc'[p].orphan

\* A process that ended is free, and its PID is still told apart from the next
\* use of it: the start time in the record.
LEMMA EndedFields ==
    ASSUME TypeOK, NEW p \in Pids
    PROVE  LET e == Ended(p) IN
           /\ e \in Process /\ e.kind = "free" /\ ~e.port /\ e.group = NoPid /\ ~e.spawned /\ ~e.orphan
           /\ e.lives = proc[p].lives
  <1>1. proc[p] \in Process
    BY DEF TypeOK
  <1> QED
    BY <1>1 DEF Ended, Process, Kinds

\* A new process has a PID that was free.
LEMMA BornFields ==
    ASSUME TypeOK, NEW p \in Pids, Available(p), NEW kind \in Kinds, NEW group \in Pids \cup {NoPid},
           NEW orphan \in BOOLEAN
    PROVE  LET b == Born(p, kind, group, orphan) IN
           /\ b \in Process /\ b.kind = kind /\ ~b.port /\ b.group = group /\ ~b.spawned
           /\ b.orphan = orphan
  <1>1. proc[p].lives + 1 \in 0..MaxLives
    <2>1. proc[p] \in Process /\ proc[p].lives < MaxLives
      BY DEF TypeOK, Available
    <2>2. proc[p].lives \in 0..MaxLives /\ MaxLives \in Nat
      BY <2>1, NamesAssumption DEF Process
    <2> QED
      BY <2>1, <2>2
  <1> QED
    BY <1>1 DEF Born, Process

\* The ways in which processes end: alone, with their group, or both at once;
\* and a group without a manager.
LEMMA WaysToDwindle ==
    ASSUME TypeOK, NEW gs, NEW g, NEW q \in Pids \cup {NoPid},
           \/ proc' = proc \/ proc' = Killed(gs) \/ proc' = Orphaned(g)
           \/ proc' = [proc EXCEPT ![q] = Ended(q)] \/ proc' = [Killed(gs) EXCEPT ![q] = Ended(q)]
    PROVE  Dwindles
  <1>1. \A p \in Pids : proc[p] \in Process /\ [proc[p] EXCEPT !.orphan = TRUE] \in Process
    <2>1. \A p \in Pids : proc[p] \in Process
      BY DEF TypeOK
    <2>2. \A s \in Process : [s EXCEPT !.orphan = TRUE] \in Process
      BY ONLY DEF Process
    <2> QED
      BY <2>1, <2>2
  <1>2. \A p \in Pids : LET e == Ended(p) IN
           /\ e \in Process /\ e.kind = "free" /\ ~e.port /\ e.group = NoPid /\ ~e.spawned /\ ~e.orphan
           /\ e.lives = proc[p].lives
    BY EndedFields
  <1>3. \A p \in Pids : LET o == [proc[p] EXCEPT !.orphan = TRUE] IN
           /\ o.kind = proc[p].kind /\ o.port = proc[p].port /\ o.group = proc[p].group
           /\ o.spawned = proc[p].spawned /\ o.lives = proc[p].lives /\ o.orphan
    BY <1>1 DEF Process
  <1>4. /\ DOMAIN proc' = Pids
        /\ proc' = [p \in Pids |-> proc'[p]]
        /\ \A p \in Pids : proc'[p] \in {proc[p], Ended(p), [proc[p] EXCEPT !.orphan = TRUE]}
    <2>1. proc = [p \in Pids |-> proc[p]]
      BY DEF TypeOK
    <2>2. CASE proc' = proc
      BY <2>1, <2>2
    <2>3. CASE proc' = Killed(gs)
      BY <2>3 DEF Killed
    <2>4. CASE proc' = Orphaned(g)
      BY <2>4 DEF Orphaned
    <2>5. CASE proc' = [proc EXCEPT ![q] = Ended(q)]
      BY <2>1, <2>5
    <2>6. CASE proc' = [Killed(gs) EXCEPT ![q] = Ended(q)]
      BY <2>6 DEF Killed
    <2> QED
      BY <2>2, <2>3, <2>4, <2>5, <2>6
  <1>5. proc' \in [Pids -> Process]
    <2>1. \A p \in Pids : Ended(p) \in Process
      BY ONLY <1>2
    <2>2. \A p \in Pids : proc'[p] \in Process
      BY ONLY <1>1, <1>4, <2>1
    <2> QED
      BY ONLY <1>4, <2>2
  <1>6. ASSUME NEW p \in Pids
        PROVE  /\ proc'[p].lives = proc[p].lives
               /\ \/ /\ proc'[p].kind = "free" /\ ~proc'[p].port /\ proc'[p].group = NoPid
                     /\ ~proc'[p].orphan /\ ~proc'[p].spawned
                  \/ /\ proc'[p].kind = proc[p].kind /\ proc'[p].port = proc[p].port
                     /\ proc'[p].group = proc[p].group /\ proc'[p].spawned = proc[p].spawned
                     /\ proc[p].orphan => proc'[p].orphan
    <2>1. CASE proc'[p] = proc[p]
      BY ONLY <2>1
    <2>2. CASE proc'[p] = Ended(p)
      BY ONLY <1>2, <2>2, p \in Pids
    <2>3. CASE proc'[p] = [proc[p] EXCEPT !.orphan = TRUE]
      BY ONLY <1>3, <2>3, p \in Pids
    <2> QED
      BY <1>4, <2>1, <2>2, <2>3
  <1> QED
    BY <1>5, <1>6 DEF Dwindles

\* Then the table keeps its shape, and what is there was there.
LEMMA DwindlingKeeps ==
    ASSUME TypeOK, ProcShape, Dwindles
    PROVE  /\ ProcShape'
           /\ \A p \in Pids : proc'[p].kind \in {"free", proc[p].kind} /\ proc'[p].lives = proc[p].lives
           /\ \A p \in Javas' : /\ p \in Javas /\ proc'[p].port = proc[p].port
                                /\ proc'[p].group = proc[p].group /\ proc'[p].lives = proc[p].lives
           /\ \A w \in Pids : proc'[w].kind = "wrapper" /\ ~proc'[w].orphan /\ ~proc'[w].spawned =>
                 proc[w].kind = "wrapper" /\ ~proc[w].orphan /\ ~proc[w].spawned
  <1>1. \A p \in Pids :
          /\ proc'[p].lives = proc[p].lives
          /\ \/ /\ proc'[p].kind = "free" /\ ~proc'[p].port /\ proc'[p].group = NoPid
                /\ ~proc'[p].orphan /\ ~proc'[p].spawned
             \/ /\ proc'[p].kind = proc[p].kind /\ proc'[p].port = proc[p].port
                /\ proc'[p].group = proc[p].group /\ proc'[p].spawned = proc[p].spawned
                /\ proc[p].orphan => proc'[p].orphan
    BY DEF Dwindles
  <1>2. ProcShape'
    BY ONLY <1>1, ProcShape DEF ProcShape
  <1>3. \A p \in Javas' : /\ p \in Javas /\ proc'[p].port = proc[p].port
                          /\ proc'[p].group = proc[p].group /\ proc'[p].lives = proc[p].lives
    BY ONLY <1>1 DEF Javas
  <1> QED
    BY ONLY <1>1, <1>2, <1>3

-----------------------------------------------------------------------------
(* What the holder of the lock finds.                                      *)

\* Whoever takes the lock is alone: acquireProcessLock.
LEMMA LockIsAlone ==
    ASSUME TypeOK, NEW m \in Managers,
           (pc[m] = "idle" /\ lock \in {Nobody, m}) \/ pc[m] \notin {"idle", "down"}
    PROVE  \A n \in Managers \ {m} : pc[n] \in {"idle", "down"}
  BY NamesAssumption DEF TypeOK

\* A process that is recorded or found by its port is the one Java that counts,
\* if there is one: loadOrRecoverOwnedProcess.
LEMMA WhatIsFound ==
    ASSUME TypeOK, OwnershipInvariant, \A m \in Managers : pc[m] # "starting"
    PROVE  /\ \A r \in Found : /\ r \in Record /\ r.pid \in Pids /\ Javas \subseteq {r.pid}
                               /\ proc[r.pid].kind = "java" /\ proc[r.pid].port
                               /\ r.lives = proc[r.pid].lives
                               /\ r.wrapper \in {NoPid, record.wrapper}
           /\ LoadMisses => Javas = {}
  <1>1. \A p \in Javas :
          proc[p].port /\ (record = NoRecord \/ (record.pid = p /\ record.lives = proc[p].lives))
    BY DEF OwnershipInvariant, JavaShape
  <1>2. record \in Record /\ Javas \subseteq Pids /\ \A p \in Pids : proc[p].lives \in 0..MaxLives
    BY DEF TypeOK, Javas, Process
  <1>3. \A p, q \in Pids : proc[p].port /\ proc[q].port => p = q
    BY DEF OwnershipInvariant, ProcShape
  <1>4. CASE record # NoRecord
    <2>1. Found = Recorded
      BY <1>4 DEF Found
    <2>2. \A r \in Found : r = record /\ Alive(record.pid) /\ Valid(record)
      BY <2>1 DEF Recorded
    <2>3. \A p \in Javas : record.pid = p
      BY <1>1, <1>4
    <2>4. Alive(record.pid) => record.pid \in Pids
      BY <1>2 DEF Alive, Record
    <2>5. LoadMisses => ~Alive(record.pid)
      BY <2>1 DEF LoadMisses, LoadRefuses, Recorded
    <2>6. \A p \in Javas : Alive(p)
      BY <1>2, NamesAssumption DEF Javas, Alive
    <2>7. ASSUME LoadMisses PROVE Javas = {}
      BY <2>3, <2>5, <2>6, <2>7
    <2>8. \A r \in Found : Owned(r.pid) /\ proc[r.pid].lives = r.lives
      BY <2>2 DEF Valid
    <2> QED
      BY <1>2, <2>2, <2>3, <2>4, <2>7, <2>8 DEF Owned
  <1>5. CASE record = NoRecord
    <2>1. Found = {NewRecord(p, NoPid) : p \in {q \in Pids : Owned(q)}}
      BY <1>5 DEF Found
    <2>2. ASSUME NEW r \in Found
          PROVE  /\ r \in Record /\ r.pid \in Pids /\ Javas \subseteq {r.pid}
                 /\ proc[r.pid].kind = "java" /\ proc[r.pid].port
                 /\ r.lives = proc[r.pid].lives
                 /\ r.wrapper \in {NoPid, record.wrapper}
      <3>1. PICK p \in Pids : Owned(p) /\ r = NewRecord(p, NoPid)
        BY <2>1
      <3>2. r \in Record /\ r.pid = p /\ r.lives = proc[p].lives /\ r.wrapper = NoPid
        BY <1>2, <3>1 DEF NewRecord, Record
      <3>3. Javas \subseteq {p}
        BY <1>1, <1>2, <1>3, <3>1 DEF Owned
      <3> QED
        BY <3>1, <3>2, <3>3 DEF Owned
    <2>3. ASSUME LoadMisses PROVE Javas = {}
      <3>1. Found = {}
        BY <2>3 DEF LoadMisses
      <3>2. \A p \in Pids : ~Owned(p)
        BY <2>1, <3>1
      <3> QED
        BY <1>1, <1>2, <3>2 DEF Owned, Javas
    <2> QED
      BY <2>2, <2>3
  <1> QED
    BY <1>4, <1>5

-----------------------------------------------------------------------------
(* Types.                                                                  *)

\* No record is a record.
LEMMA NoRecordTyped == NoRecord \in Record /\ NoRecord.wrapper = NoPid /\ NoRecord.pid = NoPid
  <1>1. 0 \in 0..MaxLives
    BY NamesAssumption
  <1> QED
    BY <1>1 DEF NoRecord, Record

\* The initial states are of the types.
LEMMA TypedInitially == Init => TypeOK
  <1> SUFFICES ASSUME Init PROVE TypeOK
    OBVIOUS
  <1>1. 0 \in 0..MaxLives
    BY NamesAssumption
  <1>2. proc \in [Pids -> Process]
    BY <1>1 DEF Init, Process, Kinds
  <1>3. lock = Nobody /\ record = NoRecord /\ cmd \in [Managers -> Pids \cup {NoPid}] /\ reapers = {}
        /\ \A m \in Managers : pc[m] = "idle"
    BY DEF Init
  <1>4. pc \in [Managers -> Steps]
    BY DEF Init, Steps
  <1>5. target \in [Managers -> Record]
    BY NoRecordTyped DEF Init
  <1>6. stopped \in BOOLEAN
    BY Zenon DEF Init
  <1> QED
    BY <1>2, <1>3, <1>4, <1>5, <1>6, NoRecordTyped DEF TypeOK

\* A step of a manager that takes the lock or has it keeps the types of what
\* is its own.
LEMMA ManagerTyped ==
    ASSUME TypeOK, NEW m \in Managers, NEW step \in Steps \ {"down"},
           (pc[m] = "idle" /\ lock \in {Nobody, m}) \/ pc[m] \notin {"idle", "down"},
           lock' = m, pc' = [pc EXCEPT ![m] = step],
           proc' \in [Pids -> Process], record' \in Record, cmd' \in [Managers -> Pids \cup {NoPid}],
           target' \in [Managers -> Record], reapers' \subseteq Reaper, stopped' \in BOOLEAN
    PROVE  TypeOK'
  <1>1. \A n \in Managers \ {m} : pc[n] \in {"idle", "down"}
    BY LockIsAlone
  <1>2. pc' \in [Managers -> Steps]
    BY DEF TypeOK
  <1>3. \A n \in Managers : pc'[n] \notin {"idle", "down"} => lock' = n
    BY <1>1 DEF TypeOK
  <1>4. lock' \in Managers \cup {Nobody}
    OBVIOUS
  <1> QED
    BY ONLY <1>2, <1>3, <1>4, proc' \in [Pids -> Process], record' \in Record,
       cmd' \in [Managers -> Pids \cup {NoPid}], target' \in [Managers -> Record],
       reapers' \subseteq Reaper, stopped' \in BOOLEAN
       DEF TypeOK

\* The types are kept: every operation in progress has the lock.
LEMMA Typed ==
    ASSUME TypeOK, [Next]_vars, \A m \in Managers : pc[m] = "starting" => cmd[m] \in Pids
    PROVE  TypeOK'
  <1>a. /\ proc \in [Pids -> Process] /\ record \in Record /\ cmd \in [Managers -> Pids \cup {NoPid}]
        /\ target \in [Managers -> Record] /\ reapers \subseteq Reaper /\ stopped \in BOOLEAN
        /\ \A m \in Managers : pc[m] \notin {"idle", "down"} => lock = m
        /\ pc \in [Managers -> Steps]
    BY DEF TypeOK
  <1>b. Dwindles => proc' \in [Pids -> Process]
    BY DEF Dwindles
  <1>c. \A p \in Pids : \A w \in Pids \cup {NoPid} : NewRecord(p, w) \in Record
    BY <1>a DEF NewRecord, Record, Process
  <1>d. Found \subseteq Record
    BY <1>a, <1>c DEF Found, Recorded
  <1>e. \A m \in Managers : [target EXCEPT ![m] = NoRecord] \in [Managers -> Record]
    BY <1>a, NoRecordTyped
  <1>f. \A m \in Managers : pc[m] = "idle" => pc = [pc EXCEPT ![m] = "idle"]
    BY <1>a
  <1>1. ASSUME NEW m \in Managers, StopFinds(m) PROVE TypeOK'
    <2>1. PICK r \in Found : record' = r /\ target' = [target EXCEPT ![m] = r]
      BY <1>1 DEF StopFinds
    <2>2. cmd' \in [Managers -> Pids \cup {NoPid}] /\ target' \in [Managers -> Record] /\ record' \in Record
      BY <1>1, <1>a, <1>d, <2>1 DEF StopFinds
    <2> QED
      BY <1>1, <1>a, <2>2, ManagerTyped DEF StopFinds, Acquire, Goto, Steps
  <1>2. ASSUME NEW m \in Managers, StopMisses(m) PROVE TypeOK'
    <2>1. proc' = Killed({cmd[m]}) \/ proc' = proc
      BY <1>2 DEF StopMisses
    <2>2. proc' \in [Pids -> Process]
      BY <1>b, <2>1, WaysToDwindle
    <2>3. cmd' \in [Managers -> Pids \cup {NoPid}] /\ stopped' \in BOOLEAN
      BY <1>2, <1>a DEF StopMisses
    <2> QED
      BY <1>2, <1>a, <1>f, <2>2, <2>3, NoRecordTyped, ManagerTyped DEF StopMisses, Acquire, Steps
  <1>3. ASSUME NEW m \in Managers, StopRefused(m) PROVE TypeOK'
    <2>1. cmd' \in [Managers -> Pids \cup {NoPid}]
      BY <1>3, <1>a DEF StopRefused
    <2> QED
      BY <1>3, <1>a, <1>f, <2>1, ManagerTyped DEF StopRefused, Acquire, Steps
  <1>4. ASSUME NEW m \in Managers, StopEnds(m) PROVE TypeOK'
    <2>1. target[m].pid \in Pids \cup {NoPid}
      BY <1>a DEF Record
    <2>2. \E gs : proc' = [Killed(gs) EXCEPT ![target[m].pid] = Ended(target[m].pid)]
      BY <1>4 DEF StopEnds
    <2>3. proc' \in [Pids -> Process]
      BY <1>b, <2>1, <2>2, WaysToDwindle
    <2>4. stopped' \in BOOLEAN
      BY <1>4, Zenon DEF StopEnds
    <2> QED
      BY <1>4, <1>a, <1>e, <2>3, <2>4, NoRecordTyped, ManagerTyped DEF StopEnds, Goto, Steps
  <1>5. ASSUME NEW m \in Managers, TerminateFails(m) PROVE TypeOK'
    BY <1>5, <1>a, <1>e, ManagerTyped DEF TerminateFails, Goto, Steps
  <1>6. ASSUME NEW m \in Managers, StartFinds(m) PROVE TypeOK'
    <2>1. PICK r \in Found : record' = r /\ target' = [target EXCEPT ![m] = r]
      BY <1>6 DEF StartFinds
    <2>2. target' \in [Managers -> Record] /\ record' \in Record
      BY <1>a, <1>d, <2>1
    <2> QED
      BY <1>6, <1>a, <2>2, ManagerTyped DEF StartFinds, Acquire, Goto, Steps
  <1>7. ASSUME NEW m \in Managers, StartReuses(m) \/ StartReplaces(m) PROVE TypeOK'
    <2>1. stopped' \in BOOLEAN
      BY <1>7, <1>a, Zenon DEF StartReuses, StartReplaces
    <2>2. lock' = m /\ pc[m] = "waiting"
      BY <1>7, <1>a DEF StartReuses, StartReplaces
    <2>3. PICK step \in Steps \ {"down"} : pc' = [pc EXCEPT ![m] = step]
      BY <1>7 DEF StartReuses, StartReplaces, Goto, Steps
    <2>4. target' \in [Managers -> Record] /\ UNCHANGED <<proc, record, cmd, reapers>>
      BY <1>7, <1>a, <1>e DEF StartReuses, StartReplaces
    <2> QED
      BY <1>a, <2>1, <2>2, <2>3, <2>4, ManagerTyped
  <1>8. ASSUME NEW m \in Managers, Replaced(m) PROVE TypeOK'
    <2>1. target[m].pid \in Pids \cup {NoPid}
      BY <1>a DEF Record
    <2>2. proc' \in [Pids -> Process]
      BY <1>8, <1>b, <2>1, WaysToDwindle DEF Replaced
    <2> QED
      BY <1>8, <1>a, <1>e, <2>2, NoRecordTyped, ManagerTyped DEF Replaced, Goto, Steps
  <1>9. ASSUME NEW m \in Managers, StartMisses(m) PROVE TypeOK'
    BY <1>9, <1>a, NoRecordTyped, ManagerTyped DEF StartMisses, Acquire, Goto, Steps
  <1>10. ASSUME NEW m \in Managers, StartRefused(m) PROVE TypeOK'
    BY <1>10, <1>a, <1>f, ManagerTyped DEF StartRefused, Acquire, Steps
  <1>11. ASSUME NEW m \in Managers, LaunchFails(m) PROVE TypeOK'
    BY <1>11, <1>a, ManagerTyped DEF LaunchFails, Goto, Steps
  <1>12. ASSUME NEW m \in Managers, Launch(m) PROVE TypeOK'
    <2>1. PICK w \in Pids : /\ Available(w) /\ proc' = [proc EXCEPT ![w] = Born(w, LaunchedKind, w, FALSE)]
                            /\ cmd' = [cmd EXCEPT ![m] = w]
      BY <1>12 DEF Launch
    <2>2. proc' \in [Pids -> Process]
      BY <1>a, <2>1, BornFields DEF Kinds, LaunchedKind
    <2>3. stopped' \in BOOLEAN
      BY <1>12, Zenon DEF Launch
    <2>4. cmd' \in [Managers -> Pids \cup {NoPid}]
      BY <1>a, <2>1
    <2> QED
      BY <1>12, <1>a, <2>2, <2>3, <2>4, ManagerTyped DEF Launch, Goto, Steps
  <1>13. ASSUME NEW m \in Managers, Started(m) PROVE TypeOK'
    <2>1. PICK p \in Pids :
            /\ record' = NewRecord(p, cmd[m])
            /\ proc' = proc \/ proc' = Orphaned(cmd[m])
            /\ reapers' = reapers \cup {[manager |-> m, wrapper |-> cmd[m], java |-> p, phase |-> "waiting"]}
      BY <1>13 DEF Started
    <2>2. proc' \in [Pids -> Process] /\ record' \in Record
      BY <1>a, <1>b, <1>c, <2>1, WaysToDwindle
    <2>3. cmd[m] \in Pids
      BY <1>13 DEF Started
    <2>4. reapers' \subseteq Reaper
      BY <1>a, <2>1, <2>3 DEF Reaper
    <2> QED
      BY <1>13, <1>a, <2>2, <2>4, ManagerTyped DEF Started, Goto, Steps
  <1>14. ASSUME NEW m \in Managers, StartAborted(m) PROVE TypeOK'
    <2>1. proc' \in [Pids -> Process]
      BY <1>14, <1>b, WaysToDwindle DEF StartAborted
    <2> QED
      BY <1>14, <1>a, <2>1, NoRecordTyped, ManagerTyped DEF StartAborted, Goto, Steps
  <1>15. ASSUME NEW m \in Managers, Detach(m) PROVE TypeOK'
    <2>1. \A n \in Managers : pc[n] \in {"idle", "down"}
      BY <1>15, LockIsAlone DEF Detach
    <2> QED
      BY <1>15, <2>1 DEF Detach, TypeOK
  <1>16. ASSUME NEW m \in Managers, ManagerDies(m) PROVE TypeOK'
    <2>1. proc' \in [Pids -> Process]
      BY <1>16, <1>b, WaysToDwindle DEF ManagerDies
    <2>2. /\ pc' \in [Managers -> Steps]
          /\ pc'[m] = "down" /\ \A n \in Managers \ {m} : pc'[n] = pc[n]
      BY <1>16, <1>a DEF ManagerDies, Goto, Steps
    <2>3. lock' \in Managers \cup {Nobody} /\ \A n \in Managers \ {m} : lock = n => lock' = n
      BY <1>16 DEF ManagerDies, TypeOK
    <2>4. \A n \in Managers : pc'[n] \notin {"idle", "down"} => lock' = n
      BY ONLY <1>a, <2>2, <2>3
    <2>5. cmd' \in [Managers -> Pids \cup {NoPid}] /\ target' \in [Managers -> Record]
          /\ reapers' \subseteq Reaper /\ record' = record /\ stopped' = stopped
      BY <1>16, <1>a, <1>e DEF ManagerDies
    <2> QED
      BY ONLY <1>a, <2>1, <2>2, <2>3, <2>4, <2>5 DEF TypeOK
  <1>17. ASSUME NEW m \in Managers, NewManager(m) PROVE TypeOK'
    BY <1>17 DEF NewManager, Goto, TypeOK, Steps
  <1>18. ASSUME NEW r \in reapers, ReaperWakes(r) PROVE TypeOK'
    <2>1. r \in Reaper
      BY <1>a
    <2>2. [r EXCEPT !.phase = "removing"] \in Reaper /\ r.manager \in Managers
      BY <2>1 DEF Reaper
    <2>3. reapers' \subseteq Reaper
      BY <1>18, <1>a, <2>2 DEF ReaperWakes
    <2>4. cmd' \in [Managers -> Pids \cup {NoPid}]
      BY <1>18, <1>a DEF ReaperWakes
    <2> QED
      BY <1>18, <2>3, <2>4 DEF ReaperWakes, TypeOK
  <1>19. ASSUME NEW r \in reapers, ReaperRemoves(r) PROVE TypeOK'
    BY <1>19, NoRecordTyped DEF ReaperRemoves, TypeOK
  <1>20. ASSUME NEW w \in Pids, JavaSpawned(w) PROVE TypeOK'
    <2>1. PICK j \in Pids : /\ Available(j)
                            /\ proc' = [proc EXCEPT ![j] = Born(j, "java", w, proc[w].orphan), ![w].spawned = TRUE]
      BY <1>20 DEF JavaSpawned
    <2>2. proc[w].orphan \in BOOLEAN /\ \A q \in Process : [q EXCEPT !.spawned = TRUE] \in Process
      BY <1>a DEF Process
    <2>3. Born(j, "java", w, proc[w].orphan) \in Process
      BY <2>1, <2>2, BornFields DEF Kinds
    <2>4. proc' \in [Pids -> Process]
      BY ONLY <1>a, <2>1, <2>2, <2>3
    <2> QED
      BY <1>20, <2>4 DEF JavaSpawned, World, TypeOK
  <1>21. ASSUME NEW j \in Pids, JavaListens(j) PROVE TypeOK'
    <2>1. \A q \in Process : [q EXCEPT !.port = TRUE] \in Process
      BY DEF Process
    <2>2. proc' \in [Pids -> Process]
      BY <1>21, <1>a, <2>1 DEF JavaListens
    <2> QED
      BY <1>21, <2>2 DEF JavaListens, World, TypeOK
  <1>22. ASSUME NEW p \in Pids, GatewayDies(p) \/ StrangerEnds(p) PROVE TypeOK'
    <2>1. proc' \in [Pids -> Process]
      BY <1>22, <1>b, WaysToDwindle DEF GatewayDies, StrangerEnds
    <2> QED
      BY <1>22, <2>1 DEF GatewayDies, StrangerEnds, World, TypeOK
  <1>23. ASSUME NEW p \in Pids, NEW port \in BOOLEAN, StrangerStarts(p, port) PROVE TypeOK'
    <2>1. Available(p) /\ proc' = [proc EXCEPT ![p] = [Born(p, "stranger", p, FALSE) EXCEPT !.port = port]]
      BY <1>23 DEF StrangerStarts
    <2>2. Born(p, "stranger", p, FALSE) \in Process
      BY <2>1, BornFields DEF Kinds
    <2>3. [Born(p, "stranger", p, FALSE) EXCEPT !.port = port] \in Process
      BY ONLY <2>2, port \in BOOLEAN DEF Process
    <2>4. proc' \in [Pids -> Process]
      BY <1>a, <2>1, <2>3
    <2> QED
      BY <1>23, <2>4 DEF StrangerStarts, World, TypeOK
  <1>24. CASE UNCHANGED vars
    BY <1>24 DEF vars, TypeOK
  <1> QED
    BY ONLY [Next]_vars, <1>1, <1>2, <1>3, <1>4, <1>5, <1>6, <1>7, <1>8, <1>9, <1>10, <1>11, <1>12, <1>13,
       <1>14, <1>15, <1>16, <1>17, <1>18, <1>19, <1>20, <1>21, <1>22, <1>23, <1>24 DEF Next

-----------------------------------------------------------------------------
(* The invariant: what the operations of a manager do to it.               *)

\* When all operations have ended, everything is said of the Java that is left.
LEMMA AllRest ==
    ASSUME TypeOK, OwnershipInvariant, Dwindles, \A n \in Managers : pc'[n] \in {"idle", "down"},
           \A w \in Pids : proc'[w].kind = "wrapper" /\ ~proc'[w].orphan => proc'[w].spawned,
           \A p \in Javas' :
              proc'[p].port /\ (record' = NoRecord \/ (record'.pid = p /\ record'.lives = proc'[p].lives)),
           stopped' => Javas' = {}
    PROVE  OwnershipInvariant'
  <1>1. ProcShape'
    BY DwindlingKeeps DEF OwnershipInvariant
  <1>2. WorkShape' /\ WrapperShape'
    BY DEF WorkShape, WrapperShape
  <1>3. JavaShape'
    BY DEF JavaShape
  <1> QED
    BY <1>1, <1>2, <1>3 DEF OwnershipInvariant, StoppedMeansGone

\* A step at which no operation goes on, but one may end that launched nothing,
\* leaves what is said of the others.
LEMMA Bystander ==
    ASSUME TypeOK, OwnershipInvariant, Dwindles,
           \A n \in Managers :
              \/ pc'[n] = pc[n] /\ target'[n] = target[n] /\ (pc[n] = "starting" => cmd'[n] = cmd[n])
              \/ pc[n] # "starting" /\ pc'[n] \in {"idle", "down"},
           record' \in {record, NoRecord}, stopped' = stopped,
           \A r \in reapers' : r.phase = "waiting" => r \in reapers
    PROVE  OwnershipInvariant'
  <1>1. /\ ProcShape'
        /\ \A p \in Pids : proc'[p].kind \in {"free", proc[p].kind} /\ proc'[p].lives = proc[p].lives
        /\ \A p \in Javas' : /\ p \in Javas /\ proc'[p].port = proc[p].port
                             /\ proc'[p].group = proc[p].group /\ proc'[p].lives = proc[p].lives
        /\ \A w \in Pids : proc'[w].kind = "wrapper" /\ ~proc'[w].orphan /\ ~proc'[w].spawned =>
              proc[w].kind = "wrapper" /\ ~proc[w].orphan /\ ~proc[w].spawned
    BY DwindlingKeeps DEF OwnershipInvariant
  <1>2. WorkShape /\ WrapperShape /\ JavaShape /\ StoppedMeansGone
    BY DEF OwnershipInvariant
  <1>3. WorkShape'
    BY ONLY <1>1, <1>2, stopped' = stopped, record' \in {record, NoRecord},
       \A n \in Managers :
              \/ pc'[n] = pc[n] /\ target'[n] = target[n] /\ (pc[n] = "starting" => cmd'[n] = cmd[n])
              \/ pc[n] # "starting" /\ pc'[n] \in {"idle", "down"},
       \A r \in reapers' : r.phase = "waiting" => r \in reapers
       DEF WorkShape, Awaited
  <1>4. WrapperShape'
    BY ONLY <1>1, <1>2,
       \A n \in Managers :
              \/ pc'[n] = pc[n] /\ target'[n] = target[n] /\ (pc[n] = "starting" => cmd'[n] = cmd[n])
              \/ pc[n] # "starting" /\ pc'[n] \in {"idle", "down"}
       DEF WrapperShape
  <1>5. (\A m \in Managers : pc'[m] # "starting") => \A m \in Managers : pc[m] # "starting"
    BY ONLY \A n \in Managers :
              \/ pc'[n] = pc[n] /\ target'[n] = target[n] /\ (pc[n] = "starting" => cmd'[n] = cmd[n])
              \/ pc[n] # "starting" /\ pc'[n] \in {"idle", "down"}
  <1>6. JavaShape'
    BY ONLY <1>1, <1>2, <1>5, record' \in {record, NoRecord},
       \A n \in Managers :
              \/ pc'[n] = pc[n] /\ target'[n] = target[n] /\ (pc[n] = "starting" => cmd'[n] = cmd[n])
              \/ pc[n] # "starting" /\ pc'[n] \in {"idle", "down"}
       DEF JavaShape
  <1>7. StoppedMeansGone'
    BY ONLY <1>1, <1>2, stopped' = stopped DEF StoppedMeansGone
  <1> QED
    BY <1>1, <1>3, <1>4, <1>6, <1>7 DEF OwnershipInvariant

\* The holder of the lock goes on to wait for or to terminate what it found,
\* which is all there is, or to launch, where nothing is.
LEMMA GoesOn ==
    ASSUME TypeOK, OwnershipInvariant, Dwindles, NEW m \in Managers,
           \A n \in Managers : pc[n] # "starting",
           \A n \in Managers \ {m} : pc'[n] \in {"idle", "down"},
           \/ /\ pc'[m] = "stopping" /\ Javas' \subseteq {target'[m].pid}
              /\ target'[m].pid \in Pids /\ proc'[target'[m].pid].kind \in {"free", "java"}
           \/ /\ pc'[m] \in {"waiting", "replacing"} /\ Javas' \subseteq {target'[m].pid}
              /\ Awaited(target[m])'
           \/ pc'[m] = "launching" /\ Javas' = {} /\ record' = NoRecord,
           \A p \in Javas' : record' = NoRecord \/ (record'.pid = p /\ record'.lives = proc'[p].lives),
           stopped' => Javas' = {}
    PROVE  OwnershipInvariant'
  <1>1. /\ ProcShape'
        /\ \A p \in Javas' : p \in Javas /\ proc'[p].port = proc[p].port
        /\ \A w \in Pids : proc'[w].kind = "wrapper" /\ ~proc'[w].orphan /\ ~proc'[w].spawned =>
              proc[w].kind = "wrapper" /\ ~proc[w].orphan /\ ~proc[w].spawned
    BY DwindlingKeeps DEF OwnershipInvariant
  <1>2. WrapperShape /\ JavaShape
    BY DEF OwnershipInvariant
  <1>3. \A n \in Managers : pc'[n] # "starting"
    OBVIOUS
  <1>4. WorkShape'
    BY <1>3 DEF WorkShape
  <1>5. WrapperShape'
    BY ONLY <1>1, <1>2, \A n \in Managers : pc[n] # "starting" DEF WrapperShape
  <1>6. \A p \in Javas' : proc'[p].port
    BY <1>1, <1>2 DEF JavaShape
  <1>7. JavaShape'
    BY <1>3, <1>6 DEF JavaShape
  <1> QED
    BY <1>1, <1>4, <1>5, <1>7 DEF OwnershipInvariant, StoppedMeansGone

\* The Java that counts does not appear where nothing is launched.
LEMMA StillThere ==
    ASSUME TypeOK, OwnershipInvariant, \A n \in Managers : pc[n] # "starting", Dwindles
    PROVE  /\ \A w \in Pids : proc'[w].kind = "wrapper" /\ ~proc'[w].orphan => proc'[w].spawned
           /\ \A p \in Javas' : /\ p \in Javas /\ proc'[p].port
                                /\ record = NoRecord \/ (record.pid = p /\ record.lives = proc'[p].lives)
  BY DwindlingKeeps DEF OwnershipInvariant, WrapperShape, JavaShape

\* stopProcess: what it terminated, or did not find, was all there was.
LEMMA StopKeeps ==
    ASSUME TypeOK, OwnershipInvariant, NEW m \in Managers,
           StopFinds(m) \/ StopMisses(m) \/ StopRefused(m) \/ StopEnds(m) \/ TerminateFails(m)
    PROVE  OwnershipInvariant'
  <1>a. target \in [Managers -> Record] /\ pc \in [Managers -> Steps]
    BY DEF TypeOK
  <1>b. \A n \in Managers \ {m} : pc[n] \in {"idle", "down"}
    BY LockIsAlone DEF StopFinds, StopMisses, StopRefused, StopEnds, TerminateFails, Acquire
  <1>c. \A n \in Managers : pc[n] # "starting"
    BY <1>b DEF StopFinds, StopMisses, StopRefused, StopEnds, TerminateFails, Acquire
  <1>1. CASE StopFinds(m)
    <2>1. PICK r \in Found : record' = r /\ target' = [target EXCEPT ![m] = r]
      BY <1>1 DEF StopFinds
    <2>2. /\ Javas \subseteq {r.pid} /\ r.pid \in Pids /\ proc[r.pid].kind = "java"
          /\ r.lives = proc[r.pid].lives
      BY <1>c, WhatIsFound
    <2>3. Dwindles
      BY <1>1, WaysToDwindle DEF StopFinds
    <2>4. /\ proc' = proc /\ Javas' = Javas /\ target'[m] = r /\ pc'[m] = "stopping"
          /\ \A n \in Managers \ {m} : pc'[n] = pc[n]
          /\ stopped' = stopped
      BY <1>1, <1>a, <2>1 DEF StopFinds, Goto, Javas
    <2>5. stopped' => Javas' = {}
      BY <2>4 DEF OwnershipInvariant, StoppedMeansGone
    <2>6. \A p \in Javas' : record' = NoRecord \/ (record'.pid = p /\ record'.lives = proc'[p].lives)
      BY <2>1, <2>2, <2>4
    <2> QED
      BY <1>b, <1>c, <2>2, <2>3, <2>4, <2>5, <2>6, GoesOn
  <1>2. CASE StopMisses(m)
    <2>1. Javas = {}
      BY <1>2, <1>c, WhatIsFound DEF StopMisses
    <2>2. Dwindles
      <3>1. proc' = Killed({cmd[m]}) \/ proc' = proc
        BY <1>2 DEF StopMisses
      <3> QED
        BY <3>1, WaysToDwindle
    <2>3. Javas' = {}
      BY <1>c, <2>1, <2>2, StillThere
    <2>4. \A n \in Managers : pc'[n] \in {"idle", "down"}
      BY <1>2, <1>b DEF StopMisses, Acquire
    <2> QED
      BY <1>c, <2>2, <2>3, <2>4, StillThere, AllRest
  <1>3. CASE StopRefused(m)
    <2>1. Dwindles
      BY <1>3, WaysToDwindle DEF StopRefused
    <2> QED
      BY <1>3, <1>c, <2>1, Bystander DEF StopRefused
  <1>4. CASE StopEnds(m)
    <2>1. PICK gs : proc' = [Killed(gs) EXCEPT ![target[m].pid] = Ended(target[m].pid)]
      BY <1>4 DEF StopEnds
    <2>2. target[m].pid \in Pids /\ Javas \subseteq {target[m].pid}
      BY <1>4 DEF StopEnds, OwnershipInvariant, WorkShape, JavaShape
    <2>3. Dwindles
      BY <2>1, <2>2, WaysToDwindle
    <2>4. proc'[target[m].pid].kind = "free"
      <3>1. proc'[target[m].pid] = Ended(target[m].pid)
        BY <2>1, <2>2 DEF Killed
      <3> QED
        BY <2>2, <3>1, EndedFields
    <2>5. Javas' = {}
      <3>1. \A p \in Javas' : p \in Javas
        BY <1>c, <2>3, StillThere
      <3>2. target[m].pid \notin Javas'
        BY <2>4 DEF Javas
      <3> QED
        BY <2>2, <3>1, <3>2
    <2>6. \A n \in Managers : pc'[n] \in {"idle", "down"}
      BY <1>4, <1>a, <1>b DEF StopEnds, Goto
    <2> QED
      BY <1>c, <2>3, <2>5, <2>6, StillThere, AllRest
  <1>5. CASE TerminateFails(m)
    <2>1. Dwindles
      BY <1>5, WaysToDwindle DEF TerminateFails
    <2>2. pc'[m] = "idle" /\ \A n \in Managers \ {m} : pc'[n] = pc[n] /\ target'[n] = target[n]
      BY <1>5, <1>a DEF TerminateFails, Goto
    <2>3. record' = record /\ stopped' = stopped /\ cmd' = cmd /\ reapers' = reapers
      BY <1>5 DEF TerminateFails
    <2> QED
      BY <1>c, <2>1, <2>2, <2>3, Bystander
  <1> QED
    BY <1>1, <1>2, <1>3, <1>4, <1>5

\* ensureRunning, up to the launch: it reuses what it found, or launches where
\* nothing is.
LEMMA StartKeeps ==
    ASSUME TypeOK, OwnershipInvariant, NEW m \in Managers,
           \/ StartFinds(m) \/ StartReuses(m) \/ StartReplaces(m) \/ Replaced(m) \/ StartMisses(m)
           \/ StartRefused(m) \/ LaunchFails(m)
    PROVE  OwnershipInvariant'
  <1>a. target \in [Managers -> Record] /\ pc \in [Managers -> Steps]
    BY DEF TypeOK
  <1>b. \A n \in Managers \ {m} : pc[n] \in {"idle", "down"}
    BY LockIsAlone
       DEF StartFinds, StartReuses, StartReplaces, Replaced, StartMisses, StartRefused, LaunchFails, Acquire
  <1>c. \A n \in Managers : pc[n] # "starting"
    BY <1>b
       DEF StartFinds, StartReuses, StartReplaces, Replaced, StartMisses, StartRefused, LaunchFails, Acquire
  <1>1. CASE StartReuses(m)
    <2>1. Dwindles
      BY <1>1, WaysToDwindle DEF StartReuses
    <2>2. proc' = proc /\ record' = record /\ ~stopped' /\ \A n \in Managers : pc'[n] \in {"idle", "down"}
      BY <1>1, <1>a, <1>b DEF StartReuses, Goto
    <2> QED
      BY <1>c, <2>1, <2>2, StillThere, AllRest
  <1>2. CASE StartReplaces(m)
    <2>1. Dwindles
      BY <1>2, WaysToDwindle DEF StartReplaces
    <2>2. /\ proc' = proc /\ target' = target /\ record' = record /\ stopped' = stopped
          /\ pc'[m] = "replacing" /\ \A n \in Managers \ {m} : pc'[n] = pc[n]
      BY <1>2, <1>a DEF StartReplaces, Goto
    <2>3. Awaited(target[m]) /\ Javas \subseteq {target[m].pid}
      BY <1>2 DEF StartReplaces, OwnershipInvariant, WorkShape, JavaShape
    <2>4. Awaited(target[m])' /\ Javas' = Javas
      BY ONLY <2>2, <2>3 DEF Awaited, Javas
    <2>5. stopped' => Javas' = {}
      BY <2>2, <2>4 DEF OwnershipInvariant, StoppedMeansGone
    <2>6. \A p \in Javas' : record' = NoRecord \/ (record'.pid = p /\ record'.lives = proc'[p].lives)
      BY <1>c, <2>1, <2>2, StillThere
    <2> QED
      BY <1>b, <1>c, <2>1, <2>2, <2>3, <2>4, <2>5, <2>6, GoesOn
  <1>7. CASE StartFinds(m)
    <2>1. PICK r \in Found : record' = r /\ target' = [target EXCEPT ![m] = r]
      BY <1>7 DEF StartFinds
    <2>2. /\ Javas \subseteq {r.pid} /\ r.pid \in Pids /\ proc[r.pid].kind = "java"
          /\ r.lives = proc[r.pid].lives
      BY <1>c, WhatIsFound
    <2>3. Dwindles
      BY <1>7, WaysToDwindle DEF StartFinds
    <2>4. /\ proc' = proc /\ Javas' = Javas /\ target'[m] = r /\ pc'[m] = "waiting"
          /\ \A n \in Managers \ {m} : pc'[n] = pc[n]
          /\ stopped' = stopped
      BY <1>7, <1>a, <2>1 DEF StartFinds, Goto, Javas
    <2>5. stopped' => Javas' = {}
      BY <2>4 DEF OwnershipInvariant, StoppedMeansGone
    <2>6. \A p \in Javas' : record' = NoRecord \/ (record'.pid = p /\ record'.lives = proc'[p].lives)
      BY <2>1, <2>2, <2>4
    <2>7. Awaited(target[m])'
      <3>1. proc[r.pid].lives <= proc[r.pid].lives
        BY <2>2 DEF TypeOK, Process
      <3> QED
        BY ONLY <2>2, <2>4, <3>1 DEF Awaited
    <2> QED
      BY <1>b, <1>c, <2>2, <2>3, <2>4, <2>5, <2>6, <2>7, GoesOn
  <1>3. CASE Replaced(m)
    <2>1. proc' = [proc EXCEPT ![target[m].pid] = Ended(target[m].pid)]
      BY <1>3 DEF Replaced
    <2>2. target[m].pid \in Pids /\ Javas \subseteq {target[m].pid}
      BY <1>3 DEF Replaced, OwnershipInvariant, WorkShape, JavaShape, Awaited
    <2>3. Dwindles
      BY <2>1, <2>2, WaysToDwindle
    <2>4. proc'[target[m].pid].kind = "free"
      <3>1. proc'[target[m].pid] = Ended(target[m].pid)
        BY <2>1, <2>2 DEF TypeOK
      <3> QED
        BY <2>2, <3>1, EndedFields
    <2>5. Javas' = {}
      <3>1. \A p \in Javas' : p \in Javas
        BY <1>c, <2>3, StillThere
      <3>2. target[m].pid \notin Javas'
        BY <2>4 DEF Javas
      <3> QED
        BY <2>2, <3>1, <3>2
    <2>6. pc'[m] = "launching" /\ \A n \in Managers \ {m} : pc'[n] = pc[n]
      BY <1>3, <1>a DEF Replaced, Goto
    <2>7. record' = NoRecord
      BY <1>3 DEF Replaced
    <2> QED
      BY <1>b, <1>c, <2>3, <2>5, <2>6, <2>7, GoesOn
  <1>4. CASE StartMisses(m)
    <2>1. Javas = {}
      BY <1>4, <1>c, WhatIsFound DEF StartMisses
    <2>2. Dwindles
      BY <1>4, WaysToDwindle DEF StartMisses
    <2>3. Javas' = {}
      BY <1>c, <2>1, <2>2, StillThere
    <2>4. pc'[m] = "launching" /\ \A n \in Managers \ {m} : pc'[n] = pc[n]
      BY <1>4, <1>a DEF StartMisses, Goto
    <2>5. record' = NoRecord
      BY <1>4 DEF StartMisses
    <2> QED
      BY <1>b, <1>c, <2>2, <2>3, <2>4, <2>5, GoesOn
  <1>5. CASE StartRefused(m)
    <2>1. Dwindles
      BY <1>5, WaysToDwindle DEF StartRefused
    <2> QED
      BY <1>5, <1>c, <2>1, Bystander DEF StartRefused
  <1>6. CASE LaunchFails(m)
    <2>1. Dwindles
      BY <1>6, WaysToDwindle DEF LaunchFails
    <2>2. pc'[m] = "idle" /\ \A n \in Managers \ {m} : pc'[n] = pc[n]
      BY <1>6, <1>a DEF LaunchFails, Goto
    <2>3. record' = record /\ stopped' = stopped /\ cmd' = cmd /\ reapers' = reapers /\ target' = target
      BY <1>6 DEF LaunchFails
    <2> QED
      BY <1>c, <2>1, <2>2, <2>3, Bystander
  <1> QED
    BY <1>1, <1>2, <1>3, <1>4, <1>5, <1>6, <1>7

\* Launch: the wrapper has no Java yet, or is Java itself, and there is no other.
LEMMA LaunchKeeps ==
    ASSUME TypeOK, OwnershipInvariant, NEW m \in Managers, Launch(m)
    PROVE  OwnershipInvariant'
  <1>1. /\ pc[m] = "launching" /\ pc' = [pc EXCEPT ![m] = "starting"] /\ ~stopped'
        /\ record' = record /\ target' = target /\ reapers' = reapers
    BY DEF Launch, Goto
  <1>2. PICK w \in Pids : /\ Available(w) /\ proc' = [proc EXCEPT ![w] = Born(w, LaunchedKind, w, FALSE)]
                          /\ cmd' = [cmd EXCEPT ![m] = w]
    BY DEF Launch
  <1>3. \A n \in Managers \ {m} : pc[n] \in {"idle", "down"}
    BY <1>1, LockIsAlone
  <1>4. /\ pc'[m] = "starting" /\ cmd'[m] = w /\ \A n \in Managers \ {m} : pc'[n] \in {"idle", "down"}
    BY <1>1, <1>2, <1>3 DEF TypeOK
  <1>5. /\ proc[w].kind = "free" /\ \A q \in Pids : proc[q].group # w
        /\ \A r \in reapers : r.phase = "waiting" => r.wrapper # w
    BY <1>2 DEF Available
  <1>6. LET b == Born(w, LaunchedKind, w, FALSE) IN
        /\ b.kind \in {"wrapper", "java"} /\ ~b.port /\ b.group = w /\ ~b.spawned /\ ~b.orphan
    BY DEF Born, LaunchedKind
  <1>7. /\ proc'[w].kind \in {"wrapper", "java"} /\ ~proc'[w].port /\ proc'[w].group = w /\ ~proc'[w].spawned
        /\ ~proc'[w].orphan
        /\ \A p \in Pids \ {w} : proc'[p] = proc[p]
    BY <1>2, <1>6 DEF TypeOK
  <1>8. ProcShape /\ WorkShape /\ WrapperShape /\ JavaShape
    BY DEF OwnershipInvariant
  <1>9. ProcShape'
    BY ONLY <1>5, <1>7, <1>8, w \in Pids DEF ProcShape
  <1>10. WorkShape'
    BY ONLY <1>1, <1>4, <1>5, <1>8, w \in Pids, m \in Managers DEF WorkShape
  <1>11. Javas = {}
    BY <1>1, <1>8 DEF JavaShape
  <1>12. \A p \in Javas' : p = w
    BY ONLY <1>7, <1>11 DEF Javas
  <1>13. WrapperShape'
    <2>1. \A n \in Managers : pc[n] # "starting"
      BY <1>1, <1>3
    <2> QED
      BY ONLY <1>4, <1>7, <1>8, <2>1, m \in Managers DEF WrapperShape
  <1>14. JavaShape'
    BY ONLY <1>4, <1>7, <1>12, m \in Managers DEF JavaShape
  <1> QED
    BY <1>1, <1>9, <1>10, <1>13, <1>14 DEF OwnershipInvariant, StoppedMeansGone

\* What a manager that is starting has launched, and nothing else is there:
\* recorded with its Java, killed with its group, or orphaned.
LEMMA StartingKeeps ==
    ASSUME TypeOK, OwnershipInvariant, NEW m \in Managers, pc[m] = "starting",
           Started(m) \/ StartAborted(m) \/ ManagerDies(m)
    PROVE  OwnershipInvariant'
  <1>1. \A n \in Managers \ {m} : pc[n] \in {"idle", "down"}
    BY LockIsAlone
  <1>2. \A n \in Managers : pc'[n] \in {"idle", "down"}
    BY <1>1 DEF Started, StartAborted, ManagerDies, Goto, TypeOK
  <1>3. /\ cmd[m] \in Pids /\ ~stopped /\ cmd[m] # NoPid
        /\ \A p \in Javas : proc[p].group = cmd[m]
        /\ \A w \in Pids : proc[w].kind = "wrapper" /\ ~proc[w].orphan /\ ~proc[w].spawned => w = cmd[m]
    BY <1>1, NamesAssumption DEF OwnershipInvariant, WorkShape, JavaShape, WrapperShape
  <1>4. stopped' = stopped
    BY DEF Started, StartAborted, ManagerDies
  <1>5. \A p \in Pids : proc[p].kind = "wrapper" => proc[p].group = p
    BY DEF OwnershipInvariant, ProcShape
  <1>6. /\ Killed({cmd[m]}) = [p \in Pids |-> IF proc[p].group = cmd[m] THEN Ended(p) ELSE proc[p]]
        /\ \A p \in Pids : proc[p].group = cmd[m] => Killed({cmd[m]})[p] = Ended(p)
        /\ \A p \in Pids : proc[p].group = cmd[m] =>
              Orphaned(cmd[m])[p] = IF proc[p].port THEN proc[p] ELSE [proc[p] EXCEPT !.orphan = TRUE]
    BY <1>3 DEF Killed, Orphaned
  <1>7. ASSUME proc' = Killed({cmd[m]}) \/ proc' = Orphaned(cmd[m]),
               record' = NoRecord \/ \A p \in Pids : proc[p].port => proc[p].group # cmd[m]
        PROVE  OwnershipInvariant'
    <2>1. Dwindles
      BY <1>7, WaysToDwindle
    <2>2. \A p \in Pids : proc[p].group = cmd[m] =>
             \/ proc'[p].kind = "free" \/ proc'[p].orphan
             \/ proc[p].port /\ proc'[p] = proc[p]
      <3>1. \A p \in Pids : Ended(p).kind = "free" /\ [proc[p] EXCEPT !.orphan = TRUE].orphan
        BY EndedFields DEF TypeOK, Process
      <3>2. ASSUME NEW p \in Pids, proc[p].group = cmd[m]
            PROVE  \/ proc'[p] = Ended(p) \/ proc'[p] = [proc[p] EXCEPT !.orphan = TRUE]
                   \/ proc[p].port /\ proc'[p] = proc[p]
        BY <1>6, <1>7, <3>2
      <3> QED
        BY ONLY <3>1, <3>2
    <2>3. \A p \in Javas' : proc'[p].port /\ record' = NoRecord
      <3>1. \A p \in Javas' : p \in Javas
        BY <2>1, DwindlingKeeps DEF OwnershipInvariant
      <3>2. \A p \in Javas' : proc[p].port /\ proc'[p] = proc[p]
        BY <1>3, <2>2, <3>1 DEF Javas
      <3>3. \A p \in Javas' : p \in Pids /\ proc[p].group = cmd[m]
        BY <1>3, <3>1 DEF Javas
      <3> QED
        BY <1>7, <3>2, <3>3
    <2>4. \A w \in Pids : proc'[w].kind = "wrapper" /\ ~proc'[w].orphan => proc'[w].spawned
      <3>1. \A w \in Pids : proc'[w].kind = "wrapper" /\ ~proc'[w].orphan /\ ~proc'[w].spawned =>
               proc[w].kind = "wrapper" /\ ~proc[w].orphan /\ ~proc[w].spawned
        BY <2>1, DwindlingKeeps DEF OwnershipInvariant
      <3>2. \A w \in Pids : proc'[w].kind = "wrapper" /\ ~proc'[w].orphan /\ ~proc'[w].spawned =>
               proc[w].group = cmd[m]
        BY <1>3, <1>5, <3>1
      <3>3. \A w \in Pids : proc[w].kind = "wrapper" => ~proc[w].port
        BY DEF OwnershipInvariant, ProcShape
      <3>4. \A w \in Pids : proc'[w].kind = "wrapper" /\ ~proc'[w].orphan /\ ~proc'[w].spawned =>
               proc[w].kind = "wrapper"
        BY ONLY <3>1
      <3> QED
        BY ONLY <2>2, <3>2, <3>3, <3>4
    <2>5. ~stopped'
      BY <1>3, <1>4
    <2> QED
      BY <1>2, <2>1, <2>3, <2>4, <2>5, AllRest
  <1>a. record = NoRecord
    BY DEF OwnershipInvariant, WorkShape
  <1>8. CASE StartAborted(m)
    BY <1>a, <1>7, <1>8 DEF StartAborted
  <1>9. CASE ManagerDies(m)
    BY <1>a, <1>7, <1>9 DEF ManagerDies
  <1>10. CASE Started(m)
    <2>1. PICK p \in Pids : /\ Owned(p) /\ record' = NewRecord(p, cmd[m])
                            /\ proc' = IF proc[p].group = cmd[m] THEN proc ELSE Orphaned(cmd[m])
      BY <1>10 DEF Started
    <2>2. CASE proc[p].group # cmd[m]
      <3>1. \A q \in Pids : proc[q].port => q = p
        BY <2>1 DEF Owned, OwnershipInvariant, ProcShape
      <3> QED
        BY <1>7, <2>1, <2>2, <3>1
    <2>3. CASE proc[p].group = cmd[m]
      <3>1. proc' = proc /\ Javas' = Javas
        BY <2>1, <2>3 DEF Javas
      <3>2. Dwindles
        BY <3>1, WaysToDwindle
      <3>3. \A q \in Javas : q = p
        BY <1>3, <2>1, <2>3 DEF OwnershipInvariant, ProcShape, Owned, Javas
      <3>4. record'.pid = p /\ record'.lives = proc[p].lives
        BY <2>1 DEF NewRecord
      <3>5. \A q \in Javas' :
              proc'[q].port /\ (record' = NoRecord \/ (record'.pid = q /\ record'.lives = proc'[q].lives))
        BY <2>1, <3>1, <3>3, <3>4 DEF Owned
      <3>6. \A w \in Pids : proc'[w].kind = "wrapper" /\ ~proc'[w].orphan => proc'[w].spawned
        BY <1>3, <2>1, <2>3, <3>1 DEF OwnershipInvariant, ProcShape, Owned
      <3> QED
        BY <1>2, <1>3, <1>4, <3>2, <3>5, <3>6, AllRest
    <2> QED
      BY <2>2, <2>3
  <1> QED
    BY <1>8, <1>9, <1>10

\* A manager that lets go, is killed while it launches nothing, or is started,
\* and the goroutine that waits for a wrapper.
LEMMA OthersKeep ==
    ASSUME TypeOK, OwnershipInvariant,
           \/ \E m \in Managers : Detach(m) \/ NewManager(m) \/ (ManagerDies(m) /\ pc[m] # "starting")
           \/ \E r \in reapers : ReaperWakes(r) \/ ReaperRemoves(r)
           \/ \E p \in Pids : GatewayDies(p) \/ StrangerEnds(p)
           \/ UNCHANGED vars
    PROVE  OwnershipInvariant'
  <1>1. ASSUME NEW m \in Managers, Detach(m) \/ NewManager(m) \/ (ManagerDies(m) /\ pc[m] # "starting")
        PROVE  OwnershipInvariant'
    <2>1. proc' = proc
      BY <1>1 DEF Detach, NewManager, ManagerDies
    <2>2. Dwindles
      BY <2>1, WaysToDwindle
    <2>3. /\ record' = record /\ stopped' = stopped /\ reapers' \subseteq reapers
          /\ \A n \in Managers \ {m} : pc'[n] = pc[n] /\ target'[n] = target[n] /\ cmd'[n] = cmd[n]
      BY <1>1 DEF Detach, NewManager, ManagerDies, Goto, TypeOK
    <2>4. pc[m] # "starting" /\ pc'[m] \in {"idle", "down"}
      BY <1>1 DEF Detach, NewManager, ManagerDies, Goto, TypeOK
    <2> QED
      BY <2>2, <2>3, <2>4, Bystander
  <1>2. ASSUME NEW r \in reapers, ReaperWakes(r) PROVE OwnershipInvariant'
    <2>1. /\ proc' = proc /\ record' = record /\ stopped' = stopped /\ pc' = pc /\ target' = target
          /\ r.phase = "waiting"
      BY <1>2 DEF ReaperWakes
    <2>2. Dwindles
      BY <2>1, WaysToDwindle
    <2>3. \A n \in Managers : pc[n] = "starting" => r.wrapper # cmd[n]
      BY <2>1 DEF OwnershipInvariant, WorkShape
    <2>4. \A n \in Managers : pc[n] = "starting" => cmd'[n] = cmd[n]
      BY <1>2, <2>3 DEF ReaperWakes, TypeOK
    <2>5. \A q \in reapers' : q.phase = "waiting" => q \in reapers
      <3>1. [r EXCEPT !.phase = "removing"].phase = "removing"
        BY DEF TypeOK, Reaper
      <3> QED
        BY <1>2, <3>1 DEF ReaperWakes
    <2> QED
      BY <2>1, <2>2, <2>4, <2>5, Bystander
  <1>3. ASSUME NEW r \in reapers, ReaperRemoves(r) PROVE OwnershipInvariant'
    <2>1. Dwindles
      BY <1>3, WaysToDwindle DEF ReaperRemoves
    <2> QED
      BY <1>3, <2>1, Bystander DEF ReaperRemoves
  <1>4. ASSUME NEW p \in Pids, GatewayDies(p) \/ StrangerEnds(p) PROVE OwnershipInvariant'
    <2>1. Dwindles
      BY <1>4, WaysToDwindle DEF GatewayDies, StrangerEnds
    <2> QED
      BY <1>4, <2>1, Bystander DEF GatewayDies, StrangerEnds, World
  <1>5. CASE UNCHANGED vars
    <2>1. Dwindles
      BY <1>5, WaysToDwindle DEF vars
    <2> QED
      BY <1>5, <2>1, Bystander DEF vars
  <1> QED
    BY <1>1, <1>2, <1>3, <1>4, <1>5

-----------------------------------------------------------------------------
(* The world.                                                              *)

\* Whatever gets a free PID, the process that had it is told apart.
LEMMA AwaitedGrows ==
    ASSUME TypeOK, target' = target, NEW m \in Managers,
           \A q \in Pids :
              \/ proc'[q].lives = proc[q].lives + 1
              \/ /\ proc'[q].lives = proc[q].lives
                 /\ proc[q].kind \in {"free", "java"} => proc'[q].kind \in {"free", "java"},
           Awaited(target[m])
    PROVE  Awaited(target[m])'
  <1>1. /\ target[m].pid \in Pids /\ target[m].lives <= proc[target[m].pid].lives
        /\ target[m].lives = proc[target[m].pid].lives => proc[target[m].pid].kind \in {"free", "java"}
    BY DEF Awaited
  <1>2. target[m].lives \in Nat /\ proc[target[m].pid].lives \in Nat
    BY <1>1, NamesAssumption DEF TypeOK, Record, Process
  <1>3. target'[m] = target[m]
    OBVIOUS
  <1>4. CASE proc'[target[m].pid].lives = proc[target[m].pid].lives + 1
    <2>1. target[m].lives <= proc'[target[m].pid].lives /\ target[m].lives # proc'[target[m].pid].lives
      BY ONLY <1>1, <1>2, <1>4
    <2> QED
      BY ONLY <1>1, <1>3, <2>1 DEF Awaited
  <1>5. CASE /\ proc'[target[m].pid].lives = proc[target[m].pid].lives
             /\ proc[target[m].pid].kind \in {"free", "java"} =>
                   proc'[target[m].pid].kind \in {"free", "java"}
    BY ONLY <1>1, <1>3, <1>5 DEF Awaited
  <1> QED
    BY <1>1, <1>4, <1>5

\* The Gateway goes on: its wrapper starts Java once, Java opens the port if it
\* is free; and other programs come.
LEMMA WorldKeeps ==
    ASSUME TypeOK, OwnershipInvariant, NEW p \in Pids,
           JavaSpawned(p) \/ JavaListens(p) \/ \E port \in BOOLEAN : StrangerStarts(p, port)
    PROVE  OwnershipInvariant'
  <1>1. /\ lock' = lock /\ record' = record /\ cmd' = cmd /\ pc' = pc /\ target' = target
        /\ reapers' = reapers /\ stopped' = stopped
    BY DEF JavaSpawned, JavaListens, StrangerStarts, World
  <1>2. ProcShape /\ WorkShape /\ WrapperShape /\ JavaShape /\ StoppedMeansGone
    BY DEF OwnershipInvariant
  <1>3. \A q \in Pids : proc[q] \in Process
    BY DEF TypeOK
  <1>4. CASE JavaSpawned(p)
    <2>1. proc[p].kind = "wrapper" /\ ~proc[p].spawned
      BY <1>4 DEF JavaSpawned
    <2>2. PICK j \in Pids : /\ Available(j)
                            /\ proc' = [proc EXCEPT ![j] = Born(j, "java", p, proc[p].orphan), ![p].spawned = TRUE]
      BY <1>4 DEF JavaSpawned
    <2>3. proc[j].kind = "free" /\ j # p /\ \A q \in Pids : proc[q].group # j
      BY <2>1, <2>2 DEF Available
    <2>4. LET b == Born(j, "java", p, proc[p].orphan) IN
          /\ b.kind = "java" /\ ~b.port /\ b.group = p /\ b.orphan = proc[p].orphan
          /\ b.lives = proc[j].lives + 1
      BY DEF Born
    <2>5. /\ proc'[j] = Born(j, "java", p, proc[p].orphan) /\ proc'[p] = [proc[p] EXCEPT !.spawned = TRUE]
          /\ \A q \in Pids \ {j, p} : proc'[q] = proc[q]
      BY <2>2, <2>3 DEF TypeOK
    <2>6. /\ proc'[p].kind = "wrapper" /\ proc'[p].spawned /\ proc'[p].port = proc[p].port
          /\ proc'[p].group = proc[p].group /\ proc'[p].orphan = proc[p].orphan
          /\ proc'[p].lives = proc[p].lives
      BY <1>3, <2>1, <2>5 DEF Process
    <2>7. /\ proc'[j].kind = "java" /\ ~proc'[j].port /\ proc'[j].group = p
          /\ proc'[j].orphan = proc[p].orphan /\ proc'[j].lives = proc[j].lives + 1
      BY <2>4, <2>5
    <2>8. \A q \in Pids : proc[q].kind = "java" => proc[q].group # p
      BY ONLY <1>2, <2>1, p \in Pids DEF ProcShape
    <2>9. ProcShape'
      <3>1. \A q \in Pids : q # j => /\ proc'[q].kind = proc[q].kind /\ proc'[q].port = proc[q].port
                                    /\ proc'[q].group = proc[q].group
                                    /\ (proc[q].spawned => proc'[q].spawned)
        BY ONLY <2>1, <2>5, <2>6
      <3>2. \A q \in Pids :
               /\ proc'[q].kind = "free" => ~proc'[q].port /\ proc'[q].group = NoPid
               /\ proc'[q].kind = "wrapper" => ~proc'[q].port
               /\ proc'[q].kind \in {"wrapper", "stranger"} => proc'[q].group = q
               /\ proc'[q].kind = "java" => proc'[q].group \in Pids
        BY ONLY <1>2, <2>7, <3>1, p \in Pids DEF ProcShape
      <3>3. \A q, s \in Pids : proc'[q].port /\ proc'[s].port => q = s
        BY ONLY <1>2, <2>7, <3>1 DEF ProcShape
      <3>4. \A q, s \in Pids :
               proc'[q].kind = "java" /\ proc'[s].kind = "java" /\ proc'[q].group = proc'[s].group => q = s
        BY ONLY <1>2, <2>7, <2>8, <3>1 DEF ProcShape
      <3>5. \A q, s \in Pids :
               proc'[q].kind = "java" /\ proc'[s].kind = "wrapper" /\ proc'[q].group = s => proc'[s].spawned
        BY ONLY <1>2, <2>6, <2>7, <3>1 DEF ProcShape
      <3> QED
        BY ONLY <3>2, <3>3, <3>4, <3>5 DEF ProcShape
    <2>10. \A q \in Pids : q # j => (q \in Javas' <=> q \in Javas)
      BY ONLY <2>1, <2>5, <2>6 DEF Javas
    <2>11. WorkShape'
      <3>1. \A q \in Pids : proc[q].kind \in {"free", "java"} => proc'[q].kind \in {"free", "java"}
        BY ONLY <2>1, <2>5, <2>7
      <3>2. \A q \in Pids : proc'[q].lives = proc[q].lives \/ (q = j /\ proc'[q].lives = proc[q].lives + 1)
        BY ONLY <2>5, <2>6, <2>7
      <3>3. \A m \in Managers : Awaited(target[m]) => Awaited(target[m])'
        BY <1>1, <1>3, <3>1, <3>2, AwaitedGrows
      <3> QED
        BY ONLY <1>1, <1>2, <3>1, <3>3 DEF WorkShape
    <2>12. WrapperShape'
      <3>1. \A q \in Pids : proc'[q].kind = "wrapper" /\ ~proc'[q].orphan /\ ~proc'[q].spawned =>
               proc'[q] = proc[q]
        BY ONLY <2>5, <2>6, <2>7
      <3> QED
        BY ONLY <1>1, <1>2, <3>1 DEF WrapperShape
    <2>13. CASE proc[p].orphan
      <3>1. Javas' = Javas
        BY ONLY <2>3, <2>7, <2>10, <2>13 DEF Javas
      <3>2. \A q \in Javas : proc'[q].port = proc[q].port /\ proc'[q].group = proc[q].group
                             /\ proc'[q].lives = proc[q].lives
        BY ONLY <2>1, <2>3, <2>5 DEF Javas
      <3>3. JavaShape'
        BY ONLY <1>1, <1>2, <3>1, <3>2 DEF JavaShape
      <3> QED
        BY <1>1, <1>2, <2>9, <2>11, <2>12, <3>1, <3>3 DEF OwnershipInvariant, StoppedMeansGone
    <2>14. CASE ~proc[p].orphan
      <3>1. PICK m \in Managers : pc[m] = "starting" /\ cmd[m] = p
        BY <1>2, <2>1, <2>14 DEF WrapperShape
      <3>2. \A n \in Managers \ {m} : pc[n] \in {"idle", "down"}
        BY <3>1, LockIsAlone
      <3>3. ~stopped
        BY <1>2, <3>1 DEF WorkShape
      <3>4. \A q \in Javas' : q \in Javas \/ q = j
        BY ONLY <2>10 DEF Javas
      <3>5. \A q \in Javas : proc[q].group = p
        BY ONLY <1>2, <3>1 DEF JavaShape
      <3>6. \A q \in Javas' : proc'[q].group = p
        BY ONLY <2>3, <2>5, <2>7, <2>1, <3>4, <3>5 DEF Javas
      <3>7. JavaShape'
        BY ONLY <1>1, <3>1, <3>2, <3>6 DEF JavaShape
      <3> QED
        BY <1>1, <2>9, <2>11, <2>12, <3>3, <3>7 DEF OwnershipInvariant, StoppedMeansGone
    <2> QED
      BY <2>13, <2>14
  <1>5. CASE JavaListens(p)
    <2>1. proc[p].kind = "java" /\ ~PortInUse /\ proc' = [proc EXCEPT ![p].port = TRUE]
      BY <1>5 DEF JavaListens
    <2>2. /\ proc'[p].kind = "java" /\ proc'[p].port /\ proc'[p].group = proc[p].group
          /\ proc'[p].orphan = proc[p].orphan /\ proc'[p].lives = proc[p].lives
          /\ \A q \in Pids \ {p} : proc'[q] = proc[q]
      BY <1>3, <2>1 DEF TypeOK, Process
    <2>3. \A q \in Pids : ~proc[q].port
      BY <2>1 DEF PortInUse
    <2>4. ProcShape'
      BY ONLY <1>2, <2>1, <2>2, <2>3, p \in Pids DEF ProcShape
    <2>5. Javas' = Javas
      BY ONLY <2>1, <2>2, p \in Pids DEF Javas
    <2>6. WorkShape' /\ WrapperShape'
      BY ONLY <1>1, <1>2, <2>1, <2>2 DEF WorkShape, WrapperShape, Awaited
    <2>7. JavaShape'
      BY ONLY <1>1, <1>2, <2>2, <2>3, <2>5 DEF JavaShape, Javas
    <2> QED
      BY <1>1, <1>2, <2>4, <2>5, <2>6, <2>7 DEF OwnershipInvariant, StoppedMeansGone
  <1>6. ASSUME NEW port \in BOOLEAN, StrangerStarts(p, port) PROVE OwnershipInvariant'
    <2>1. /\ Available(p) /\ (port => ~PortInUse)
          /\ proc' = [proc EXCEPT ![p] = [Born(p, "stranger", p, FALSE) EXCEPT !.port = port]]
      BY <1>6 DEF StrangerStarts
    <2>2. /\ proc[p].kind = "free" /\ \A q \in Pids : proc[q].group # p
          /\ \A m \in Managers : pc[m] = "stopping" => target[m].pid # p
      BY <2>1 DEF Available
    <2>3. LET b == [Born(p, "stranger", p, FALSE) EXCEPT !.port = port] IN
          b.kind = "stranger" /\ b.port = port /\ b.group = p /\ b.lives = proc[p].lives + 1
      BY DEF Born
    <2>4. /\ proc'[p].kind = "stranger" /\ proc'[p].port = port /\ proc'[p].group = p
          /\ proc'[p].lives = proc[p].lives + 1
          /\ \A q \in Pids \ {p} : proc'[q] = proc[q]
      BY <2>1, <2>3 DEF TypeOK
    <2>5. proc'[p].port => \A q \in Pids : ~proc[q].port
      BY <2>1, <2>4 DEF PortInUse
    <2>6. ProcShape'
      BY ONLY <1>2, <2>2, <2>4, <2>5, p \in Pids DEF ProcShape
    <2>7. Javas' = Javas /\ p \notin Javas
      BY ONLY <2>2, <2>4, p \in Pids DEF Javas
    <2>8. WorkShape' /\ WrapperShape'
      <3>1. \A q \in Pids : proc[q].kind \in {"free", "java"} =>
               proc'[q].kind \in {"free", "java"} \/ proc'[q].lives = proc[q].lives + 1
        BY ONLY <2>4
      <3>2. \A m \in Managers : Awaited(target[m]) => Awaited(target[m])'
        BY <1>1, <1>3, <2>4, <3>1, AwaitedGrows
      <3> QED
        BY ONLY <1>1, <1>2, <2>2, <2>4, <3>2 DEF WorkShape, WrapperShape
    <2>9. JavaShape'
      BY ONLY <1>1, <1>2, <2>4, <2>7 DEF JavaShape, Javas
    <2> QED
      BY <1>1, <1>2, <2>6, <2>7, <2>8, <2>9 DEF OwnershipInvariant, StoppedMeansGone
  <1> QED
    BY <1>4, <1>5, <1>6

-----------------------------------------------------------------------------
(* The theorems.                                                           *)

\* Where nothing runs, nothing is noted, and all managers are idle.
LEMMA OwnedInitially == Init => OwnershipInvariant /\ NotedShape
  <1> SUFFICES ASSUME Init PROVE OwnershipInvariant /\ NotedShape
    OBVIOUS
  <1>1. \A p \in Pids : /\ proc[p].kind = "free" /\ ~proc[p].port /\ proc[p].group = NoPid
                        /\ ~proc[p].spawned /\ ~proc[p].orphan
    BY DEF Init
  <1>2. /\ \A m \in Managers : pc[m] = "idle" /\ cmd[m] = NoPid /\ target[m] = NoRecord
        /\ record = NoRecord /\ ~stopped
    BY DEF Init
  <1>3. Javas = {}
    BY ONLY <1>1 DEF Javas
  <1>4. ProcShape
    BY ONLY <1>1 DEF ProcShape
  <1>5. WorkShape /\ WrapperShape /\ JavaShape /\ StoppedMeansGone
    BY ONLY <1>1, <1>2, <1>3 DEF WorkShape, WrapperShape, JavaShape, StoppedMeansGone
  <1>6. NotedShape
    BY <1>1 DEF NotedShape
  <1> QED
    BY <1>4, <1>5, <1>6 DEF OwnershipInvariant

\* Every step keeps the invariant: whichever manager acts, whichever process
\* ends.
LEMMA OwnershipKept ==
    ASSUME TypeOK, OwnershipInvariant, [Next]_vars
    PROVE  TypeOK' /\ OwnershipInvariant'
  <1>1. TypeOK'
    BY Typed DEF OwnershipInvariant, WorkShape
  <1>2. ASSUME NEW m \in Managers,
               StopFinds(m) \/ StopMisses(m) \/ StopRefused(m) \/ StopEnds(m) \/ TerminateFails(m)
        PROVE  OwnershipInvariant'
    BY <1>2, StopKeeps
  <1>3. ASSUME NEW m \in Managers,
               \/ StartFinds(m) \/ StartReuses(m) \/ StartReplaces(m) \/ Replaced(m)
               \/ StartMisses(m) \/ StartRefused(m) \/ LaunchFails(m)
        PROVE  OwnershipInvariant'
    BY <1>3, StartKeeps
  <1>4. ASSUME NEW m \in Managers, Launch(m) PROVE OwnershipInvariant'
    BY <1>4, LaunchKeeps
  <1>5. ASSUME NEW m \in Managers, Started(m) \/ StartAborted(m) PROVE OwnershipInvariant'
    <2>1. pc[m] = "starting"
      BY <1>5 DEF Started, StartAborted
    <2> QED
      BY <1>5, <2>1, StartingKeeps
  <1>6. ASSUME NEW m \in Managers, Detach(m) \/ ManagerDies(m) \/ NewManager(m)
        PROVE  OwnershipInvariant'
    <2>1. CASE ManagerDies(m) /\ pc[m] = "starting"
      BY <2>1, StartingKeeps
    <2>2. CASE Detach(m) \/ NewManager(m) \/ (ManagerDies(m) /\ pc[m] # "starting")
      BY <2>2, OthersKeep
    <2> QED
      BY <1>6, <2>1, <2>2
  <1>7. ASSUME NEW r \in reapers, ReaperWakes(r) \/ ReaperRemoves(r) PROVE OwnershipInvariant'
    BY <1>7, OthersKeep
  <1>8. ASSUME NEW p \in Pids,
               JavaSpawned(p) \/ JavaListens(p) \/ \E port \in BOOLEAN : StrangerStarts(p, port)
        PROVE  OwnershipInvariant'
    BY <1>8, WorldKeeps
  <1>9. ASSUME NEW p \in Pids, GatewayDies(p) \/ StrangerEnds(p) PROVE OwnershipInvariant'
    BY <1>9, OthersKeep
  <1>10. UNCHANGED vars => OwnershipInvariant'
    <2>1. SUFFICES ASSUME UNCHANGED vars PROVE OwnershipInvariant'
      OBVIOUS
    <2>2. \/ \E m \in Managers : Detach(m) \/ NewManager(m) \/ (ManagerDies(m) /\ pc[m] # "starting")
          \/ \E r \in reapers : ReaperWakes(r) \/ ReaperRemoves(r)
          \/ \E p \in Pids : GatewayDies(p) \/ StrangerEnds(p)
          \/ UNCHANGED vars
      BY <2>1
    <2> QED
      BY ONLY TypeOK, OwnershipInvariant, <2>2, OthersKeep
  <1>11. CASE Next
    <2>1. CASE \E m \in Managers :
                  \/ StopFinds(m) \/ StopMisses(m) \/ StopRefused(m) \/ StopEnds(m)
                  \/ TerminateFails(m)
                  \/ StartFinds(m) \/ StartReuses(m) \/ StartReplaces(m) \/ Replaced(m)
                  \/ StartMisses(m) \/ StartRefused(m) \/ LaunchFails(m) \/ Launch(m) \/ Started(m)
                  \/ StartAborted(m)
                  \/ Detach(m) \/ ManagerDies(m) \/ NewManager(m)
      BY ONLY <1>1, <2>1, <1>2, <1>3, <1>4, <1>5, <1>6
    <2>2. CASE \E r \in reapers : ReaperWakes(r) \/ ReaperRemoves(r)
      BY ONLY <1>1, <2>2, <1>7
    <2>3. CASE \E p \in Pids :
                  \/ JavaSpawned(p) \/ JavaListens(p) \/ GatewayDies(p)
                  \/ StrangerEnds(p)
                  \/ \E port \in BOOLEAN : StrangerStarts(p, port)
      BY ONLY <1>1, <2>3, <1>8, <1>9
    <2> QED
      BY ONLY <1>11, <2>1, <2>2, <2>3 DEF Next
  <1> QED
    BY <1>1, <1>10, <1>11

\* The invariant holds in every state, whether or not stale PIDs are used
\* again.
THEOREM OwnershipInvariantHolds == Spec => [](TypeOK /\ OwnershipInvariant)
  <1>1. Init => TypeOK /\ OwnershipInvariant
    BY TypedInitially, OwnedInitially
  <1>2. TypeOK /\ OwnershipInvariant /\ [Next]_vars => (TypeOK /\ OwnershipInvariant)'
    BY OwnershipKept
  <1> QED
    BY <1>1, <1>2, PTL DEF Spec

\* Type correctness, and that every operation in progress holds the lock of
\* the state directory (process.go).
THEOREM OwnershipTyped == Spec => []TypeOK
  BY OwnershipInvariantHolds, PTL

\* However starts, stops, detachments, deaths and managers interleave, at most
\* one Java of the instance runs that was not orphaned.
THEOREM OneJava == Spec => []OneProcess
  <1>1. ASSUME TypeOK, OwnershipInvariant PROVE OneProcess
    <2>1. ASSUME NEW p \in Javas, NEW q \in Javas PROVE p = q
      <3>1. /\ p \in Pids /\ q \in Pids /\ proc[p].kind = "java" /\ proc[q].kind = "java"
        BY DEF Javas
      <3>2. CASE \E m \in Managers : pc[m] = "starting"
        <4>1. proc[p].group = proc[q].group
          BY <1>1, <3>2 DEF OwnershipInvariant, JavaShape
        <4> QED
          BY <1>1, <3>1, <4>1 DEF OwnershipInvariant, ProcShape
      <3>3. CASE \A m \in Managers : pc[m] # "starting"
        <4>1. proc[p].port /\ proc[q].port
          BY <1>1, <3>3 DEF OwnershipInvariant, JavaShape
        <4> QED
          BY <1>1, <3>1, <4>1 DEF OwnershipInvariant, ProcShape
      <3> QED
        BY <3>2, <3>3
    <2>2. CASE Javas = {}
      BY <2>2, FS_EmptySet DEF OneProcess
    <2>3. CASE Javas # {}
      <3>1. PICK p \in Javas : TRUE
        BY <2>3
      <3>2. Javas = {p}
        BY <2>1, <3>1
      <3>3. Cardinality({p}) = 1
        BY FS_Singleton
      <3> QED
        BY <3>2, <3>3 DEF OneProcess
    <2> QED
      BY <2>2, <2>3
  <1> QED
    BY <1>1, OwnershipInvariantHolds, PTL

\* A stop that succeeded left no Java running, even one whose record a late
\* reaper had removed (process.go:205).
THEOREM StopLeavesNone == Spec => []StoppedMeansGone
  <1>1. OwnershipInvariant => StoppedMeansGone
    BY DEF OwnershipInvariant
  <1> QED
    BY <1>1, OwnershipInvariantHolds, PTL

-----------------------------------------------------------------------------
(* Unrelated processes, as long as the PID of a dead wrapper that is still *)
(* noted is not used again.                                                *)

\* What can be noted next: what was, and the wrapper just launched.
LEMMA NotedNext ==
    ASSUME TypeOK, [Next]_vars, NEW w \in Noted' \cap Pids
    PROVE  w \in Noted \/ proc'[w].kind # "stranger"
  <1>a. w \in Noted' /\ w # NoPid /\ w \in Pids
    BY NamesAssumption
  <1>b. /\ cmd \in [Managers -> Pids \cup {NoPid}] /\ target \in [Managers -> Record]
        /\ proc \in [Pids -> Process] /\ pc \in [Managers -> Steps]
    BY DEF TypeOK
  <1>c. \A r \in Found : r.wrapper \in {NoPid, record.wrapper}
    BY DEF Found, Recorded, NewRecord
  <1>1. ASSUME record'.wrapper \in {NoPid, record.wrapper} \cup {cmd[n] : n \in Managers},
               \A n \in Managers : cmd'[n] \in {NoPid, cmd[n]},
               \A n \in Stopping' : \/ n \in Stopping /\ target'[n] = target[n]
                                    \/ target'[n].wrapper \in {NoPid, record.wrapper}
        PROVE  w \in Noted
    <2>1. CASE w = record'.wrapper
      BY ONLY <1>1, <1>a, <2>1 DEF Noted
    <2>2. CASE w \in {cmd'[n] : n \in Managers}
      BY ONLY <1>1, <1>a, <2>2 DEF Noted
    <2>3. ASSUME NEW n \in Stopping', w = target'[n].wrapper PROVE w \in Noted
      BY ONLY <1>1, <1>a, <2>3 DEF Noted
    <2> QED
      BY ONLY <1>a, <2>1, <2>2, <2>3 DEF Noted
  <1>2. ASSUME NEW m \in Managers,
               record' \in Found \cup {record, NoRecord},
               cmd' \in {cmd, [cmd EXCEPT ![m] = NoPid]},
               \A n \in Managers \ {m} : pc'[n] = pc[n] /\ target'[n] = target[n],
               pc'[m] = "stopping" => \/ pc[m] = "stopping" /\ target'[m] = target[m]
                                      \/ target'[m] \in Found
        PROVE  w \in Noted
    <2>1. record'.wrapper \in {NoPid, record.wrapper}
      BY <1>2, <1>c, NoRecordTyped
    <2>2. \A n \in Managers : cmd'[n] \in {NoPid, cmd[n]}
      BY <1>2, <1>b
    <2>3. \A n \in Stopping' : \/ n \in Stopping /\ target'[n] = target[n]
                               \/ target'[n].wrapper \in {NoPid, record.wrapper}
      BY <1>2, <1>c DEF Stopping
    <2> QED
      BY <1>1, <2>1, <2>2, <2>3
  <1>3. ASSUME NEW m \in Managers,
               StopFinds(m) \/ StopMisses(m) \/ StopRefused(m) \/ StopEnds(m) \/ TerminateFails(m)
        PROVE  w \in Noted
    <2>1. record' \in Found \cup {record, NoRecord} /\ cmd' \in {cmd, [cmd EXCEPT ![m] = NoPid]}
      BY <1>3 DEF StopFinds, StopMisses, StopRefused, StopEnds, TerminateFails
    <2>2. \A n \in Managers \ {m} : pc'[n] = pc[n] /\ target'[n] = target[n]
      BY <1>3, <1>b DEF StopFinds, StopMisses, StopRefused, StopEnds, TerminateFails, Goto
    <2>3. pc'[m] = "stopping" => target'[m] \in Found
      BY <1>3, <1>b DEF StopFinds, StopMisses, StopRefused, StopEnds, TerminateFails, Goto, Acquire
    <2> QED
      BY <1>2, <2>1, <2>2, <2>3
  <1>4. ASSUME NEW m \in Managers,
               \/ StartFinds(m) \/ StartReuses(m) \/ StartReplaces(m) \/ Replaced(m)
               \/ StartMisses(m) \/ StartRefused(m) \/ LaunchFails(m) \/ StartAborted(m)
        PROVE  w \in Noted
    <2>1. record' \in Found \cup {record, NoRecord} /\ cmd' = cmd
      BY <1>4
         DEF StartFinds, StartReuses, StartReplaces, Replaced, StartMisses, StartRefused, LaunchFails,
             StartAborted
    <2>2. \A n \in Managers \ {m} : pc'[n] = pc[n] /\ target'[n] = target[n]
      BY <1>4, <1>b
         DEF StartFinds, StartReuses, StartReplaces, Replaced, StartMisses, StartRefused, LaunchFails,
             StartAborted, Goto
    <2>3. pc'[m] # "stopping"
      BY <1>4, <1>b
         DEF StartFinds, StartReuses, StartReplaces, Replaced, StartMisses, StartRefused, LaunchFails,
             StartAborted, Goto, Acquire
    <2> QED
      BY <1>2, <2>1, <2>2, <2>3
  <1>5. ASSUME NEW m \in Managers, Detach(m) \/ ManagerDies(m) \/ NewManager(m)
        PROVE  w \in Noted
    <2>1. record' = record /\ cmd' \in {cmd, [cmd EXCEPT ![m] = NoPid]}
      BY <1>5 DEF Detach, ManagerDies, NewManager
    <2>2. \A n \in Managers \ {m} : pc'[n] = pc[n] /\ target'[n] = target[n]
      BY <1>5, <1>b DEF Detach, ManagerDies, NewManager, Goto
    <2>3. pc'[m] # "stopping"
      BY <1>5, <1>b DEF Detach, ManagerDies, NewManager, Goto
    <2> QED
      BY <1>2, <2>1, <2>2, <2>3
  <1>6. ASSUME NEW m \in Managers, Launch(m) PROVE w \in Noted \/ proc'[w].kind # "stranger"
    <2>1. PICK v \in Pids : /\ proc' = [proc EXCEPT ![v] = Born(v, LaunchedKind, v, FALSE)]
                           /\ cmd' = [cmd EXCEPT ![m] = v]
      BY <1>6 DEF Launch
    <2>2. record' = record /\ target' = target /\ Stopping' \subseteq Stopping
      BY <1>6, <1>b DEF Launch, Goto, Stopping
    <2>3. proc'[v].kind # "stranger"
      <3>1. Born(v, LaunchedKind, v, FALSE).kind # "stranger"
        BY DEF Born, LaunchedKind
      <3> QED
        BY <1>b, <2>1, <3>1
    <2>4. \A n \in Managers : cmd'[n] \in {v, cmd[n]}
      BY <1>b, <2>1
    <2> QED
      BY ONLY <1>a, <2>2, <2>3, <2>4 DEF Noted
  <1>7. ASSUME NEW m \in Managers, Started(m) PROVE w \in Noted
    <2>1. cmd' = cmd /\ target' = target /\ record'.wrapper = cmd[m] /\ Stopping' \subseteq Stopping
      BY <1>7, <1>b DEF Started, NewRecord, Goto, Stopping
    <2> QED
      BY <1>1, <2>1
  <1>8. ASSUME NEW r \in reapers, ReaperWakes(r) \/ ReaperRemoves(r) PROVE w \in Noted
    <2>1. record' \in {record, NoRecord} /\ target' = target /\ Stopping' = Stopping
      BY <1>8 DEF ReaperWakes, ReaperRemoves, Stopping
    <2>2. \A n \in Managers : cmd'[n] \in {NoPid, cmd[n]}
      BY <1>8, <1>b DEF ReaperWakes, ReaperRemoves
    <2>3. record'.wrapper \in {NoPid, record.wrapper}
      BY <2>1, NoRecordTyped
    <2> QED
      BY <1>1, <2>1, <2>2, <2>3
  <1>9. ASSUME NEW p \in Pids,
               \/ JavaSpawned(p) \/ JavaListens(p) \/ GatewayDies(p) \/ StrangerEnds(p)
               \/ \E port \in BOOLEAN : StrangerStarts(p, port)
        PROVE  w \in Noted
    <2>1. record' = record /\ cmd' = cmd /\ target' = target /\ Stopping' = Stopping
      BY <1>9 DEF JavaSpawned, JavaListens, GatewayDies, StrangerEnds, StrangerStarts, World, Stopping
    <2> QED
      BY <1>1, <2>1
  <1>10. CASE UNCHANGED vars
    <2>1. record' = record /\ cmd' = cmd /\ target' = target /\ Stopping' = Stopping
      BY <1>10 DEF vars, Stopping
    <2> QED
      BY <1>1, <2>1
  <1> QED
    BY <1>3, <1>4, <1>5, <1>6, <1>7, <1>8, <1>9, <1>10 DEF Next

\* No stranger gets a PID that cannot be handed out.
LEMMA PlainStays ==
    ASSUME TypeOK, OwnershipInvariant, [Next]_vars, NEW w \in Pids,
           proc[w].kind # "stranger", ~Available(w)
    PROVE  proc'[w].kind # "stranger"
  <1>a. proc \in [Pids -> Process] /\ \A p \in Pids : Ended(p).kind = "free"
    BY EndedFields DEF TypeOK
  <1>b. Dwindles => proc'[w].kind # "stranger"
    BY DEF Dwindles
  <1>1. ASSUME NEW m \in Managers,
               StopFinds(m) \/ StopMisses(m) \/ StopRefused(m) \/ StopEnds(m) \/ TerminateFails(m)
        PROVE  Dwindles
    <2>1. CASE StopMisses(m)
      <3>1. proc' = Killed({cmd[m]}) \/ proc' = proc
        BY <2>1 DEF StopMisses
      <3> QED
        BY <3>1, WaysToDwindle
    <2>2. CASE StopEnds(m)
      <3>1. PICK gs : proc' = [Killed(gs) EXCEPT ![target[m].pid] = Ended(target[m].pid)]
        BY <2>2 DEF StopEnds
      <3>2. target[m].pid \in Pids
        BY <2>2 DEF StopEnds, OwnershipInvariant, WorkShape
      <3> QED
        BY <3>1, <3>2, WaysToDwindle
    <2> QED
      BY <1>1, <2>1, <2>2, WaysToDwindle DEF StopFinds, StopRefused, TerminateFails
  <1>2. ASSUME NEW m \in Managers,
               \/ StartFinds(m) \/ StartReuses(m) \/ StartReplaces(m) \/ Replaced(m)
               \/ StartMisses(m) \/ StartRefused(m) \/ LaunchFails(m)
        PROVE  Dwindles
    <2>1. CASE Replaced(m)
      <3>1. target[m].pid \in Pids /\ proc' = [proc EXCEPT ![target[m].pid] = Ended(target[m].pid)]
        BY <2>1 DEF Replaced, OwnershipInvariant, WorkShape, Awaited
      <3> QED
        BY <3>1, WaysToDwindle
    <2> QED
      BY <1>2, <2>1, WaysToDwindle 
         DEF StartFinds, StartReuses, StartReplaces, StartMisses, StartRefused, LaunchFails
  <1>3. ASSUME NEW m \in Managers,
               Started(m) \/ StartAborted(m) \/ Detach(m) \/ ManagerDies(m) \/ NewManager(m)
        PROVE  Dwindles
    <2>1. proc' = proc \/ proc' = Killed({cmd[m]}) \/ proc' = Orphaned(cmd[m])
      BY <1>3 DEF Started, StartAborted, Detach, ManagerDies, NewManager
    <2> QED
      BY <2>1, WaysToDwindle
  <1>4. ASSUME NEW r \in reapers, ReaperWakes(r) \/ ReaperRemoves(r) PROVE Dwindles
    BY <1>4, WaysToDwindle DEF ReaperWakes, ReaperRemoves
  <1>5. ASSUME NEW p \in Pids, GatewayDies(p) \/ StrangerEnds(p) PROVE Dwindles
    BY <1>5, WaysToDwindle DEF GatewayDies, StrangerEnds
  <1>6. ASSUME UNCHANGED vars PROVE Dwindles
    BY <1>6, WaysToDwindle DEF vars
  <1>7. ASSUME NEW m \in Managers, Launch(m) PROVE proc'[w].kind # "stranger"
    <2>1. PICK v \in Pids : Available(v) /\ proc' = [proc EXCEPT ![v] = Born(v, LaunchedKind, v, FALSE)]
      BY <1>7 DEF Launch
    <2>2. v # w /\ proc'[w] = proc[w]
      BY <1>a, <2>1
    <2> QED
      BY <2>2
  <1>8. ASSUME NEW p \in Pids, JavaSpawned(p) PROVE proc'[w].kind # "stranger"
    <2>1. PICK j \in Pids : /\ Available(j)
                            /\ proc' = [proc EXCEPT ![j] = Born(j, "java", p, proc[p].orphan), ![p].spawned = TRUE]
      BY <1>8 DEF JavaSpawned
    <2>2. w # j
      BY <2>1
    <2>3. proc'[w] \in {proc[w], [proc[w] EXCEPT !.spawned = TRUE]}
      BY ONLY <1>a, <2>1, <2>2, w \in Pids
    <2> QED
      BY <1>a, <2>3 DEF Process
  <1>9. ASSUME NEW p \in Pids, JavaListens(p) \/ \E port \in BOOLEAN : StrangerStarts(p, port)
        PROVE  proc'[w].kind # "stranger"
    <2>1. proc'[w] \in {proc[w], [proc[w] EXCEPT !.port = TRUE]}
      BY <1>a, <1>9 DEF JavaListens, StrangerStarts
    <2> QED
      BY <1>a, <2>1 DEF Process
  <1> QED
    BY <1>b, <1>1, <1>2, <1>3, <1>4, <1>5, <1>6, <1>7, <1>8, <1>9 DEF Next

\* What is noted gets no stranger.
LEMMA NotedKept ==
    ASSUME ~StaleReuse, TypeOK, OwnershipInvariant, NotedShape, [Next]_vars
    PROVE  NotedShape'
  <1>1. ASSUME NEW w \in Noted' \cap Pids PROVE proc'[w].kind # "stranger"
    <2>1. CASE w \in Noted
      <3>1. ~Available(w) /\ proc[w].kind # "stranger"
        BY <2>1 DEF Available, Noted, NotedShape, Stopping
      <3> QED
        BY <3>1, PlainStays
    <2>2. CASE proc'[w].kind # "stranger"
      BY <2>2
    <2> QED
      BY <2>1, <2>2, NotedNext
  <1> QED
    BY <1>1 DEF NotedShape

\* A manager changes no unrelated process, and neither does the Gateway: the
\* groups it kills are those of wrappers it noted, what it stops is Java, what it
\* replaces is Java or has taken over Java's PID, and new processes get free ones.
LEMMA StrangerKept ==
    ASSUME TypeOK, OwnershipInvariant, NotedShape, [Next]_vars,
           NEW p \in Pids, proc[p].kind = "stranger", proc'[p] # proc[p]
    PROVE  StrangerEnds(p) \/ \E m \in Managers : TakenOver(m, p) /\ Replaced(m)
  <1>a. proc \in [Pids -> Process] /\ proc[p].group = p /\ p # NoPid
    BY NamesAssumption DEF TypeOK, OwnershipInvariant, ProcShape
  <1>b. p \notin Noted
    BY DEF NotedShape
  <1>c. \A m \in Managers : p # cmd[m] /\ (pc[m] = "stopping" => p # target[m].wrapper)
    BY <1>b DEF Noted, Stopping
  <1>d. \A m \in Managers : pc[m] = "stopping" => p # target[m].pid
    BY DEF OwnershipInvariant, WorkShape
  <1>e. /\ \A gs : p \notin gs => Killed(gs)[p] = proc[p]
        /\ \A g : p # g => Orphaned(g)[p] = proc[p]
        /\ \A gs : \A q : p \notin gs /\ q # p => [Killed(gs) EXCEPT ![q] = Ended(q)][p] = proc[p]
    BY <1>a DEF Killed, Orphaned
  <1>1. ASSUME NEW m \in Managers,
               StopFinds(m) \/ StopMisses(m) \/ StopRefused(m) \/ StopEnds(m) \/ TerminateFails(m)
        PROVE  FALSE
    <2>1. CASE StopMisses(m)
      BY <1>c, <1>e, <2>1 DEF StopMisses
    <2>2. CASE StopEnds(m)
      <3>1. PICK gs : /\ gs \subseteq {target[m].wrapper}
                      /\ proc' = [Killed(gs) EXCEPT ![target[m].pid] = Ended(target[m].pid)]
        BY <2>2 DEF StopEnds
      <3>2. p \notin gs /\ target[m].pid # p
        BY <1>c, <1>d, <2>2, <3>1 DEF StopEnds
      <3> QED
        BY <1>e, <3>1, <3>2
    <2> QED
      BY <1>1, <2>1, <2>2 DEF StopFinds, StopRefused, TerminateFails
  <1>2. ASSUME NEW m \in Managers,
               \/ StartFinds(m) \/ StartReuses(m) \/ StartReplaces(m) \/ Replaced(m)
               \/ StartMisses(m) \/ StartRefused(m) \/ LaunchFails(m)
        PROVE  TakenOver(m, p) /\ Replaced(m)
    <2>1. CASE Replaced(m)
      <3>1. target[m].pid = p /\ pc[m] = "replacing"
        BY <1>a, <2>1 DEF Replaced
      <3>2. target[m].lives <= proc[p].lives /\ target[m].lives # proc[p].lives
        BY <3>1 DEF OwnershipInvariant, WorkShape, Awaited
      <3>3. target[m].lives \in Nat /\ proc[p].lives \in Nat
        BY <1>a, NamesAssumption DEF TypeOK, Record, Process
      <3>4. target[m].lives < proc[p].lives
        BY ONLY <3>2, <3>3
      <3> QED
        BY <2>1, <3>1, <3>4 DEF TakenOver
    <2> QED
      BY <1>2, <2>1 
         DEF StartFinds, StartReuses, StartReplaces, StartMisses, StartRefused, LaunchFails
  <1>3. ASSUME NEW m \in Managers, Launch(m) PROVE FALSE
    BY <1>a, <1>3 DEF Launch, Available
  <1>4. ASSUME NEW m \in Managers, Started(m) \/ StartAborted(m) PROVE FALSE
    <2>1. proc' \in {proc, Killed({cmd[m]}), Orphaned(cmd[m])}
      BY <1>4 DEF Started, StartAborted
    <2> QED
      BY <1>c, <1>e, <2>1
  <1>5. ASSUME NEW m \in Managers, Detach(m) \/ ManagerDies(m) \/ NewManager(m) PROVE FALSE
    <2>1. proc' \in {proc, Orphaned(cmd[m])}
      BY <1>5 DEF Detach, ManagerDies, NewManager
    <2> QED
      BY <1>c, <1>e, <2>1
  <1>6. ASSUME NEW r \in reapers, ReaperWakes(r) \/ ReaperRemoves(r) PROVE FALSE
    BY <1>6 DEF ReaperWakes, ReaperRemoves
  <1>7. ASSUME NEW q \in Pids, JavaSpawned(q) PROVE FALSE
    <2>1. PICK j \in Pids : /\ proc[j].kind = "free"
                           /\ proc' = [proc EXCEPT ![j] = Born(j, "java", q, proc[q].orphan), ![q].spawned = TRUE]
      BY <1>7 DEF JavaSpawned, Available
    <2>2. p # j /\ p # q
      BY <1>7, <2>1 DEF JavaSpawned
    <2> QED
      BY <1>a, <2>1, <2>2
  <1>8. ASSUME NEW q \in Pids,
               \/ JavaListens(q) \/ GatewayDies(q)
               \/ \E port \in BOOLEAN : StrangerStarts(q, port)
        PROVE  FALSE
    BY <1>a, <1>8 DEF JavaListens, GatewayDies, StrangerStarts, Available
  <1>9. ASSUME NEW q \in Pids, StrangerEnds(q) PROVE StrangerEnds(p)
    <2>1. q = p
      BY <1>a, <1>9 DEF StrangerEnds
    <2> QED
      BY <1>9, <2>1
  <1>10. CASE UNCHANGED vars
    BY <1>10 DEF vars
  <1> QED
    BY <1>1, <1>2, <1>3, <1>4, <1>5, <1>6, <1>7, <1>8, <1>9, <1>10 DEF Next

\* An unrelated process is never ended by a manager (process.go:112, 226, 247),
\* but for one that got the PID of the Java a start was waiting for (99-104), as
\* long as the PID of a dead wrapper is not used again while it is noted;
\* otherwise it can be, which the run OwnershipReuse shows.
THEOREM StrangersAreSafe ==
    ASSUME ~StaleReuse PROVE Spec => StrangersUnharmed
  <1>1. Init => NotedShape
    BY OwnedInitially
  <1>2. ASSUME TypeOK, OwnershipInvariant, NotedShape, [Next]_vars PROVE NotedShape'
    BY <1>2, NotedKept
  <1>3. ASSUME TypeOK, OwnershipInvariant, NotedShape, [Next]_vars
        PROVE  [\A p \in Pids : proc[p].kind = "stranger" /\ proc'[p] # proc[p] =>
                   StrangerEnds(p) \/ \E m \in Managers : TakenOver(m, p) /\ Replaced(m)]_vars
    BY <1>3, StrangerKept
  <1> QED
    BY <1>1, <1>2, <1>3, OwnershipInvariantHolds, PTL DEF Spec, StrangersUnharmed
=============================================================================
