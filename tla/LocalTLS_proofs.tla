--------------------------- MODULE LocalTLS_proofs ---------------------------
(***************************************************************************)
(* The properties of LocalTLS for any number of managers and hosts, every  *)
(* choice of the lives and every bound.                                    *)
(*                                                                         *)
(* Between reading the identity and writing it a manager holds the file    *)
(* lock, but the operator does not: what the manager is about to write is  *)
(* of the CA in the file, or the file was taken away in the meantime.      *)
(***************************************************************************)
EXTENDS LocalTLS, TLAPS

Writing(m) == call[m].at \in {"save", "export"}

\* A certificate of an identity ends before its CA does.
Sound(id) == id # None => id.until < CAEnds(id.ca)

\* Whoever writes holds the lock, and nobody else does.
LockShape == \A m \in Managers : Writing(m) <=> flock = m

\* An opening manager has no certificate and has promised nothing yet; it asks
\* for names that it will serve.
CallShape == \A m \in Managers :
    /\ call[m].kind = "open" => ~Running(m)
    /\ call[m].asked \subseteq hosts[m]
    /\ promised[m] \subseteq hosts[m]
    /\ ~Running(m) => promised[m] = {}

\* What is about to be written serves every host beyond the next look at it.
NextShape == \A m \in Managers : Writing(m) =>
    /\ call[m].next # None /\ Sound(call[m].next)
    /\ hosts[m] \subseteq call[m].next.names
    /\ call[m].time + CheckEvery < call[m].next.until

\* So does what a manager serves.
MemShape == \A m \in Managers : Running(m) =>
    /\ Sound(mem[m])
    /\ promised[m] \subseteq mem[m].names
    /\ nextCheck[m] < mem[m].until

\* The CA about to be written is that of the file, unless there is no file any
\* more, and the one the user trusts.
CAShape == \A m \in Managers : Writing(m) =>
    /\ identity # None => identity.ca = call[m].next.ca
    /\ trusted # None => call[m].next.ca.number = trusted
    /\ call[m].at = "export" /\ identity = None => touched

FileShape == Sound(identity) /\ Sound(backup)

TLSInvariant ==
    /\ FileShape /\ LockShape /\ CallShape /\ NextShape /\ MemShape /\ CAShape
    /\ TrustSurvives /\ CrashLeavesIdentity

-----------------------------------------------------------------------------
(* Types.                                                                  *)

\* What a refresh puts into the hands of a manager that goes on to write: a
\* certificate of the CA it found, or of a new one where there was none.
Prepared(m, step, id) ==
    /\ GoOn(m, step, id)
    /\ id \in Identity /\ id # None /\ step \in {"save", "export"}
    /\ step = "export" => identity # None
    /\ identity # None => id.ca = identity.ca
    /\ identity = None => caCrt = None
    /\ Sound(id) /\ hosts[m] \subseteq id.names /\ now + CheckEvery < id.until

\* The certificate issued for an identity is of its CA, for the names it had and
\* the hosts of the manager.
LEMMA IssuedIs ==
    ASSUME TypeOK, NEW m \in Managers, NEW id \in Identity
    PROVE  /\ Issued(m, id) \in Identity
           /\ Issued(m, id).ca = id.ca /\ Issued(m, id).names = id.names \cup hosts[m]
           /\ Issued(m, id).from = now /\ Issued(m, id).until = now + LeafLife
  <1>1. now \in Time /\ now + LeafLife \in 0..(MaxNow + LeafLife) /\ hosts[m] \in SUBSET Hosts
    BY LivesAssumption, BoundsAssumption DEF TypeOK, Time
  <1>2. Issued(m, id) = [id EXCEPT !.names = @ \cup hosts[m], !.from = now, !.until = now + LeafLife]
    BY DEF Issued
  <1> HIDE DEF Issued
  <1> QED BY <1>1, <1>2 DEF Identity

\* A refresh fails, and leaves what was there, or prepares what is written.
LEMMA RefreshPrepares ==
    ASSUME TypeOK, FileShape, NEW m \in Managers, Refresh(m)
    PROVE  /\ made' \in 0..MaxCAs
           /\ \/ Fail(m)
              \/ \E id : \E step \in {"save", "export"} : Prepared(m, step, id)
  <1> USE NoneAssumption, LivesAssumption, BoundsAssumption
  <1>1. PICK id \in Found :
            /\ made' = IF StartsFresh THEN made + 1 ELSE made
            /\ IF ~CAUsable(m, id.ca) THEN Fail(m)
               ELSE IF ~Renews(m, id) THEN GoOn(m, "export", id)
               ELSE IF now + LeafLife < CAEnds(id.ca) THEN GoOn(m, "save", Issued(m, id))
               ELSE Fail(m)
    BY DEF Refresh
  <1>2. /\ now \in 0..MaxNow /\ MaxNow \in Nat /\ LeafLife \in Nat /\ made \in 0..MaxCAs /\ hosts[m] \in SUBSET Hosts
        /\ identity \in Identity \cup {None} /\ None \notin Identity
    BY DEF TypeOK, Time
  <1>3. CASE StartsFresh
    <2>1. made < MaxCAs /\ id = Fresh
      BY <1>1, <1>3 DEF Found
    <2>2. /\ made' \in 0..MaxCAs /\ made + 1 \in 1..MaxCAs
          /\ now \in Time /\ now \in 0..(MaxNow + LeafLife)
      BY <1>1, <1>2, <1>3, <2>1 DEF Time
    <2>3. id \in Identity
      BY <2>1, <2>2 DEF Fresh, Identity, CA
    <2>4. Issued(m, id) \in Identity
      BY <2>3, IssuedIs
    <2>i. /\ Issued(m, id).ca = id.ca /\ Issued(m, id).names = id.names \cup hosts[m]
          /\ Issued(m, id).until = now + LeafLife /\ now + CheckEvery < now + LeafLife
      BY <1>2, <2>3, IssuedIs
    <2>5. Renews(m, id) /\ identity = None /\ caCrt = None
      BY <1>3 DEF Renews, StartsFresh
    <2>6. GoOn(m, "save", Issued(m, id)) /\ now + LeafLife < CAEnds(id.ca) => Prepared(m, "save", Issued(m, id))
      BY <1>2, <2>4, <2>5, <2>i DEF Prepared, Sound
    <2> QED BY <1>1, <2>2, <2>5, <2>6
  <1>4. CASE ~StartsFresh
    <2>1. id = identity /\ id # None /\ id \in Identity
      BY <1>1, <1>2, <1>4 DEF Found
    <2>5. /\ Issued(m, id) \in Identity
          /\ Issued(m, id).ca = id.ca /\ Issued(m, id).names = id.names \cup hosts[m]
          /\ Issued(m, id).until = now + LeafLife /\ now + CheckEvery < now + LeafLife
      BY <1>2, <2>1, IssuedIs
    <2>6. GoOn(m, "save", Issued(m, id)) /\ now + LeafLife < CAEnds(id.ca) => Prepared(m, "save", Issued(m, id))
      BY <1>2, <2>1, <2>5 DEF Prepared, Sound
    <2>8. ~Renews(m, id) => hosts[m] \subseteq id.names /\ now + CheckEvery < id.until
      <3>1. id.until \in Nat /\ now \in Nat
        BY <1>2, <2>1 DEF Identity
      <3> QED BY <3>1 DEF Renews
    <2>7. GoOn(m, "export", id) /\ ~Renews(m, id) => Prepared(m, "export", id)
      BY <2>1, <2>8 DEF Prepared, FileShape
    <2> QED BY <1>1, <1>2, <1>4, <2>6, <2>7
  <1> QED BY <1>3, <1>4

\* Every step keeps the types: identities have their four parts, numbers of CAs
\* and times stay within the bounds.
LEMMA TypesKept ==
    ASSUME TypeOK, FileShape, NextShape, [Next]_vars PROVE TypeOK'
  <1> USE NoneAssumption, LivesAssumption, BoundsAssumption
  <1>e. NoCall \in Call
    BY DEF NoCall, Call, Time
  <1>c. /\ NoCall \in Call
        /\ \A kind \in {"open", "ensure", "handshake"} : \A asked \in SUBSET Hosts :
               [NoCall EXCEPT !.kind = kind, !.asked = asked, !.at = "lock"] \in Call
        /\ \A c \in Call : [c EXCEPT !.at = "export"] \in Call
        /\ \A c \in Call : \A step \in {"save", "export"} : \A time \in Time : \A id \in Identity :
               [c EXCEPT !.at = step, !.time = time, !.next = id] \in Call
        /\ \A c \in Call : c.next \in Identity \cup {None} /\ c.time \in Time /\ c.asked \in SUBSET Hosts
    BY <1>e DEF Call
  <1>g. /\ \A id \in Identity : id.ca.number \in 1..MaxCAs
        /\ 0 \in 0..(MaxNow + CheckEvery) /\ {} \in SUBSET Hosts
        /\ \A time \in Time : time + CheckEvery \in 0..(MaxNow + CheckEvery)
    BY DEF Identity, CA, Time
  <1>r. ASSUME NEW m \in Managers, Refresh(m)
        PROVE  Fail(m) \/ \E id : \E step \in {"save", "export"} : Prepared(m, step, id)
    BY <1>r, RefreshPrepares
  <1>f. ASSUME NEW m \in Managers, Fail(m)
        PROVE  /\ call' \in [Managers -> Call] /\ hosts' \in [Managers -> SUBSET Hosts]
               /\ flock' \in Managers \cup {None} /\ UNCHANGED memory
    BY <1>c, <1>f DEF Fail, TypeOK
  <1>b. ASSUME NEW m \in Managers, NEW kind \in {"open", "ensure", "handshake"}, NEW asked \in SUBSET Hosts,
               Begin(m, kind, asked)
        PROVE  call' \in [Managers -> Call]
    BY <1>b, <1>c DEF Begin, TypeOK
  <1>t. Trouble => troubles' \in 0..MaxTroubles
    BY DEF Trouble, TypeOK
  <1>n. Mend => troubles' \in 0..MaxTroubles
    BY <1>t DEF Mend, TypeOK
  <1> USE <1>c, <1>g, <1>f, <1>b, <1>t, <1>n DEF TypeOK, files, memory
  <1>1. ASSUME NEW m \in Managers, NEW asked \in SUBSET Hosts, Open(m, asked) PROVE TypeOK'
    BY <1>1 DEF Open
  <1>2. ASSUME NEW m \in Managers, NEW asked \in SUBSET Hosts, EnsureHosts(m, asked) PROVE TypeOK'
    BY <1>2 DEF EnsureHosts
  <1>3. ASSUME NEW m \in Managers, Handshake(m) PROVE TypeOK'
    BY <1>3 DEF Handshake
  <1>4. ASSUME NEW m \in Managers, Busy(m) PROVE TypeOK'
    BY <1>4 DEF Busy
  <1>5. ASSUME NEW m \in Managers, Orphaned(m) PROVE TypeOK'
    BY <1>5 DEF Orphaned
  <1>6. ASSUME NEW m \in Managers, Refresh(m) PROVE TypeOK'
    <2>1. made' \in 0..MaxCAs /\ UNCHANGED <<now, files, troubles, trusted, touched>>
      BY <1>6, RefreshPrepares DEF Refresh
    <2>2. CASE Fail(m)
      BY <2>1, <2>2
    <2>3. CASE \E id : \E step \in {"save", "export"} : Prepared(m, step, id)
      <3>1. PICK id \in Identity, step \in {"save", "export"} :
                /\ call' = [call EXCEPT ![m].at = step, ![m].time = now, ![m].next = id]
                /\ flock' = m /\ UNCHANGED <<hosts, memory>>
        BY <2>3 DEF Prepared, GoOn
      <3> QED BY <2>1, <3>1
    <2>4. Fail(m) \/ \E id : \E step \in {"save", "export"} : Prepared(m, step, id)
      BY <1>6, <1>r
    <2> QED BY ONLY <2>2, <2>3, <2>4
  <1>7. ASSUME NEW m \in Managers, Save(m) PROVE TypeOK'
    <2>1. call[m].next \in Identity
      BY <1>7 DEF Save, NextShape, Writing
    <2>2. call' \in [Managers -> Call]
      BY <1>7 DEF Save
    <2> QED BY <1>7, <2>1, <2>2 DEF Save
  <1>8. ASSUME NEW m \in Managers, Export(m) PROVE TypeOK'
    <2>1. call[m] \in Call /\ call[m].next \in Identity
      BY <1>8 DEF Export, NextShape, Writing
    <2>2. promised[m] \cup call[m].asked \in SUBSET Hosts
      BY <2>1
    <2>3. call' \in [Managers -> Call] /\ mem' \in [Managers -> Identity \cup {None}]
      BY <1>8, <2>1 DEF Export
    <2>4. promised' \in [Managers -> SUBSET Hosts]
      BY <1>8, <2>2 DEF Export
    <2>5. nextCheck' \in [Managers -> 0..(MaxNow + CheckEvery)]
      BY <1>8, <2>1 DEF Export
    <2> QED BY <1>8, <2>1, <2>3, <2>4, <2>5 DEF Export
  <1>9. ASSUME NEW m \in Managers, WriteFails(m) PROVE TypeOK'
    BY <1>9 DEF WriteFails
  <1>10. ASSUME NEW m \in Managers, Crash(m) PROVE TypeOK'
    BY <1>10 DEF Crash
  <1>11. CASE Trust
    BY <1>11 DEF Trust
  <1>12. CASE Lose
    BY <1>12 DEF Lose
  <1>13. CASE Reset
    BY <1>13 DEF Reset
  <1>14. CASE Backup
    BY <1>14 DEF Backup
  <1>15. CASE Restore
    <2>1. backup \in Identity /\ backup.ca.number \in 1..MaxCAs
      BY <1>15 DEF Restore
    <2>2. trusted' \in {trusted, None} /\ caCrt' \in {caCrt, backup.ca.number}
      BY <1>15 DEF Restore
    <2> QED BY <1>15, <2>1, <2>2 DEF Restore
  <1>16. CASE TimePasses
    BY <1>16 DEF TimePasses
  <1>17. CASE ClockSetBack
    BY <1>17 DEF ClockSetBack
  <1>18. CASE UNCHANGED vars
    BY <1>18 DEF vars
  <1> QED
    BY <1>1, <1>2, <1>3, <1>4, <1>5, <1>6, <1>7, <1>8, <1>9, <1>10, <1>11, <1>12, <1>13, <1>14, <1>15, <1>16, <1>17, <1>18
       DEF Next, Manager

-----------------------------------------------------------------------------
(* What is written and served.                                             *)

\* The lock is held exactly by who writes, and a manager asks for names, and
\* promises them, only as hosts it will serve.
LEMMA CallsKept ==
    ASSUME TypeOK, FileShape, LockShape, CallShape, NextShape, [Next]_vars PROVE LockShape' /\ CallShape'
  <1> USE NoneAssumption DEF LockShape, CallShape, Writing, Running, Idle, NoCall
  <1>y. /\ mem \in [Managers -> Identity \cup {None}] /\ hosts \in [Managers -> SUBSET Hosts]
        /\ promised \in [Managers -> SUBSET Hosts] /\ flock \in Managers \cup {None}
        /\ call \in [Managers -> Call]
        /\ \A c \in Call : DOMAIN c = {"kind", "asked", "at", "time", "next"}
    BY DEF TypeOK, Call
  <1>f. ASSUME NEW m \in Managers, Fail(m) PROVE LockShape' /\ CallShape'
    BY <1>y, <1>f DEF Fail, memory
  <1> USE <1>y, <1>f DEF files, memory, Begin
  <1>1. ASSUME NEW m \in Managers, NEW asked \in SUBSET Hosts, Open(m, asked) PROVE LockShape' /\ CallShape'
    BY <1>1 DEF Open
  <1>2. ASSUME NEW m \in Managers, NEW asked \in SUBSET Hosts, EnsureHosts(m, asked) PROVE LockShape' /\ CallShape'
    BY <1>2 DEF EnsureHosts
  <1>3. ASSUME NEW m \in Managers, Handshake(m) PROVE LockShape' /\ CallShape'
    BY <1>3 DEF Handshake
  <1>4. ASSUME NEW m \in Managers, Busy(m) PROVE LockShape' /\ CallShape'
    BY <1>4 DEF Busy
  <1>5. ASSUME NEW m \in Managers, Orphaned(m) PROVE LockShape' /\ CallShape'
    BY <1>5 DEF Orphaned
  <1>6. ASSUME NEW m \in Managers, Refresh(m) PROVE LockShape' /\ CallShape'
    <2>1. UNCHANGED <<now, files, trusted, touched>>
      BY <1>6 DEF Refresh
    <2>2. CASE Fail(m)
      BY <2>1, <2>2
    <2>3. CASE \E id : \E step \in {"save", "export"} : Prepared(m, step, id)
      <3>1. PICK id \in Identity, step \in {"save", "export"} :
                /\ call' = [call EXCEPT ![m].at = step, ![m].time = now, ![m].next = id]
                /\ flock' = m /\ UNCHANGED <<hosts, memory>>
                /\ id # None /\ Sound(id) /\ hosts[m] \subseteq id.names /\ now + CheckEvery < id.until
                /\ step = "export" => identity # None
                /\ identity # None => id.ca = identity.ca
                /\ identity = None => caCrt = None
        BY <2>3 DEF Prepared, GoOn
      <3>2. call[m].at = "lock" /\ flock = None
        BY <1>6 DEF Refresh
      <3> QED BY <2>1, <3>1, <3>2
    <2>4. Fail(m) \/ \E id : \E step \in {"save", "export"} : Prepared(m, step, id)
      BY <1>6, RefreshPrepares
    <2> QED BY ONLY <2>2, <2>3, <2>4
  <1>7. ASSUME NEW m \in Managers, Save(m) PROVE LockShape' /\ CallShape'
    BY <1>7 DEF Save
  <1>8. ASSUME NEW m \in Managers, Export(m) PROVE LockShape' /\ CallShape'
    <2>1. /\ call' = [call EXCEPT ![m] = NoCall] /\ flock' = None /\ hosts' = hosts
          /\ promised' = [promised EXCEPT ![m] = @ \cup call[m].asked]
          /\ mem' = [mem EXCEPT ![m] = call[m].next] /\ flock = m
      BY <1>8 DEF Export
    <2>2. mem'[m] # None
      BY <1>8, <2>1 DEF Export, NextShape
    <2> QED BY <2>1, <2>2
  <1>9. ASSUME NEW m \in Managers, WriteFails(m) PROVE LockShape' /\ CallShape'
    BY <1>9 DEF WriteFails
  <1>10. ASSUME NEW m \in Managers, Crash(m) PROVE LockShape' /\ CallShape'
    BY <1>10 DEF Crash
  <1>11. CASE Trust
    BY <1>11 DEF Trust
  <1>12. CASE Lose
    BY <1>12 DEF Lose
  <1>13. CASE Reset
    BY <1>13 DEF Reset
  <1>14. CASE Backup
    BY <1>14 DEF Backup
  <1>15. CASE Restore
    BY <1>15 DEF Restore
  <1>16. CASE TimePasses
    BY <1>16 DEF TimePasses
  <1>17. CASE ClockSetBack
    BY <1>17 DEF ClockSetBack
  <1>18. CASE UNCHANGED vars
    BY <1>18 DEF vars, Writing, Running
  <1> QED
    BY <1>1, <1>2, <1>3, <1>4, <1>5, <1>6, <1>7, <1>8, <1>9, <1>10, <1>11, <1>12, <1>13, <1>14, <1>15, <1>16, <1>17, <1>18
       DEF Next, Manager

\* What is written is sound and serves every host until the next look at it, and
\* so does what is served.
LEMMA ServingKept ==
    ASSUME TypeOK, FileShape, LockShape, CallShape, NextShape, MemShape, [Next]_vars
    PROVE  FileShape' /\ NextShape' /\ MemShape'
  <1> USE NoneAssumption DEF LockShape, CallShape, NextShape, MemShape, FileShape, Writing, Running, Idle, NoCall
  <1>y. /\ mem \in [Managers -> Identity \cup {None}] /\ hosts \in [Managers -> SUBSET Hosts]
        /\ promised \in [Managers -> SUBSET Hosts] /\ flock \in Managers \cup {None}
        /\ call \in [Managers -> Call]
        /\ nextCheck \in [Managers -> 0..(MaxNow + CheckEvery)]
        /\ \A c \in Call : DOMAIN c = {"kind", "asked", "at", "time", "next"}
    BY DEF TypeOK, Call
  <1>f. ASSUME NEW m \in Managers, Fail(m), UNCHANGED <<identity, backup>>
        PROVE  FileShape' /\ NextShape' /\ MemShape'
    BY <1>y, <1>f DEF Fail, memory
  <1> USE <1>y, <1>f DEF files, memory, Begin
  <1>1. ASSUME NEW m \in Managers, NEW asked \in SUBSET Hosts, Open(m, asked) PROVE FileShape' /\ NextShape' /\ MemShape'
    BY <1>1 DEF Open
  <1>2. ASSUME NEW m \in Managers, NEW asked \in SUBSET Hosts, EnsureHosts(m, asked) PROVE FileShape' /\ NextShape' /\ MemShape'
    BY <1>2 DEF EnsureHosts
  <1>3. ASSUME NEW m \in Managers, Handshake(m) PROVE FileShape' /\ NextShape' /\ MemShape'
    BY <1>3 DEF Handshake
  <1>4. ASSUME NEW m \in Managers, Busy(m) PROVE FileShape' /\ NextShape' /\ MemShape'
    BY <1>4 DEF Busy
  <1>5. ASSUME NEW m \in Managers, Orphaned(m) PROVE FileShape' /\ NextShape' /\ MemShape'
    BY <1>5 DEF Orphaned
  <1>6. ASSUME NEW m \in Managers, Refresh(m) PROVE FileShape' /\ NextShape' /\ MemShape'
    <2>1. UNCHANGED <<now, files, trusted, touched>>
      BY <1>6 DEF Refresh
    <2>2. CASE Fail(m)
      BY <2>1, <2>2
    <2>3. CASE \E id : \E step \in {"save", "export"} : Prepared(m, step, id)
      <3>1. PICK id \in Identity, step \in {"save", "export"} :
                /\ call' = [call EXCEPT ![m].at = step, ![m].time = now, ![m].next = id]
                /\ flock' = m /\ UNCHANGED <<hosts, memory>>
                /\ id # None /\ Sound(id) /\ hosts[m] \subseteq id.names /\ now + CheckEvery < id.until
                /\ step = "export" => identity # None
                /\ identity # None => id.ca = identity.ca
                /\ identity = None => caCrt = None
        BY <2>3 DEF Prepared, GoOn
      <3>2. call[m].at = "lock" /\ flock = None
        BY <1>6 DEF Refresh
      <3> QED BY <2>1, <3>1, <3>2
    <2>4. Fail(m) \/ \E id : \E step \in {"save", "export"} : Prepared(m, step, id)
      BY <1>6, RefreshPrepares
    <2> QED BY ONLY <2>2, <2>3, <2>4
  <1>7. ASSUME NEW m \in Managers, Save(m) PROVE FileShape' /\ NextShape' /\ MemShape'
    BY <1>7 DEF Save
  <1>8. ASSUME NEW m \in Managers, Export(m) PROVE FileShape' /\ NextShape' /\ MemShape'
    BY <1>8 DEF Export
  <1>9. ASSUME NEW m \in Managers, WriteFails(m) PROVE FileShape' /\ NextShape' /\ MemShape'
    BY <1>9 DEF WriteFails
  <1>10. ASSUME NEW m \in Managers, Crash(m) PROVE FileShape' /\ NextShape' /\ MemShape'
    BY <1>10 DEF Crash
  <1>11. CASE Trust
    BY <1>11 DEF Trust
  <1>12. CASE Lose
    BY <1>12 DEF Lose, Sound
  <1>13. CASE Reset
    BY <1>13 DEF Reset, Sound
  <1>14. CASE Backup
    BY <1>14 DEF Backup
  <1>15. CASE Restore
    BY <1>15 DEF Restore
  <1>16. CASE TimePasses
    BY <1>16 DEF TimePasses
  <1>17. CASE ClockSetBack
    BY <1>17 DEF ClockSetBack
  <1>18. CASE UNCHANGED vars
    BY <1>18 DEF vars, Writing, Running
  <1> QED
    BY <1>1, <1>2, <1>3, <1>4, <1>5, <1>6, <1>7, <1>8, <1>9, <1>10, <1>11, <1>12, <1>13, <1>14, <1>15, <1>16, <1>17, <1>18
       DEF Next, Manager

-----------------------------------------------------------------------------
(* The authority.                                                          *)

\* The CA that the user trusts is the one in the files and in the hands of who
\* writes, and only somebody else's hand takes the identity from beside ca.crt.
LEMMA AuthorityKept ==
    ASSUME TypeOK, FileShape, LockShape, NextShape, CAShape, TrustSurvives, CrashLeavesIdentity, [Next]_vars
    PROVE  CAShape' /\ TrustSurvives' /\ CrashLeavesIdentity'
  <1> USE NoneAssumption DEF LockShape, NextShape, CAShape, TrustSurvives, CrashLeavesIdentity, Writing, NoCall
  <1>y. /\ identity \in Identity \cup {None} /\ backup \in Identity \cup {None}
        /\ flock \in Managers \cup {None} /\ call \in [Managers -> Call]
        /\ trusted \in 1..MaxCAs \cup {None} /\ caCrt \in 1..MaxCAs \cup {None} /\ touched \in BOOLEAN
        /\ \A c \in Call : DOMAIN c = {"kind", "asked", "at", "time", "next"}
    BY DEF TypeOK, Call
  <1>f. ASSUME NEW m \in Managers, Fail(m), UNCHANGED <<identity, caCrt, trusted, touched>>
        PROVE  CAShape' /\ TrustSurvives' /\ CrashLeavesIdentity'
    BY <1>y, <1>f DEF Fail, memory
  <1> USE <1>y, <1>f DEF files, memory, Begin
  <1>1. ASSUME NEW m \in Managers, NEW asked \in SUBSET Hosts, Open(m, asked) PROVE CAShape' /\ TrustSurvives' /\ CrashLeavesIdentity'
    BY <1>1 DEF Open
  <1>2. ASSUME NEW m \in Managers, NEW asked \in SUBSET Hosts, EnsureHosts(m, asked) PROVE CAShape' /\ TrustSurvives' /\ CrashLeavesIdentity'
    BY <1>2 DEF EnsureHosts
  <1>3. ASSUME NEW m \in Managers, Handshake(m) PROVE CAShape' /\ TrustSurvives' /\ CrashLeavesIdentity'
    BY <1>3 DEF Handshake
  <1>4. ASSUME NEW m \in Managers, Busy(m) PROVE CAShape' /\ TrustSurvives' /\ CrashLeavesIdentity'
    BY <1>4 DEF Busy
  <1>5. ASSUME NEW m \in Managers, Orphaned(m) PROVE CAShape' /\ TrustSurvives' /\ CrashLeavesIdentity'
    BY <1>5 DEF Orphaned
  <1>6. ASSUME NEW m \in Managers, Refresh(m) PROVE CAShape' /\ TrustSurvives' /\ CrashLeavesIdentity'
    <2>1. UNCHANGED <<now, files, trusted, touched>>
      BY <1>6 DEF Refresh
    <2>2. CASE Fail(m)
      BY <2>1, <2>2
    <2>3. CASE \E id : \E step \in {"save", "export"} : Prepared(m, step, id)
      <3>1. PICK id \in Identity, step \in {"save", "export"} :
                /\ call' = [call EXCEPT ![m].at = step, ![m].time = now, ![m].next = id]
                /\ flock' = m /\ UNCHANGED <<hosts, memory>>
                /\ id # None /\ Sound(id) /\ hosts[m] \subseteq id.names /\ now + CheckEvery < id.until
                /\ step = "export" => identity # None
                /\ identity # None => id.ca = identity.ca
                /\ identity = None => caCrt = None
        BY <2>3 DEF Prepared, GoOn
      <3>2. call[m].at = "lock" /\ flock = None
        BY <1>6 DEF Refresh
      <3> QED BY <2>1, <3>1, <3>2
    <2>4. Fail(m) \/ \E id : \E step \in {"save", "export"} : Prepared(m, step, id)
      BY <1>6, RefreshPrepares
    <2> QED BY ONLY <2>2, <2>3, <2>4
  <1>7. ASSUME NEW m \in Managers, Save(m) PROVE CAShape' /\ TrustSurvives' /\ CrashLeavesIdentity'
    BY <1>7 DEF Save
  <1>8. ASSUME NEW m \in Managers, Export(m) PROVE CAShape' /\ TrustSurvives' /\ CrashLeavesIdentity'
    BY <1>8 DEF Export
  <1>9. ASSUME NEW m \in Managers, WriteFails(m) PROVE CAShape' /\ TrustSurvives' /\ CrashLeavesIdentity'
    BY <1>9 DEF WriteFails
  <1>10. ASSUME NEW m \in Managers, Crash(m) PROVE CAShape' /\ TrustSurvives' /\ CrashLeavesIdentity'
    BY <1>10 DEF Crash
  <1>11. CASE Trust
    BY <1>11 DEF Trust
  <1>12. CASE Lose
    <2>1. touched' /\ identity' = None /\ UNCHANGED <<caCrt, call, trusted>>
      BY <1>12 DEF Lose
    <2> QED BY <2>1
  <1>13. CASE Reset
    <2>1. (flock # None => touched') /\ identity' = None /\ caCrt' = None /\ trusted' = None /\ call' = call
      BY <1>13 DEF Reset
    <2> QED BY <2>1
  <1>14. CASE Backup
    BY <1>14 DEF Backup
  <1>15. CASE Restore
    BY <1>15 DEF Restore
  <1>16. CASE TimePasses
    BY <1>16 DEF TimePasses
  <1>17. CASE ClockSetBack
    BY <1>17 DEF ClockSetBack
  <1>18. CASE UNCHANGED vars
    BY <1>18 DEF vars, Writing, Running
  <1> QED
    BY <1>1, <1>2, <1>3, <1>4, <1>5, <1>6, <1>7, <1>8, <1>9, <1>10, <1>11, <1>12, <1>13, <1>14, <1>15, <1>16, <1>17, <1>18
       DEF Next, Manager

-----------------------------------------------------------------------------
(* The properties.                                                         *)

TLSInv == TypeOK /\ TLSInvariant

\* An installation begins without files and without managers.
LEMMA TLSInit == Init => TLSInv
  <1> SUFFICES ASSUME Init PROVE TLSInv
    OBVIOUS
  <1> USE NoneAssumption, LivesAssumption, BoundsAssumption DEF Init
  <1>1. NoCall \in Call
    BY DEF NoCall, Call, Time
  <1>2. TypeOK
    <2>1. 0 \in 0..MaxNow /\ 0 \in 0..(MaxNow + CheckEvery) /\ 0 \in 0..MaxCAs /\ 0 \in 0..MaxTroubles
      OBVIOUS
    <2> QED BY <1>1, <2>1 DEF TypeOK, Time
  <1>3. TLSInvariant
    BY DEF TLSInvariant, FileShape, LockShape, CallShape, NextShape, MemShape, CAShape, TrustSurvives,
           CrashLeavesIdentity, Sound, Writing, Running, NoCall
  <1> QED BY <1>2, <1>3 DEF TLSInv

\* Every step keeps the invariant.
LEMMA TLSStep == TLSInv /\ [Next]_vars => TLSInv'
  BY TypesKept, CallsKept, ServingKept, AuthorityKept DEF TLSInv, TLSInvariant

\* What managers, the file lock and the operator's hand leave in the files and in
\* memory holds in every state.
THEOREM TLSInvariantHolds == Spec => []TLSInv
  BY TLSInit, TLSStep, PTL DEF Spec

\* The variables keep their types.
THEOREM CertificatesTyped == Spec => []TypeOK
  <1>1. TLSInv => TypeOK
    BY DEF TLSInv
  <1> QED BY <1>1, TLSInvariantHolds, PTL

\* A handshake that does not refresh is served a certificate valid at that time,
\* for every name that the manager accepted: what was issued or found good is
\* good for longer than until the next look at it.
THEOREM EveryHandshakeServed == Spec => []HandshakesServed
  <1>1. ASSUME TLSInv PROVE HandshakesServed
    <2> SUFFICES ASSUME NEW m \in Managers, Running(m), ~Due(m)
                 PROVE  /\ mem[m].from <= now /\ now < mem[m].until
                        /\ mem[m].until < CAEnds(mem[m].ca)
                        /\ promised[m] \subseteq mem[m].names
      BY DEF HandshakesServed
    <2>1. /\ now \in Nat /\ nextCheck[m] \in Nat /\ mem[m].from \in Nat /\ mem[m].until \in Nat
      BY <1>1, LivesAssumption, BoundsAssumption DEF TLSInv, TypeOK, Time, Identity, Running
    <2>2. now < nextCheck[m] /\ nextCheck[m] < mem[m].until /\ mem[m].from <= now
      BY <1>1, <2>1 DEF TLSInv, TLSInvariant, MemShape, Due
    <2> QED BY <1>1, <2>1, <2>2 DEF TLSInv, TLSInvariant, MemShape, Sound, Running
  <1> QED BY <1>1, TLSInvariantHolds, PTL

\* The CA that the user trusts is replaced by nothing but an explicit reset.
THEOREM TrustedCASurvives == Spec => []TrustSurvives
  <1>1. ASSUME TLSInv PROVE TrustSurvives
    BY <1>1 DEF TLSInv, TLSInvariant
  <1> QED BY <1>1, TLSInvariantHolds, PTL

\* No crash of a manager leaves a ca.crt without its identity.
THEOREM NoOrphanByCrash == Spec => []CrashLeavesIdentity
  <1>1. ASSUME TLSInv PROVE CrashLeavesIdentity
    BY <1>1 DEF TLSInv, TLSInvariant
  <1> QED BY <1>1, TLSInvariantHolds, PTL

=============================================================================
