-------------------------- MODULE ConfigFile_proofs --------------------------
(***************************************************************************)
(* The properties of ConfigFile for any instances and directories.         *)
(*                                                                         *)
(* Validate settles a configuration: what it made once it makes again,     *)
(* whatever is on the disk by then.  So a file the manager has written is  *)
(* loaded as it was written, and what a client leaves alone stays.         *)
(***************************************************************************)
EXTENDS ConfigFile, SequenceTheorems, TLAPS

\* Entries on their way through Validate: some paths may be left out.
States == {StateOf(id) : id \in Ids} \cup Dirs
          \cup {dir \o <<".instances">> \o conf : dir \in Dirs, conf \in Yaml}
RawEntry == [inherit : BOOLEAN, mode : Modes, dir : Dirs \cup {Out}, conf : Yaml \cup {Out},
             state : States \cup {Out}]
Raw == [shared : Dirs \cup {Out}, gateways : UNION {[ids -> RawEntry] : ids \in SUBSET Ids}]

\* What Validate makes of them, and where it puts them.
Published == [shared : Dirs, gateways : UNION {[ids -> Placement] : ids \in SUBSET Ids}]

SettledEntry(id, e, shared) ==
    /\ e.mode = "shared" => e.dir = shared
    /\ e.inherit /\ e.mode = "" =>
          \/ e.conf = Main /\ e.state = e.dir
          \/ e.dir = shared /\ e.conf = YamlOf(id) /\ e.state = StateOf(id)
Settled(c) == \A id \in DOMAIN c.gateways : SettledEntry(id, c.gateways[id], c.shared)

InPlace(c) == c \in Published /\ Settled(c) /\ Accepted(c) /\ Paths(c) = known

PlacesInvariant ==
    /\ programs \subseteq Dirs /\ saved \in BOOLEAN /\ turns \in 0..MaxTurns
    /\ Running => InPlace(mem)
    /\ ~Running => mem = Nothing
    /\ saved => InPlace(file)
    /\ ~saved => file \in Written \cup {Nothing}

-----------------------------------------------------------------------------
(* Paths.                                                                  *)

\* A directory within a directory is not left out.
LEMMA Longer ==
    ASSUME NEW S, NEW T, NEW dir \in Seq(S), NEW conf \in Seq(T), NEW name
    PROVE  dir \o <<name>> \o conf # <<>>
  <1> DEFINE U == S \cup T \cup {name}
  <1>1. dir \in Seq(U) /\ conf \in Seq(U)
    BY SeqMonotonic
  <1>2. <<name>> \in Seq(U) /\ Len(<<name>>) = 1
    OBVIOUS
  <1> HIDE DEF U
  <1>3. Len(dir \o <<name>> \o conf) = Len(dir) + 1 + Len(conf) /\ Len(dir) \in Nat /\ Len(conf) \in Nat
    BY <1>1, <1>2
  <1>4. Len(<<>>) = 0
    OBVIOUS
  <1> QED
    BY ONLY <1>3, <1>4

\* The paths of the program are sequences of names and none of them is left out.
LEMMA PathsGiven ==
    /\ Out \notin Dirs /\ Out \notin Yaml /\ Out \notin States
    /\ Main \in Yaml /\ Own("shared") \in Dirs /\ <<"gateway">> \in Dirs /\ Elsewhere \in Dirs
    /\ \A id \in Ids : /\ Own(id) \in Dirs /\ YamlOf(id) \in Yaml /\ StateOf(id) \in States
                       /\ YamlOf(id) # Main
  <1>1. \A id \in Ids \cup {"shared"} : \E i \in DOMAIN Names : id = Names[i]
    BY NamesAssumption
  <1>2. \A n : Own(n) # Out /\ StateOf(n) # Out /\ YamlOf(n) # Out /\ YamlOf(n) # Main
    BY DEF Own, StateOf, YamlOf, Out, Main
  <1>3. Main # Out /\ <<"conf", "custom">> # Out /\ <<"gateway">> # Out
    BY DEF Main, Out
  <1>4. Out \notin Dirs
    BY <1>2, <1>3, ElsewhereAssumption DEF Dirs
  <1>5. Out \notin Yaml
    BY <1>2, <1>3 DEF Yaml
  <1>6. \A dir \in Dirs : \E S : dir \in Seq(S)
    <2>1. \A n : Own(n) \in Seq({"gateways", n})
      BY DEF Own
    <2>2. <<"gateway">> \in Seq({"gateway"})
      OBVIOUS
    <2>3. \E S : Elsewhere \in Seq(S)
      BY ElsewhereAssumption
    <2> QED
      BY <2>1, <2>2, <2>3 DEF Dirs
  <1>7. \A conf \in Yaml : \E S : conf \in Seq(S)
    <2>1. \A n : YamlOf(n) \in Seq({"conf", n})
      BY DEF YamlOf
    <2>2. Main \in Seq({"conf.yaml"}) /\ <<"conf", "custom">> \in Seq({"conf", "custom"})
      BY DEF Main
    <2> QED
      BY <2>1, <2>2 DEF Yaml
  <1>8. \A dir \in Dirs, conf \in Yaml : dir \o <<".instances">> \o conf # Out
    BY <1>6, <1>7, Longer DEF Out
  <1>9. Out \notin States
    BY <1>2, <1>4, <1>8 DEF States
  <1>10. Main \in Yaml /\ Own("shared") \in Dirs /\ <<"gateway">> \in Dirs /\ Elsewhere \in Dirs
    BY <1>1 DEF Yaml, Dirs
  <1>11. \A id \in Ids : Own(id) \in Dirs /\ YamlOf(id) \in Yaml /\ StateOf(id) \in States
    BY <1>1 DEF Dirs, Yaml, States
  <1> QED
    BY <1>2, <1>4, <1>5, <1>9, <1>10, <1>11

\* An entry whose paths are all given is a placement.
LEMMA PlacementIsGiven ==
    /\ Placement \subseteq RawEntry
    /\ \A e \in Placement : e.dir \in Dirs /\ e.conf \in Yaml /\ e.state \in States
    /\ \A e \in RawEntry : e.dir # Out /\ e.conf # Out /\ e.state # Out => e \in Placement
  <1>1. Placement = [inherit : BOOLEAN, mode : Modes, dir : Dirs, conf : Yaml, state : States]
    BY DEF Placement, States
  <1> QED
    BY <1>1, PathsGiven DEF RawEntry

-----------------------------------------------------------------------------
(* Validate.                                                               *)

\* The shared directory is never left out, and one that is given stays.
LEMMA SharedDirGiven ==
    ASSUME programs \subseteq Dirs, NEW c \in Raw
    PROVE  SharedDir(c) \in Dirs /\ (c.shared # Out => SharedDir(c) = c.shared)
  <1> DEFINE alone == {IF c.gateways[id].dir = Out THEN Own(id) ELSE c.gateways[id].dir :
                          id \in {i \in DOMAIN c.gateways : c.gateways[i].mode = "independent"}}
             DirOf(id) == IF id \in DOMAIN c.gateways THEN c.gateways[id].dir ELSE Out
             candidates == <<Own("shared"), Own("primary")>>
                           \o [i \in DOMAIN Names |-> Own(Names[i])]
                           \o [i \in DOMAIN Names |-> DirOf(Names[i])]
             First(i) == /\ candidates[i] \in programs \ alone
                         /\ \A j \in 1..(i - 1) : candidates[j] \notin programs \ alone
             chosen == candidates[CHOOSE i \in DOMAIN candidates : First(i)]
  <1>1. SharedDir(c) = IF c.shared # Out THEN c.shared
                       ELSE IF \E i \in DOMAIN candidates : First(i) THEN chosen ELSE Own("shared")
    BY DEF SharedDir
  <1>2. (\E i \in DOMAIN candidates : First(i)) => chosen \in programs
    <2> HIDE DEF candidates, alone
    <2> QED
      OBVIOUS
  <1>3. c.shared \in Dirs \cup {Out} /\ Own("shared") \in Dirs
    BY PathsGiven DEF Raw
  <1> HIDE DEF alone, candidates, First, chosen
  <1> QED
    BY <1>1, <1>2, <1>3

\* What the defaults and the installation mode make of an entry, step by step:
\* it stays an entry, and ends where its mode says.
LEMMA EntrySettles ==
    ASSUME NEW id \in Ids, NEW e \in RawEntry, NEW shared \in Dirs
    PROVE  LET n == Filled(Placed(id, Inherited(id, e, shared), shared)) IN
           n \in Placement /\ SettledEntry(id, n, shared)
  <1> DEFINE i == Inherited(id, e, shared)
             p == Placed(id, i, shared)
             n == Filled(p)
  <1>a. /\ Own(id) \in Dirs /\ YamlOf(id) \in Yaml /\ StateOf(id) \in States /\ Main \in Yaml
        /\ YamlOf(id) # Out /\ StateOf(id) # Out /\ Main # Out /\ shared # Out /\ shared \in States
        /\ Dirs \subseteq States /\ Out \notin Dirs /\ Out \notin Yaml /\ Out \notin States
    <2>1. Dirs \subseteq States
      BY DEF States
    <2> QED
      BY <2>1, PathsGiven
  <1>b. GivenDir(id, e) \in Dirs
    BY <1>a DEF GivenDir, RawEntry
  <1>1. /\ i \in RawEntry /\ i.inherit = e.inherit /\ i.mode = e.mode
        /\ i.inherit /\ i.mode = "" =>
              \/ i.conf = Main /\ i.dir \in Dirs /\ i.state = i.dir
              \/ i.dir = shared /\ i.conf = YamlOf(id) /\ i.state = StateOf(id)
    <2>1. CASE ~e.inherit \/ e.mode # ""
      BY <2>1 DEF Inherited
    <2>2. CASE e.inherit /\ e.mode = "" /\ IsLegacy(id, e)
      <3>1. i = At(e, GivenDir(id, e), Main, GivenDir(id, e))
        BY <2>2 DEF Inherited
      <3>2. GivenDir(id, e) \in States
        BY <1>a, <1>b
      <3> QED
        BY <1>a, <1>b, <2>2, <3>1, <3>2 DEF At, RawEntry
    <2>3. CASE e.inherit /\ e.mode = "" /\ ~IsLegacy(id, e)
      <3>1. i = At(e, shared, YamlOf(id), StateOf(id))
        BY <2>3 DEF Inherited
      <3> QED
        BY <1>a, <2>3, <3>1 DEF At, RawEntry
    <2> QED
      BY <2>1, <2>2, <2>3
  <1> HIDE DEF i
  <1>2. /\ p \in RawEntry /\ p.inherit = i.inherit /\ p.mode = i.mode
        /\ p.mode = "" => p = i
        /\ p.mode = "shared" => p.dir = shared
    <2>1. i.mode \in {"", "shared", "independent"} /\ i.dir \in Dirs \cup {Out}
          /\ i.conf \in Yaml \cup {Out} /\ i.state \in States \cup {Out}
      BY <1>1 DEF RawEntry, Modes
    <2>2. CASE i.mode = ""
      BY <1>1, <2>2 DEF Placed
    <2>3. CASE i.mode = "shared"
      <3>1. PICK conf \in Yaml \cup {Out}, state \in States \cup {Out} : p = At(i, shared, conf, state)
        BY <1>a, <2>1, <2>3 DEF Placed
      <3> QED
        BY <1>1, <2>3, <3>1 DEF At, RawEntry
    <2>4. CASE i.mode = "independent"
      <3>1. p = [i EXCEPT !.dir = GivenDir(id, i)]
        BY <2>4 DEF Placed
      <3>2. GivenDir(id, i) \in Dirs
        BY <1>a, <2>1 DEF GivenDir
      <3> QED
        BY <1>1, <2>4, <3>1, <3>2 DEF RawEntry
    <2> QED
      BY <2>1, <2>2, <2>3, <2>4
  <1> HIDE DEF p
  <1>3. /\ n \in RawEntry /\ n.inherit = p.inherit /\ n.mode = p.mode
        /\ n.dir # Out /\ n.conf # Out /\ n.state # Out
        /\ p.dir # Out => n.dir = p.dir
        /\ p.conf # Out => n.conf = p.conf
        /\ p.state # Out => n.state = p.state
    <2> DEFINE dir == IF p.dir = Out THEN <<"gateway">> ELSE p.dir
               conf == IF p.conf = Out THEN Main ELSE p.conf
               state == IF p.state # Out THEN p.state
                        ELSE IF conf = Main THEN dir ELSE dir \o <<".instances">> \o conf
    <2>1. n = At(p, dir, conf, state)
      BY DEF Filled
    <2>2. p.dir \in Dirs \cup {Out} /\ p.conf \in Yaml \cup {Out} /\ p.state \in States \cup {Out}
      BY <1>2 DEF RawEntry
    <2>3. dir \in Dirs /\ conf \in Yaml
      BY <1>a, <2>2, PathsGiven
    <2>4. state \in States
      <3> HIDE DEF dir, conf
      <3>1. dir \in States /\ dir \o <<".instances">> \o conf \in States
        <4>1. dir \o <<".instances">> \o conf \in States
          BY <2>3 DEF States
        <4> QED
          BY <1>a, <2>3, <4>1
      <3> QED
        BY <2>2, <3>1
    <2>5. dir # Out /\ conf # Out /\ state # Out
      BY <1>a, <2>3, <2>4
    <2>6. /\ p.dir # Out => dir = p.dir
          /\ p.conf # Out => conf = p.conf
          /\ p.state # Out => state = p.state
      OBVIOUS
    <2> HIDE DEF dir, conf, state
    <2>7. /\ n \in RawEntry /\ n.inherit = p.inherit /\ n.mode = p.mode
          /\ n.dir = dir /\ n.conf = conf /\ n.state = state
      BY <1>2, <2>1, <2>3, <2>4 DEF At, RawEntry
    <2> QED
      BY <2>5, <2>6, <2>7
  <1> HIDE DEF n
  <1>4. n \in Placement
    BY <1>3, PlacementIsGiven
  <1>5. SettledEntry(id, n, shared)
    BY <1>a, <1>1, <1>2, <1>3 DEF SettledEntry
  <1> QED
    BY <1>4, <1>5 DEF n, p, i

\* An entry that is settled stays, whatever is on the disk.
LEMMA EntryStays ==
    ASSUME NEW id \in Ids, NEW e \in Placement, NEW shared \in Dirs, SettledEntry(id, e, shared)
    PROVE  Filled(Placed(id, Inherited(id, e, shared), shared)) = e
  <1>1. /\ e \in RawEntry /\ e.dir \in Dirs /\ e.conf \in Yaml /\ e.state \in States
        /\ e.dir # Out /\ e.conf # Out /\ e.state # Out
        /\ e.mode \in {"", "shared", "independent"}
    BY PlacementIsGiven, PathsGiven DEF RawEntry, Modes
  <1>2. At(e, e.dir, e.conf, e.state) = e
    BY <1>1 DEF At, RawEntry
  <1>3. Inherited(id, e, shared) = e
    <2>1. GivenDir(id, e) = e.dir
      BY <1>1 DEF GivenDir
    <2>2. CASE ~e.inherit \/ e.mode # ""
      BY <2>2 DEF Inherited
    <2>3. CASE e.inherit /\ e.mode = "" /\ e.conf = Main /\ e.state = e.dir
      BY <1>2, <2>1, <2>3 DEF Inherited, IsLegacy
    <2>4. CASE e.inherit /\ e.mode = "" /\ e.dir = shared /\ e.conf = YamlOf(id) /\ e.state = StateOf(id)
      <3>1. ~IsLegacy(id, e)
        BY <1>1, <2>4, PathsGiven DEF IsLegacy
      <3> QED
        BY <1>2, <2>4, <3>1 DEF Inherited
    <2> QED
      BY <2>2, <2>3, <2>4 DEF SettledEntry
  <1>4. Placed(id, e, shared) = e
    <2>1. CASE e.mode = ""
      BY <2>1 DEF Placed
    <2>2. CASE e.mode = "shared"
      <3>1. e.dir = shared
        BY <2>2 DEF SettledEntry
      <3> QED
        BY <1>1, <1>2, <2>2, <3>1 DEF Placed
    <2>3. CASE e.mode = "independent"
      <3>1. Placed(id, e, shared) = [e EXCEPT !.dir = e.dir]
        BY <1>1, <2>3 DEF Placed, GivenDir
      <3> QED
        BY <1>1, <3>1 DEF RawEntry
    <2> QED
      BY <1>1, <2>1, <2>2, <2>3
  <1>5. Filled(e) = e
    BY <1>1, <1>2 DEF Filled
  <1> QED
    BY <1>3, <1>4, <1>5

\* What is published can be validated again.
LEMMA PublishedIsRaw == Published \subseteq Raw
  <1>1. \A ids \in SUBSET Ids : [ids -> Placement] \subseteq [ids -> RawEntry]
    BY PlacementIsGiven
  <1> QED
    BY <1>1 DEF Published, Raw

\* A configuration has a shared directory and instances, and nothing else.
LEMMA BothFields ==
    ASSUME NEW c \in Raw, NEW s \in Dirs, NEW ids \in SUBSET Ids, NEW g \in [ids -> RawEntry]
    PROVE  [c EXCEPT !.shared = s, !.gateways = g] = [shared |-> s, gateways |-> g]
  <1>1. [c EXCEPT !.shared = s, !.gateways = g] \in Raw
    BY DEF Raw
  <1>2. \A d \in Raw : d = [shared |-> d.shared, gateways |-> d.gateways]
    BY DEF Raw
  <1>3. [c EXCEPT !.shared = s, !.gateways = g].shared = s /\ [c EXCEPT !.shared = s, !.gateways = g].gateways = g
    BY DEF Raw
  <1> QED
    BY <1>1, <1>2, <1>3

\* Validate settles a configuration, with the same instances.
LEMMA NormalSettles ==
    ASSUME programs \subseteq Dirs, NEW c \in Raw
    PROVE  /\ Normal(c) \in Published /\ Settled(Normal(c))
           /\ DOMAIN Normal(c).gateways = DOMAIN c.gateways
           /\ DOMAIN Paths(Normal(c)) = DOMAIN c.gateways
  <1> DEFINE shared == SharedDir(c)
             gateways == [id \in DOMAIN c.gateways |->
                             Filled(Placed(id, Inherited(id, c.gateways[id], shared), shared))]
  <1>1. shared \in Dirs
    BY SharedDirGiven
  <1>2. PICK ids \in SUBSET Ids : c.gateways \in [ids -> RawEntry]
    BY DEF Raw
  <1>3. DOMAIN c.gateways = ids /\ \A id \in ids : id \in Ids /\ c.gateways[id] \in RawEntry
    BY <1>2
  <1> HIDE DEF shared
  <1>4. \A id \in ids : gateways[id] \in Placement /\ SettledEntry(id, gateways[id], shared)
    BY <1>1, <1>3, EntrySettles
  <1>5. gateways \in [ids -> Placement] /\ DOMAIN gateways = ids
    BY <1>3, <1>4
  <1>6. Normal(c) = [c EXCEPT !.shared = shared, !.gateways = gateways]
    BY DEF Normal, shared
  <1> HIDE DEF gateways
  <1>7. /\ Normal(c) = [shared |-> shared, gateways |-> gateways]
        /\ Normal(c).shared = shared /\ Normal(c).gateways = gateways
    BY <1>6 DEF Raw
  <1>8. Normal(c) \in Published
    BY <1>1, <1>5, <1>7 DEF Published
  <1>9. Settled(Normal(c))
    BY <1>4, <1>5, <1>7 DEF Settled
  <1> QED
    BY <1>3, <1>5, <1>7, <1>8, <1>9 DEF Paths

\* An instance that was in place under the same shared directory stays in place.
LEMMA PlaceStays ==
    ASSUME programs \subseteq Dirs, NEW c \in Raw, c.shared # Out, NEW id \in DOMAIN c.gateways,
           c.gateways[id] \in Placement, SettledEntry(id, c.gateways[id], c.shared)
    PROVE  Normal(c).shared = c.shared /\ Normal(c).gateways[id] = c.gateways[id]
  <1>1. SharedDir(c) = c.shared /\ c.shared \in Dirs
    BY SharedDirGiven
  <1>2. id \in Ids
    BY DEF Raw
  <1>3. Filled(Placed(id, Inherited(id, c.gateways[id], c.shared), c.shared)) = c.gateways[id]
    BY <1>1, <1>2, EntryStays
  <1> DEFINE gateways == [i \in DOMAIN c.gateways |->
                             Filled(Placed(i, Inherited(i, c.gateways[i], c.shared), c.shared))]
  <1>4. Normal(c) = [c EXCEPT !.shared = c.shared, !.gateways = gateways]
    BY <1>1 DEF Normal
  <1>5. gateways[id] = c.gateways[id]
    BY <1>3
  <1> HIDE DEF gateways
  <1> QED
    BY <1>4, <1>5 DEF Raw

\* What Validate settled it makes again, whatever is on the disk by then.
LEMMA NormalKeeps ==
    ASSUME programs \subseteq Dirs, NEW c \in Published, Settled(c)
    PROVE  Normal(c) = c
  <1>1. c \in Raw /\ c.shared # Out
    BY PublishedIsRaw, PathsGiven DEF Published
  <1>2. PICK ids \in SUBSET Ids : c.gateways \in [ids -> Placement]
    BY DEF Published
  <1>3. DOMAIN c.gateways = ids /\ \A id \in ids : c.gateways[id] \in Placement
    BY <1>2
  <1>4. /\ \A id \in ids : Normal(c).gateways[id] = c.gateways[id]
        /\ Normal(c).shared = c.shared
    <2>1. \A id \in ids : Normal(c).gateways[id] = c.gateways[id]
      BY <1>1, <1>3, PlaceStays DEF Settled
    <2>2. Normal(c).shared = c.shared
      <3>1. SharedDir(c) = c.shared
        BY <1>1, SharedDirGiven
      <3> QED
        BY <1>1, <3>1 DEF Normal, Raw
    <2> QED
      BY <2>1, <2>2
  <1>5. PICK names \in SUBSET Ids : Normal(c).gateways \in [names -> Placement]
    BY <1>1, NormalSettles DEF Published
  <1>6. names = ids
    BY <1>1, <1>3, <1>5, NormalSettles
  <1>7. Normal(c).gateways = c.gateways
    BY <1>2, <1>4, <1>5, <1>6
  <1>8. \A s \in Raw : s = [shared |-> s.shared, gateways |-> s.gateways]
    BY DEF Raw
  <1>9. Normal(c) \in Raw
    BY <1>1, NormalSettles, PublishedIsRaw
  <1> QED
    BY <1>1, <1>4, <1>7, <1>8, <1>9

\* What an operator writes can be validated.
LEMMA WrittenIsRaw ==
    /\ Written \cup {Nothing} \subseteq Raw
    /\ Entry \subseteq RawEntry
    /\ Nothing.shared = Out
  <1>1. Entry \subseteq RawEntry
    BY PathsGiven DEF Entry, RawEntry, Yaml
  <1>2. ASSUME NEW c \in Written PROVE c \in Raw
    <2>1. PICK ids \in SUBSET Ids : c.gateways \in [ids -> {e \in Entry : e.conf \in {Out, Main}}]
      BY <1>2 DEF Written
    <2>2. c.gateways \in [ids -> RawEntry]
      BY <1>1, <2>1
    <2> QED
      BY <1>2, <2>2 DEF Written, Raw
  <1>3. Nothing \in Raw /\ Nothing.shared = Out
    <2>1. <<>> \in [{} -> RawEntry]
      OBVIOUS
    <2> QED
      BY <2>1 DEF Nothing, Raw
  <1> QED
    BY <1>1, <1>2, <1>3

-----------------------------------------------------------------------------
(* The steps.                                                              *)

\* A manager starts: from a file it wrote it starts as it was.
LEMMA LoadKeeps ==
    ASSUME PlacesInvariant, NEW localTLS \in BOOLEAN, Load(localTLS)
    PROVE  PlacesInvariant'
  <1> DEFINE c == Normal(file)
  <1>1. /\ Accepted(c) /\ mem' = c
        /\ IF file = Nothing \/ localTLS THEN file' = c /\ saved' = TRUE ELSE UNCHANGED <<file, saved>>
        /\ known' = IF saved THEN known ELSE Paths(c)
        /\ programs' = programs /\ turns' = turns
    BY DEF Load
  <1>2. programs \subseteq Dirs
    BY DEF PlacesInvariant
  <1>3. file \in Raw
    BY WrittenIsRaw, PublishedIsRaw DEF PlacesInvariant, InPlace
  <1>4. c \in Published /\ Settled(c)
    BY <1>2, <1>3, NormalSettles
  <1>5. saved => c = file
    BY <1>2, NormalKeeps DEF PlacesInvariant, InPlace
  <1> HIDE DEF c
  <1>6. known' = Paths(c)
    BY <1>1, <1>5 DEF PlacesInvariant, InPlace
  <1>7. InPlace(mem)'
    BY <1>1, <1>4, <1>6 DEF InPlace
  <1>8. mem'.shared # Out
    BY <1>1, <1>4, PathsGiven DEF Published
  <1>9. CASE file = Nothing \/ localTLS
    <2>1. file' = c /\ saved' = TRUE
      BY <1>1, <1>9
    <2>2. InPlace(file)'
      BY <1>1, <1>4, <1>6, <2>1 DEF InPlace
    <2> QED
      BY <1>1, <1>7, <1>8, <2>1, <2>2 DEF PlacesInvariant, Running
  <1>10. CASE ~(file = Nothing \/ localTLS)
    <2>1. file' = file /\ saved' = saved
      BY <1>1, <1>10
    <2>2. saved => InPlace(file)'
      BY <1>1, <1>5, <1>7, <2>1
    <2> QED
      BY <1>1, <1>7, <1>8, <2>1, <2>2 DEF PlacesInvariant, Running
  <1> QED
    BY <1>9, <1>10

\* A change: the instances it does not speak of anew stay where they are.
LEMMA ChangeKeeps ==
    ASSUME PlacesInvariant, NEW shared \in Dirs, NEW ids \in SUBSET Ids,
           NEW gateways \in [ids -> RawEntry], NEW touched \in SUBSET ids,
           Change(shared, gateways, touched),
           \A id \in ids \ touched :
              shared = mem.shared /\ id \in DOMAIN mem.gateways /\ gateways[id] \in Resent(id)
    PROVE  PlacesInvariant'
  <1> DEFINE merged == [id \in ids |-> Merged(id, gateways[id])]
             m == [mem EXCEPT !.shared = shared, !.gateways = merged]
             c == Normal(m)
  <1>1. /\ Running /\ turns < MaxTurns /\ Accepted(c)
        /\ mem' = c /\ file' = c /\ saved' = TRUE
        /\ known' = [id \in ids |-> IF id \in touched THEN Paths(c)[id] ELSE known[id]]
        /\ turns' = turns + 1 /\ programs' = programs
    <2>1. DOMAIN gateways = ids
      OBVIOUS
    <2> QED
      BY <2>1 DEF Change
  <1>2. InPlace(mem) /\ programs \subseteq Dirs
    BY <1>1 DEF PlacesInvariant
  <1>3. PICK old \in SUBSET Ids : mem.gateways \in [old -> Placement]
    BY <1>2 DEF InPlace, Published
  <1>4. /\ DOMAIN mem.gateways = old /\ old \subseteq Ids
        /\ \A id \in old : /\ mem.gateways[id] \in Placement
                           /\ SettledEntry(id, mem.gateways[id], mem.shared)
    BY <1>2, <1>3 DEF InPlace, Settled
  <1>5. \A id \in old : /\ mem.gateways[id] \in RawEntry /\ mem.gateways[id].dir \in Dirs
                        /\ mem.gateways[id].conf \in Yaml /\ mem.gateways[id].state \in States
                        /\ mem.gateways[id].conf # Out
    BY <1>4, PlacementIsGiven, PathsGiven
  <1>6. ASSUME NEW id \in ids PROVE Merged(id, gateways[id]) \in RawEntry
    <2>1. gateways[id] \in RawEntry
      OBVIOUS
    <2>2. CASE id \in old /\ mem.gateways[id].inherit /\ gateways[id].inherit /\ gateways[id].conf = Out
      <3>1. Merged(id, gateways[id])
            = At(gateways[id], mem.gateways[id].dir, mem.gateways[id].conf, mem.gateways[id].state)
        BY <1>4, <2>2 DEF Merged
      <3> QED
        BY <1>5, <2>1, <2>2, <3>1 DEF At, RawEntry
    <2>3. CASE ~(id \in old /\ mem.gateways[id].inherit /\ gateways[id].inherit /\ gateways[id].conf = Out)
      BY <1>4, <2>1, <2>3 DEF Merged
    <2> QED
      BY <2>2, <2>3
  <1>7. ASSUME NEW id \in ids \ touched PROVE id \in old /\ Merged(id, gateways[id]) = mem.gateways[id]
    <2>1. id \in old /\ gateways[id] \in Resent(id)
      BY <1>4
    <2> DEFINE e == mem.gateways[id]
    <2>2. e \in RawEntry /\ e.conf # Out
      BY <1>5, <2>1
    <2>3. CASE gateways[id] = e
      <3>1. gateways[id].conf # Out
        BY ONLY <2>2, <2>3
      <3>2. Merged(id, gateways[id]) = gateways[id]
        BY ONLY <3>1 DEF Merged
      <3> QED
        BY ONLY <2>1, <2>3, <3>2
    <2>4. CASE e.inherit /\ gateways[id] = At(e, Out, Out, Out)
      <3>1. /\ At(e, Out, Out, Out).inherit = e.inherit /\ At(e, Out, Out, Out).conf = Out
            /\ At(At(e, Out, Out, Out), e.dir, e.conf, e.state) = e
        BY <2>2 DEF At, RawEntry
      <3> QED
        BY <1>4, <2>1, <2>4, <3>1 DEF Merged
    <2> QED
      BY <2>1, <2>3, <2>4 DEF Resent
  <1>8. merged \in [ids -> RawEntry] /\ DOMAIN merged = ids
        /\ \A id \in ids : merged[id] = Merged(id, gateways[id])
    BY <1>6
  <1> HIDE DEF merged
  <1>9. m = [shared |-> shared, gateways |-> merged] /\ m.shared = shared /\ m.gateways = merged
    <2>1. mem \in Raw
      BY <1>2, PublishedIsRaw DEF InPlace
    <2>2. m = [shared |-> shared, gateways |-> merged]
      BY <1>8, <2>1, BothFields DEF m
    <2> HIDE DEF m
    <2> QED
      BY ONLY <2>2
  <1>10. m \in Raw
    BY <1>8, <1>9 DEF Raw
  <1>11. shared # Out
    BY PathsGiven
  <1> HIDE DEF m
  <1>12. /\ c \in Published /\ Settled(c) /\ DOMAIN c.gateways = ids
    BY <1>2, <1>8, <1>9, <1>10, NormalSettles
  <1>13. \A id \in ids \ touched : c.gateways[id] = mem.gateways[id]
    <2>1. ASSUME NEW id \in ids \ touched PROVE c.gateways[id] = mem.gateways[id]
      <3>1. id \in DOMAIN m.gateways /\ m.gateways[id] = mem.gateways[id] /\ id \in old
        BY <1>7, <1>8, <1>9
      <3>2. m.gateways[id] \in Placement /\ SettledEntry(id, m.gateways[id], m.shared)
        BY <1>4, <1>9, <3>1
      <3> QED
        BY <1>2, <1>9, <1>10, <1>11, <3>1, <3>2, PlaceStays
    <2> QED
      BY <2>1
  <1> HIDE DEF c
  <1>14. \A id \in ids \ touched : known[id] = Paths(c)[id]
    <2>1. known = Paths(mem)
      BY <1>2 DEF InPlace
    <2> QED
      BY <1>4, <1>7, <1>12, <1>13, <2>1 DEF Paths
  <1>15. known' = Paths(c)
    <2>1. Paths(c) = [id \in ids |-> Paths(c)[id]]
      BY <1>12 DEF Paths
    <2> QED
      BY <1>1, <1>14, <2>1
  <1>16. InPlace(mem)' /\ InPlace(file)'
    BY <1>1, <1>12, <1>15 DEF InPlace
  <1>17. mem'.shared # Out
    BY <1>1, <1>12, PathsGiven DEF Published
  <1>18. turns' \in 0..MaxTurns
    BY <1>1, BoundAssumption DEF PlacesInvariant
  <1> QED
    BY <1>1, <1>2, <1>16, <1>17, <1>18 DEF PlacesInvariant, Running

\* Before the first start.
LEMMA PlacesInitially == Init => PlacesInvariant
  <1> SUFFICES ASSUME Init PROVE PlacesInvariant
    OBVIOUS
  <1>1. /\ file \in Written \cup {Nothing} /\ mem = Nothing /\ saved = FALSE /\ turns = 0
        /\ programs \subseteq {Own("shared"), Elsewhere} \cup {Own(id) : id \in Ids}
    BY DEF Init
  <1>2. programs \subseteq Dirs
    BY <1>1, PathsGiven
  <1>3. ~Running
    BY <1>1, WrittenIsRaw DEF Running
  <1>4. 0 \in 0..MaxTurns
    BY BoundAssumption
  <1> QED
    BY <1>1, <1>2, <1>3, <1>4 DEF PlacesInvariant

\* A client puts one instance, or moves all that share the program.
LEMMA PutKeeps ==
    ASSUME PlacesInvariant, Put
    PROVE  PlacesInvariant'
  <1>1. PICK id \in Ids :
           LET others == DOMAIN mem.gateways \ {id}
           IN \E rest \in {f \in [others -> UNION {Resent(i) : i \in others}] :
                               \A i \in others : f[i] \in Resent(i)} :
                \/ \E e \in Entry :
                       Change(mem.shared, [i \in others \cup {id} |-> IF i = id THEN e ELSE rest[i]], {id})
                \/ Change(mem.shared, rest, {})
                \/ Change(Elsewhere, rest, others)
    BY DEF Put
  <1> DEFINE others == DOMAIN mem.gateways \ {id}
  <1>2. PICK rest \in [others -> UNION {Resent(i) : i \in others}] :
           /\ \A i \in others : rest[i] \in Resent(i)
           /\ \/ \E e \in Entry :
                     Change(mem.shared, [i \in others \cup {id} |-> IF i = id THEN e ELSE rest[i]], {id})
              \/ Change(mem.shared, rest, {})
              \/ Change(Elsewhere, rest, others)
    BY <1>1
  <1>3. Running
    BY <1>2 DEF Change
  <1>4. mem \in Published
    BY <1>3 DEF PlacesInvariant, InPlace
  <1>5. PICK old \in SUBSET Ids : mem.gateways \in [old -> Placement]
    BY <1>4 DEF Published
  <1>6. mem.shared \in Dirs /\ DOMAIN mem.gateways = old /\ others \subseteq old
    BY <1>4, <1>5 DEF Published
  <1>7. \A i \in others : Resent(i) \subseteq RawEntry
    <2>1. \A i \in others : mem.gateways[i] \in RawEntry
      BY <1>5, <1>6, PlacementIsGiven
    <2> QED
      BY <2>1 DEF Resent, At, RawEntry
  <1>8. rest \in [others -> RawEntry] /\ others \in SUBSET Ids
    BY <1>2, <1>6, <1>7
  <1> HIDE DEF others
  <1>9. ASSUME NEW e \in Entry,
               Change(mem.shared, [i \in others \cup {id} |-> IF i = id THEN e ELSE rest[i]], {id})
        PROVE  PlacesInvariant'
    <2> DEFINE gateways == [i \in others \cup {id} |-> IF i = id THEN e ELSE rest[i]]
    <2>1. e \in RawEntry /\ id \notin others
      BY WrittenIsRaw DEF others
    <2>2. gateways \in [others \cup {id} -> RawEntry] /\ others \cup {id} \in SUBSET Ids
      BY <1>8, <2>1
    <2>3. \A i \in (others \cup {id}) \ {id} : gateways[i] = rest[i] /\ i \in others
      OBVIOUS
    <2>4. Change(mem.shared, gateways, {id})
      BY <1>9
    <2> HIDE DEF gateways
    <2>5. \A i \in (others \cup {id}) \ {id} :
             mem.shared = mem.shared /\ i \in DOMAIN mem.gateways /\ gateways[i] \in Resent(i)
      BY <1>2, <2>3 DEF others
    <2>6. {id} \in SUBSET (others \cup {id})
      OBVIOUS
    <2> QED
      BY <1>6, <2>2, <2>4, <2>5, <2>6, ChangeKeeps
  <1>10. ASSUME Change(mem.shared, rest, {}) PROVE PlacesInvariant'
    <2>1. \A i \in others \ {} : mem.shared = mem.shared /\ i \in DOMAIN mem.gateways /\ rest[i] \in Resent(i)
      BY <1>2 DEF others
    <2>2. {} \in SUBSET others
      OBVIOUS
    <2> QED
      BY <1>6, <1>8, <1>10, <2>1, <2>2, ChangeKeeps
  <1>11. ASSUME Change(Elsewhere, rest, others) PROVE PlacesInvariant'
    <2>1. \A i \in others \ others :
             Elsewhere = mem.shared /\ i \in DOMAIN mem.gateways /\ rest[i] \in Resent(i)
      OBVIOUS
    <2>2. others \in SUBSET others
      OBVIOUS
    <2> QED
      BY <1>8, <1>11, <2>1, <2>2, PathsGiven, ChangeKeeps
  <1> QED
    BY <1>2, <1>9, <1>10, <1>11

\* A manager ends; the operator starts afresh; programs come and go.
LEMMA OthersKeep ==
    ASSUME PlacesInvariant, Stop \/ Discard \/ Install \/ OperatorMoves \/ UNCHANGED vars
    PROVE  PlacesInvariant'
  <1>1. CASE Stop
    <2>1. ~Running'
      BY <1>1, WrittenIsRaw DEF Stop, Running
    <2>2. InPlace(file) <=> InPlace(file)'
      BY <1>1 DEF Stop, InPlace
    <2> QED
      BY <1>1, <2>1, <2>2 DEF Stop, PlacesInvariant
  <1>2. CASE Discard
    BY <1>2 DEF Discard, PlacesInvariant, Running
  <1>3. ASSUME mem' = mem, file' = file, saved' = saved, known' = known,
               programs' \subseteq Dirs, turns' \in 0..MaxTurns
        PROVE  PlacesInvariant'
    BY <1>3 DEF PlacesInvariant, Running, InPlace
  <1>4. CASE Install
    <2>1. PICK id \in DOMAIN mem.gateways : programs' = programs \cup {mem.gateways[id].dir}
      BY <1>4 DEF Install
    <2>2. mem \in Published
      BY <1>4 DEF Install, PlacesInvariant, InPlace
    <2>3. mem.gateways[id] \in Placement
      BY <2>1, <2>2 DEF Published
    <2>4. programs' \subseteq Dirs
      BY <2>1, <2>3, PlacementIsGiven DEF PlacesInvariant
    <2> QED
      BY <1>3, <1>4, <2>4 DEF Install, PlacesInvariant
  <1>5. CASE OperatorMoves
    <2>1. PICK dir \in {Own(Names[i]) : i \in DOMAIN Names} \cup {Elsewhere} :
             programs' = (programs \ {dir}) \cup ({dir} \ programs)
      BY <1>5 DEF OperatorMoves
    <2>2. programs' \subseteq Dirs
      BY <2>1 DEF Dirs, PlacesInvariant
    <2>3. turns' \in 0..MaxTurns
      BY <1>5, BoundAssumption DEF OperatorMoves, PlacesInvariant
    <2> QED
      BY <1>3, <1>5, <2>2, <2>3 DEF OperatorMoves
  <1>6. CASE UNCHANGED vars
    BY <1>3, <1>6 DEF vars, PlacesInvariant
  <1> QED
    BY <1>1, <1>2, <1>4, <1>5, <1>6

-----------------------------------------------------------------------------
(* The theorems.                                                           *)

\* Whatever is installed, removed and changed, the published configuration and
\* the file the manager wrote are settled, accepted and in place.
THEOREM PlacesInvariantHolds == Spec => []PlacesInvariant
  <1>1. PlacesInvariant /\ [Next]_vars => PlacesInvariant'
    BY LoadKeeps, PutKeeps, OthersKeep DEF Next
  <1> QED
    BY <1>1, PlacesInitially, PTL DEF Spec

\* No path is left out of what is published and of what is in a file the manager
\* wrote (Validate).
THEOREM PlacesTyped == Spec => []TypeOK
  <1>1. ASSUME PlacesInvariant PROVE TypeOK
    <2>1. ASSUME NEW c \in Published
          PROVE  /\ c.shared \in Dirs \cup {Out} /\ DOMAIN c.gateways \subseteq Ids
                 /\ \A id \in DOMAIN c.gateways : c.gateways[id] \in Placement
      BY DEF Published
    <2>2. DOMAIN Nothing.gateways = {} /\ Nothing.shared = Out
      BY DEF Nothing
    <2>3. mem \in Published \cup {Nothing} /\ (saved => file \in Published)
      BY <1>1 DEF PlacesInvariant, InPlace
    <2>4. DOMAIN file.gateways \subseteq Ids
      <3>1. file \in Raw
        BY <1>1, WrittenIsRaw, PublishedIsRaw DEF PlacesInvariant, InPlace
      <3> QED
        BY <3>1 DEF Raw
    <2>5. ASSUME NEW c \in {mem} \cup IF saved THEN {file} ELSE {}
          PROVE  /\ c.shared \in Dirs \cup {Out} /\ DOMAIN c.gateways \subseteq Ids
                 /\ \A id \in DOMAIN c.gateways : c.gateways[id] \in Placement
      <3>1. c \in Published \cup {Nothing}
        BY <2>3
      <3> QED
        BY <2>1, <2>2, <3>1
    <2> QED
      BY <1>1, <2>4, <2>5 DEF TypeOK, PlacesInvariant
  <1> QED
    BY <1>1, PlacesInvariantHolds, PTL

\* Whatever is installed or removed in the meantime, a manager starts from the
\* file another one has written: Validate makes of it what it was (config.go:528,
\* 634).
THEOREM SavedFileLoads == Spec => []SavedLoads
  <1>1. ASSUME PlacesInvariant PROVE SavedLoads
    <2>1. ASSUME saved PROVE Normal(file) = file /\ Accepted(file)
      BY <1>1, <2>1, NormalKeeps DEF PlacesInvariant, InPlace
    <2> QED
      BY <2>1 DEF SavedLoads
  <1> QED
    BY <1>1, PlacesInvariantHolds, PTL

\* An instance the operator leaves alone keeps its program, its YAML file and
\* its state directory, with the record of its process in it (config.go:528,
\* 634, configuration.go:117).
THEOREM InstancesStayPut == Spec => []StaysPut
  <1>1. PlacesInvariant => StaysPut
    BY DEF PlacesInvariant, InPlace, StaysPut
  <1> QED
    BY <1>1, PlacesInvariantHolds, PTL
=============================================================================
