------------------------- MODULE Installation_proofs -------------------------
(***************************************************************************)
(* The properties of Installation for any number of instances and of       *)
(* troubles.                                                               *)
(*                                                                         *)
(* Only the instance that holds the lock is in an operation, so what has   *)
(* to be known is where its copies are at each of its steps: what a rename *)
(* has just moved, and from where the next one can put it back.            *)
(***************************************************************************)
EXTENDS Installation, TLAPS

\* The steps in which the program is, or is about to be, moved.
Moving == {"want", "stage", "clear", "retire", "place", "unplace", "secure", "discard",
           "preserve", "aside", "restore", "unaside", "keep"}
Starting == {"ensure", "conf", "run"}

NobodyRuns      == \A j \in Instances : ~java[j]
NoOtherRuns(i)  == \A j \in Instances \ {i} : ~java[j]

\* A process runs from an installed program only.
RunsInstalled == (\E j \in Instances : java[j]) => Installed(live)

\* Where the operation is in which phase, and which processes may run then.
StepShape(i) ==
    /\ op[i].kind = "start" => op[i].phase = "change"
                               /\ op[i].step \notin {"check", "stop", "want", "preserve", "aside",
                                                     "restore", "unaside", "keep"}
    /\ op[i].step \in {"check", "stop", "want"} => op[i].phase = "change"
    /\ op[i].step = "ok" => op[i].phase \in {"change", "new"}
    /\ op[i].step \in {"conf", "run"} => Installed(live)
    /\ op[i].step \in Moving => NobodyRuns
    /\ op[i].step = "stop" => NoOtherRuns(i)
    /\ op[i].step \in Starting /\ op[i].kind # "start" => NobodyRuns

\* Which copies are there while they are moved.
CopyShape(i) ==
    /\ op[i].step \in {"clear", "retire"} => Installed(live) /\ op[i].had
    /\ op[i].step \in {"clear", "retire", "place"} => Whole(op[i].payload)
    /\ op[i].step \in {"place", "unplace", "secure", "discard"} /\ op[i].had => Installed(backup)
    /\ op[i].step \in {"unplace", "discard"} => op[i].had
    /\ op[i].step \in {"secure", "discard"} => Whole(live)
    /\ op[i].step \in {"aside", "restore", "unaside"} => Installed(backup)
    /\ op[i].step \in {"restore", "unaside"} => live = Missing
    /\ op[i].temporary # Missing <=> op[i].step \in {"restore", "unaside", "keep"}
    /\ op[i].step = "keep" => Installed(live) /\ backup = Missing
    /\ op[i].step = "retire" => backup = Missing

\* Where the YAML files are that were there when the operation began.
YamlShape(i) ==
    op[i].phase \in {"change", "new"} =>
        /\ op[i].step \in {"check", "stop", "stage", "ensure", "conf", "run", "want", "secure",
                           "preserve", "keep", "ok"}
              => YamlOf(op[i].began) \subseteq YamlOf(live)
        /\ op[i].step \in {"clear", "retire", "place"}
              => YamlOf(op[i].began) \subseteq YamlOf(op[i].payload)
        /\ op[i].step \in {"aside", "restore"} => YamlOf(op[i].began) \subseteq YamlOf(backup)

\* As long as nothing went wrong a copy that looks installed is complete.
CleanShape ==
    faults = 0 /\ crashes = 0 =>
        /\ Installed(live) => Whole(live)
        /\ Installed(backup) => Whole(backup)
        /\ \A i \in Instances : Installed(op[i].temporary) => Whole(op[i].temporary)

Began(i, c) == Whole(c) /\ c.release = op[i].began.release

\* Where the complete program that the operation began with is, and what is
\* complete after one fault.
SurvivalShape(i) ==
    crashes = 0 /\ faults <= 1 /\ Whole(op[i].began) =>
        /\ op[i].phase = "change" /\ op[i].step \in {"check", "stop", "ensure", "conf", "run", "stage",
                                                     "clear", "retire", "preserve", "aside"}
              => Began(i, live)
        /\ op[i].phase = "change" /\ op[i].step \in {"place", "secure", "want"} => Began(i, backup)
        /\ op[i].phase = "change" /\ op[i].step \in {"restore", "keep"} => Began(i, op[i].temporary)
        /\ op[i].phase = "change" /\ op[i].step \in Starting => op[i].kind = "start"
        /\ op[i].phase = "change" /\ op[i].step \in {"stage", "clear", "retire", "place", "unplace", "secure", "discard"}
              => op[i].kind = "upgrade"
        /\ op[i].step = "place" => live = Missing /\ op[i].had
        /\ op[i].step = "secure" => op[i].had
        /\ op[i].step = "want" => Installed(live)
        /\ op[i].step = "unplace" => faults = 1 /\ live = Missing /\ Whole(backup)
        /\ op[i].step = "discard" => faults = 1 /\ Whole(backup)
        /\ op[i].step = "unaside" => faults = 1 /\ Whole(op[i].temporary)
        /\ op[i].phase = "new" => op[i].step \in Starting \cup {"ok", "failed"}
        /\ op[i].phase = "new" /\ op[i].step \in Starting => Installed(live) /\ Began(i, backup)
        /\ op[i].phase = "old" => op[i].step \in Starting \cup {"preserve", "aside", "restore", "unaside", "keep", "failed"}
        /\ op[i].phase = "old" /\ op[i].step \in {"preserve", "aside"} => Installed(live)
        /\ op[i].phase = "old" /\ op[i].step \in {"preserve", "aside", "restore"} => Began(i, backup)
        /\ op[i].phase = "old" /\ op[i].step = "restore" => Installed(op[i].temporary)
        /\ op[i].phase = "old" /\ op[i].step \in {"keep"} \cup Starting => Began(i, live)
        /\ op[i].phase = "again" => op[i].step \in Starting \cup {"failed"} /\ faults = 1 /\ Whole(live)
        /\ op[i].step = "failed" => Whole(live) /\ (faults = 0 => Began(i, live))

InstallationInvariant ==
    /\ RunsInstalled /\ CleanShape
    /\ \A i \in Instances : StepShape(i) /\ CopyShape(i) /\ YamlShape(i) /\ SurvivalShape(i)

-----------------------------------------------------------------------------
(* How the operations go on.                                               *)

\* The operation of i takes a step, and no other one is touched.
Rest(i) ==
    /\ op' \in [Instances -> Operation]
    /\ \A j \in Instances \ {i} : op'[j] = op[j]
    /\ op'[i].kind = op[i].kind /\ op'[i].began = op[i].began

Moves(i, step, phase, payload, temporary) ==
    /\ Rest(i) /\ UNCHANGED lock
    /\ op'[i].step = step /\ op'[i].phase = phase
    /\ op'[i].payload = payload /\ op'[i].temporary = temporary
    /\ op'[i].had = op[i].had /\ op'[i].was = op[i].was

\* What the three ways to go on do to the fields of the operation.
LEMMA Going ==
    ASSUME op \in [Instances -> Operation], NEW i \in Instances
    PROVE  /\ \A step \in Steps : StepTo(i, step) =>
                  Moves(i, step, op[i].phase, op[i].payload, op[i].temporary)
           /\ \A step \in Steps, phase \in Phases : Phase(i, step, phase) =>
                  Moves(i, step, phase, Missing, op[i].temporary)
           /\ \A result \in Steps : End(i, result) => Moves(i, result, op[i].phase, Missing, Missing)
  <1>1. \A o \in Operation : DOMAIN o = {"step", "kind", "phase", "had", "was", "payload", "temporary", "began"}
    BY DEF Operation
  <1>2. op[i] \in Operation /\ Missing \in Slot
    BY DEF Slot
  <1>3. ASSUME NEW step \in Steps, StepTo(i, step)
        PROVE  Moves(i, step, op[i].phase, op[i].payload, op[i].temporary)
    <2>1. [op[i] EXCEPT !.step = step] \in Operation
      BY <1>2 DEF Operation
    <2> QED BY <1>1, <1>2, <1>3, <2>1 DEF StepTo, Moves, Rest
  <1>4. ASSUME NEW step \in Steps, NEW phase \in Phases, Phase(i, step, phase)
        PROVE  Moves(i, step, phase, Missing, op[i].temporary)
    <2>1. [op[i] EXCEPT !.step = step, !.phase = phase, !.payload = Missing] \in Operation
      BY <1>2 DEF Operation
    <2> QED BY <1>1, <1>2, <1>4, <2>1 DEF Phase, Moves, Rest
  <1>5. ASSUME NEW result \in Steps, End(i, result)
        PROVE  Moves(i, result, op[i].phase, Missing, Missing)
    <2>1. [op[i] EXCEPT !.step = result, !.payload = Missing, !.temporary = Missing] \in Operation
      BY <1>2 DEF Operation
    <2> QED BY <1>1, <1>2, <1>5, <2>1 DEF End, Moves, Rest
  <1> QED BY <1>3, <1>4, <1>5

\* What the steps do that set more than that.
LEMMA GoingDirectly ==
    ASSUME op \in [Instances -> Operation], NEW i \in Instances, UNCHANGED lock
    PROVE  /\ \A step \in Steps : op' = [op EXCEPT ![i].step = step, ![i].temporary = Missing] =>
                  Moves(i, step, op[i].phase, op[i].payload, Missing)
           /\ \A step \in Steps, copy \in Slot : op' = [op EXCEPT ![i].temporary = copy, ![i].step = step] =>
                  Moves(i, step, op[i].phase, op[i].payload, copy)
           /\ \A step \in Steps, copy \in Slot : op' = [op EXCEPT ![i].payload = copy, ![i].step = step] =>
                  Moves(i, step, op[i].phase, copy, op[i].temporary)
  <1>1. \A o \in Operation : DOMAIN o = {"step", "kind", "phase", "had", "was", "payload", "temporary", "began"}
    BY DEF Operation
  <1>2. op[i] \in Operation /\ Missing \in Slot
    BY DEF Slot
  <1>3. ASSUME NEW step \in Steps, NEW copy \in Slot
        PROVE  /\ [op[i] EXCEPT !.step = step, !.temporary = Missing] \in Operation
               /\ [op[i] EXCEPT !.temporary = copy, !.step = step] \in Operation
               /\ [op[i] EXCEPT !.payload = copy, !.step = step] \in Operation
    BY <1>2 DEF Operation
  <1>4. ASSUME NEW step \in Steps, op' = [op EXCEPT ![i].step = step, ![i].temporary = Missing]
        PROVE  Moves(i, step, op[i].phase, op[i].payload, Missing)
    BY <1>1, <1>2, <1>3, <1>4 DEF Moves, Rest
  <1>5. ASSUME NEW step \in Steps, NEW copy \in Slot, op' = [op EXCEPT ![i].temporary = copy, ![i].step = step]
        PROVE  Moves(i, step, op[i].phase, op[i].payload, copy)
    BY <1>1, <1>2, <1>3, <1>5 DEF Moves, Rest
  <1>6. ASSUME NEW step \in Steps, NEW copy \in Slot, op' = [op EXCEPT ![i].payload = copy, ![i].step = step]
        PROVE  Moves(i, step, op[i].phase, copy, op[i].temporary)
    BY <1>1, <1>2, <1>3, <1>6 DEF Moves, Rest
  <1> QED BY ONLY <1>4, <1>5, <1>6

\* And the ways that are composed of them.
LEMMA GoingFurther ==
    ASSUME op \in [Instances -> Operation], NEW i \in Instances
    PROVE  /\ StartDone(i) => \E step \in {"ok", "failed"} :
                  /\ Moves(i, step, op[i].phase, Missing, Missing)
                  /\ step = "ok" <=> (op[i].kind = "start" \/ op[i].phase = "new")
           /\ StartFailed(i) =>
                  IF op[i].phase = "new" THEN Moves(i, "preserve", "old", Missing, op[i].temporary)
                  ELSE Moves(i, "failed", op[i].phase, Missing, Missing)
           /\ InstallDone(i) => \E step \in {"want", "conf"} :
                  /\ Moves(i, step, op[i].phase, op[i].payload, op[i].temporary)
                  /\ step = "want" <=> Upgrades(i)
           /\ InstallFailed(i) =>
                  \/ Upgrades(i) /\ op[i].was /\ Moves(i, "ensure", "again", Missing, op[i].temporary)
                  \/ ~Upgrades(i) /\ op[i].phase = "new" /\ Moves(i, "preserve", "old", Missing, op[i].temporary)
                  \/ /\ op[i].phase = "new" => Upgrades(i)
                     /\ Upgrades(i) => ~op[i].was
                     /\ Moves(i, "failed", op[i].phase, Missing, Missing)
           /\ SwapDone(i) => \E step \in {"want", "ensure"} :
                  /\ Moves(i, step, op[i].phase, op[i].payload, Missing)
                  /\ step = "want" <=> op[i].phase = "change"
  <1> USE Going DEF Steps, Phases
  <1>1. op[i] \in Operation /\ Missing \in Slot
    BY DEF Slot
  <1>2. StartDone(i) => \E step \in {"ok", "failed"} :
            /\ Moves(i, step, op[i].phase, Missing, Missing)
            /\ step = "ok" <=> (op[i].kind = "start" \/ op[i].phase = "new")
    BY DEF StartDone
  <1>3. StartFailed(i) =>
            IF op[i].phase = "new" THEN Moves(i, "preserve", "old", Missing, op[i].temporary)
            ELSE Moves(i, "failed", op[i].phase, Missing, Missing)
    BY DEF StartFailed
  <1>4. InstallDone(i) => \E step \in {"want", "conf"} :
            /\ Moves(i, step, op[i].phase, op[i].payload, op[i].temporary)
            /\ step = "want" <=> Upgrades(i)
    BY DEF InstallDone
  <1>5. InstallFailed(i) =>
            \/ Upgrades(i) /\ op[i].was /\ Moves(i, "ensure", "again", Missing, op[i].temporary)
            \/ ~Upgrades(i) /\ op[i].phase = "new" /\ Moves(i, "preserve", "old", Missing, op[i].temporary)
            \/ /\ op[i].phase = "new" => Upgrades(i)
               /\ Upgrades(i) => ~op[i].was
               /\ Moves(i, "failed", op[i].phase, Missing, Missing)
    BY <1>3 DEF InstallFailed
  <1>6. ASSUME SwapDone(i) PROVE  \E step \in {"want", "ensure"} :
            /\ Moves(i, step, op[i].phase, op[i].payload, Missing)
            /\ step = "want" <=> op[i].phase = "change"
    <2>1. PICK step \in {"want", "ensure"} :
              /\ step = "want" <=> op[i].phase = "change"
              /\ op' = [op EXCEPT ![i].step = step, ![i].temporary = Missing] /\ lock' = lock
      <3>1. CASE op[i].phase = "change"
        BY <1>6, <3>1 DEF SwapDone
      <3>2. CASE op[i].phase # "change"
        BY <1>6, <3>2 DEF SwapDone
      <3> QED BY <3>1, <3>2
    <2> QED BY ONLY <2>1, GoingDirectly, op \in [Instances -> Operation], i \in Instances DEF Steps
  <1> QED BY <1>2, <1>3, <1>4, <1>5, <1>6

\* In every case the operation goes on, or ends, under its lock.
LEMMA GoingOn ==
    ASSUME op \in [Instances -> Operation], NEW i \in Instances,
           \/ \E step \in Steps \ {"idle"} :
                 StepTo(i, step) \/ End(i, step) \/ \E phase \in Phases : Phase(i, step, phase)
           \/ StartDone(i) \/ StartFailed(i) \/ InstallDone(i) \/ InstallFailed(i) \/ SwapDone(i)
    PROVE  Rest(i) /\ UNCHANGED lock /\ op'[i].step # "idle"
  <1>1. CASE \E step \in Steps \ {"idle"} :
                 StepTo(i, step) \/ End(i, step) \/ \E phase \in Phases : Phase(i, step, phase)
    <2>1. PICK step \in Steps \ {"idle"} :
                 StepTo(i, step) \/ End(i, step) \/ \E phase \in Phases : Phase(i, step, phase)
      BY <1>1
    <2> QED BY <2>1, Going DEF Moves
  <1>2. CASE StartDone(i) \/ StartFailed(i) \/ InstallDone(i) \/ InstallFailed(i) \/ SwapDone(i)
    BY <1>2, GoingFurther DEF Moves
  <1> QED BY <1>1, <1>2

\* Copies whose files change stay copies.
LEMMA CopiesTyped ==
    /\ \A c \in Copy, y \in SUBSET Files :
          /\ [c EXCEPT !.yaml = y] \in Copy /\ [c EXCEPT !.yaml = y].yaml = y
          /\ [c EXCEPT !.yaml = y].state = c.state /\ [c EXCEPT !.yaml = y].release = c.release
    /\ \A c \in Copy : c # Missing /\ c.yaml \in SUBSET Files
    /\ \A c \in Copy, y \in SUBSET Files : [c EXCEPT !.yaml = c.yaml \cup y] \in Copy
    /\ \A c \in Copy, f \in Files : [c EXCEPT !.yaml = c.yaml \cup {f}] \in Copy
    /\ \A c \in Slot : Installed(c) => c \in Copy
    /\ \A c \in Slot : YamlOf(c) \in SUBSET Files
    /\ \A c \in Slot : \A d \in Torn(c) : d \in Slot
    /\ \A y \in SUBSET Files : Staged(y) \in Copy /\ Whole(Staged(y)) /\ Staged(y).yaml = y
  <1> USE MissingAssumption DEF Copy, Slot, Installed, YamlOf, Torn, Staged, Whole
  <1> QED OBVIOUS

\* What the actions do that set more fields than the step.
LEMMA ActionsGo ==
    ASSUME op \in [Instances -> Operation], live \in Slot, java \in [Instances -> BOOLEAN], NEW i \in Instances
    PROVE  /\ Stop(i) =>
                 /\ Rest(i) /\ UNCHANGED lock /\ op'[i].phase = op[i].phase /\ op'[i].temporary \in {op[i].temporary, Missing}
                 /\ \/ /\ op'[i].step = IF op[i].kind = "upgrade" THEN "stage" ELSE "preserve"
                       /\ op'[i].had = op[i].had /\ java' = [java EXCEPT ![i] = FALSE] /\ UNCHANGED faults
                    \/ op'[i].step = "failed" /\ Fails(TRUE) /\ UNCHANGED java
           /\ Stage(i) =>
                 \/ /\ Rest(i) /\ UNCHANGED <<lock, faults>> /\ op'[i].phase = op[i].phase
                    /\ op'[i].temporary = op[i].temporary
                    /\ op'[i].step = IF HadLive THEN "clear" ELSE "place"
                    /\ op'[i].had = HadLive /\ op'[i].payload = Staged(YamlOf(live))
                 \/ Fails(TRUE) /\ InstallFailed(i)
           /\ Place(i) =>
                 \/ /\ CanMove(op[i].payload, live) /\ live' = op[i].payload /\ UNCHANGED faults
                    /\ Moves(i, "secure", op[i].phase, Missing, op[i].temporary)
                 \/ Fails(CanMove(op[i].payload, live)) /\ PutBack(i) /\ UNCHANGED live
           /\ Aside(i) =>
                 \/ /\ live # Missing /\ live' = Missing /\ UNCHANGED faults
                    /\ Moves(i, "restore", op[i].phase, op[i].payload, live)
                 \/ Fails(live # Missing) /\ End(i, "failed") /\ UNCHANGED live
  <1>0. \A o \in Operation : DOMAIN o = {"step", "kind", "phase", "had", "was", "payload", "temporary", "began"}
    BY DEF Operation
  <1>1. /\ op[i] \in Operation /\ Missing \in Slot /\ op[i].payload \in Slot /\ java[i] \in BOOLEAN /\ HadLive \in BOOLEAN
        /\ Staged(YamlOf(live)) \in Slot
        /\ \A step \in {"stage", "preserve", "clear", "place", "failed", "secure", "restore"} : step \in Steps
    BY CopiesTyped DEF Operation, Slot, Steps, HadLive, Installed
  <1>2. ASSUME Stop(i)
        PROVE  /\ Rest(i) /\ UNCHANGED lock /\ op'[i].phase = op[i].phase /\ op'[i].temporary \in {op[i].temporary, Missing}
               /\ \/ /\ op'[i].step = IF op[i].kind = "upgrade" THEN "stage" ELSE "preserve"
                     /\ op'[i].had = op[i].had /\ java' = [java EXCEPT ![i] = FALSE] /\ UNCHANGED faults
                  \/ op'[i].step = "failed" /\ Fails(TRUE) /\ UNCHANGED java
    <2>1. CASE Fails(TRUE) /\ End(i, "failed") /\ UNCHANGED java
      BY <1>1, <2>1, Going DEF Moves
    <2>2. CASE /\ java' = [java EXCEPT ![i] = FALSE]
               /\ \E was \in {FALSE, java[i]} :
                     op' = [op EXCEPT ![i].was = was,
                               ![i].step = IF op[i].kind = "upgrade" THEN "stage" ELSE "preserve"]
               /\ UNCHANGED <<lock, faults>>
      <3>1. PICK was \in BOOLEAN :
               op' = [op EXCEPT ![i].was = was, ![i].step = IF op[i].kind = "upgrade" THEN "stage" ELSE "preserve"]
        BY <1>1, <2>2
      <3>2. PICK step \in Steps : /\ op' = [op EXCEPT ![i].was = was, ![i].step = step]
                                  /\ step = IF op[i].kind = "upgrade" THEN "stage" ELSE "preserve"
        BY <1>1, <3>1
      <3>3. Rest(i) /\ op'[i].step = step /\ op'[i].phase = op[i].phase /\ op'[i].had = op[i].had
            /\ op'[i].temporary = op[i].temporary
        <4>1. [op[i] EXCEPT !.was = was, !.step = step] \in Operation
          BY <1>1 DEF Operation
        <4> QED BY <1>0, <1>1, <3>2, <4>1 DEF Rest
      <3> QED BY ONLY <2>2, <3>2, <3>3
    <2> QED BY <1>2, <2>1, <2>2 DEF Stop
  <1>3. ASSUME Stage(i)
        PROVE  \/ /\ Rest(i) /\ UNCHANGED <<lock, faults>> /\ op'[i].phase = op[i].phase
                  /\ op'[i].temporary = op[i].temporary
                  /\ op'[i].step = IF HadLive THEN "clear" ELSE "place"
                  /\ op'[i].had = HadLive /\ op'[i].payload = Staged(YamlOf(live))
               \/ Fails(TRUE) /\ InstallFailed(i)
    <2>1. CASE Fails(TRUE) /\ InstallFailed(i)
      BY <2>1
    <2>2. CASE /\ op' = [op EXCEPT ![i].payload = Staged(Preserved(live, Missing)),
                                   ![i].had = HadLive, ![i].step = IF HadLive THEN "clear" ELSE "place"]
               /\ UNCHANGED <<lock, faults>>
      <3>1. Preserved(live, Missing) = YamlOf(live)
        BY DEF Preserved, YamlOf
      <3>2. PICK step \in Steps, had \in BOOLEAN, copy \in Slot :
               /\ op' = [op EXCEPT ![i].payload = copy, ![i].had = had, ![i].step = step]
               /\ step = IF HadLive THEN "clear" ELSE "place"
               /\ had = HadLive /\ copy = Staged(YamlOf(live))
        BY <1>1, <2>2, <3>1
      <3>3. Rest(i) /\ op'[i].step = step /\ op'[i].phase = op[i].phase /\ op'[i].had = HadLive
            /\ op'[i].payload = Staged(YamlOf(live)) /\ op'[i].temporary = op[i].temporary
        <4>1. [op[i] EXCEPT !.payload = copy, !.had = had, !.step = step] \in Operation
          BY <1>1 DEF Operation
        <4> QED BY <1>0, <1>1, <3>2, <4>1 DEF Rest
      <3> QED BY ONLY <2>2, <3>2, <3>3
    <2> QED BY <1>3, <2>1, <2>2 DEF Stage
  <1>4. Place(i) =>
           \/ /\ CanMove(op[i].payload, live) /\ live' = op[i].payload /\ UNCHANGED faults
              /\ Moves(i, "secure", op[i].phase, Missing, op[i].temporary)
           \/ Fails(CanMove(op[i].payload, live)) /\ PutBack(i) /\ UNCHANGED live
    BY <1>1, GoingDirectly DEF Place
  <1>5. Aside(i) =>
           \/ /\ live # Missing /\ live' = Missing /\ UNCHANGED faults
              /\ Moves(i, "restore", op[i].phase, op[i].payload, live)
           \/ Fails(live # Missing) /\ End(i, "failed") /\ UNCHANGED live
    BY <1>1, GoingDirectly DEF Aside
  <1> QED BY <1>2, <1>3, <1>4, <1>5

-----------------------------------------------------------------------------
(* Types.                                                                  *)

\* The types of what the operations work on, and that only the holder of the
\* lock is in one.
LEMMA TypesKept ==
    ASSUME TypeOK, \A i \in Instances : StepShape(i) /\ CopyShape(i), [Next]_vars PROVE TypeOK'
  <1> USE NamesAssumption DEF Disk
  <1>a. /\ op \in [Instances -> Operation] /\ Missing \in Slot /\ Copy \subseteq Slot
        /\ \A i \in Instances : op[i].payload \in Slot /\ op[i].temporary \in Slot /\ op[i] \in Operation
        /\ \A c \in Slot : c = Missing \/ c \in Copy
        /\ live \in Slot /\ backup \in Slot /\ strays \subseteq Copy
        /\ java \in [Instances -> BOOLEAN]
        /\ faults \in 0..MaxTroubles /\ crashes \in 0..MaxTroubles
        /\ \A i \in Instances : i \in Files
        /\ Operator \in Files
    BY DEF TypeOK, Operation, Slot, Files
  <1> DEFINE Locked == /\ lock \in Instances \cup {Nobody}
                       /\ op \in [Instances -> Operation]
                       /\ \A i \in Instances : Busy(i) <=> lock = i
  <1>b. ASSUME NEW i \in Instances, Rest(i), UNCHANGED lock, op[i].step # "idle", op'[i].step # "idle"
        PROVE  Locked'
    BY <1>b DEF Rest, TypeOK, Busy, At
  <1>c. ASSUME Locked', live' \in Slot, backup' \in Slot, strays' \subseteq Copy, java' \in [Instances -> BOOLEAN],
               faults' \in 0..MaxTroubles, crashes' \in 0..MaxTroubles
        PROVE  TypeOK'
    BY <1>c DEF TypeOK
  <1>d. ASSUME NEW can \in BOOLEAN, Fails(can) PROVE faults' \in 0..MaxTroubles
    BY <1>a, <1>d DEF Fails
  <1>e. ASSUME UNCHANGED <<op, lock>> PROVE Locked'
    BY <1>e DEF TypeOK, Busy, At
  <1>f. ASSUME NEW i \in Instances, NEW o \in Operation, op' = [op EXCEPT ![i] = o],
               lock' = IF o.step = "idle" THEN Nobody ELSE i, lock \in {i, Nobody}
        PROVE  Locked'
    BY <1>f DEF TypeOK, Busy, At
  <1>g. Idle \in Operation /\ Idle.step = "idle"
    BY DEF Idle, Operation, Steps, Kinds, Phases, Slot
  <1>h. \A i \in Instances : op[i].step # "idle" => lock = i
    BY DEF TypeOK, Busy, At
  <1> HIDE DEF Locked
  <1>1. ASSUME NEW i \in Instances, NEW kind \in Kinds, Begin(i, kind) PROVE TypeOK'
    <2>1. [Idle EXCEPT !.step = IF kind = "start" THEN "ensure" ELSE "check",
                       !.kind = kind, !.began = live] \in Operation
      BY <1>a, <1>g DEF Operation, Steps
    <2>2. [Idle EXCEPT !.step = IF kind = "start" THEN "ensure" ELSE "check",
                       !.kind = kind, !.began = live].step # "idle"
      BY <1>g DEF Operation, Idle
    <2> QED BY <1>1, <1>a, <1>c, <1>f, <2>1, <2>2 DEF Begin, LockFree
  <1>2. ASSUME NEW i \in Instances, Check(i) PROVE TypeOK'
    <2>1. Locked'
      BY <1>2, <1>a, <1>b, Going, GoingFurther DEF Check, Moves, At, Steps, Phases
    <2>2. /\ live' \in Slot /\ backup' \in Slot /\ strays' \subseteq Copy /\ java' \in [Instances -> BOOLEAN]
      BY <1>2, <1>a, CopiesTyped DEF Check, At, StepShape, CopyShape, Preserved, Installed, CanMove
    <2>3. faults' \in 0..MaxTroubles /\ crashes' \in 0..MaxTroubles
      BY <1>2, <1>a DEF Check, Fails
    <2> QED BY <1>c, <2>1, <2>2, <2>3
  <1>3. ASSUME NEW i \in Instances, Stop(i) PROVE TypeOK'
    <2>1. Locked'
      BY <1>3, <1>a, <1>b, Going, GoingFurther, ActionsGo DEF Stop, Moves, At, Steps, Phases
    <2>2. /\ live' \in Slot /\ backup' \in Slot /\ strays' \subseteq Copy /\ java' \in [Instances -> BOOLEAN]
      BY <1>3, <1>a, CopiesTyped DEF Stop, At, StepShape, CopyShape, Preserved, Installed, CanMove
    <2>3. faults' \in 0..MaxTroubles /\ crashes' \in 0..MaxTroubles
      BY <1>3, <1>a DEF Stop, Fails
    <2> QED BY <1>c, <2>1, <2>2, <2>3
  <1>4. ASSUME NEW i \in Instances, Want(i) PROVE TypeOK'
    <2>1. Locked'
      BY <1>4, <1>a, <1>b, Going, GoingFurther DEF Want, Moves, At, Steps, Phases
    <2>2. /\ live' \in Slot /\ backup' \in Slot /\ strays' \subseteq Copy /\ java' \in [Instances -> BOOLEAN]
      BY <1>4, <1>a, CopiesTyped DEF Want, At, StepShape, CopyShape, Preserved, Installed, CanMove
    <2>3. faults' \in 0..MaxTroubles /\ crashes' \in 0..MaxTroubles
      BY <1>4, <1>a DEF Want, Fails
    <2> QED BY <1>c, <2>1, <2>2, <2>3
  <1>5. ASSUME NEW i \in Instances, Ensure(i) PROVE TypeOK'
    <2>1. Locked'
      BY <1>5, <1>a, <1>b, Going, GoingFurther DEF Ensure, Moves, At, Steps, Phases
    <2>2. /\ live' \in Slot /\ backup' \in Slot /\ strays' \subseteq Copy /\ java' \in [Instances -> BOOLEAN]
      <3>1. [release |-> "old", state |-> "husk", yaml |-> {}] \in Slot
        BY DEF Slot, Copy
      <3> QED BY <1>5, <1>a, <3>1 DEF Ensure
    <2>3. faults' \in 0..MaxTroubles /\ crashes' \in 0..MaxTroubles
      BY <1>5, <1>a DEF Ensure, Fails
    <2> QED BY <1>c, <2>1, <2>2, <2>3
  <1>6. ASSUME NEW i \in Instances, Conf(i) PROVE TypeOK'
    <2>1. Locked'
      BY <1>6, <1>a, <1>b, Going, GoingFurther DEF Conf, Moves, At, Steps, Phases
    <2>2. /\ live' \in Slot /\ backup' \in Slot /\ strays' \subseteq Copy /\ java' \in [Instances -> BOOLEAN]
      <3>1. op[i].step = "conf" /\ StepShape(i)
        BY <1>6 DEF Conf, At
      <3>2. live \in Copy
        BY <1>a, <3>1, CopiesTyped DEF StepShape
      <3> QED BY <1>6, <1>a, <3>2, CopiesTyped DEF Conf
    <2>3. faults' \in 0..MaxTroubles /\ crashes' \in 0..MaxTroubles
      BY <1>6, <1>a DEF Conf, Fails
    <2> QED BY <1>c, <2>1, <2>2, <2>3
  <1>7. ASSUME NEW i \in Instances, Run(i) PROVE TypeOK'
    <2>1. Locked'
      BY <1>7, <1>a, <1>b, Going, GoingFurther DEF Run, Moves, At, Steps, Phases
    <2>2. /\ live' \in Slot /\ backup' \in Slot /\ strays' \subseteq Copy /\ java' \in [Instances -> BOOLEAN]
      BY <1>7, <1>a, CopiesTyped DEF Run, At, StepShape, CopyShape, Preserved, Installed, CanMove
    <2>3. faults' \in 0..MaxTroubles /\ crashes' \in 0..MaxTroubles
      BY <1>7, <1>a DEF Run, Fails
    <2> QED BY <1>c, <2>1, <2>2, <2>3
  <1>8. ASSUME NEW i \in Instances, Stage(i) PROVE TypeOK'
    <2>1. Locked'
      BY <1>8, <1>a, <1>b, Going, GoingFurther, ActionsGo DEF Stage, Moves, At, Steps, Phases
    <2>2. /\ live' \in Slot /\ backup' \in Slot /\ strays' \subseteq Copy /\ java' \in [Instances -> BOOLEAN]
      BY <1>8, <1>a, CopiesTyped DEF Stage, At, StepShape, CopyShape, Preserved, Installed, CanMove
    <2>3. faults' \in 0..MaxTroubles /\ crashes' \in 0..MaxTroubles
      BY <1>8, <1>a DEF Stage, Fails
    <2> QED BY <1>c, <2>1, <2>2, <2>3
  <1>9. ASSUME NEW i \in Instances, Clear(i) PROVE TypeOK'
    <2>1. Locked'
      BY <1>9, <1>a, <1>b, Going, GoingFurther DEF Clear, Moves, At, Steps, Phases
    <2>2. /\ live' \in Slot /\ backup' \in Slot /\ strays' \subseteq Copy /\ java' \in [Instances -> BOOLEAN]
      BY <1>9, <1>a, CopiesTyped DEF Clear, At, StepShape, CopyShape, Preserved, Installed, CanMove
    <2>3. faults' \in 0..MaxTroubles /\ crashes' \in 0..MaxTroubles
      BY <1>9, <1>a DEF Clear, Fails
    <2> QED BY <1>c, <2>1, <2>2, <2>3
  <1>10. ASSUME NEW i \in Instances, Retire(i) PROVE TypeOK'
    <2>1. Locked'
      BY <1>10, <1>a, <1>b, Going, GoingFurther DEF Retire, Moves, At, Steps, Phases
    <2>2. /\ live' \in Slot /\ backup' \in Slot /\ strays' \subseteq Copy /\ java' \in [Instances -> BOOLEAN]
      BY <1>10, <1>a, CopiesTyped DEF Retire, At, StepShape, CopyShape, Preserved, Installed, CanMove
    <2>3. faults' \in 0..MaxTroubles /\ crashes' \in 0..MaxTroubles
      BY <1>10, <1>a DEF Retire, Fails
    <2> QED BY <1>c, <2>1, <2>2, <2>3
  <1>11. ASSUME NEW i \in Instances, Place(i) PROVE TypeOK'
    <2>1. Locked'
      BY <1>11, <1>a, <1>b, Going, GoingFurther, ActionsGo DEF Place, Moves, At, Steps, Phases, PutBack
    <2>2. /\ live' \in Slot /\ backup' \in Slot /\ strays' \subseteq Copy /\ java' \in [Instances -> BOOLEAN]
      BY <1>11, <1>a, CopiesTyped DEF Place, At, StepShape, CopyShape, Preserved, Installed, CanMove
    <2>3. faults' \in 0..MaxTroubles /\ crashes' \in 0..MaxTroubles
      BY <1>11, <1>a DEF Place, Fails
    <2> QED BY <1>c, <2>1, <2>2, <2>3
  <1>12. ASSUME NEW i \in Instances, Unplace(i) PROVE TypeOK'
    <2>1. Locked'
      BY <1>12, <1>a, <1>b, Going, GoingFurther DEF Unplace, Moves, At, Steps, Phases
    <2>2. /\ live' \in Slot /\ backup' \in Slot /\ strays' \subseteq Copy /\ java' \in [Instances -> BOOLEAN]
      BY <1>12, <1>a, CopiesTyped DEF Unplace, At, StepShape, CopyShape, Preserved, Installed, CanMove
    <2>3. faults' \in 0..MaxTroubles /\ crashes' \in 0..MaxTroubles
      BY <1>12, <1>a DEF Unplace, Fails
    <2> QED BY <1>c, <2>1, <2>2, <2>3
  <1>13. ASSUME NEW i \in Instances, Secure(i) PROVE TypeOK'
    <2>1. Locked'
      BY <1>13, <1>a, <1>b, Going, GoingFurther DEF Secure, Moves, At, Steps, Phases
    <2>2. /\ live' \in Slot /\ backup' \in Slot /\ strays' \subseteq Copy /\ java' \in [Instances -> BOOLEAN]
      BY <1>13, <1>a, CopiesTyped DEF Secure, At, StepShape, CopyShape, Preserved, Installed, CanMove
    <2>3. faults' \in 0..MaxTroubles /\ crashes' \in 0..MaxTroubles
      BY <1>13, <1>a DEF Secure, Fails
    <2> QED BY <1>c, <2>1, <2>2, <2>3
  <1>14. ASSUME NEW i \in Instances, Discard(i) PROVE TypeOK'
    <2>1. Locked'
      BY <1>14, <1>a, <1>b, Going, GoingFurther DEF Discard, Moves, At, Steps, Phases
    <2>2. /\ live' \in Slot /\ backup' \in Slot /\ strays' \subseteq Copy /\ java' \in [Instances -> BOOLEAN]
      BY <1>14, <1>a, CopiesTyped DEF Discard, At, StepShape, CopyShape, Preserved, Installed, CanMove
    <2>3. faults' \in 0..MaxTroubles /\ crashes' \in 0..MaxTroubles
      BY <1>14, <1>a DEF Discard, Fails
    <2> QED BY <1>c, <2>1, <2>2, <2>3
  <1>15. ASSUME NEW i \in Instances, Preserve(i) PROVE TypeOK'
    <2>1. Locked'
      BY <1>15, <1>a, <1>b, Going, GoingFurther DEF Preserve, Moves, At, Steps, Phases
    <2>2. /\ live' \in Slot /\ backup' \in Slot /\ strays' \subseteq Copy /\ java' \in [Instances -> BOOLEAN]
      <3>1. /\ \A y \in SUBSET YamlOf(live) : y \in SUBSET Files
            /\ Preserved(live, backup) \in SUBSET Files
            /\ Installed(backup) => backup \in Copy
        BY <1>a, CopiesTyped DEF Preserved
      <3>2. Installed(backup) => backup' \in Copy
        BY <1>15, <3>1, CopiesTyped DEF Preserve
      <3> QED BY <1>15, <1>a, <3>2 DEF Preserve
    <2>3. faults' \in 0..MaxTroubles /\ crashes' \in 0..MaxTroubles
      BY <1>15, <1>a DEF Preserve, Fails
    <2> QED BY <1>c, <2>1, <2>2, <2>3
  <1>16. ASSUME NEW i \in Instances, Aside(i) PROVE TypeOK'
    <2>1. Locked'
      BY <1>16, <1>a, <1>b, Going, GoingFurther, ActionsGo DEF Aside, Moves, At, Steps, Phases
    <2>2. /\ live' \in Slot /\ backup' \in Slot /\ strays' \subseteq Copy /\ java' \in [Instances -> BOOLEAN]
      BY <1>16, <1>a, CopiesTyped DEF Aside, At, StepShape, CopyShape, Preserved, Installed, CanMove
    <2>3. faults' \in 0..MaxTroubles /\ crashes' \in 0..MaxTroubles
      BY <1>16, <1>a DEF Aside, Fails
    <2> QED BY <1>c, <2>1, <2>2, <2>3
  <1>17. ASSUME NEW i \in Instances, Restore(i) PROVE TypeOK'
    <2>1. Locked'
      BY <1>17, <1>a, <1>b, Going, GoingFurther DEF Restore, Moves, At, Steps, Phases
    <2>2. /\ live' \in Slot /\ backup' \in Slot /\ strays' \subseteq Copy /\ java' \in [Instances -> BOOLEAN]
      BY <1>17, <1>a, CopiesTyped DEF Restore, At, StepShape, CopyShape, Preserved, Installed, CanMove
    <2>3. faults' \in 0..MaxTroubles /\ crashes' \in 0..MaxTroubles
      BY <1>17, <1>a DEF Restore, Fails
    <2> QED BY <1>c, <2>1, <2>2, <2>3
  <1>18. ASSUME NEW i \in Instances, Unaside(i) PROVE TypeOK'
    <2>1. Locked'
      BY <1>18, <1>a, <1>b, Going, GoingFurther DEF Unaside, Moves, At, Steps, Phases
    <2>2. /\ live' \in Slot /\ backup' \in Slot /\ strays' \subseteq Copy /\ java' \in [Instances -> BOOLEAN]
      BY <1>18, <1>a, CopiesTyped DEF Unaside, At, StepShape, CopyShape, Preserved, Installed, CanMove
    <2>3. faults' \in 0..MaxTroubles /\ crashes' \in 0..MaxTroubles
      BY <1>18, <1>a DEF Unaside, Fails
    <2> QED BY <1>c, <2>1, <2>2, <2>3
  <1>19. ASSUME NEW i \in Instances, Keep(i) PROVE TypeOK'
    <2>1. Locked'
      BY <1>19, <1>a, <1>b, Going, GoingFurther DEF Keep, Moves, At, Steps, Phases
    <2>2. /\ live' \in Slot /\ backup' \in Slot /\ strays' \subseteq Copy /\ java' \in [Instances -> BOOLEAN]
      <3>1. op[i].temporary \in Copy
        BY <1>19, <1>a DEF Keep, At, CopyShape
      <3> QED BY <1>19, <1>a, <3>1 DEF Keep
    <2>3. faults' \in 0..MaxTroubles /\ crashes' \in 0..MaxTroubles
      BY <1>19, <1>a DEF Keep, Fails
    <2> QED BY <1>c, <2>1, <2>2, <2>3
  <1>20. ASSUME NEW i \in Instances, Return(i) PROVE TypeOK'
    BY <1>20, <1>a, <1>c, <1>f, <1>g, <1>h DEF Return
  <1>21. ASSUME NEW i \in Instances, Crash(i) PROVE TypeOK'
    <2>1. Locked'
      BY <1>21, <1>f, <1>g, <1>h DEF Crash, At
    <2>2. live' \in Slot /\ backup' \in Slot /\ strays' \subseteq Copy
      BY <1>21, <1>a, CopiesTyped DEF Crash
    <2>3. java' \in [Instances -> BOOLEAN]
      BY <1>21, <1>a DEF Crash
    <2>4. faults' \in 0..MaxTroubles /\ crashes' \in 0..MaxTroubles
      BY <1>21, <1>a DEF Crash
    <2> QED BY <1>c, <2>1, <2>2, <2>3, <2>4
  <1>22. ASSUME NEW i \in Instances, JavaEnds(i) PROVE TypeOK'
    BY <1>22, <1>a, <1>c, <1>e DEF JavaEnds
  <1>23. CASE OperatorWrites
    <2>1. live' \in Copy
      BY <1>23, <1>a, CopiesTyped DEF OperatorWrites
    <2> QED BY <1>23, <1>a, <1>c, <1>e, <2>1 DEF OperatorWrites
  <1>24. CASE UNCHANGED vars
    BY <1>24, <1>a, <1>c, <1>e DEF vars
  <1> QED
    BY ONLY [Next]_vars, <1>1, <1>2, <1>3, <1>4, <1>5, <1>6, <1>7, <1>8, <1>9, <1>10, <1>11, <1>12, <1>13, <1>14, <1>15,
       <1>16, <1>17, <1>18, <1>19, <1>20, <1>21, <1>22, <1>23, <1>24
       DEF Next, Proceed

\* Each step that an action names.
LEMMA GoingTo ==
    ASSUME op \in [Instances -> Operation], NEW i \in Instances
    PROVE  /\ StepTo(i, "stop") => Moves(i, "stop", op[i].phase, op[i].payload, op[i].temporary)
           /\ StepTo(i, "conf") => Moves(i, "conf", op[i].phase, op[i].payload, op[i].temporary)
           /\ StepTo(i, "stage") => Moves(i, "stage", op[i].phase, op[i].payload, op[i].temporary)
           /\ StepTo(i, "run") => Moves(i, "run", op[i].phase, op[i].payload, op[i].temporary)
           /\ StepTo(i, "retire") => Moves(i, "retire", op[i].phase, op[i].payload, op[i].temporary)
           /\ StepTo(i, "place") => Moves(i, "place", op[i].phase, op[i].payload, op[i].temporary)
           /\ StepTo(i, "unplace") => Moves(i, "unplace", op[i].phase, op[i].payload, op[i].temporary)
           /\ StepTo(i, "discard") => Moves(i, "discard", op[i].phase, op[i].payload, op[i].temporary)
           /\ StepTo(i, "aside") => Moves(i, "aside", op[i].phase, op[i].payload, op[i].temporary)
           /\ StepTo(i, "keep") => Moves(i, "keep", op[i].phase, op[i].payload, op[i].temporary)
           /\ StepTo(i, "unaside") => Moves(i, "unaside", op[i].phase, op[i].payload, op[i].temporary)
           /\ End(i, "failed") => Moves(i, "failed", op[i].phase, Missing, Missing)
           /\ End(i, "ok") => Moves(i, "ok", op[i].phase, Missing, Missing)
           /\ Phase(i, "ensure", "new") => Moves(i, "ensure", "new", Missing, op[i].temporary)
  BY Going DEF Steps, Phases

-----------------------------------------------------------------------------
(* Where the operations are.                                               *)

\* Nobody runs from what is moved, and each step comes in its phase.
LEMMA StepsKept ==
    ASSUME TypeOK, RunsInstalled, \A k \in Instances : StepShape(k) /\ CopyShape(k), [Next]_vars
    PROVE  RunsInstalled' /\ \A k \in Instances : StepShape(k)'
  <1>a. /\ op \in [Instances -> Operation] /\ live \in Slot /\ java \in [Instances -> BOOLEAN]
        /\ \A i \in Instances : op[i].kind \in Kinds
        /\ \A i, j \in Instances : i # j /\ op[i].step # "idle" => op[j].step = "idle"
        /\ lock = Nobody => \A j \in Instances : op[j].step = "idle"
    BY NamesAssumption DEF TypeOK, Operation, Busy, At
  <1>o. ASSUME NEW i \in Instances, Rest(i), op[i].step # "idle", RunsInstalled', StepShape(i)'
        PROVE  RunsInstalled' /\ \A k \in Instances : StepShape(k)'
    <2>1. ASSUME NEW k \in Instances, k # i PROVE StepShape(k)'
      <3>1. op'[k] = op[k] /\ op[k].step = "idle"
        BY <1>a, <1>o, <2>1 DEF Rest
      <3> QED BY <3>1 DEF StepShape, Moving, Starting
    <2> QED BY <1>o, <2>1
  <1>s. ASSUME NEW i \in Instances
        PROVE  StepShape(i) /\ CopyShape(i)
    OBVIOUS
  <1>e. ASSUME NEW i \in Instances, op' = [op EXCEPT ![i] = Idle], op[i].step # "idle"
        PROVE  \A k \in Instances : StepShape(k)'
    <2>1. StepShape(i)'
      BY <1>a, <1>e DEF StepShape, Idle, Moving, Starting
    <2>2. ASSUME NEW k \in Instances, k # i PROVE StepShape(k)'
      <3>1. op'[k] = op[k] /\ op[k].step = "idle"
        BY <1>a, <1>e, <2>2
      <3> QED BY <3>1 DEF StepShape, Moving, Starting
    <2> QED BY <2>1, <2>2
  <1>r. /\ UNCHANGED java => (NobodyRuns' <=> NobodyRuns)
        /\ UNCHANGED java /\ (Installed(live) => Installed(live')) => RunsInstalled'
        /\ NobodyRuns' => RunsInstalled'
        /\ \A i \in Instances : UNCHANGED java => (NoOtherRuns(i)' <=> NoOtherRuns(i))
        /\ ~Installed(live) => NobodyRuns
    BY DEF NobodyRuns, RunsInstalled, NoOtherRuns
  <1>1. ASSUME NEW i \in Instances, NEW kind \in Kinds, Begin(i, kind) PROVE RunsInstalled' /\ \A k \in Instances : StepShape(k)'
    <2>1. /\ \A k \in Instances : op[k].step = "idle"
          /\ op'[i].step = (IF kind = "start" THEN "ensure" ELSE "check")
          /\ op'[i].phase = "change" /\ op'[i].kind = kind
          /\ \A k \in Instances : k # i => op'[k] = op[k]
          /\ UNCHANGED <<live, java>>
      BY <1>1, <1>a DEF Begin, LockFree, Idle, Disk
    <2>2. RunsInstalled'
      BY <1>r, <2>1
    <2>3. StepShape(i)'
      BY ONLY <2>1, <2>2 DEF StepShape, Moving, Starting
    <2>4. ASSUME NEW k \in Instances, k # i PROVE StepShape(k)'
      BY <1>s, <2>1, <2>4 DEF StepShape, Moving, Starting
    <2> QED BY <2>2, <2>3, <2>4
  <1>2. ASSUME NEW i \in Instances, Check(i) PROVE RunsInstalled' /\ \A k \in Instances : StepShape(k)'
    <2>1. Rest(i) /\ op[i].step = "check" /\ UNCHANGED <<live, java>>
      BY <1>2, <1>a, GoingTo DEF Check, Moves, At, Disk
    <2>2. RunsInstalled' /\ StepShape(i)
      BY <1>r, <2>1
    <2>3. ~InUse(i) => NoOtherRuns(i)
      BY DEF InUse, NoOtherRuns, RunsInstalled
    <2>4. StepShape(i)'
      BY ONLY <1>2, <1>a, i \in Instances, <2>1, <2>2, <2>3, <1>r, GoingTo DEF Check, StepShape, Moves, Rest, Moving, Starting
    <2> QED BY <1>o, <2>1, <2>2, <2>4
  <1>3. ASSUME NEW i \in Instances, Stop(i) PROVE RunsInstalled' /\ \A k \in Instances : StepShape(k)'
    <2>1. /\ Rest(i) /\ op[i].step = "stop" /\ live' = live
          /\ java' \in {java, [java EXCEPT ![i] = FALSE]}
          /\ op'[i].step \in {"failed", "stage", "preserve"} /\ op'[i].phase = op[i].phase
          /\ op'[i].step # "failed" => java' = [java EXCEPT ![i] = FALSE]
      BY <1>3, <1>a, ActionsGo DEF Stop, At, Disk
    <2>2. RunsInstalled' /\ StepShape(i)
      BY <1>a, <2>1 DEF RunsInstalled
    <2>3. op'[i].step # "failed" => NobodyRuns'
      BY <1>a, <2>1, <2>2 DEF StepShape, NobodyRuns, NoOtherRuns
    <2>4. StepShape(i)'
      BY ONLY i \in Instances, <2>1, <2>2, <2>3 DEF StepShape, Rest, Moving, Starting
    <2> QED BY <1>o, <2>1, <2>2, <2>4
  <1>4. ASSUME NEW i \in Instances, Want(i) PROVE RunsInstalled' /\ \A k \in Instances : StepShape(k)'
    <2>1. Rest(i) /\ op[i].step = "want"
      BY <1>4, <1>a, GoingTo, GoingFurther DEF Want, Moves, At
    <2>2. StepShape(i) /\ CopyShape(i)
      OBVIOUS
    <2>3. NobodyRuns /\ NobodyRuns' /\ RunsInstalled'
      BY <1>4, <1>r, <2>1, <2>2 DEF Want, StepShape, Moving
    <2>4. StepShape(i)'
      BY ONLY <1>4, <1>a, i \in Instances, <2>1, <2>2, <2>3, GoingTo, GoingFurther DEF Want, StepShape, Moves, Rest, Moving, Starting, Upgrades, At
    <2> QED BY <1>o, <2>1, <2>3, <2>4
  <1>5. ASSUME NEW i \in Instances, Ensure(i) PROVE RunsInstalled' /\ \A k \in Instances : StepShape(k)'
    <2>1. /\ Rest(i) /\ op[i].step = "ensure" /\ UNCHANGED java
          /\ op'[i].step = IF Installed(live) THEN "conf" ELSE "stage"
          /\ op'[i].phase = op[i].phase
          /\ Installed(live) => live' = live
      BY <1>5, <1>a, GoingTo DEF Ensure, Moves, At, Installed
    <2>2. RunsInstalled' /\ StepShape(i)
      BY <1>r, <2>1
    <2>3. ~Installed(live) => NobodyRuns'
      BY <1>r, <2>1
    <2>4. StepShape(i)'
      BY ONLY i \in Instances, <1>r, <2>1, <2>2, <2>3 DEF StepShape, Rest, Moving, Starting
    <2> QED BY <1>o, <2>1, <2>2, <2>4
  <1>6. ASSUME NEW i \in Instances, Conf(i) PROVE RunsInstalled' /\ \A k \in Instances : StepShape(k)'
    <2>1. Rest(i) /\ op[i].step = "conf" /\ UNCHANGED java /\ StepShape(i)
      BY <1>6, <1>a, GoingTo, GoingFurther DEF Conf, Moves, At
    <2>i. Installed(live)
      BY <2>1 DEF StepShape
    <2>2. Installed(live')
      <3>1. live' = live \/ live' = [live EXCEPT !.yaml = live.yaml \cup {i}]
        BY <1>6 DEF Conf
      <3>2. live \in Copy /\ i \in Files
        BY <1>a, <2>i, CopiesTyped DEF Files
      <3>3. CASE live' = live
        BY <2>i, <3>3
      <3>4. CASE live' = [live EXCEPT !.yaml = live.yaml \cup {i}]
        BY <2>i, <3>2, <3>4, CopiesTyped DEF Installed, Copy
      <3> QED BY <3>1, <3>3, <3>4
    <2>3. RunsInstalled' /\ (NobodyRuns' <=> NobodyRuns)
      BY <1>r, <2>1, <2>2
    <2>4. StepShape(i)'
      BY ONLY <1>6, <1>a, i \in Instances, <2>1, <2>2, <2>3, GoingTo, GoingFurther DEF Conf, StepShape, Moves, Rest, Moving, Starting
    <2> QED BY <1>o, <2>1, <2>3, <2>4
  <1>7. ASSUME NEW i \in Instances, Run(i) PROVE RunsInstalled' /\ \A k \in Instances : StepShape(k)'
    <2>1. /\ Rest(i) /\ op[i].step = "run" /\ live' = live /\ StepShape(i)
          /\ \/ op'[i].step \in {"ok", "failed"} /\ op'[i].phase = op[i].phase
                /\ (op'[i].step = "ok" => op[i].kind = "start" \/ op[i].phase = "new")
             \/ op'[i].step = "preserve" /\ op'[i].phase = "old" /\ op[i].phase = "new"
                /\ java' = [java EXCEPT ![i] = FALSE]
      BY <1>7, <1>a, GoingTo, GoingFurther DEF Run, Moves, At, Disk
    <2>2. Installed(live') /\ RunsInstalled'
      BY <2>1 DEF StepShape, RunsInstalled
    <2>3. op'[i].step = "preserve" => NobodyRuns' /\ op[i].kind # "start"
      BY <1>a, <2>1 DEF StepShape, Starting, NobodyRuns
    <2>4. StepShape(i)'
      BY ONLY i \in Instances, <2>1, <2>2, <2>3 DEF StepShape, Rest, Moving, Starting
    <2> QED BY <1>o, <2>1, <2>2, <2>4
  <1>8. ASSUME NEW i \in Instances, Stage(i) PROVE RunsInstalled' /\ \A k \in Instances : StepShape(k)'
    <2>1. Rest(i) /\ op[i].step = "stage"
      BY <1>8, <1>a, GoingTo, GoingFurther, ActionsGo DEF Stage, Moves, At
    <2>2. StepShape(i) /\ CopyShape(i)
      OBVIOUS
    <2>3. NobodyRuns /\ NobodyRuns' /\ RunsInstalled'
      BY <1>8, <1>r, <2>1, <2>2 DEF Stage, StepShape, Moving
    <2>4. StepShape(i)'
      BY ONLY <1>8, <1>a, i \in Instances, <2>1, <2>2, <2>3, GoingTo, GoingFurther, ActionsGo DEF Stage, StepShape, Moves, Rest, Moving, Starting, Upgrades, At
    <2> QED BY <1>o, <2>1, <2>3, <2>4
  <1>9. ASSUME NEW i \in Instances, Clear(i) PROVE RunsInstalled' /\ \A k \in Instances : StepShape(k)'
    <2>1. Rest(i) /\ op[i].step = "clear"
      BY <1>9, <1>a, GoingTo, GoingFurther DEF Clear, Moves, At
    <2>2. StepShape(i) /\ CopyShape(i)
      OBVIOUS
    <2>3. NobodyRuns /\ NobodyRuns' /\ RunsInstalled'
      BY <1>9, <1>r, <2>1, <2>2 DEF Clear, StepShape, Moving
    <2>4. StepShape(i)'
      BY ONLY <1>9, <1>a, i \in Instances, <2>1, <2>2, <2>3, GoingTo, GoingFurther DEF Clear, StepShape, Moves, Rest, Moving, Starting, Upgrades, At
    <2> QED BY <1>o, <2>1, <2>3, <2>4
  <1>10. ASSUME NEW i \in Instances, Retire(i) PROVE RunsInstalled' /\ \A k \in Instances : StepShape(k)'
    <2>1. Rest(i) /\ op[i].step = "retire"
      BY <1>10, <1>a, GoingTo, GoingFurther DEF Retire, Moves, At
    <2>2. StepShape(i) /\ CopyShape(i)
      OBVIOUS
    <2>3. NobodyRuns /\ NobodyRuns' /\ RunsInstalled'
      BY <1>10, <1>r, <2>1, <2>2 DEF Retire, StepShape, Moving
    <2>4. StepShape(i)'
      BY ONLY <1>10, <1>a, i \in Instances, <2>1, <2>2, <2>3, GoingTo, GoingFurther DEF Retire, StepShape, Moves, Rest, Moving, Starting, Upgrades, At
    <2> QED BY <1>o, <2>1, <2>3, <2>4
  <1>11. ASSUME NEW i \in Instances, Place(i) PROVE RunsInstalled' /\ \A k \in Instances : StepShape(k)'
    <2>1. Rest(i) /\ op[i].step = "place"
      BY <1>11, <1>a, GoingTo, GoingFurther, ActionsGo DEF Place, Moves, At, PutBack
    <2>2. StepShape(i) /\ CopyShape(i)
      OBVIOUS
    <2>3. NobodyRuns /\ NobodyRuns' /\ RunsInstalled'
      BY <1>11, <1>r, <2>1, <2>2 DEF Place, StepShape, Moving
    <2>4. StepShape(i)'
      BY ONLY <1>11, <1>a, i \in Instances, <2>1, <2>2, <2>3, GoingTo, GoingFurther, ActionsGo DEF Place, StepShape, Moves, Rest, Moving, Starting, Upgrades, At, PutBack
    <2> QED BY <1>o, <2>1, <2>3, <2>4
  <1>12. ASSUME NEW i \in Instances, Unplace(i) PROVE RunsInstalled' /\ \A k \in Instances : StepShape(k)'
    <2>1. Rest(i) /\ op[i].step = "unplace"
      BY <1>12, <1>a, GoingTo, GoingFurther DEF Unplace, Moves, At
    <2>2. StepShape(i) /\ CopyShape(i)
      OBVIOUS
    <2>3. NobodyRuns /\ NobodyRuns' /\ RunsInstalled'
      BY <1>12, <1>r, <2>1, <2>2 DEF Unplace, StepShape, Moving
    <2>4. StepShape(i)'
      BY ONLY <1>12, <1>a, i \in Instances, <2>1, <2>2, <2>3, GoingTo, GoingFurther DEF Unplace, StepShape, Moves, Rest, Moving, Starting, Upgrades, At
    <2> QED BY <1>o, <2>1, <2>3, <2>4
  <1>13. ASSUME NEW i \in Instances, Secure(i) PROVE RunsInstalled' /\ \A k \in Instances : StepShape(k)'
    <2>1. Rest(i) /\ op[i].step = "secure"
      BY <1>13, <1>a, GoingTo, GoingFurther DEF Secure, Moves, At
    <2>2. StepShape(i) /\ CopyShape(i)
      OBVIOUS
    <2>3. NobodyRuns /\ NobodyRuns' /\ RunsInstalled'
      BY <1>13, <1>r, <2>1, <2>2 DEF Secure, StepShape, Moving
    <2>i. Installed(live) /\ live' = live
      BY <1>13, <2>1, <2>2 DEF Secure, CopyShape, Whole, Installed, Disk
    <2>4. StepShape(i)'
      BY ONLY <1>13, <1>a, i \in Instances, <2>1, <2>2, <2>3, <2>i, GoingTo, GoingFurther DEF Secure, StepShape, Moves, Rest, Moving, Starting, Upgrades, At
    <2> QED BY <1>o, <2>1, <2>3, <2>4
  <1>14. ASSUME NEW i \in Instances, Discard(i) PROVE RunsInstalled' /\ \A k \in Instances : StepShape(k)'
    <2>1. Rest(i) /\ op[i].step = "discard"
      BY <1>14, <1>a, GoingTo, GoingFurther DEF Discard, Moves, At
    <2>2. StepShape(i) /\ CopyShape(i)
      OBVIOUS
    <2>3. NobodyRuns /\ NobodyRuns' /\ RunsInstalled'
      BY <1>14, <1>r, <2>1, <2>2 DEF Discard, StepShape, Moving
    <2>4. StepShape(i)'
      BY ONLY <1>14, <1>a, i \in Instances, <2>1, <2>2, <2>3, GoingTo, GoingFurther DEF Discard, StepShape, Moves, Rest, Moving, Starting, Upgrades, At
    <2> QED BY <1>o, <2>1, <2>3, <2>4
  <1>15. ASSUME NEW i \in Instances, Preserve(i) PROVE RunsInstalled' /\ \A k \in Instances : StepShape(k)'
    <2>1. Rest(i) /\ op[i].step = "preserve"
      BY <1>15, <1>a, GoingTo, GoingFurther DEF Preserve, Moves, At
    <2>2. StepShape(i) /\ CopyShape(i)
      OBVIOUS
    <2>3. NobodyRuns /\ NobodyRuns' /\ RunsInstalled'
      BY <1>15, <1>r, <2>1, <2>2 DEF Preserve, StepShape, Moving
    <2>4. StepShape(i)'
      BY ONLY <1>15, <1>a, i \in Instances, <2>1, <2>2, <2>3, GoingTo, GoingFurther DEF Preserve, StepShape, Moves, Rest, Moving, Starting, Upgrades, At
    <2> QED BY <1>o, <2>1, <2>3, <2>4
  <1>16. ASSUME NEW i \in Instances, Aside(i) PROVE RunsInstalled' /\ \A k \in Instances : StepShape(k)'
    <2>1. Rest(i) /\ op[i].step = "aside"
      BY <1>16, <1>a, GoingTo, GoingFurther, ActionsGo DEF Aside, Moves, At
    <2>2. StepShape(i) /\ CopyShape(i)
      OBVIOUS
    <2>3. NobodyRuns /\ NobodyRuns' /\ RunsInstalled'
      BY <1>16, <1>r, <2>1, <2>2 DEF Aside, StepShape, Moving
    <2>4. StepShape(i)'
      BY ONLY <1>16, <1>a, i \in Instances, <2>1, <2>2, <2>3, GoingTo, GoingFurther, ActionsGo DEF Aside, StepShape, Moves, Rest, Moving, Starting, Upgrades, At
    <2> QED BY <1>o, <2>1, <2>3, <2>4
  <1>17. ASSUME NEW i \in Instances, Restore(i) PROVE RunsInstalled' /\ \A k \in Instances : StepShape(k)'
    <2>1. Rest(i) /\ op[i].step = "restore"
      BY <1>17, <1>a, GoingTo, GoingFurther DEF Restore, Moves, At
    <2>2. StepShape(i) /\ CopyShape(i)
      OBVIOUS
    <2>3. NobodyRuns /\ NobodyRuns' /\ RunsInstalled'
      BY <1>17, <1>r, <2>1, <2>2 DEF Restore, StepShape, Moving
    <2>4. StepShape(i)'
      BY ONLY <1>17, <1>a, i \in Instances, <2>1, <2>2, <2>3, GoingTo, GoingFurther DEF Restore, StepShape, Moves, Rest, Moving, Starting, Upgrades, At
    <2> QED BY <1>o, <2>1, <2>3, <2>4
  <1>18. ASSUME NEW i \in Instances, Unaside(i) PROVE RunsInstalled' /\ \A k \in Instances : StepShape(k)'
    <2>1. Rest(i) /\ op[i].step = "unaside"
      BY <1>18, <1>a, GoingTo, GoingFurther DEF Unaside, Moves, At
    <2>2. StepShape(i) /\ CopyShape(i)
      OBVIOUS
    <2>3. NobodyRuns /\ NobodyRuns' /\ RunsInstalled'
      BY <1>18, <1>r, <2>1, <2>2 DEF Unaside, StepShape, Moving
    <2>4. StepShape(i)'
      BY ONLY <1>18, <1>a, i \in Instances, <2>1, <2>2, <2>3, GoingTo, GoingFurther DEF Unaside, StepShape, Moves, Rest, Moving, Starting, Upgrades, At
    <2> QED BY <1>o, <2>1, <2>3, <2>4
  <1>19. ASSUME NEW i \in Instances, Keep(i) PROVE RunsInstalled' /\ \A k \in Instances : StepShape(k)'
    <2>1. Rest(i) /\ op[i].step = "keep"
      BY <1>19, <1>a, GoingTo, GoingFurther DEF Keep, Moves, At
    <2>2. StepShape(i) /\ CopyShape(i)
      OBVIOUS
    <2>3. NobodyRuns /\ NobodyRuns' /\ RunsInstalled'
      BY <1>19, <1>r, <2>1, <2>2 DEF Keep, StepShape, Moving
    <2>i. Installed(live) /\ live' = live
      BY <1>19, <2>1, <2>2 DEF Keep, CopyShape, Whole, Installed, Disk
    <2>4. StepShape(i)'
      BY ONLY <1>19, <1>a, i \in Instances, <2>1, <2>2, <2>3, <2>i, GoingTo, GoingFurther DEF Keep, StepShape, Moves, Rest, Moving, Starting, Upgrades, At
    <2> QED BY <1>o, <2>1, <2>3, <2>4
  <1>20. ASSUME NEW i \in Instances, Return(i) PROVE RunsInstalled' /\ \A k \in Instances : StepShape(k)'
    <2>1. op' = [op EXCEPT ![i] = Idle] /\ op[i].step # "idle" /\ UNCHANGED <<live, java>>
      BY <1>20 DEF Return, Disk
    <2> QED BY <1>a, <1>e, <1>r, <2>1 DEF RunsInstalled
  <1>21. ASSUME NEW i \in Instances, Crash(i) PROVE RunsInstalled' /\ \A k \in Instances : StepShape(k)'
    <2>1. op' = [op EXCEPT ![i] = Idle] /\ op[i].step # "idle"
      BY <1>21 DEF Crash, At
    <2>2. RunsInstalled'
      <3>1. PICK alive \in {java[i], At(i, "run") /\ Whole(live)} : java' = [java EXCEPT ![i] = alive]
        BY <1>21 DEF Crash
      <3>2. CASE At(i, "discard")
        <4>1. NobodyRuns /\ ~At(i, "run")
          BY <1>s, <3>2 DEF StepShape, Moving, At
        <4> QED BY <1>a, <3>1, <4>1 DEF NobodyRuns, RunsInstalled
      <3>3. CASE ~At(i, "discard")
        <4>1. live' = live /\ (At(i, "run") => Installed(live))
          BY <1>s, <1>21, <3>3 DEF Crash, At, StepShape
        <4>2. CASE alive
          <5>1. java[i] \/ At(i, "run")
            BY <3>1, <4>2
          <5>2. Installed(live)
            BY <4>1, <5>1 DEF RunsInstalled
          <5> QED BY <4>1, <5>2 DEF RunsInstalled
        <4>3. CASE ~alive
          BY <1>a, <3>1, <4>1, <4>3 DEF RunsInstalled
        <4> QED BY <4>2, <4>3
      <3> QED BY <3>2, <3>3
    <2> QED BY <1>a, <1>e, <2>1, <2>2
  <1>22. ASSUME NEW i \in Instances, JavaEnds(i) PROVE RunsInstalled' /\ \A k \in Instances : StepShape(k)'
    <2>1. java' = [java EXCEPT ![i] = FALSE] /\ UNCHANGED <<live, op>>
      BY <1>22 DEF JavaEnds, Disk
    <2>2. RunsInstalled'
      BY <1>a, <2>1 DEF RunsInstalled
    <2>3. /\ NobodyRuns => NobodyRuns'
          /\ \A k \in Instances : NoOtherRuns(k) => NoOtherRuns(k)'
      BY <1>a, <2>1 DEF NobodyRuns, NoOtherRuns
    <2>4. ASSUME NEW k \in Instances PROVE StepShape(k)'
      BY ONLY <1>s, <2>1, <2>3, k \in Instances DEF StepShape
    <2> QED BY <2>2, <2>4
  <1>23. CASE OperatorWrites
    <2>1. Installed(live) /\ UNCHANGED <<op, java>>
      BY <1>23 DEF OperatorWrites
    <2>2. Installed(live')
      <3>1. live \in Copy /\ Operator \in Files /\ live' = [live EXCEPT !.yaml = live.yaml \cup {Operator}]
        BY <1>23, <1>a, CopiesTyped DEF Files, OperatorWrites
      <3> QED BY <2>1, <3>1, CopiesTyped DEF Installed, Copy
    <2>3. RunsInstalled'
      BY <2>2 DEF RunsInstalled
    <2>4. ASSUME NEW k \in Instances PROVE StepShape(k)'
      BY <1>s, <1>r, <2>1, <2>2 DEF StepShape
    <2> QED BY <2>3, <2>4
  <1>24. CASE UNCHANGED vars
    <2>1. UNCHANGED <<op, java, live>>
      BY <1>24 DEF vars
    <2> QED BY <1>s, <2>1 DEF RunsInstalled, StepShape, NobodyRuns, NoOtherRuns
  <1> QED
    BY ONLY [Next]_vars, <1>1, <1>2, <1>3, <1>4, <1>5, <1>6, <1>7, <1>8, <1>9, <1>10, <1>11, <1>12, <1>13, <1>14, <1>15,
       <1>16, <1>17, <1>18, <1>19, <1>20, <1>21, <1>22, <1>23, <1>24
       DEF Next, Proceed

\* What a copy is fit for, and what more files in it change.
LEMMA Copying ==
    /\ ~Installed(Missing) /\ ~Whole(Missing) /\ YamlOf(Missing) = {}
    /\ \A c \in Slot : Whole(c) => Installed(c)
    /\ \A c \in Slot : Installed(c) => c # Missing
    /\ \A y \in SUBSET Files : Whole(Staged(y)) /\ YamlOf(Staged(y)) = y /\ Staged(y) # Missing
    /\ \A c \in Slot, y \in SUBSET Files : Installed(c) =>
          /\ Installed([c EXCEPT !.yaml = y]) /\ YamlOf([c EXCEPT !.yaml = y]) = y
          /\ Whole([c EXCEPT !.yaml = y]) <=> Whole(c)
          /\ [c EXCEPT !.yaml = y].release = c.release
  <1> USE MissingAssumption
  <1>1. \A c \in Copy : c # Missing
    OBVIOUS
  <1>2. \A y \in SUBSET Files : Staged(y) \in Copy /\ Staged(y).state = "whole" /\ Staged(y).yaml = y
    BY DEF Copy, Staged
  <1>3. ASSUME NEW c \in Slot, NEW y \in SUBSET Files, Installed(c)
        PROVE  /\ Installed([c EXCEPT !.yaml = y]) /\ YamlOf([c EXCEPT !.yaml = y]) = y
               /\ Whole([c EXCEPT !.yaml = y]) <=> Whole(c)
               /\ [c EXCEPT !.yaml = y].release = c.release
    <2>1. c \in Copy
      BY <1>3 DEF Installed, Slot
    <2> DEFINE d == [c EXCEPT !.yaml = y]
    <2>2. d \in Copy /\ d.yaml = y /\ d.state = c.state /\ d.release = c.release
      BY <2>1 DEF Copy
    <2> HIDE DEF d
    <2>3. d # Missing /\ c # Missing
      BY <1>1, <2>1, <2>2
    <2>4. Installed(d) /\ YamlOf(d) = y /\ (Whole(d) <=> Whole(c)) /\ d.release = c.release
      BY <1>3, <2>2, <2>3 DEF Installed, Whole, YamlOf
    <2> QED BY <2>4 DEF d
  <1>4. /\ ~Installed(Missing) /\ ~Whole(Missing) /\ YamlOf(Missing) = {}
        /\ \A c \in Slot : Whole(c) => Installed(c)
        /\ \A c \in Slot : Installed(c) => c # Missing
    BY DEF Installed, Whole, YamlOf
  <1>5. \A y \in SUBSET Files : Whole(Staged(y)) /\ YamlOf(Staged(y)) = y /\ Staged(y) # Missing
    BY <1>1, <1>2 DEF Whole, YamlOf
  <1> QED BY <1>3, <1>4, <1>5

\* More files of configuration are all that is new in the copy.
LEMMA Writing ==
    ASSUME live \in Slot, NEW f \in Files, Installed(live), live' = [live EXCEPT !.yaml = live.yaml \cup {f}]
    PROVE  /\ Installed(live') /\ YamlOf(live') = YamlOf(live) \cup {f}
           /\ Whole(live') <=> Whole(live)
           /\ live'.release = live.release
  <1>1. live.yaml \in SUBSET Files /\ live \in Copy /\ YamlOf(live) = live.yaml
    BY CopiesTyped DEF Copy, YamlOf, Installed
  <1> QED BY <1>1, Copying

LEMMA Preserving ==
    ASSUME live \in Slot, backup \in Slot, Installed(backup),
           backup' = [backup EXCEPT !.yaml = Preserved(live, backup)]
    PROVE  /\ Installed(backup') /\ YamlOf(backup') = YamlOf(backup) \cup YamlOf(live)
           /\ Whole(backup') <=> Whole(backup)
           /\ backup'.release = backup.release
  <1>1. Preserved(live, backup) \in SUBSET Files /\ Preserved(live, backup) = YamlOf(backup) \cup YamlOf(live)
    BY CopiesTyped DEF Preserved
  <1>2. PICK y \in SUBSET Files : y = Preserved(live, backup)
    BY <1>1
  <1>3. /\ Installed([backup EXCEPT !.yaml = y]) /\ YamlOf([backup EXCEPT !.yaml = y]) = y
        /\ Whole([backup EXCEPT !.yaml = y]) <=> Whole(backup)
        /\ [backup EXCEPT !.yaml = y].release = backup.release
    BY Copying
  <1>4. backup' = [backup EXCEPT !.yaml = y]
    BY <1>2
  <1> QED BY ONLY <1>1, <1>2, <1>3, <1>4

\* Every copy is where the next rename looks for it.
LEMMA CopiesKept ==
    ASSUME TypeOK, \A k \in Instances : StepShape(k) /\ CopyShape(k), [Next]_vars
    PROVE  \A k \in Instances : CopyShape(k)'
  <1>a. /\ op \in [Instances -> Operation] /\ live \in Slot /\ backup \in Slot /\ java \in [Instances -> BOOLEAN]
        /\ \A i \in Instances : op[i].kind \in Kinds /\ op[i].phase \in Phases
        /\ \A i, j \in Instances : i # j /\ op[i].step # "idle" => op[j].step = "idle"
        /\ lock = Nobody => \A j \in Instances : op[j].step = "idle"
    BY NamesAssumption DEF TypeOK, Operation, Busy, At
  <1>s. ASSUME NEW i \in Instances PROVE StepShape(i) /\ CopyShape(i)
    OBVIOUS
  <1>w. /\ ~Installed(Missing) /\ ~Whole(Missing)
        /\ \A i \in Instances : Whole(op[i].payload) => op[i].payload # Missing
        /\ Installed(live) => live # Missing
        /\ Installed(backup) => backup # Missing
        /\ Whole(live) => Installed(live)
        /\ Whole(Staged(YamlOf(live)))
    BY <1>a, Copying, CopiesTyped
  <1>o. ASSUME NEW i \in Instances, Rest(i), op[i].step # "idle", CopyShape(i)'
        PROVE  \A k \in Instances : CopyShape(k)'
    <2>1. ASSUME NEW k \in Instances, k # i PROVE CopyShape(k)'
      <3>1. op'[k] = op[k] /\ op[k].step = "idle"
        BY <1>a, <1>o, <2>1 DEF Rest
      <3> QED BY <3>1, <1>s DEF CopyShape, StepShape, CanMove, HadLive, Disk
    <2> QED BY <1>o, <2>1
  <1>e. ASSUME NEW i \in Instances, op' = [op EXCEPT ![i] = Idle], op[i].step # "idle"
        PROVE  \A k \in Instances : CopyShape(k)'
    <2>1. CopyShape(i)'
      BY <1>a, <1>e DEF CopyShape, StepShape, CanMove, HadLive, Disk, Idle
    <2>2. ASSUME NEW k \in Instances, k # i PROVE CopyShape(k)'
      <3>1. op'[k] = op[k] /\ op[k].step = "idle"
        BY <1>a, <1>e, <2>2
      <3> QED BY <3>1, <1>s DEF CopyShape, StepShape, CanMove, HadLive, Disk
    <2> QED BY <2>1, <2>2
  <1>1. ASSUME NEW i \in Instances, NEW kind \in Kinds, Begin(i, kind) PROVE \A k \in Instances : CopyShape(k)'
    <2>1. /\ \A k \in Instances : op[k].step = "idle"
          /\ op'[i].step = (IF kind = "start" THEN "ensure" ELSE "check")
          /\ op'[i].phase = "change" /\ op'[i].kind = kind /\ op'[i].temporary = Missing
          /\ \A k \in Instances : k # i => op'[k] = op[k]
          /\ UNCHANGED <<live, backup, faults, crashes>>
      BY <1>1, <1>a DEF Begin, LockFree, Idle, Disk
    <2>3. CopyShape(i)'
      BY ONLY <2>1, <1>w DEF CopyShape, StepShape, CanMove, HadLive, Disk
    <2>4. ASSUME NEW k \in Instances, k # i PROVE CopyShape(k)'
      BY <1>s, <2>1, <2>4 DEF CopyShape, StepShape, CanMove, HadLive, Disk
    <2> QED BY <2>3, <2>4
  <1>2. ASSUME NEW i \in Instances, Check(i) PROVE \A k \in Instances : CopyShape(k)'
    <2>1. Rest(i) /\ op[i].step = "check"
      BY <1>2, <1>a, GoingTo, GoingFurther DEF Check, Moves, At
    <2>2. StepShape(i) /\ CopyShape(i)
      BY <1>s
    <2>3. CopyShape(i)'
      BY ONLY <1>2, <1>a, <1>w, i \in Instances, <2>1, <2>2, GoingTo, GoingFurther
         DEF Check, Moves, Rest, At, Upgrades, CopyShape, StepShape, CanMove, HadLive, Disk
    <2> QED BY <1>o, <2>1, <2>3
  <1>3. ASSUME NEW i \in Instances, Stop(i) PROVE \A k \in Instances : CopyShape(k)'
    <2>1. Rest(i) /\ op[i].step = "stop"
      BY <1>3, <1>a, GoingTo, GoingFurther, ActionsGo DEF Stop, Moves, At
    <2>2. StepShape(i) /\ CopyShape(i)
      BY <1>s
    <2>3. CopyShape(i)'
      BY ONLY <1>3, <1>a, <1>w, i \in Instances, <2>1, <2>2, GoingTo, GoingFurther, ActionsGo
         DEF Stop, Moves, Rest, At, Upgrades, CopyShape, StepShape, CanMove, HadLive, Disk
    <2> QED BY <1>o, <2>1, <2>3
  <1>4. ASSUME NEW i \in Instances, Want(i) PROVE \A k \in Instances : CopyShape(k)'
    <2>1. Rest(i) /\ op[i].step = "want"
      BY <1>4, <1>a, GoingTo, GoingFurther DEF Want, Moves, At
    <2>2. StepShape(i) /\ CopyShape(i)
      BY <1>s
    <2>3. CopyShape(i)'
      BY ONLY <1>4, <1>a, <1>w, i \in Instances, <2>1, <2>2, GoingTo, GoingFurther
         DEF Want, Moves, Rest, At, Upgrades, CopyShape, StepShape, CanMove, HadLive, Disk
    <2> QED BY <1>o, <2>1, <2>3
  <1>5. ASSUME NEW i \in Instances, Ensure(i) PROVE \A k \in Instances : CopyShape(k)'
    <2>1. Rest(i) /\ op[i].step = "ensure"
      BY <1>5, <1>a, GoingTo, GoingFurther DEF Ensure, Moves, At
    <2>2. StepShape(i) /\ CopyShape(i)
      BY <1>s
    <2>3. CopyShape(i)'
      BY ONLY <1>5, <1>a, <1>w, i \in Instances, <2>1, <2>2, GoingTo, GoingFurther
         DEF Ensure, Moves, Rest, At, Upgrades, CopyShape, StepShape, CanMove, HadLive, Disk
    <2> QED BY <1>o, <2>1, <2>3
  <1>6. ASSUME NEW i \in Instances, Conf(i) PROVE \A k \in Instances : CopyShape(k)'
    <2>1. Rest(i) /\ op[i].step = "conf"
      BY <1>6, <1>a, GoingTo, GoingFurther DEF Conf, Moves, At
    <2>2. StepShape(i) /\ CopyShape(i)
      BY <1>s
    <2>3. CopyShape(i)'
      BY ONLY <1>6, <1>a, <1>w, i \in Instances, <2>1, <2>2, GoingTo, GoingFurther
         DEF Conf, Moves, Rest, At, Upgrades, CopyShape, StepShape, CanMove, HadLive, Disk
    <2> QED BY <1>o, <2>1, <2>3
  <1>7. ASSUME NEW i \in Instances, Run(i) PROVE \A k \in Instances : CopyShape(k)'
    <2>1. Rest(i) /\ op[i].step = "run"
      BY <1>7, <1>a, GoingTo, GoingFurther DEF Run, Moves, At
    <2>2. StepShape(i) /\ CopyShape(i)
      BY <1>s
    <2>3. CopyShape(i)'
      BY ONLY <1>7, <1>a, <1>w, i \in Instances, <2>1, <2>2, GoingTo, GoingFurther
         DEF Run, Moves, Rest, At, Upgrades, CopyShape, StepShape, CanMove, HadLive, Disk
    <2> QED BY <1>o, <2>1, <2>3
  <1>8. ASSUME NEW i \in Instances, Stage(i) PROVE \A k \in Instances : CopyShape(k)'
    <2>1. Rest(i) /\ op[i].step = "stage"
      BY <1>8, <1>a, GoingTo, GoingFurther, ActionsGo DEF Stage, Moves, At
    <2>2. StepShape(i) /\ CopyShape(i)
      BY <1>s
    <2>3. CopyShape(i)'
      <3>1. CASE InstallFailed(i)
        BY ONLY <1>a, <3>1, i \in Instances, <2>1, <2>2, GoingFurther DEF Moves, Rest, CopyShape
      <3>2. CASE /\ op'[i].step = (IF HadLive THEN "clear" ELSE "place")
                 /\ op'[i].had = HadLive /\ op'[i].payload = Staged(YamlOf(live))
                 /\ op'[i].temporary = op[i].temporary
        <4>1. UNCHANGED <<live, backup>>
          BY <1>8 DEF Stage, Disk
        <4> QED BY ONLY <2>1, <2>2, <4>1, <3>2, <1>w DEF CopyShape, HadLive
      <3> QED BY <1>8, <1>a, <3>1, <3>2, ActionsGo
    <2> QED BY <1>o, <2>1, <2>3
  <1>9. ASSUME NEW i \in Instances, Clear(i) PROVE \A k \in Instances : CopyShape(k)'
    <2>1. Rest(i) /\ op[i].step = "clear"
      BY <1>9, <1>a, GoingTo, GoingFurther DEF Clear, Moves, At
    <2>2. StepShape(i) /\ CopyShape(i)
      BY <1>s
    <2>3. CopyShape(i)'
      BY ONLY <1>9, <1>a, <1>w, i \in Instances, <2>1, <2>2, GoingTo, GoingFurther
         DEF Clear, Moves, Rest, At, Upgrades, CopyShape, StepShape, CanMove, HadLive, Disk
    <2> QED BY <1>o, <2>1, <2>3
  <1>10. ASSUME NEW i \in Instances, Retire(i) PROVE \A k \in Instances : CopyShape(k)'
    <2>1. Rest(i) /\ op[i].step = "retire"
      BY <1>10, <1>a, GoingTo, GoingFurther DEF Retire, Moves, At
    <2>2. StepShape(i) /\ CopyShape(i)
      BY <1>s
    <2>3. CopyShape(i)'
      BY ONLY <1>10, <1>a, <1>w, i \in Instances, <2>1, <2>2, GoingTo, GoingFurther
         DEF Retire, Moves, Rest, At, Upgrades, CopyShape, StepShape, CanMove, HadLive, Disk
    <2> QED BY <1>o, <2>1, <2>3
  <1>11. ASSUME NEW i \in Instances, Place(i) PROVE \A k \in Instances : CopyShape(k)'
    <2>1. Rest(i) /\ op[i].step = "place"
      BY <1>11, <1>a, GoingTo, GoingFurther, ActionsGo DEF Place, Moves, At, PutBack
    <2>2. StepShape(i) /\ CopyShape(i)
      BY <1>s
    <2>3. CopyShape(i)'
      <3>1. CASE PutBack(i) /\ UNCHANGED live
        <4>1. op[i].had => op'[i].step = "unplace" /\ op'[i].had /\ op'[i].temporary = op[i].temporary
          BY <1>a, <3>1, GoingTo DEF PutBack, Moves
        <4>2. ~op[i].had => /\ op'[i].step \in {"failed", "ensure", "preserve"}
                            /\ op'[i].temporary \in {op[i].temporary, Missing}
          BY <1>a, <3>1, GoingFurther DEF PutBack, Moves
        <4>3. UNCHANGED backup
          BY <1>11 DEF Place
        <4> QED BY ONLY <2>1, <2>2, <4>1, <4>2, <4>3 DEF CopyShape
      <3>2. CASE live' = op[i].payload /\ Moves(i, "secure", op[i].phase, Missing, op[i].temporary)
        <4>1. UNCHANGED backup
          BY <1>11 DEF Place
        <4> QED BY ONLY <4>1, <2>1, <2>2, <3>2 DEF CopyShape, Moves
      <3> QED BY <1>11, <1>a, <3>1, <3>2, ActionsGo
    <2> QED BY <1>o, <2>1, <2>3
  <1>12. ASSUME NEW i \in Instances, Unplace(i) PROVE \A k \in Instances : CopyShape(k)'
    <2>1. Rest(i) /\ op[i].step = "unplace"
      BY <1>12, <1>a, GoingTo, GoingFurther DEF Unplace, Moves, At
    <2>2. StepShape(i) /\ CopyShape(i)
      BY <1>s
    <2>3. CopyShape(i)'
      BY ONLY <1>12, <1>a, <1>w, i \in Instances, <2>1, <2>2, GoingTo, GoingFurther
         DEF Unplace, Moves, Rest, At, Upgrades, CopyShape, StepShape, CanMove, HadLive, Disk
    <2> QED BY <1>o, <2>1, <2>3
  <1>13. ASSUME NEW i \in Instances, Secure(i) PROVE \A k \in Instances : CopyShape(k)'
    <2>1. Rest(i) /\ op[i].step = "secure"
      BY <1>13, <1>a, GoingTo, GoingFurther DEF Secure, Moves, At
    <2>2. StepShape(i) /\ CopyShape(i)
      BY <1>s
    <2>3. CopyShape(i)'
      BY ONLY <1>13, <1>a, <1>w, i \in Instances, <2>1, <2>2, GoingTo, GoingFurther
         DEF Secure, Moves, Rest, At, Upgrades, CopyShape, StepShape, CanMove, HadLive, Disk
    <2> QED BY <1>o, <2>1, <2>3
  <1>14. ASSUME NEW i \in Instances, Discard(i) PROVE \A k \in Instances : CopyShape(k)'
    <2>1. Rest(i) /\ op[i].step = "discard"
      BY <1>14, <1>a, GoingTo, GoingFurther DEF Discard, Moves, At
    <2>2. StepShape(i) /\ CopyShape(i)
      BY <1>s
    <2>3. CopyShape(i)'
      BY ONLY <1>14, <1>a, <1>w, i \in Instances, <2>1, <2>2, GoingTo, GoingFurther
         DEF Discard, Moves, Rest, At, Upgrades, CopyShape, StepShape, CanMove, HadLive, Disk
    <2> QED BY <1>o, <2>1, <2>3
  <1>15. ASSUME NEW i \in Instances, Preserve(i) PROVE \A k \in Instances : CopyShape(k)'
    <2>1. Rest(i) /\ op[i].step = "preserve"
      BY <1>15, <1>a, GoingTo, GoingFurther DEF Preserve, Moves, At
    <2>2. StepShape(i) /\ CopyShape(i)
      BY <1>s
    <2>3. CopyShape(i)'
      <3>0. op'[i].temporary = Missing
        BY <1>15, <1>a, <2>1, <2>2, GoingTo DEF Preserve, Moves, CopyShape
      <3>1. CASE op'[i].step = "failed"
        BY <3>0, <3>1 DEF CopyShape
      <3>2. CASE op'[i].step # "failed"
        <4>1. Installed(backup) /\ backup' = [backup EXCEPT !.yaml = Preserved(live, backup)] /\ op'[i].step = "aside"
          BY <1>15, <1>a, <3>2, GoingTo DEF Preserve, Moves
        <4>2. Installed(backup')
          BY <1>a, <4>1, Preserving
        <4> QED BY <3>0, <4>1, <4>2 DEF CopyShape
      <3> QED BY <3>1, <3>2
    <2> QED BY <1>o, <2>1, <2>3
  <1>16. ASSUME NEW i \in Instances, Aside(i) PROVE \A k \in Instances : CopyShape(k)'
    <2>1. Rest(i) /\ op[i].step = "aside"
      BY <1>16, <1>a, GoingTo, GoingFurther, ActionsGo DEF Aside, Moves, At
    <2>2. StepShape(i) /\ CopyShape(i)
      BY <1>s
    <2>3. CopyShape(i)'
      BY ONLY <1>16, <1>a, <1>w, i \in Instances, <2>1, <2>2, GoingTo, GoingFurther, ActionsGo
         DEF Aside, Moves, Rest, At, Upgrades, CopyShape, StepShape, CanMove, HadLive, Disk
    <2> QED BY <1>o, <2>1, <2>3
  <1>17. ASSUME NEW i \in Instances, Restore(i) PROVE \A k \in Instances : CopyShape(k)'
    <2>1. Rest(i) /\ op[i].step = "restore"
      BY <1>17, <1>a, GoingTo, GoingFurther DEF Restore, Moves, At
    <2>2. StepShape(i) /\ CopyShape(i)
      BY <1>s
    <2>3. CopyShape(i)'
      BY ONLY <1>17, <1>a, <1>w, i \in Instances, <2>1, <2>2, GoingTo, GoingFurther
         DEF Restore, Moves, Rest, At, Upgrades, CopyShape, StepShape, CanMove, HadLive, Disk
    <2> QED BY <1>o, <2>1, <2>3
  <1>18. ASSUME NEW i \in Instances, Unaside(i) PROVE \A k \in Instances : CopyShape(k)'
    <2>1. Rest(i) /\ op[i].step = "unaside"
      BY <1>18, <1>a, GoingTo, GoingFurther DEF Unaside, Moves, At
    <2>2. StepShape(i) /\ CopyShape(i)
      BY <1>s
    <2>3. CopyShape(i)'
      BY ONLY <1>18, <1>a, <1>w, i \in Instances, <2>1, <2>2, GoingTo, GoingFurther
         DEF Unaside, Moves, Rest, At, Upgrades, CopyShape, StepShape, CanMove, HadLive, Disk
    <2> QED BY <1>o, <2>1, <2>3
  <1>19. ASSUME NEW i \in Instances, Keep(i) PROVE \A k \in Instances : CopyShape(k)'
    <2>1. Rest(i) /\ op[i].step = "keep"
      BY <1>19, <1>a, GoingTo, GoingFurther DEF Keep, Moves, At
    <2>2. StepShape(i) /\ CopyShape(i)
      BY <1>s
    <2>3. CopyShape(i)'
      BY ONLY <1>19, <1>a, <1>w, i \in Instances, <2>1, <2>2, GoingTo, GoingFurther
         DEF Keep, Moves, Rest, At, Upgrades, CopyShape, StepShape, CanMove, HadLive, Disk
    <2> QED BY <1>o, <2>1, <2>3
  <1>20. ASSUME NEW i \in Instances, Return(i) PROVE \A k \in Instances : CopyShape(k)'
    <2>1. op' = [op EXCEPT ![i] = Idle] /\ op[i].step # "idle"
      BY <1>20 DEF Return
    <2> QED BY <1>e, <2>1
  <1>21. ASSUME NEW i \in Instances, Crash(i) PROVE \A k \in Instances : CopyShape(k)'
    <2>1. op' = [op EXCEPT ![i] = Idle] /\ op[i].step # "idle"
      BY <1>21 DEF Crash, At
    <2> QED BY <1>e, <2>1
  <1>22. ASSUME NEW i \in Instances, JavaEnds(i) PROVE \A k \in Instances : CopyShape(k)'
    <2>1. UNCHANGED <<op, live, backup, strays, faults, crashes>>
      BY <1>22 DEF JavaEnds, Disk
    <2> QED BY <1>s, <2>1 DEF CopyShape
  <1>23. CASE OperatorWrites
    <2>1. live' = [live EXCEPT !.yaml = live.yaml \cup {Operator}] /\ UNCHANGED <<op, backup>> /\ Installed(live) /\ Operator \in Files
      BY <1>23 DEF OperatorWrites, Files
    <2>2. Installed(live') /\ (Whole(live') <=> Whole(live))
      BY <1>a, <2>1, Writing
    <2> QED BY <1>s, <1>w, <2>1, <2>2 DEF CopyShape
  <1>24. CASE UNCHANGED vars
    <2>1. UNCHANGED <<op, live, backup, strays, faults, crashes>>
      BY <1>24 DEF vars
    <2> QED BY <1>s, <2>1 DEF CopyShape
  <1> QED
    BY ONLY [Next]_vars, <1>1, <1>2, <1>3, <1>4, <1>5, <1>6, <1>7, <1>8, <1>9, <1>10, <1>11, <1>12, <1>13, <1>14, <1>15,
       <1>16, <1>17, <1>18, <1>19, <1>20, <1>21, <1>22, <1>23, <1>24
       DEF Next, Proceed

\* The configurations the operation found are in the copy that is, or will be,
\* the program.
LEMMA YamlKept ==
    ASSUME TypeOK, \A k \in Instances : StepShape(k) /\ CopyShape(k) /\ YamlShape(k), [Next]_vars
    PROVE  \A k \in Instances : YamlShape(k)'
  <1>a. /\ op \in [Instances -> Operation] /\ live \in Slot /\ backup \in Slot /\ java \in [Instances -> BOOLEAN]
        /\ \A i \in Instances : op[i].kind \in Kinds /\ op[i].phase \in Phases
        /\ \A i, j \in Instances : i # j /\ op[i].step # "idle" => op[j].step = "idle"
        /\ lock = Nobody => \A j \in Instances : op[j].step = "idle"
    BY NamesAssumption DEF TypeOK, Operation, Busy, At
  <1>s. ASSUME NEW i \in Instances PROVE StepShape(i) /\ CopyShape(i) /\ YamlShape(i)
    OBVIOUS
  <1>w. /\ YamlOf(Missing) = {}
        /\ YamlOf(Staged(YamlOf(live))) = YamlOf(live)
    BY <1>a, Copying, CopiesTyped
  <1>o. ASSUME NEW i \in Instances, Rest(i), op[i].step # "idle", YamlShape(i)'
        PROVE  \A k \in Instances : YamlShape(k)'
    <2>1. ASSUME NEW k \in Instances, k # i PROVE YamlShape(k)'
      <3>1. op'[k] = op[k] /\ op[k].step = "idle"
        BY <1>a, <1>o, <2>1 DEF Rest
      <3> QED BY <3>1, <1>s DEF YamlShape, StepShape, CanMove, Disk
    <2> QED BY <1>o, <2>1
  <1>e. ASSUME NEW i \in Instances, op' = [op EXCEPT ![i] = Idle], op[i].step # "idle"
        PROVE  \A k \in Instances : YamlShape(k)'
    <2>1. YamlShape(i)'
      BY <1>a, <1>e DEF YamlShape, StepShape, CanMove, Disk, Idle
    <2>2. ASSUME NEW k \in Instances, k # i PROVE YamlShape(k)'
      <3>1. op'[k] = op[k] /\ op[k].step = "idle"
        BY <1>a, <1>e, <2>2
      <3> QED BY <3>1, <1>s DEF YamlShape, StepShape, CanMove, Disk
    <2> QED BY <2>1, <2>2
  <1>1. ASSUME NEW i \in Instances, NEW kind \in Kinds, Begin(i, kind) PROVE \A k \in Instances : YamlShape(k)'
    <2>1. /\ \A k \in Instances : op[k].step = "idle"
          /\ op'[i].step = (IF kind = "start" THEN "ensure" ELSE "check")
          /\ op'[i].phase = "change" /\ op'[i].kind = kind /\ op'[i].began = live
          /\ \A k \in Instances : k # i => op'[k] = op[k]
          /\ UNCHANGED <<live, backup, faults, crashes>>
      BY <1>1, <1>a DEF Begin, LockFree, Idle, Disk
    <2>3. YamlShape(i)'
      BY ONLY <2>1, <1>w DEF YamlShape, StepShape, CanMove, Disk
    <2>4. ASSUME NEW k \in Instances, k # i PROVE YamlShape(k)'
      BY <1>s, <2>1, <2>4 DEF YamlShape, StepShape, CanMove, Disk
    <2> QED BY <2>3, <2>4
  <1>2. ASSUME NEW i \in Instances, Check(i) PROVE \A k \in Instances : YamlShape(k)'
    <2>1. Rest(i) /\ op[i].step = "check"
      BY <1>2, <1>a, GoingTo, GoingFurther DEF Check, Moves, At
    <2>2. StepShape(i) /\ CopyShape(i) /\ YamlShape(i)
      BY <1>s
    <2>3. YamlShape(i)'
      BY ONLY <1>2, <1>a, <1>w, i \in Instances, <2>1, <2>2, GoingTo, GoingFurther
         DEF Check, Moves, Rest, At, Upgrades, YamlShape, StepShape, CanMove, Disk
    <2> QED BY <1>o, <2>1, <2>3
  <1>3. ASSUME NEW i \in Instances, Stop(i) PROVE \A k \in Instances : YamlShape(k)'
    <2>1. Rest(i) /\ op[i].step = "stop"
      BY <1>3, <1>a, GoingTo, GoingFurther, ActionsGo DEF Stop, Moves, At
    <2>2. StepShape(i) /\ CopyShape(i) /\ YamlShape(i)
      BY <1>s
    <2>3. YamlShape(i)'
      BY ONLY <1>3, <1>a, <1>w, i \in Instances, <2>1, <2>2, GoingTo, GoingFurther, ActionsGo
         DEF Stop, Moves, Rest, At, Upgrades, YamlShape, StepShape, CanMove, Disk
    <2> QED BY <1>o, <2>1, <2>3
  <1>4. ASSUME NEW i \in Instances, Want(i) PROVE \A k \in Instances : YamlShape(k)'
    <2>1. Rest(i) /\ op[i].step = "want"
      BY <1>4, <1>a, GoingTo, GoingFurther DEF Want, Moves, At
    <2>2. StepShape(i) /\ CopyShape(i) /\ YamlShape(i)
      BY <1>s
    <2>3. YamlShape(i)'
      BY ONLY <1>4, <1>a, <1>w, i \in Instances, <2>1, <2>2, GoingTo, GoingFurther
         DEF Want, Moves, Rest, At, Upgrades, YamlShape, StepShape, CanMove, Disk
    <2> QED BY <1>o, <2>1, <2>3
  <1>5. ASSUME NEW i \in Instances, Ensure(i) PROVE \A k \in Instances : YamlShape(k)'
    <2>1. Rest(i) /\ op[i].step = "ensure"
      BY <1>5, <1>a, GoingTo, GoingFurther DEF Ensure, Moves, At
    <2>2. StepShape(i) /\ CopyShape(i) /\ YamlShape(i)
      BY <1>s
    <2>3. YamlShape(i)'
      <3>1. YamlOf(live) \subseteq YamlOf(live')
        BY <1>5, <1>w DEF Ensure
      <3>2. op'[i].step \in {"conf", "stage"} /\ op'[i].phase = op[i].phase
        BY <1>5, <1>a, GoingTo DEF Ensure, Moves
      <3> QED BY ONLY <2>1, <2>2, <3>1, <3>2 DEF YamlShape, Rest
    <2> QED BY <1>o, <2>1, <2>3
  <1>6. ASSUME NEW i \in Instances, Conf(i) PROVE \A k \in Instances : YamlShape(k)'
    <2>1. Rest(i) /\ op[i].step = "conf"
      BY <1>6, <1>a, GoingTo, GoingFurther DEF Conf, Moves, At
    <2>2. StepShape(i) /\ CopyShape(i) /\ YamlShape(i)
      BY <1>s
    <2>3. YamlShape(i)'
      <3>1. YamlOf(live) \subseteq YamlOf(live')
        <4>1. Installed(live) /\ i \in Files
          BY <2>1, <2>2 DEF StepShape, Files
        <4>2. live' = live \/ live' = [live EXCEPT !.yaml = live.yaml \cup {i}]
          BY <1>6 DEF Conf
        <4> QED BY <1>a, <4>1, <4>2, Writing
      <3>2. /\ op'[i].step \in {"run", "failed", "preserve"} /\ op'[i].phase \in {op[i].phase, "old"}
            /\ op'[i].step = "preserve" => op'[i].phase = "old"
        BY <1>6, <1>a, GoingTo, GoingFurther DEF Conf, Moves
      <3> QED BY ONLY <2>1, <2>2, <3>1, <3>2 DEF YamlShape, Rest
    <2> QED BY <1>o, <2>1, <2>3
  <1>7. ASSUME NEW i \in Instances, Run(i) PROVE \A k \in Instances : YamlShape(k)'
    <2>1. Rest(i) /\ op[i].step = "run"
      BY <1>7, <1>a, GoingTo, GoingFurther DEF Run, Moves, At
    <2>2. StepShape(i) /\ CopyShape(i) /\ YamlShape(i)
      BY <1>s
    <2>3. YamlShape(i)'
      BY ONLY <1>7, <1>a, <1>w, i \in Instances, <2>1, <2>2, GoingTo, GoingFurther
         DEF Run, Moves, Rest, At, Upgrades, YamlShape, StepShape, CanMove, Disk
    <2> QED BY <1>o, <2>1, <2>3
  <1>8. ASSUME NEW i \in Instances, Stage(i) PROVE \A k \in Instances : YamlShape(k)'
    <2>1. Rest(i) /\ op[i].step = "stage"
      BY <1>8, <1>a, GoingTo, GoingFurther, ActionsGo DEF Stage, Moves, At
    <2>2. StepShape(i) /\ CopyShape(i) /\ YamlShape(i)
      BY <1>s
    <2>3. YamlShape(i)'
      <3>1. CASE InstallFailed(i)
        <4>1. UNCHANGED live
          BY <1>8 DEF Stage, Disk
        <4> QED BY ONLY <1>a, <3>1, i \in Instances, <2>1, <2>2, <4>1, GoingFurther DEF Moves, Rest, YamlShape, Upgrades
      <3>2. CASE /\ op'[i].step = (IF HadLive THEN "clear" ELSE "place") /\ op'[i].phase = op[i].phase
                 /\ op'[i].payload = Staged(YamlOf(live))
        BY ONLY <3>2, <1>w, <2>1, <2>2 DEF YamlShape, Rest
      <3> QED BY <1>8, <1>a, <3>1, <3>2, ActionsGo
    <2> QED BY <1>o, <2>1, <2>3
  <1>9. ASSUME NEW i \in Instances, Clear(i) PROVE \A k \in Instances : YamlShape(k)'
    <2>1. Rest(i) /\ op[i].step = "clear"
      BY <1>9, <1>a, GoingTo, GoingFurther DEF Clear, Moves, At
    <2>2. StepShape(i) /\ CopyShape(i) /\ YamlShape(i)
      BY <1>s
    <2>3. YamlShape(i)'
      BY ONLY <1>9, <1>a, <1>w, i \in Instances, <2>1, <2>2, GoingTo, GoingFurther
         DEF Clear, Moves, Rest, At, Upgrades, YamlShape, StepShape, CanMove, Disk
    <2> QED BY <1>o, <2>1, <2>3
  <1>10. ASSUME NEW i \in Instances, Retire(i) PROVE \A k \in Instances : YamlShape(k)'
    <2>1. Rest(i) /\ op[i].step = "retire"
      BY <1>10, <1>a, GoingTo, GoingFurther DEF Retire, Moves, At
    <2>2. StepShape(i) /\ CopyShape(i) /\ YamlShape(i)
      BY <1>s
    <2>3. YamlShape(i)'
      BY ONLY <1>10, <1>a, <1>w, i \in Instances, <2>1, <2>2, GoingTo, GoingFurther
         DEF Retire, Moves, Rest, At, Upgrades, YamlShape, StepShape, CanMove, Disk
    <2> QED BY <1>o, <2>1, <2>3
  <1>11. ASSUME NEW i \in Instances, Place(i) PROVE \A k \in Instances : YamlShape(k)'
    <2>1. Rest(i) /\ op[i].step = "place"
      BY <1>11, <1>a, GoingTo, GoingFurther, ActionsGo DEF Place, Moves, At, PutBack
    <2>2. StepShape(i) /\ CopyShape(i) /\ YamlShape(i)
      BY <1>s
    <2>3. YamlShape(i)'
      <3>1. CASE PutBack(i) /\ UNCHANGED live
        <4>1. op[i].had => op'[i].step = "unplace"
          BY <1>a, <3>1, GoingTo DEF PutBack, Moves
        <4>2. ~op[i].had => op'[i].step = "failed" \/ op'[i].phase \in {"again", "old"}
          BY <1>a, <3>1, GoingFurther DEF PutBack, Moves
        <4> QED BY ONLY <4>1, <4>2 DEF YamlShape
      <3>2. CASE live' = op[i].payload /\ Moves(i, "secure", op[i].phase, Missing, op[i].temporary)
        BY ONLY <2>1, <2>2, <3>2 DEF YamlShape, Moves, Rest
      <3> QED BY <1>11, <1>a, <3>1, <3>2, ActionsGo
    <2> QED BY <1>o, <2>1, <2>3
  <1>12. ASSUME NEW i \in Instances, Unplace(i) PROVE \A k \in Instances : YamlShape(k)'
    <2>1. Rest(i) /\ op[i].step = "unplace"
      BY <1>12, <1>a, GoingTo, GoingFurther DEF Unplace, Moves, At
    <2>2. StepShape(i) /\ CopyShape(i) /\ YamlShape(i)
      BY <1>s
    <2>3. YamlShape(i)'
      BY ONLY <1>12, <1>a, <1>w, i \in Instances, <2>1, <2>2, GoingTo, GoingFurther
         DEF Unplace, Moves, Rest, At, Upgrades, YamlShape, StepShape, CanMove, Disk
    <2> QED BY <1>o, <2>1, <2>3
  <1>13. ASSUME NEW i \in Instances, Secure(i) PROVE \A k \in Instances : YamlShape(k)'
    <2>1. Rest(i) /\ op[i].step = "secure"
      BY <1>13, <1>a, GoingTo, GoingFurther DEF Secure, Moves, At
    <2>2. StepShape(i) /\ CopyShape(i) /\ YamlShape(i)
      BY <1>s
    <2>3. YamlShape(i)'
      BY ONLY <1>13, <1>a, <1>w, i \in Instances, <2>1, <2>2, GoingTo, GoingFurther
         DEF Secure, Moves, Rest, At, Upgrades, YamlShape, StepShape, CanMove, Disk
    <2> QED BY <1>o, <2>1, <2>3
  <1>14. ASSUME NEW i \in Instances, Discard(i) PROVE \A k \in Instances : YamlShape(k)'
    <2>1. Rest(i) /\ op[i].step = "discard"
      BY <1>14, <1>a, GoingTo, GoingFurther DEF Discard, Moves, At
    <2>2. StepShape(i) /\ CopyShape(i) /\ YamlShape(i)
      BY <1>s
    <2>3. YamlShape(i)'
      BY ONLY <1>14, <1>a, <1>w, i \in Instances, <2>1, <2>2, GoingTo, GoingFurther
         DEF Discard, Moves, Rest, At, Upgrades, YamlShape, StepShape, CanMove, Disk
    <2> QED BY <1>o, <2>1, <2>3
  <1>15. ASSUME NEW i \in Instances, Preserve(i) PROVE \A k \in Instances : YamlShape(k)'
    <2>1. Rest(i) /\ op[i].step = "preserve"
      BY <1>15, <1>a, GoingTo, GoingFurther DEF Preserve, Moves, At
    <2>2. StepShape(i) /\ CopyShape(i) /\ YamlShape(i)
      BY <1>s
    <2>3. YamlShape(i)'
      <3>1. CASE op'[i].step = "failed"
        BY <3>1 DEF YamlShape
      <3>2. CASE op'[i].step # "failed"
        <4>1. Installed(backup) /\ backup' = [backup EXCEPT !.yaml = Preserved(live, backup)] /\ op'[i].step = "aside"
          BY <1>15, <1>a, <3>2, GoingTo DEF Preserve, Moves
        <4>2. YamlOf(backup') = YamlOf(backup) \cup YamlOf(live)
          BY <1>a, <4>1, Preserving
        <4>3. op'[i].phase = op[i].phase /\ op'[i].began = op[i].began
          BY <1>15, <1>a, <2>1, <3>2, GoingTo DEF Preserve, Moves, Rest
        <4> QED BY <2>1, <2>2, <4>1, <4>2, <4>3 DEF YamlShape
      <3> QED BY <3>1, <3>2
    <2> QED BY <1>o, <2>1, <2>3
  <1>16. ASSUME NEW i \in Instances, Aside(i) PROVE \A k \in Instances : YamlShape(k)'
    <2>1. Rest(i) /\ op[i].step = "aside"
      BY <1>16, <1>a, GoingTo, GoingFurther, ActionsGo DEF Aside, Moves, At
    <2>2. StepShape(i) /\ CopyShape(i) /\ YamlShape(i)
      BY <1>s
    <2>3. YamlShape(i)'
      BY ONLY <1>16, <1>a, <1>w, i \in Instances, <2>1, <2>2, GoingTo, GoingFurther, ActionsGo
         DEF Aside, Moves, Rest, At, Upgrades, YamlShape, StepShape, CanMove, Disk
    <2> QED BY <1>o, <2>1, <2>3
  <1>17. ASSUME NEW i \in Instances, Restore(i) PROVE \A k \in Instances : YamlShape(k)'
    <2>1. Rest(i) /\ op[i].step = "restore"
      BY <1>17, <1>a, GoingTo, GoingFurther DEF Restore, Moves, At
    <2>2. StepShape(i) /\ CopyShape(i) /\ YamlShape(i)
      BY <1>s
    <2>3. YamlShape(i)'
      BY ONLY <1>17, <1>a, <1>w, i \in Instances, <2>1, <2>2, GoingTo, GoingFurther
         DEF Restore, Moves, Rest, At, Upgrades, YamlShape, StepShape, CanMove, Disk
    <2> QED BY <1>o, <2>1, <2>3
  <1>18. ASSUME NEW i \in Instances, Unaside(i) PROVE \A k \in Instances : YamlShape(k)'
    <2>1. Rest(i) /\ op[i].step = "unaside"
      BY <1>18, <1>a, GoingTo, GoingFurther DEF Unaside, Moves, At
    <2>2. StepShape(i) /\ CopyShape(i) /\ YamlShape(i)
      BY <1>s
    <2>3. YamlShape(i)'
      BY ONLY <1>18, <1>a, <1>w, i \in Instances, <2>1, <2>2, GoingTo, GoingFurther
         DEF Unaside, Moves, Rest, At, Upgrades, YamlShape, StepShape, CanMove, Disk
    <2> QED BY <1>o, <2>1, <2>3
  <1>19. ASSUME NEW i \in Instances, Keep(i) PROVE \A k \in Instances : YamlShape(k)'
    <2>1. Rest(i) /\ op[i].step = "keep"
      BY <1>19, <1>a, GoingTo, GoingFurther DEF Keep, Moves, At
    <2>2. StepShape(i) /\ CopyShape(i) /\ YamlShape(i)
      BY <1>s
    <2>3. YamlShape(i)'
      BY ONLY <1>19, <1>a, <1>w, i \in Instances, <2>1, <2>2, GoingTo, GoingFurther
         DEF Keep, Moves, Rest, At, Upgrades, YamlShape, StepShape, CanMove, Disk
    <2> QED BY <1>o, <2>1, <2>3
  <1>20. ASSUME NEW i \in Instances, Return(i) PROVE \A k \in Instances : YamlShape(k)'
    <2>1. op' = [op EXCEPT ![i] = Idle] /\ op[i].step # "idle"
      BY <1>20 DEF Return
    <2> QED BY <1>e, <2>1
  <1>21. ASSUME NEW i \in Instances, Crash(i) PROVE \A k \in Instances : YamlShape(k)'
    <2>1. op' = [op EXCEPT ![i] = Idle] /\ op[i].step # "idle"
      BY <1>21 DEF Crash, At
    <2> QED BY <1>e, <2>1
  <1>22. ASSUME NEW i \in Instances, JavaEnds(i) PROVE \A k \in Instances : YamlShape(k)'
    <2>1. UNCHANGED <<op, live, backup, strays, faults, crashes>>
      BY <1>22 DEF JavaEnds, Disk
    <2> QED BY <1>s, <2>1 DEF YamlShape
  <1>23. CASE OperatorWrites
    <2>1. live' = [live EXCEPT !.yaml = live.yaml \cup {Operator}] /\ UNCHANGED <<op, backup>> /\ Installed(live) /\ Operator \in Files
      BY <1>23 DEF OperatorWrites, Files
    <2>2. YamlOf(live') = YamlOf(live) \cup {Operator}
      BY <1>a, <2>1, Writing
    <2> QED BY <1>s, <2>1, <2>2 DEF YamlShape
  <1>24. CASE UNCHANGED vars
    <2>1. UNCHANGED <<op, live, backup, strays, faults, crashes>>
      BY <1>24 DEF vars
    <2> QED BY <1>s, <2>1 DEF YamlShape
  <1> QED
    BY ONLY [Next]_vars, <1>1, <1>2, <1>3, <1>4, <1>5, <1>6, <1>7, <1>8, <1>9, <1>10, <1>11, <1>12, <1>13, <1>14, <1>15,
       <1>16, <1>17, <1>18, <1>19, <1>20, <1>21, <1>22, <1>23, <1>24
       DEF Next, Proceed

\* Only a fault or a crash tears a copy.
LEMMA CleanKept ==
    ASSUME TypeOK, CleanShape, \A k \in Instances : StepShape(k) /\ CopyShape(k), [Next]_vars
    PROVE  CleanShape'
  <1>a. /\ op \in [Instances -> Operation] /\ live \in Slot /\ backup \in Slot /\ java \in [Instances -> BOOLEAN]
        /\ \A i \in Instances : op[i].kind \in Kinds /\ op[i].phase \in Phases
        /\ \A i, j \in Instances : i # j /\ op[i].step # "idle" => op[j].step = "idle"
        /\ lock = Nobody => \A j \in Instances : op[j].step = "idle"
    BY NamesAssumption DEF TypeOK, Operation, Busy, At
  <1>n. faults \in Nat /\ crashes \in Nat /\ faults + 1 # 0 /\ crashes + 1 # 0
    BY NamesAssumption DEF TypeOK
  <1>s. ASSUME NEW i \in Instances PROVE StepShape(i) /\ CopyShape(i)
    OBVIOUS
  <1>w. /\ ~Installed(Missing) /\ ~Whole(Missing)
        /\ Whole(live) => Installed(live)
        /\ Whole(Staged(YamlOf(live)))
        /\ Installed(Idle.temporary) => Whole(Idle.temporary)
    BY <1>a, Copying, CopiesTyped DEF Idle
  <1>o. ASSUME NEW i \in Instances, op[i].step # "idle", Rest(i),
               faults' = 0 /\ crashes' = 0 =>
                  /\ Installed(live') => Whole(live')
                  /\ Installed(backup') => Whole(backup')
                  /\ Installed(op'[i].temporary) => Whole(op'[i].temporary),
               faults' = 0 /\ crashes' = 0 => faults = 0 /\ crashes = 0
        PROVE  CleanShape'
    BY <1>o DEF CleanShape, Rest
  <1>1. ASSUME NEW i \in Instances, NEW kind \in Kinds, Begin(i, kind) PROVE CleanShape'
    <2>1. /\ op'[i].temporary = Missing /\ \A k \in Instances : k # i => op'[k] = op[k]
          /\ UNCHANGED <<live, backup, faults, crashes>>
      BY <1>1, <1>a DEF Begin, Idle, Disk
    <2> QED BY <1>w, <2>1 DEF CleanShape
  <1>2. ASSUME NEW i \in Instances, Check(i) PROVE CleanShape'
    <2>1. Rest(i) /\ op[i].step = "check" /\ op'[i].temporary \in {op[i].temporary, Missing, live}
      BY <1>2, <1>a, GoingTo, GoingFurther DEF Check, Moves, At
    <2>2. StepShape(i) /\ CopyShape(i)
      BY <1>s
    <2>3. faults' = 0 /\ crashes' = 0 =>
              /\ faults = 0 /\ crashes = 0
              /\ Installed(live') => Whole(live')
              /\ Installed(backup') => Whole(backup')
      BY ONLY <1>2, <1>n, <1>w, CleanShape, i \in Instances, <2>1, <2>2 DEF Check, CleanShape, CopyShape, Fails, Disk
    <2> QED BY <1>o, <2>1, <2>3, <1>w DEF CleanShape
  <1>3. ASSUME NEW i \in Instances, Stop(i) PROVE CleanShape'
    <2>1. Rest(i) /\ op[i].step = "stop" /\ op'[i].temporary \in {op[i].temporary, Missing, live}
      BY <1>3, <1>a, GoingTo, GoingFurther, ActionsGo DEF Stop, Moves, At
    <2>2. StepShape(i) /\ CopyShape(i)
      BY <1>s
    <2>3. faults' = 0 /\ crashes' = 0 =>
              /\ faults = 0 /\ crashes = 0
              /\ Installed(live') => Whole(live')
              /\ Installed(backup') => Whole(backup')
      BY ONLY <1>3, <1>n, <1>w, CleanShape, i \in Instances, <2>1, <2>2 DEF Stop, CleanShape, CopyShape, Fails, Disk
    <2> QED BY <1>o, <2>1, <2>3, <1>w DEF CleanShape
  <1>4. ASSUME NEW i \in Instances, Want(i) PROVE CleanShape'
    <2>1. Rest(i) /\ op[i].step = "want" /\ op'[i].temporary \in {op[i].temporary, Missing, live}
      BY <1>4, <1>a, GoingTo, GoingFurther DEF Want, Moves, At
    <2>2. StepShape(i) /\ CopyShape(i)
      BY <1>s
    <2>3. faults' = 0 /\ crashes' = 0 =>
              /\ faults = 0 /\ crashes = 0
              /\ Installed(live') => Whole(live')
              /\ Installed(backup') => Whole(backup')
      BY ONLY <1>4, <1>n, <1>w, CleanShape, i \in Instances, <2>1, <2>2 DEF Want, CleanShape, CopyShape, Fails, Disk
    <2> QED BY <1>o, <2>1, <2>3, <1>w DEF CleanShape
  <1>5. ASSUME NEW i \in Instances, Ensure(i) PROVE CleanShape'
    <2>1. Rest(i) /\ op[i].step = "ensure" /\ op'[i].temporary \in {op[i].temporary, Missing, live}
      BY <1>5, <1>a, GoingTo, GoingFurther DEF Ensure, Moves, At
    <2>2. StepShape(i) /\ CopyShape(i)
      BY <1>s
    <2>3. faults' = 0 /\ crashes' = 0 =>
              /\ faults = 0 /\ crashes = 0
              /\ Installed(live') => Whole(live')
              /\ Installed(backup') => Whole(backup')
      <3>1. UNCHANGED <<backup, faults, crashes>> /\ (Installed(live') => live' = live)
        BY <1>5 DEF Ensure, Installed
      <3> QED BY <3>1 DEF CleanShape
    <2> QED BY <1>o, <2>1, <2>3, <1>w DEF CleanShape
  <1>6. ASSUME NEW i \in Instances, Conf(i) PROVE CleanShape'
    <2>1. Rest(i) /\ op[i].step = "conf" /\ op'[i].temporary \in {op[i].temporary, Missing, live}
      BY <1>6, <1>a, GoingTo, GoingFurther DEF Conf, Moves, At
    <2>2. StepShape(i) /\ CopyShape(i)
      BY <1>s
    <2>3. faults' = 0 /\ crashes' = 0 =>
              /\ faults = 0 /\ crashes = 0
              /\ Installed(live') => Whole(live')
              /\ Installed(backup') => Whole(backup')
      <3>1. Installed(live) /\ i \in Files
        BY <2>1, <2>2 DEF StepShape, Files
      <3>2. live' = live \/ live' = [live EXCEPT !.yaml = live.yaml \cup {i}]
        BY <1>6 DEF Conf
      <3>3. Whole(live') <=> Whole(live)
        BY <1>a, <3>1, <3>2, Writing
      <3>4. UNCHANGED <<backup, crashes>> /\ (faults' = faults \/ faults' = faults + 1)
        BY <1>6 DEF Conf, Fails
      <3> QED BY <1>n, <3>1, <3>3, <3>4 DEF CleanShape
    <2> QED BY <1>o, <2>1, <2>3, <1>w DEF CleanShape
  <1>7. ASSUME NEW i \in Instances, Run(i) PROVE CleanShape'
    <2>1. Rest(i) /\ op[i].step = "run" /\ op'[i].temporary \in {op[i].temporary, Missing, live}
      BY <1>7, <1>a, GoingTo, GoingFurther DEF Run, Moves, At
    <2>2. StepShape(i) /\ CopyShape(i)
      BY <1>s
    <2>3. faults' = 0 /\ crashes' = 0 =>
              /\ faults = 0 /\ crashes = 0
              /\ Installed(live') => Whole(live')
              /\ Installed(backup') => Whole(backup')
      BY ONLY <1>7, <1>n, <1>w, CleanShape, i \in Instances, <2>1, <2>2 DEF Run, CleanShape, CopyShape, Fails, Disk
    <2> QED BY <1>o, <2>1, <2>3, <1>w DEF CleanShape
  <1>8. ASSUME NEW i \in Instances, Stage(i) PROVE CleanShape'
    <2>1. Rest(i) /\ op[i].step = "stage" /\ op'[i].temporary \in {op[i].temporary, Missing, live}
      BY <1>8, <1>a, GoingTo, GoingFurther, ActionsGo DEF Stage, Moves, At
    <2>2. StepShape(i) /\ CopyShape(i)
      BY <1>s
    <2>3. faults' = 0 /\ crashes' = 0 =>
              /\ faults = 0 /\ crashes = 0
              /\ Installed(live') => Whole(live')
              /\ Installed(backup') => Whole(backup')
      BY ONLY <1>8, <1>n, <1>w, CleanShape, i \in Instances, <2>1, <2>2 DEF Stage, CleanShape, CopyShape, Fails, Disk
    <2> QED BY <1>o, <2>1, <2>3, <1>w DEF CleanShape
  <1>9. ASSUME NEW i \in Instances, Clear(i) PROVE CleanShape'
    <2>1. Rest(i) /\ op[i].step = "clear" /\ op'[i].temporary \in {op[i].temporary, Missing, live}
      BY <1>9, <1>a, GoingTo, GoingFurther DEF Clear, Moves, At
    <2>2. StepShape(i) /\ CopyShape(i)
      BY <1>s
    <2>3. faults' = 0 /\ crashes' = 0 =>
              /\ faults = 0 /\ crashes = 0
              /\ Installed(live') => Whole(live')
              /\ Installed(backup') => Whole(backup')
      BY ONLY <1>9, <1>n, <1>w, CleanShape, i \in Instances, <2>1, <2>2 DEF Clear, CleanShape, CopyShape, Fails, Disk
    <2> QED BY <1>o, <2>1, <2>3, <1>w DEF CleanShape
  <1>10. ASSUME NEW i \in Instances, Retire(i) PROVE CleanShape'
    <2>1. Rest(i) /\ op[i].step = "retire" /\ op'[i].temporary \in {op[i].temporary, Missing, live}
      BY <1>10, <1>a, GoingTo, GoingFurther DEF Retire, Moves, At
    <2>2. StepShape(i) /\ CopyShape(i)
      BY <1>s
    <2>3. faults' = 0 /\ crashes' = 0 =>
              /\ faults = 0 /\ crashes = 0
              /\ Installed(live') => Whole(live')
              /\ Installed(backup') => Whole(backup')
      BY ONLY <1>10, <1>n, <1>w, CleanShape, i \in Instances, <2>1, <2>2 DEF Retire, CleanShape, CopyShape, Fails, Disk, CanMove
    <2> QED BY <1>o, <2>1, <2>3, <1>w DEF CleanShape
  <1>11. ASSUME NEW i \in Instances, Place(i) PROVE CleanShape'
    <2>1. Rest(i) /\ op[i].step = "place" /\ op'[i].temporary \in {op[i].temporary, Missing, live}
      BY <1>11, <1>a, GoingTo, GoingFurther, ActionsGo DEF Place, Moves, At, PutBack
    <2>2. StepShape(i) /\ CopyShape(i)
      BY <1>s
    <2>3. faults' = 0 /\ crashes' = 0 =>
              /\ faults = 0 /\ crashes = 0
              /\ Installed(live') => Whole(live')
              /\ Installed(backup') => Whole(backup')
      BY ONLY <1>11, <1>n, <1>w, CleanShape, i \in Instances, <2>1, <2>2 DEF Place, CleanShape, CopyShape, Fails, Disk, CanMove
    <2> QED BY <1>o, <2>1, <2>3, <1>w DEF CleanShape
  <1>12. ASSUME NEW i \in Instances, Unplace(i) PROVE CleanShape'
    <2>1. Rest(i) /\ op[i].step = "unplace" /\ op'[i].temporary \in {op[i].temporary, Missing, live}
      BY <1>12, <1>a, GoingTo, GoingFurther DEF Unplace, Moves, At
    <2>2. StepShape(i) /\ CopyShape(i)
      BY <1>s
    <2>3. faults' = 0 /\ crashes' = 0 =>
              /\ faults = 0 /\ crashes = 0
              /\ Installed(live') => Whole(live')
              /\ Installed(backup') => Whole(backup')
      BY ONLY <1>12, <1>n, <1>w, CleanShape, i \in Instances, <2>1, <2>2 DEF Unplace, CleanShape, CopyShape, Fails, Disk, CanMove
    <2> QED BY <1>o, <2>1, <2>3, <1>w DEF CleanShape
  <1>13. ASSUME NEW i \in Instances, Secure(i) PROVE CleanShape'
    <2>1. Rest(i) /\ op[i].step = "secure" /\ op'[i].temporary \in {op[i].temporary, Missing, live}
      BY <1>13, <1>a, GoingTo, GoingFurther DEF Secure, Moves, At
    <2>2. StepShape(i) /\ CopyShape(i)
      BY <1>s
    <2>3. faults' = 0 /\ crashes' = 0 =>
              /\ faults = 0 /\ crashes = 0
              /\ Installed(live') => Whole(live')
              /\ Installed(backup') => Whole(backup')
      BY ONLY <1>13, <1>n, <1>w, CleanShape, i \in Instances, <2>1, <2>2 DEF Secure, CleanShape, CopyShape, Fails, Disk
    <2> QED BY <1>o, <2>1, <2>3, <1>w DEF CleanShape
  <1>14. ASSUME NEW i \in Instances, Discard(i) PROVE CleanShape'
    <2>1. Rest(i) /\ op[i].step = "discard" /\ op'[i].temporary \in {op[i].temporary, Missing, live}
      BY <1>14, <1>a, GoingTo, GoingFurther DEF Discard, Moves, At
    <2>2. StepShape(i) /\ CopyShape(i)
      BY <1>s
    <2>3. faults' = 0 /\ crashes' = 0 =>
              /\ faults = 0 /\ crashes = 0
              /\ Installed(live') => Whole(live')
              /\ Installed(backup') => Whole(backup')
      BY ONLY <1>14, <1>n, <1>w, CleanShape, i \in Instances, <2>1, <2>2 DEF Discard, CleanShape, CopyShape, Fails, Disk
    <2> QED BY <1>o, <2>1, <2>3, <1>w DEF CleanShape
  <1>15. ASSUME NEW i \in Instances, Preserve(i) PROVE CleanShape'
    <2>1. Rest(i) /\ op[i].step = "preserve" /\ op'[i].temporary \in {op[i].temporary, Missing, live}
      BY <1>15, <1>a, GoingTo, GoingFurther DEF Preserve, Moves, At
    <2>2. StepShape(i) /\ CopyShape(i)
      BY <1>s
    <2>3. faults' = 0 /\ crashes' = 0 =>
              /\ faults = 0 /\ crashes = 0
              /\ Installed(live') => Whole(live')
              /\ Installed(backup') => Whole(backup')
      <3>1. UNCHANGED <<live, crashes>> /\ (faults' = faults \/ faults' = faults + 1)
        BY <1>15, <1>n DEF Preserve, Fails
      <3>2. CASE Installed(backup) /\ backup' = [backup EXCEPT !.yaml = Preserved(live, backup)]
        BY <1>a, <1>n, <3>1, <3>2, Preserving DEF CleanShape
      <3>3. CASE backup' = backup
        BY <1>n, <3>1, <3>3 DEF CleanShape
      <3>4. CASE Fails(TRUE)
        BY <1>n, <3>1, <3>4 DEF Fails
      <3> QED BY <1>15, <3>2, <3>3, <3>4 DEF Preserve
    <2> QED BY <1>o, <2>1, <2>3, <1>w DEF CleanShape
  <1>16. ASSUME NEW i \in Instances, Aside(i) PROVE CleanShape'
    <2>1. Rest(i) /\ op[i].step = "aside" /\ op'[i].temporary \in {op[i].temporary, Missing, live}
      BY <1>16, <1>a, GoingTo, GoingFurther, ActionsGo DEF Aside, Moves, At
    <2>2. StepShape(i) /\ CopyShape(i)
      BY <1>s
    <2>3. faults' = 0 /\ crashes' = 0 =>
              /\ faults = 0 /\ crashes = 0
              /\ Installed(live') => Whole(live')
              /\ Installed(backup') => Whole(backup')
      BY ONLY <1>16, <1>n, <1>w, CleanShape, i \in Instances, <2>1, <2>2 DEF Aside, CleanShape, CopyShape, Fails, Disk
    <2> QED BY <1>o, <2>1, <2>3, <1>w DEF CleanShape
  <1>17. ASSUME NEW i \in Instances, Restore(i) PROVE CleanShape'
    <2>1. Rest(i) /\ op[i].step = "restore" /\ op'[i].temporary \in {op[i].temporary, Missing, live}
      BY <1>17, <1>a, GoingTo, GoingFurther DEF Restore, Moves, At
    <2>2. StepShape(i) /\ CopyShape(i)
      BY <1>s
    <2>3. faults' = 0 /\ crashes' = 0 =>
              /\ faults = 0 /\ crashes = 0
              /\ Installed(live') => Whole(live')
              /\ Installed(backup') => Whole(backup')
      BY ONLY <1>17, <1>n, <1>w, CleanShape, i \in Instances, <2>1, <2>2 DEF Restore, CleanShape, CopyShape, Fails, Disk, CanMove
    <2> QED BY <1>o, <2>1, <2>3, <1>w DEF CleanShape
  <1>18. ASSUME NEW i \in Instances, Unaside(i) PROVE CleanShape'
    <2>1. Rest(i) /\ op[i].step = "unaside" /\ op'[i].temporary \in {op[i].temporary, Missing, live}
      BY <1>18, <1>a, GoingTo, GoingFurther DEF Unaside, Moves, At
    <2>2. StepShape(i) /\ CopyShape(i)
      BY <1>s
    <2>3. faults' = 0 /\ crashes' = 0 =>
              /\ faults = 0 /\ crashes = 0
              /\ Installed(live') => Whole(live')
              /\ Installed(backup') => Whole(backup')
      BY ONLY <1>18, <1>n, <1>w, CleanShape, i \in Instances, <2>1, <2>2 DEF Unaside, CleanShape, CopyShape, Fails, Disk, CanMove
    <2> QED BY <1>o, <2>1, <2>3, <1>w DEF CleanShape
  <1>19. ASSUME NEW i \in Instances, Keep(i) PROVE CleanShape'
    <2>1. Rest(i) /\ op[i].step = "keep" /\ op'[i].temporary \in {op[i].temporary, Missing, live}
      BY <1>19, <1>a, GoingTo, GoingFurther DEF Keep, Moves, At
    <2>2. StepShape(i) /\ CopyShape(i)
      BY <1>s
    <2>3. faults' = 0 /\ crashes' = 0 =>
              /\ faults = 0 /\ crashes = 0
              /\ Installed(live') => Whole(live')
              /\ Installed(backup') => Whole(backup')
      BY ONLY <1>19, <1>n, <1>w, CleanShape, i \in Instances, <2>1, <2>2 DEF Keep, CleanShape, CopyShape, Fails, Disk, CanMove
    <2> QED BY <1>o, <2>1, <2>3, <1>w DEF CleanShape
  <1>20. ASSUME NEW i \in Instances, Return(i) PROVE CleanShape'
    <2>1. op' = [op EXCEPT ![i] = Idle] /\ UNCHANGED <<live, backup, faults, crashes>>
      BY <1>20 DEF Return, Disk
    <2> QED BY <1>a, <1>w, <2>1 DEF CleanShape
  <1>21. ASSUME NEW i \in Instances, Crash(i) PROVE CleanShape'
    <2>1. crashes' # 0
      BY <1>21, <1>n DEF Crash
    <2> QED BY <2>1 DEF CleanShape
  <1>22. ASSUME NEW i \in Instances, JavaEnds(i) PROVE CleanShape'
    <2>1. UNCHANGED <<op, live, backup, faults, crashes>>
      BY <1>22 DEF JavaEnds, Disk
    <2> QED BY <2>1 DEF CleanShape
  <1>23. CASE OperatorWrites
    <2>1. live' = [live EXCEPT !.yaml = live.yaml \cup {Operator}] /\ Installed(live) /\ Operator \in Files
          /\ UNCHANGED <<op, backup, faults, crashes>>
      BY <1>23 DEF OperatorWrites, Files
    <2>2. Whole(live') <=> Whole(live)
      BY <1>a, <2>1, Writing
    <2> QED BY <2>1, <2>2 DEF CleanShape
  <1>24. CASE UNCHANGED vars
    <2>1. UNCHANGED <<op, live, backup, faults, crashes>>
      BY <1>24 DEF vars
    <2> QED BY <2>1 DEF CleanShape
  <1> QED
    BY ONLY [Next]_vars, <1>1, <1>2, <1>3, <1>4, <1>5, <1>6, <1>7, <1>8, <1>9, <1>10, <1>11, <1>12, <1>13, <1>14, <1>15,
       <1>16, <1>17, <1>18, <1>19, <1>20, <1>21, <1>22, <1>23, <1>24
       DEF Next, Proceed

\* The complete program stays where the operation can put it back from, as long
\* as one step failed at most.
LEMMA SurvivalKept ==
    ASSUME TypeOK, CleanShape, \A k \in Instances : StepShape(k) /\ CopyShape(k) /\ SurvivalShape(k), [Next]_vars
    PROVE  \A k \in Instances : SurvivalShape(k)'
  <1>a. /\ op \in [Instances -> Operation] /\ live \in Slot /\ backup \in Slot /\ java \in [Instances -> BOOLEAN]
        /\ \A i \in Instances : op[i].kind \in Kinds /\ op[i].phase \in Phases
        /\ \A i, j \in Instances : i # j /\ op[i].step # "idle" => op[j].step = "idle"
        /\ lock = Nobody => \A j \in Instances : op[j].step = "idle"
    BY NamesAssumption DEF TypeOK, Operation, Busy, At
  <1>n. faults \in Nat /\ crashes \in Nat /\ faults + 1 # 0 /\ crashes + 1 # 0
    BY NamesAssumption DEF TypeOK
  <1>s. ASSUME NEW i \in Instances PROVE StepShape(i) /\ CopyShape(i) /\ SurvivalShape(i)
    OBVIOUS
  <1>w. /\ ~Installed(Missing) /\ ~Whole(Missing)
        /\ Whole(live) => Installed(live)
        /\ Whole(Staged(YamlOf(live)))
    BY <1>a, Copying, CopiesTyped
  <1>k. /\ Installed(live) => live # Missing
        /\ Whole(backup) => Installed(backup)
        /\ Installed(backup) => backup # Missing
    BY <1>a, Copying
  <1>m. \A f \in Nat : (f + 1 <= 1 <=> f = 0) /\ (f <= 1 <=> f = 0 \/ f = 1) /\ f + 1 # 0
    OBVIOUS
  <1>o. ASSUME NEW i \in Instances, Rest(i), op[i].step # "idle", SurvivalShape(i)',
               crashes' = crashes, faults' = faults \/ faults' = faults + 1
        PROVE  \A k \in Instances : SurvivalShape(k)'
    <2>1. ASSUME NEW k \in Instances, k # i PROVE SurvivalShape(k)'
      <3>1. op'[k] = op[k] /\ op[k].step = "idle"
        BY <1>a, <1>o, <2>1 DEF Rest
      <3>2. crashes' = 0 /\ faults' <= 1 => crashes = 0 /\ faults <= 1
        BY <1>n, <1>o
      <3> QED BY <1>s, <3>1, <3>2 DEF SurvivalShape, Starting
    <2> QED BY <1>o, <2>1
  <1>e. ASSUME NEW i \in Instances, op' = [op EXCEPT ![i] = Idle], op[i].step # "idle", faults' = faults,
               crashes' = 0 => crashes = 0
        PROVE  \A k \in Instances : SurvivalShape(k)'
    <2>1. SurvivalShape(i)'
      BY <1>a, <1>e DEF SurvivalShape, Idle, Starting
    <2>2. ASSUME NEW k \in Instances, k # i PROVE SurvivalShape(k)'
      <3>1. op'[k] = op[k] /\ op[k].step = "idle"
        BY <1>a, <1>e, <2>2
      <3> QED BY <1>s, <1>e, <3>1 DEF SurvivalShape, Starting
    <2> QED BY <2>1, <2>2
  <1>1. ASSUME NEW i \in Instances, NEW kind \in Kinds, Begin(i, kind) PROVE \A k \in Instances : SurvivalShape(k)'
    <2>1. /\ \A k \in Instances : op[k].step = "idle"
          /\ op'[i].step = (IF kind = "start" THEN "ensure" ELSE "check")
          /\ op'[i].phase = "change" /\ op'[i].began = live /\ op'[i].kind = kind
          /\ \A k \in Instances : k # i => op'[k] = op[k]
          /\ UNCHANGED <<live, backup, faults, crashes>>
      BY <1>1, <1>a DEF Begin, LockFree, Idle, Disk
    <2>3. SurvivalShape(i)'
      BY ONLY <2>1 DEF SurvivalShape, Began, Starting
    <2>4. ASSUME NEW k \in Instances, k # i PROVE SurvivalShape(k)'
      BY <1>s, <2>1, <2>4 DEF SurvivalShape, Starting
    <2> QED BY <2>3, <2>4
  <1>2. ASSUME NEW i \in Instances, Check(i) PROVE \A k \in Instances : SurvivalShape(k)'
    <2>1. Rest(i) /\ op[i].step = "check"
      BY <1>2, <1>a, GoingTo, GoingFurther DEF Check, Moves, At
    <2>2. StepShape(i) /\ CopyShape(i) /\ SurvivalShape(i)
      BY <1>s
    <2>3. crashes' = crashes /\ (faults' = faults \/ faults' = faults + 1)
      BY <1>2 DEF Check, Fails
    <2>4. SurvivalShape(i)'
      BY ONLY <1>2, <1>a, <1>n, <1>m, <1>w, CleanShape, i \in Instances, <2>1, <2>2, <2>3, GoingTo, GoingFurther
         DEF Check, Moves, Rest, At, Upgrades, Fails, SurvivalShape, StepShape, CopyShape, CleanShape, Began, Starting, Disk
    <2> QED BY <1>o, <2>1, <2>3, <2>4
  <1>3. ASSUME NEW i \in Instances, Stop(i) PROVE \A k \in Instances : SurvivalShape(k)'
    <2>1. Rest(i) /\ op[i].step = "stop"
      BY <1>3, <1>a, GoingTo, GoingFurther, ActionsGo DEF Stop, Moves, At
    <2>2. StepShape(i) /\ CopyShape(i) /\ SurvivalShape(i)
      BY <1>s
    <2>3. crashes' = crashes /\ (faults' = faults \/ faults' = faults + 1)
      BY <1>3 DEF Stop, Fails
    <2>4. SurvivalShape(i)'
      <3>1. UNCHANGED <<live, backup>> /\ op'[i].phase = op[i].phase
            /\ \/ op'[i].step = (IF op[i].kind = "upgrade" THEN "stage" ELSE "preserve")
               \/ op'[i].step = "failed" /\ faults' = faults + 1
        BY <1>3, <1>a, ActionsGo DEF Stop, Disk, Fails
      <3> QED BY ONLY <3>1, <1>a, i \in Instances, <1>n, <1>m, <1>w, CleanShape, <2>1, <2>2, <2>3
           DEF SurvivalShape, StepShape, CopyShape, CleanShape, Began, Starting, Rest, Phases, Kinds
    <2> QED BY <1>o, <2>1, <2>3, <2>4
  <1>4. ASSUME NEW i \in Instances, Want(i) PROVE \A k \in Instances : SurvivalShape(k)'
    <2>1. Rest(i) /\ op[i].step = "want"
      BY <1>4, <1>a, GoingTo, GoingFurther DEF Want, Moves, At
    <2>2. StepShape(i) /\ CopyShape(i) /\ SurvivalShape(i)
      BY <1>s
    <2>3. crashes' = crashes /\ (faults' = faults \/ faults' = faults + 1)
      BY <1>4 DEF Want, Fails
    <2>4. SurvivalShape(i)'
      BY ONLY <1>4, <1>a, <1>n, <1>m, <1>w, CleanShape, i \in Instances, <2>1, <2>2, <2>3, GoingTo, GoingFurther
         DEF Want, Moves, Rest, At, Upgrades, Fails, SurvivalShape, StepShape, CopyShape, CleanShape, Began, Starting, Disk
    <2> QED BY <1>o, <2>1, <2>3, <2>4
  <1>5. ASSUME NEW i \in Instances, Ensure(i) PROVE \A k \in Instances : SurvivalShape(k)'
    <2>1. Rest(i) /\ op[i].step = "ensure"
      BY <1>5, <1>a, GoingTo, GoingFurther DEF Ensure, Moves, At
    <2>2. StepShape(i) /\ CopyShape(i) /\ SurvivalShape(i)
      BY <1>s
    <2>3. crashes' = crashes /\ (faults' = faults \/ faults' = faults + 1)
      BY <1>5 DEF Ensure, Fails
    <2>4. SurvivalShape(i)'
      BY ONLY <1>5, <1>a, <1>n, <1>m, <1>w, CleanShape, i \in Instances, <2>1, <2>2, <2>3, GoingTo, GoingFurther
         DEF Ensure, Moves, Rest, At, Upgrades, Fails, SurvivalShape, StepShape, CopyShape, CleanShape, Began, Starting, Disk
    <2> QED BY <1>o, <2>1, <2>3, <2>4
  <1>6. ASSUME NEW i \in Instances, Conf(i) PROVE \A k \in Instances : SurvivalShape(k)'
    <2>1. Rest(i) /\ op[i].step = "conf"
      BY <1>6, <1>a, GoingTo, GoingFurther DEF Conf, Moves, At
    <2>2. StepShape(i) /\ CopyShape(i) /\ SurvivalShape(i)
      BY <1>s
    <2>3. crashes' = crashes /\ (faults' = faults \/ faults' = faults + 1)
      BY <1>6 DEF Conf, Fails
    <2>4. SurvivalShape(i)'
      <3>1. Installed(live) /\ i \in Files
        BY <2>1, <2>2 DEF StepShape, Files
      <3>2. live' = live \/ live' = [live EXCEPT !.yaml = live.yaml \cup {i}]
        BY <1>6 DEF Conf
      <3>3. Installed(live') /\ (Whole(live') <=> Whole(live)) /\ live'.release = live.release
        BY <1>a, <3>1, <3>2, Writing
      <3>4. /\ backup' = backup
            /\ \/ op'[i].step = "run" /\ op'[i].phase = op[i].phase /\ faults' = faults
               \/ faults' = faults + 1 /\ op'[i].step = "preserve" /\ op[i].phase = "new" /\ op'[i].phase = "old"
               \/ faults' = faults + 1 /\ op'[i].step = "failed" /\ op[i].phase # "new" /\ op'[i].phase = op[i].phase
        BY <1>6, <1>a, GoingTo, GoingFurther DEF Conf, Moves, Fails
      <3> QED BY ONLY <3>3, <3>4, <1>a, i \in Instances, <1>n, <1>m, <1>w, CleanShape, <2>1, <2>2, <2>3
           DEF SurvivalShape, StepShape, CopyShape, CleanShape, Began, Starting, Rest, Phases, Kinds
    <2> QED BY <1>o, <2>1, <2>3, <2>4
  <1>7. ASSUME NEW i \in Instances, Run(i) PROVE \A k \in Instances : SurvivalShape(k)'
    <2>1. Rest(i) /\ op[i].step = "run"
      BY <1>7, <1>a, GoingTo, GoingFurther DEF Run, Moves, At
    <2>2. StepShape(i) /\ CopyShape(i) /\ SurvivalShape(i)
      BY <1>s
    <2>3. crashes' = crashes /\ (faults' = faults \/ faults' = faults + 1)
      BY <1>7 DEF Run, Fails
    <2>4. SurvivalShape(i)'
      <3>1. /\ UNCHANGED <<live, backup, faults>>
            /\ \/ /\ op'[i].step = "ok" /\ op'[i].phase = op[i].phase
                  /\ op[i].kind = "start" \/ op[i].phase = "new"
               \/ op'[i].step = "failed" /\ op[i].phase # "new" /\ op'[i].phase = op[i].phase
               \/ op'[i].step = "preserve" /\ op[i].phase = "new" /\ op'[i].phase = "old"
        BY <1>7, <1>a, GoingTo, GoingFurther DEF Run, Moves, Disk
      <3> QED BY ONLY <3>1, <1>a, i \in Instances, <1>n, <1>m, <1>w, CleanShape, <2>1, <2>2, <2>3
           DEF SurvivalShape, StepShape, CopyShape, CleanShape, Began, Starting, Rest, Phases, Kinds
    <2> QED BY <1>o, <2>1, <2>3, <2>4
  <1>8. ASSUME NEW i \in Instances, Stage(i) PROVE \A k \in Instances : SurvivalShape(k)'
    <2>1. Rest(i) /\ op[i].step = "stage"
      BY <1>8, <1>a, GoingTo, GoingFurther, ActionsGo DEF Stage, Moves, At
    <2>2. StepShape(i) /\ CopyShape(i) /\ SurvivalShape(i)
      BY <1>s
    <2>3. crashes' = crashes /\ (faults' = faults \/ faults' = faults + 1)
      BY <1>8 DEF Stage, Fails
    <2>4. SurvivalShape(i)'
      <3>1. /\ UNCHANGED <<live, backup>>
            /\ \/ /\ faults' = faults /\ op'[i].phase = op[i].phase
                  /\ op'[i].step = IF Installed(live) THEN "clear" ELSE "place"
               \/ faults' = faults + 1 /\ InstallFailed(i)
        BY <1>8, <1>a, ActionsGo DEF Stage, Disk, Fails, HadLive
      <3>2. InstallFailed(i) =>
               \/ op'[i].step = "ensure" /\ op'[i].phase = "again"
               \/ op[i].phase = "new"
               \/ op'[i].step = "failed" /\ op'[i].phase = op[i].phase
        BY <1>a, GoingFurther DEF Moves
      <3> QED BY ONLY <3>1, <3>2, <1>a, i \in Instances, <1>n, <1>m, <1>w, CleanShape, <2>1, <2>2, <2>3
           DEF SurvivalShape, StepShape, CopyShape, CleanShape, Began, Starting, Rest, Phases, Kinds
    <2> QED BY <1>o, <2>1, <2>3, <2>4
  <1>9. ASSUME NEW i \in Instances, Clear(i) PROVE \A k \in Instances : SurvivalShape(k)'
    <2>1. Rest(i) /\ op[i].step = "clear"
      BY <1>9, <1>a, GoingTo, GoingFurther DEF Clear, Moves, At
    <2>2. StepShape(i) /\ CopyShape(i) /\ SurvivalShape(i)
      BY <1>s
    <2>3. crashes' = crashes /\ (faults' = faults \/ faults' = faults + 1)
      BY <1>9 DEF Clear, Fails
    <2>4. SurvivalShape(i)'
      BY ONLY <1>9, <1>a, <1>n, <1>m, <1>w, CleanShape, i \in Instances, <2>1, <2>2, <2>3, GoingTo, GoingFurther
         DEF Clear, Moves, Rest, At, Upgrades, Fails, SurvivalShape, StepShape, CopyShape, CleanShape, Began, Starting, Disk
    <2> QED BY <1>o, <2>1, <2>3, <2>4
  <1>10. ASSUME NEW i \in Instances, Retire(i) PROVE \A k \in Instances : SurvivalShape(k)'
    <2>1. Rest(i) /\ op[i].step = "retire"
      BY <1>10, <1>a, GoingTo, GoingFurther DEF Retire, Moves, At
    <2>2. StepShape(i) /\ CopyShape(i) /\ SurvivalShape(i)
      BY <1>s
    <2>3. crashes' = crashes /\ (faults' = faults \/ faults' = faults + 1)
      BY <1>10 DEF Retire, Fails
    <2>4. SurvivalShape(i)'
      BY ONLY <1>10, <1>a, <1>n, <1>m, <1>w, CleanShape, i \in Instances, <2>1, <2>2, <2>3, GoingTo, GoingFurther
         DEF Retire, Moves, Rest, At, Upgrades, Fails, CanMove, SurvivalShape, StepShape, CopyShape, CleanShape, Began, Starting, Disk
    <2> QED BY <1>o, <2>1, <2>3, <2>4
  <1>11. ASSUME NEW i \in Instances, Place(i) PROVE \A k \in Instances : SurvivalShape(k)'
    <2>1. Rest(i) /\ op[i].step = "place"
      BY <1>11, <1>a, GoingTo, GoingFurther, ActionsGo DEF Place, Moves, At, PutBack
    <2>2. StepShape(i) /\ CopyShape(i) /\ SurvivalShape(i)
      BY <1>s
    <2>3. crashes' = crashes /\ (faults' = faults \/ faults' = faults + 1)
      BY <1>11 DEF Place, Fails
    <2>4. SurvivalShape(i)'
      BY ONLY <1>11, <1>a, <1>n, <1>m, <1>w, CleanShape, i \in Instances, <2>1, <2>2, <2>3, GoingTo, GoingFurther, ActionsGo
         DEF Place, Moves, Rest, At, Upgrades, Fails, PutBack, CanMove, SurvivalShape, StepShape, CopyShape, CleanShape, Began, Starting, Disk
    <2> QED BY <1>o, <2>1, <2>3, <2>4
  <1>12. ASSUME NEW i \in Instances, Unplace(i) PROVE \A k \in Instances : SurvivalShape(k)'
    <2>1. Rest(i) /\ op[i].step = "unplace"
      BY <1>12, <1>a, GoingTo, GoingFurther DEF Unplace, Moves, At
    <2>2. StepShape(i) /\ CopyShape(i) /\ SurvivalShape(i)
      BY <1>s
    <2>3. crashes' = crashes /\ (faults' = faults \/ faults' = faults + 1)
      BY <1>12 DEF Unplace, Fails
    <2>4. SurvivalShape(i)'
      BY ONLY <1>12, <1>a, <1>n, <1>m, <1>w, CleanShape, i \in Instances, <2>1, <2>2, <2>3, GoingTo, GoingFurther
         DEF Unplace, Moves, Rest, At, Upgrades, Fails, CanMove, SurvivalShape, StepShape, CopyShape, CleanShape, Began, Starting, Disk
    <2> QED BY <1>o, <2>1, <2>3, <2>4
  <1>13. ASSUME NEW i \in Instances, Secure(i) PROVE \A k \in Instances : SurvivalShape(k)'
    <2>1. Rest(i) /\ op[i].step = "secure"
      BY <1>13, <1>a, GoingTo, GoingFurther DEF Secure, Moves, At
    <2>2. StepShape(i) /\ CopyShape(i) /\ SurvivalShape(i)
      BY <1>s
    <2>3. crashes' = crashes /\ (faults' = faults \/ faults' = faults + 1)
      BY <1>13 DEF Secure, Fails
    <2>4. SurvivalShape(i)'
      <3>1. /\ UNCHANGED <<live, backup>> /\ op'[i].had = op[i].had
            /\ \/ /\ faults' = faults /\ op'[i].phase = op[i].phase
                  /\ op'[i].step = IF Upgrades(i) THEN "want" ELSE "conf"
               \/ faults' = faults + 1 /\ op[i].had /\ op'[i].step = "discard" /\ op'[i].phase = op[i].phase
               \/ faults' = faults + 1 /\ ~op[i].had
        BY <1>13, <1>a, GoingTo, GoingFurther DEF Secure, Moves, Disk, Fails
      <3>2. Upgrades(i) <=> op[i].kind = "upgrade" /\ op[i].phase = "change"
        BY DEF Upgrades
      <3> QED BY ONLY <3>1, <3>2, <1>a, i \in Instances, <1>n, <1>m, <1>w, CleanShape, <2>1, <2>2, <2>3
           DEF SurvivalShape, StepShape, CopyShape, CleanShape, Began, Starting, Rest, Phases, Kinds
    <2> QED BY <1>o, <2>1, <2>3, <2>4
  <1>14. ASSUME NEW i \in Instances, Discard(i) PROVE \A k \in Instances : SurvivalShape(k)'
    <2>1. Rest(i) /\ op[i].step = "discard"
      BY <1>14, <1>a, GoingTo, GoingFurther DEF Discard, Moves, At
    <2>2. StepShape(i) /\ CopyShape(i) /\ SurvivalShape(i)
      BY <1>s
    <2>3. crashes' = crashes /\ (faults' = faults \/ faults' = faults + 1)
      BY <1>14 DEF Discard, Fails
    <2>4. SurvivalShape(i)'
      BY ONLY <1>14, <1>a, <1>n, <1>m, <1>w, CleanShape, i \in Instances, <2>1, <2>2, <2>3, GoingTo, GoingFurther
         DEF Discard, Moves, Rest, At, Upgrades, Fails, SurvivalShape, StepShape, CopyShape, CleanShape, Began, Starting, Disk
    <2> QED BY <1>o, <2>1, <2>3, <2>4
  <1>15. ASSUME NEW i \in Instances, Preserve(i) PROVE \A k \in Instances : SurvivalShape(k)'
    <2>1. Rest(i) /\ op[i].step = "preserve"
      BY <1>15, <1>a, GoingTo, GoingFurther DEF Preserve, Moves, At
    <2>2. StepShape(i) /\ CopyShape(i) /\ SurvivalShape(i)
      BY <1>s
    <2>3. crashes' = crashes /\ (faults' = faults \/ faults' = faults + 1)
      BY <1>15 DEF Preserve, Fails
    <2>4. SurvivalShape(i)'
      <3>1. live' = live /\ op'[i].phase = op[i].phase
        BY <1>15, <1>a, GoingTo DEF Preserve, Moves
      <3>2. CASE ~Installed(backup) /\ End(i, "failed") /\ UNCHANGED <<backup, faults>>
        <4>1. op'[i].step = "failed"
          BY <1>a, <3>2, GoingTo DEF Moves
        <4> QED BY ONLY <3>1, <3>2, <4>1, <1>a, <1>k, i \in Instances, <1>n, <1>m, <1>w, CleanShape, <2>1, <2>2, <2>3
         DEF SurvivalShape, StepShape, CopyShape, CleanShape, Began, Starting, Rest, Phases, Kinds
      <3>3. CASE /\ Installed(backup) /\ backup' = [backup EXCEPT !.yaml = Preserved(live, backup)]
                 /\ StepTo(i, "aside") /\ UNCHANGED faults
        <4>1. op'[i].step = "aside" /\ (Whole(backup') <=> Whole(backup)) /\ backup'.release = backup.release
          BY <1>a, <3>3, GoingTo, Preserving DEF Moves
        <4> QED BY ONLY <3>1, <3>3, <4>1, <1>a, i \in Instances, <1>n, <1>m, <1>w, CleanShape, <2>1, <2>2, <2>3
         DEF SurvivalShape, StepShape, CopyShape, CleanShape, Began, Starting, Rest, Phases, Kinds
      <3>4. CASE Fails(TRUE) /\ End(i, "failed")
        <4>1. op'[i].step = "failed" /\ faults' = faults + 1
          BY <1>a, <3>4, GoingTo DEF Moves, Fails
        <4> QED BY ONLY <3>1, <4>1, <1>a, i \in Instances, <1>n, <1>m, <1>w, CleanShape, <2>1, <2>2, <2>3
         DEF SurvivalShape, StepShape, CopyShape, CleanShape, Began, Starting, Rest, Phases, Kinds
      <3> QED BY <1>15, <3>2, <3>3, <3>4 DEF Preserve
    <2> QED BY <1>o, <2>1, <2>3, <2>4
  <1>16. ASSUME NEW i \in Instances, Aside(i) PROVE \A k \in Instances : SurvivalShape(k)'
    <2>1. Rest(i) /\ op[i].step = "aside"
      BY <1>16, <1>a, GoingTo, GoingFurther, ActionsGo DEF Aside, Moves, At
    <2>2. StepShape(i) /\ CopyShape(i) /\ SurvivalShape(i)
      BY <1>s
    <2>3. crashes' = crashes /\ (faults' = faults \/ faults' = faults + 1)
      BY <1>16 DEF Aside, Fails
    <2>4. SurvivalShape(i)'
      <3>1. /\ backup' = backup /\ op'[i].phase = op[i].phase
            /\ \/ /\ live # Missing /\ live' = Missing /\ faults' = faults
                  /\ op'[i].step = "restore" /\ op'[i].temporary = live
               \/ op'[i].step = "failed" /\ live' = live /\ (live = Missing \/ faults' = faults + 1)
        BY <1>16, <1>a, ActionsGo, GoingTo DEF Aside, Moves, Fails
      <3> QED BY ONLY <3>1, <1>a, <1>k, i \in Instances, <1>n, <1>m, <1>w, CleanShape, <2>1, <2>2, <2>3
           DEF SurvivalShape, StepShape, CopyShape, CleanShape, Began, Starting, Rest, Phases, Kinds
    <2> QED BY <1>o, <2>1, <2>3, <2>4
  <1>17. ASSUME NEW i \in Instances, Restore(i) PROVE \A k \in Instances : SurvivalShape(k)'
    <2>1. Rest(i) /\ op[i].step = "restore"
      BY <1>17, <1>a, GoingTo, GoingFurther DEF Restore, Moves, At
    <2>2. StepShape(i) /\ CopyShape(i) /\ SurvivalShape(i)
      BY <1>s
    <2>3. crashes' = crashes /\ (faults' = faults \/ faults' = faults + 1)
      BY <1>17 DEF Restore, Fails
    <2>4. SurvivalShape(i)'
      <3>1. /\ op'[i].phase = op[i].phase /\ op'[i].temporary = op[i].temporary
            /\ \/ live' = backup /\ faults' = faults /\ op'[i].step = "keep"
               \/ op'[i].step = "unaside" /\ UNCHANGED <<live, backup>> /\ (faults' = faults + 1 \/ ~CanMove(backup, live))
        BY <1>17, <1>a, GoingTo DEF Restore, Moves, Fails
      <3>2. CanMove(backup, live)
        BY <1>k, <2>1, <2>2 DEF CopyShape, CanMove
      <3> QED BY ONLY <3>1, <3>2, <1>a, i \in Instances, <1>n, <1>m, <1>w, CleanShape, <2>1, <2>2, <2>3
           DEF SurvivalShape, StepShape, CopyShape, CleanShape, Began, Starting, Rest, Phases, Kinds
    <2> QED BY <1>o, <2>1, <2>3, <2>4
  <1>18. ASSUME NEW i \in Instances, Unaside(i) PROVE \A k \in Instances : SurvivalShape(k)'
    <2>1. Rest(i) /\ op[i].step = "unaside"
      BY <1>18, <1>a, GoingTo, GoingFurther DEF Unaside, Moves, At
    <2>2. StepShape(i) /\ CopyShape(i) /\ SurvivalShape(i)
      BY <1>s
    <2>3. crashes' = crashes /\ (faults' = faults \/ faults' = faults + 1)
      BY <1>18 DEF Unaside, Fails
    <2>4. SurvivalShape(i)'
      BY ONLY <1>18, <1>a, <1>n, <1>m, <1>w, CleanShape, i \in Instances, <2>1, <2>2, <2>3, GoingTo, GoingFurther
         DEF Unaside, Moves, Rest, At, Upgrades, Fails, CanMove, SurvivalShape, StepShape, CopyShape, CleanShape, Began, Starting, Disk
    <2> QED BY <1>o, <2>1, <2>3, <2>4
  <1>19. ASSUME NEW i \in Instances, Keep(i) PROVE \A k \in Instances : SurvivalShape(k)'
    <2>1. Rest(i) /\ op[i].step = "keep"
      BY <1>19, <1>a, GoingTo, GoingFurther DEF Keep, Moves, At
    <2>2. StepShape(i) /\ CopyShape(i) /\ SurvivalShape(i)
      BY <1>s
    <2>3. crashes' = crashes /\ (faults' = faults \/ faults' = faults + 1)
      BY <1>19 DEF Keep, Fails
    <2>4. SurvivalShape(i)'
      BY ONLY <1>19, <1>a, <1>n, <1>m, <1>w, CleanShape, i \in Instances, <2>1, <2>2, <2>3, GoingTo, GoingFurther
         DEF Keep, Moves, Rest, At, Upgrades, Fails, CanMove, SurvivalShape, StepShape, CopyShape, CleanShape, Began, Starting, Disk
    <2> QED BY <1>o, <2>1, <2>3, <2>4
  <1>20. ASSUME NEW i \in Instances, Return(i) PROVE \A k \in Instances : SurvivalShape(k)'
    <2>1. op' = [op EXCEPT ![i] = Idle] /\ op[i].step # "idle" /\ UNCHANGED <<faults, crashes>>
      BY <1>20 DEF Return
    <2> QED BY <1>e, <2>1
  <1>21. ASSUME NEW i \in Instances, Crash(i) PROVE \A k \in Instances : SurvivalShape(k)'
    <2>1. op' = [op EXCEPT ![i] = Idle] /\ op[i].step # "idle" /\ faults' = faults /\ crashes' # 0
      BY <1>21, <1>n DEF Crash, At
    <2> QED BY <1>e, <2>1
  <1>22. ASSUME NEW i \in Instances, JavaEnds(i) PROVE \A k \in Instances : SurvivalShape(k)'
    <2>1. UNCHANGED <<op, live, backup, faults, crashes>>
      BY <1>22 DEF JavaEnds, Disk
    <2> QED BY <1>s, <2>1 DEF SurvivalShape, Began
  <1>23. CASE OperatorWrites
    <2>1. live' = [live EXCEPT !.yaml = live.yaml \cup {Operator}] /\ Installed(live) /\ Operator \in Files
          /\ UNCHANGED <<op, backup, faults, crashes>>
      BY <1>23 DEF OperatorWrites, Files
    <2>2. Installed(live') /\ (Whole(live') <=> Whole(live)) /\ live'.release = live.release /\ live # Missing
      BY <1>a, <1>w, <2>1, Writing
    <2>3. ASSUME NEW k \in Instances PROVE SurvivalShape(k)'
      BY ONLY <1>s, k \in Instances, <2>1, <2>2 DEF SurvivalShape, Began
    <2> QED BY <2>3
  <1>24. CASE UNCHANGED vars
    <2>1. UNCHANGED <<op, live, backup, faults, crashes>>
      BY <1>24 DEF vars
    <2> QED BY <1>s, <2>1 DEF SurvivalShape, Began
  <1> QED
    BY ONLY [Next]_vars, <1>1, <1>2, <1>3, <1>4, <1>5, <1>6, <1>7, <1>8, <1>9, <1>10, <1>11, <1>12, <1>13, <1>14, <1>15,
       <1>16, <1>17, <1>18, <1>19, <1>20, <1>21, <1>22, <1>23, <1>24
       DEF Next, Proceed

\* A copy that looks installed stays on the disk, when no directory of state can
\* take the place of the program.
SomeInstalled == Copies # {} => \E c \in Copies : Installed(c)

LEMMA InstalledKept ==
    ASSUME ~StateInside, TypeOK, SomeInstalled, \A k \in Instances : StepShape(k) /\ CopyShape(k), [Next]_vars
    PROVE  SomeInstalled'
  <1>a. /\ op \in [Instances -> Operation] /\ live \in Slot /\ backup \in Slot /\ java \in [Instances -> BOOLEAN]
        /\ \A i \in Instances : op[i].kind \in Kinds /\ op[i].phase \in Phases
        /\ \A i, j \in Instances : i # j /\ op[i].step # "idle" => op[j].step = "idle"
        /\ lock = Nobody => \A j \in Instances : op[j].step = "idle"
    BY NamesAssumption DEF TypeOK, Operation, Busy, At
  <1>n. faults \in Nat /\ crashes \in Nat /\ faults + 1 # 0 /\ crashes + 1 # 0
    BY NamesAssumption DEF TypeOK
  <1>s. ASSUME NEW i \in Instances PROVE StepShape(i) /\ CopyShape(i)
    OBVIOUS
  <1>i. Installed(live)' \/ Installed(backup)' => SomeInstalled'
    <2>1. \A c \in {live', backup'} : Installed(c) => c \in Copies'
      BY DEF Copies, Installed
    <2> QED BY <2>1 DEF SomeInstalled
  <1>u. ASSUME UNCHANGED <<live, backup, strays>>, \A k \in Instances : op'[k].temporary = op[k].temporary
        PROVE  SomeInstalled'
    <2>1. Copies' = Copies
      BY <1>u DEF Copies
    <2> QED BY <2>1 DEF SomeInstalled
  <1>o. ASSUME NEW i \in Instances, Rest(i), UNCHANGED <<live, backup, strays>>, op'[i].temporary = op[i].temporary
        PROVE  SomeInstalled'
    BY <1>o, <1>u DEF Rest
  <1>w. /\ Whole(live) => Installed(live)
        /\ \A i \in Instances : Whole(op[i].payload) => Installed(op[i].payload)
        /\ Installed(live) => live # Missing
        /\ Installed(backup) => backup # Missing
    BY <1>a, Copying DEF Installed, Whole
  <1>1. ASSUME NEW i \in Instances, NEW kind \in Kinds, Begin(i, kind) PROVE SomeInstalled'
    <2>1. /\ op'[i].temporary = Missing /\ op[i].step = "idle" /\ \A k \in Instances : k # i => op'[k] = op[k]
          /\ UNCHANGED <<live, backup, strays>>
      BY <1>1, <1>a DEF Begin, Idle, Disk, At
    <2>2. op[i].temporary = Missing
      BY <1>s, <2>1 DEF CopyShape
    <2> QED BY <1>u, <2>1, <2>2
  <1>2. ASSUME NEW i \in Instances, Check(i) PROVE SomeInstalled'
    <2>1. Rest(i) /\ op[i].step = "check" /\ op'[i].temporary \in {op[i].temporary, Missing}
      BY <1>2, <1>a, GoingTo, GoingFurther DEF Check, Moves, At
    <2>2. op[i].temporary = Missing
      BY <1>s, <2>1 DEF CopyShape
    <2>3. UNCHANGED <<live, backup, strays>>
      BY <1>2 DEF Check, Disk
    <2> QED BY <1>o, <2>1, <2>2, <2>3
  <1>3. ASSUME NEW i \in Instances, Stop(i) PROVE SomeInstalled'
    <2>1. Rest(i) /\ op[i].step = "stop" /\ op'[i].temporary \in {op[i].temporary, Missing}
      BY <1>3, <1>a, GoingTo, GoingFurther, ActionsGo DEF Stop, Moves, At
    <2>2. op[i].temporary = Missing
      BY <1>s, <2>1 DEF CopyShape
    <2>3. UNCHANGED <<live, backup, strays>>
      BY <1>3 DEF Stop, Disk
    <2> QED BY <1>o, <2>1, <2>2, <2>3
  <1>4. ASSUME NEW i \in Instances, Want(i) PROVE SomeInstalled'
    <2>1. Rest(i) /\ op[i].step = "want" /\ op'[i].temporary \in {op[i].temporary, Missing}
      BY <1>4, <1>a, GoingTo, GoingFurther DEF Want, Moves, At
    <2>2. op[i].temporary = Missing
      BY <1>s, <2>1 DEF CopyShape
    <2>3. UNCHANGED <<live, backup, strays>>
      BY <1>4 DEF Want, Disk
    <2> QED BY <1>o, <2>1, <2>2, <2>3
  <1>5. ASSUME NEW i \in Instances, Ensure(i) PROVE SomeInstalled'
    <2>1. Rest(i) /\ op[i].step = "ensure" /\ op'[i].temporary \in {op[i].temporary, Missing}
      BY <1>5, <1>a, GoingTo, GoingFurther DEF Ensure, Moves, At
    <2>2. op[i].temporary = Missing
      BY <1>s, <2>1 DEF CopyShape
    <2>3. UNCHANGED <<live, backup, strays>>
      BY <1>5 DEF Ensure, Disk
    <2> QED BY <1>o, <2>1, <2>2, <2>3
  <1>6. ASSUME NEW i \in Instances, Conf(i) PROVE SomeInstalled'
    <2>1. Installed(live) /\ i \in Files
      BY <1>6, <1>s DEF Conf, At, StepShape, Files
    <2>2. live' = live \/ live' = [live EXCEPT !.yaml = live.yaml \cup {i}]
      BY <1>6 DEF Conf
    <2>3. Installed(live')
      BY <1>a, <2>1, <2>2, Writing
    <2> QED BY <1>i, <2>3
  <1>7. ASSUME NEW i \in Instances, Run(i) PROVE SomeInstalled'
    <2>1. Rest(i) /\ op[i].step = "run" /\ op'[i].temporary \in {op[i].temporary, Missing}
      BY <1>7, <1>a, GoingTo, GoingFurther DEF Run, Moves, At
    <2>2. op[i].temporary = Missing
      BY <1>s, <2>1 DEF CopyShape
    <2>3. UNCHANGED <<live, backup, strays>>
      BY <1>7 DEF Run, Disk
    <2> QED BY <1>o, <2>1, <2>2, <2>3
  <1>8. ASSUME NEW i \in Instances, Stage(i) PROVE SomeInstalled'
    <2>1. Rest(i) /\ op[i].step = "stage" /\ op'[i].temporary \in {op[i].temporary, Missing}
      BY <1>8, <1>a, GoingTo, GoingFurther, ActionsGo DEF Stage, Moves, At
    <2>2. op[i].temporary = Missing
      BY <1>s, <2>1 DEF CopyShape
    <2>3. UNCHANGED <<live, backup, strays>>
      BY <1>8 DEF Stage, Disk
    <2> QED BY <1>o, <2>1, <2>2, <2>3
  <1>9. ASSUME NEW i \in Instances, Clear(i) PROVE SomeInstalled'
    <2>1. Installed(live) /\ live' = live
      BY <1>9, <1>s DEF Clear, At, CopyShape
    <2> QED BY <1>i, <2>1
  <1>10. ASSUME NEW i \in Instances, Retire(i) PROVE SomeInstalled'
    <2>1. op[i].step = "retire" /\ Installed(live) /\ (live' = live \/ backup' = live)
      BY <1>10, <1>s DEF Retire, At, CopyShape
    <2> QED BY <1>i, <2>1
  <1>11. ASSUME NEW i \in Instances, Place(i) PROVE SomeInstalled'
    <2>1. op[i].step = "place" /\ Whole(op[i].payload) /\ op[i].temporary = Missing
      BY <1>11, <1>s DEF Place, At, CopyShape
    <2>2. CASE live' = op[i].payload
      BY <1>i, <1>w, <2>1, <2>2
    <2>3. CASE PutBack(i) /\ UNCHANGED live
      <3>1. Rest(i) /\ op'[i].temporary = Missing
        BY <1>a, <2>1, <2>3, GoingTo, GoingFurther DEF PutBack, Moves
      <3>2. UNCHANGED <<live, backup, strays>>
        BY <1>11, <2>3 DEF Place
      <3> QED BY <1>o, <2>1, <3>1, <3>2
    <2> QED BY <1>11, <2>2, <2>3 DEF Place
  <1>12. ASSUME NEW i \in Instances, Unplace(i) PROVE SomeInstalled'
    <2>1. Installed(backup)
      BY <1>12, <1>s DEF Unplace, At, CopyShape
    <2>2. live' = backup \/ backup' = backup
      BY <1>12 DEF Unplace
    <2> QED BY <1>i, <2>1, <2>2
  <1>13. ASSUME NEW i \in Instances, Secure(i) PROVE SomeInstalled'
    <2>1. Rest(i) /\ op[i].step = "secure" /\ op'[i].temporary \in {op[i].temporary, Missing}
      BY <1>13, <1>a, GoingTo, GoingFurther DEF Secure, Moves, At
    <2>2. op[i].temporary = Missing
      BY <1>s, <2>1 DEF CopyShape
    <2>3. UNCHANGED <<live, backup, strays>>
      BY <1>13 DEF Secure, Disk
    <2> QED BY <1>o, <2>1, <2>2, <2>3
  <1>14. ASSUME NEW i \in Instances, Discard(i) PROVE SomeInstalled'
    <2>1. Installed(backup) /\ backup' = backup
      BY <1>14, <1>s DEF Discard, At, CopyShape
    <2> QED BY <1>i, <2>1
  <1>15. ASSUME NEW i \in Instances, Preserve(i) PROVE SomeInstalled'
    <2>1. Rest(i) /\ op[i].step = "preserve" /\ op'[i].temporary \in {op[i].temporary, Missing}
      BY <1>15, <1>a, GoingTo DEF Preserve, Moves, At
    <2>2. op[i].temporary = Missing
      BY <1>s, <2>1 DEF CopyShape
    <2>3. CASE ~Installed(backup)
      <3>1. UNCHANGED <<live, backup, strays>>
        BY <1>15, <2>3 DEF Preserve
      <3> QED BY <1>o, <2>1, <2>2, <3>1
    <2>4. CASE Installed(backup)
      <3>1. PICK y \in SUBSET Files : backup' = [backup EXCEPT !.yaml = y]
        <4>1. Preserved(live, backup) \in SUBSET Files /\ \A y \in SUBSET YamlOf(live) : backup.yaml \cup y \in SUBSET Files
          BY <1>a, <2>4, CopiesTyped DEF Preserved
        <4> QED BY <1>15, <2>4, <4>1 DEF Preserve
      <3>2. Installed(backup')
        BY <1>a, <2>4, <3>1, Copying
      <3> QED BY <1>i, <3>2
    <2> QED BY <2>3, <2>4
  <1>16. ASSUME NEW i \in Instances, Aside(i) PROVE SomeInstalled'
    <2>1. Installed(backup) /\ backup' = backup
      BY <1>16, <1>s DEF Aside, At, CopyShape
    <2> QED BY <1>i, <2>1
  <1>17. ASSUME NEW i \in Instances, Restore(i) PROVE SomeInstalled'
    <2>1. Installed(backup)
      BY <1>17, <1>s DEF Restore, At, CopyShape
    <2>2. live' = backup \/ backup' = backup
      BY <1>17 DEF Restore
    <2> QED BY <1>i, <2>1, <2>2
  <1>18. ASSUME NEW i \in Instances, Unaside(i) PROVE SomeInstalled'
    <2>1. Installed(backup) /\ backup' = backup
      BY <1>18, <1>s DEF Unaside, At, CopyShape
    <2> QED BY <1>i, <2>1
  <1>19. ASSUME NEW i \in Instances, Keep(i) PROVE SomeInstalled'
    <2>1. Installed(live) /\ live' = live
      BY <1>19, <1>s DEF Keep, At, CopyShape
    <2> QED BY <1>i, <2>1
  <1>20. ASSUME NEW i \in Instances, Return(i) PROVE SomeInstalled'
    <2>1. op' = [op EXCEPT ![i] = Idle] /\ op[i].step \in {"ok", "failed"} /\ UNCHANGED <<live, backup, strays>>
      BY <1>20 DEF Return, Disk
    <2>2. op[i].temporary = Missing
      BY <1>s, <2>1 DEF CopyShape
    <2>3. \A k \in Instances : op'[k].temporary = op[k].temporary
      BY <1>a, <2>1, <2>2 DEF Idle
    <2> QED BY <1>u, <2>1, <2>3
  <1>21. ASSUME NEW i \in Instances, Crash(i) PROVE SomeInstalled'
    <2>1. CASE At(i, "clear")
      <3>1. Installed(live) /\ live' = live
        BY <1>21, <1>s, <2>1 DEF Crash, At, CopyShape
      <3> QED BY <1>i, <3>1
    <2>2. CASE At(i, "discard")
      <3>1. Installed(backup) /\ backup' = backup
        BY <1>21, <1>s, <2>2 DEF Crash, At, CopyShape
      <3> QED BY <1>i, <3>1
    <2>3. CASE ~At(i, "clear") /\ ~At(i, "discard")
      <3>1. /\ UNCHANGED <<live, backup>> /\ strays' = strays \cup ({op[i].temporary} \ {Missing})
            /\ op' = [op EXCEPT ![i] = Idle]
        BY <1>21, <2>3 DEF Crash
      <3>2. op'[i].temporary = Missing /\ \A k \in Instances : k # i => op'[k].temporary = op[k].temporary
        BY <1>a, <3>1 DEF Idle
      <3>3. Copies' = Copies
        BY <3>1, <3>2 DEF Copies
      <3> QED BY <3>3 DEF SomeInstalled
    <2> QED BY <2>1, <2>2, <2>3
  <1>22. ASSUME NEW i \in Instances, JavaEnds(i) PROVE SomeInstalled'
    <2>1. UNCHANGED <<op, live, backup, strays>>
      BY <1>22 DEF JavaEnds, Disk
    <2> QED BY <1>u, <2>1
  <1>23. CASE OperatorWrites
    <2>1. live' = [live EXCEPT !.yaml = live.yaml \cup {Operator}] /\ Installed(live) /\ Operator \in Files
      BY <1>23 DEF OperatorWrites, Files
    <2>2. Installed(live')
      BY <1>a, <2>1, Writing
    <2> QED BY <1>i, <2>2
  <1>24. CASE UNCHANGED vars
    <2>1. UNCHANGED <<op, live, backup, strays>>
      BY <1>24 DEF vars
    <2> QED BY <1>u, <2>1
  <1> QED
    BY ONLY [Next]_vars, <1>1, <1>2, <1>3, <1>4, <1>5, <1>6, <1>7, <1>8, <1>9, <1>10, <1>11, <1>12, <1>13, <1>14, <1>15,
       <1>16, <1>17, <1>18, <1>19, <1>20, <1>21, <1>22, <1>23, <1>24
       DEF Next, Proceed

\* What a step moves no process runs from.
LEMMA MovedUnused ==
    ASSUME TypeOK, RunsInstalled, \A k \in Instances : StepShape(k) /\ CopyShape(k), [Next]_vars
    PROVE  SameProgram(live, live') \/ \A j \in Instances : ~java[j]
  <1>a. /\ op \in [Instances -> Operation] /\ live \in Slot /\ backup \in Slot /\ java \in [Instances -> BOOLEAN]
        /\ \A i \in Instances : op[i].kind \in Kinds /\ op[i].phase \in Phases
        /\ \A i, j \in Instances : i # j /\ op[i].step # "idle" => op[j].step = "idle"
        /\ lock = Nobody => \A j \in Instances : op[j].step = "idle"
    BY NamesAssumption DEF TypeOK, Operation, Busy, At
  <1>n. faults \in Nat /\ crashes \in Nat /\ faults + 1 # 0 /\ crashes + 1 # 0
    BY NamesAssumption DEF TypeOK
  <1>s. ASSUME NEW i \in Instances PROVE StepShape(i) /\ CopyShape(i)
    OBVIOUS
  <1>m. ASSUME NEW i \in Instances, op[i].step \in Moving PROVE \A j \in Instances : ~java[j]
    BY <1>m, <1>s DEF StepShape, NobodyRuns
  <1>f. ASSUME NEW f \in Files, Installed(live), live' = [live EXCEPT !.yaml = live.yaml \cup {f}]
        PROVE  SameProgram(live, live')
    <2>1. live \in Copy /\ live.yaml \cup {f} \in SUBSET Files
      BY <1>a, <1>f, CopiesTyped
    <2>2. PICK y \in SUBSET Files : y = live.yaml \cup {f}
      BY <2>1
    <2>3. live' = [live EXCEPT !.yaml = y]
      BY <1>f, <2>2
    <2>4. /\ live' \in Copy /\ live' # Missing /\ live # Missing /\ live'.yaml = y
          /\ live'.state = live.state /\ live'.release = live.release
      BY <2>1, <2>3, CopiesTyped
    <2> QED BY <2>2, <2>4 DEF SameProgram
  <1>u. live' = live => SameProgram(live, live')
    BY DEF SameProgram
  <1>1. ASSUME NEW i \in Instances, NEW kind \in Kinds, Begin(i, kind) PROVE SameProgram(live, live') \/ \A j \in Instances : ~java[j]
    BY <1>1, <1>u DEF Begin, Disk
  <1>2. ASSUME NEW i \in Instances, Check(i) PROVE SameProgram(live, live') \/ \A j \in Instances : ~java[j]
    BY <1>2, <1>u DEF Check, Disk
  <1>3. ASSUME NEW i \in Instances, Stop(i) PROVE SameProgram(live, live') \/ \A j \in Instances : ~java[j]
    BY <1>3, <1>u DEF Stop, Disk
  <1>4. ASSUME NEW i \in Instances, Want(i) PROVE SameProgram(live, live') \/ \A j \in Instances : ~java[j]
    BY <1>4, <1>u DEF Want, Disk
  <1>5. ASSUME NEW i \in Instances, Ensure(i) PROVE SameProgram(live, live') \/ \A j \in Instances : ~java[j]
    <2>1. live' = live \/ live = Missing
      BY <1>5 DEF Ensure
    <2>2. ~Installed(Missing)
      BY Copying
    <2> QED BY <1>u, <2>1, <2>2 DEF RunsInstalled
  <1>6. ASSUME NEW i \in Instances, Conf(i) PROVE SameProgram(live, live') \/ \A j \in Instances : ~java[j]
    <2>1. Installed(live) /\ i \in Files
      BY <1>6, <1>s DEF Conf, At, StepShape, Files
    <2> QED BY <1>6, <1>f, <1>u, <2>1 DEF Conf
  <1>7. ASSUME NEW i \in Instances, Run(i) PROVE SameProgram(live, live') \/ \A j \in Instances : ~java[j]
    BY <1>7, <1>u DEF Run, Disk
  <1>8. ASSUME NEW i \in Instances, Stage(i) PROVE SameProgram(live, live') \/ \A j \in Instances : ~java[j]
    BY <1>8, <1>u DEF Stage, Disk
  <1>9. ASSUME NEW i \in Instances, Clear(i) PROVE SameProgram(live, live') \/ \A j \in Instances : ~java[j]
    BY <1>9, <1>u DEF Clear, Disk
  <1>10. ASSUME NEW i \in Instances, Retire(i) PROVE SameProgram(live, live') \/ \A j \in Instances : ~java[j]
    BY <1>10, <1>m DEF Retire, At, Moving
  <1>11. ASSUME NEW i \in Instances, Place(i) PROVE SameProgram(live, live') \/ \A j \in Instances : ~java[j]
    BY <1>11, <1>m DEF Place, At, Moving
  <1>12. ASSUME NEW i \in Instances, Unplace(i) PROVE SameProgram(live, live') \/ \A j \in Instances : ~java[j]
    BY <1>12, <1>m DEF Unplace, At, Moving
  <1>13. ASSUME NEW i \in Instances, Secure(i) PROVE SameProgram(live, live') \/ \A j \in Instances : ~java[j]
    BY <1>13, <1>u DEF Secure, Disk
  <1>14. ASSUME NEW i \in Instances, Discard(i) PROVE SameProgram(live, live') \/ \A j \in Instances : ~java[j]
    BY <1>14, <1>m DEF Discard, At, Moving
  <1>15. ASSUME NEW i \in Instances, Preserve(i) PROVE SameProgram(live, live') \/ \A j \in Instances : ~java[j]
    BY <1>15, <1>u DEF Preserve, Disk
  <1>16. ASSUME NEW i \in Instances, Aside(i) PROVE SameProgram(live, live') \/ \A j \in Instances : ~java[j]
    BY <1>16, <1>m DEF Aside, At, Moving
  <1>17. ASSUME NEW i \in Instances, Restore(i) PROVE SameProgram(live, live') \/ \A j \in Instances : ~java[j]
    BY <1>17, <1>m DEF Restore, At, Moving
  <1>18. ASSUME NEW i \in Instances, Unaside(i) PROVE SameProgram(live, live') \/ \A j \in Instances : ~java[j]
    BY <1>18, <1>m DEF Unaside, At, Moving
  <1>19. ASSUME NEW i \in Instances, Keep(i) PROVE SameProgram(live, live') \/ \A j \in Instances : ~java[j]
    BY <1>19, <1>u DEF Keep, Disk
  <1>20. ASSUME NEW i \in Instances, Return(i) PROVE SameProgram(live, live') \/ \A j \in Instances : ~java[j]
    BY <1>20, <1>u DEF Return, Disk
  <1>21. ASSUME NEW i \in Instances, Crash(i) PROVE SameProgram(live, live') \/ \A j \in Instances : ~java[j]
    BY <1>21, <1>m, <1>u DEF Crash, At, Moving
  <1>22. ASSUME NEW i \in Instances, JavaEnds(i) PROVE SameProgram(live, live') \/ \A j \in Instances : ~java[j]
    BY <1>22, <1>u DEF JavaEnds, Disk
  <1>23. CASE OperatorWrites
    <2>1. Operator \in Files /\ Installed(live) /\ live' = [live EXCEPT !.yaml = live.yaml \cup {Operator}]
      BY <1>23 DEF OperatorWrites, Files
    <2> QED BY <1>f, <2>1
  <1>24. CASE UNCHANGED vars
    BY <1>24, <1>u DEF vars
  <1> QED
    BY ONLY [Next]_vars, <1>1, <1>2, <1>3, <1>4, <1>5, <1>6, <1>7, <1>8, <1>9, <1>10, <1>11, <1>12, <1>13, <1>14, <1>15,
       <1>16, <1>17, <1>18, <1>19, <1>20, <1>21, <1>22, <1>23, <1>24
       DEF Next, Proceed

-----------------------------------------------------------------------------
(* The theorems.                                                           *)

LEMMA InstallationStarts ==
    ASSUME Init PROVE TypeOK /\ InstallationInvariant
  <1>1. /\ live \in Slot /\ backup \in Slot /\ (Installed(live) => Whole(live)) /\ ~Installed(Missing)
    <2>1. \A y \in {{}, {Operator}} : [release |-> "old", state |-> "whole", yaml |-> y] \in Copy
      BY DEF Copy, Files
    <2>2. live = Missing \/ (live \in Copy /\ live.state = "whole")
      BY <2>1 DEF Init
    <2> QED BY <2>2, Copying DEF Slot, Init, Whole, Installed
  <1>2. Idle \in Operation
    BY DEF Idle, Operation, Steps, Kinds, Phases, Slot
  <1>3. \A i \in Instances : op[i] = Idle
    BY DEF Init
  <1>4. TypeOK
    BY <1>1, <1>2, <1>3, NamesAssumption DEF Init, TypeOK, Busy, At, Idle
  <1>5. RunsInstalled /\ CleanShape
    BY <1>1, <1>3 DEF Init, RunsInstalled, CleanShape, Idle
  <1>6. ASSUME NEW i \in Instances PROVE StepShape(i) /\ CopyShape(i) /\ YamlShape(i) /\ SurvivalShape(i)
    <2>1. op[i].step = "idle" /\ op[i].phase = "change" /\ op[i].temporary = Missing
      BY <1>3 DEF Idle
    <2> QED BY <2>1 DEF StepShape, CopyShape, YamlShape, SurvivalShape, Moving, Starting
  <1> QED BY <1>4, <1>5, <1>6 DEF InstallationInvariant

\* The inductive invariant: where each operation is, who runs meanwhile, where
\* every copy and its configurations are, and which copy is complete after one
\* step that failed.
THEOREM InstallationInvariantHolds == Spec => [](TypeOK /\ InstallationInvariant)
  <1>1. ASSUME TypeOK /\ InstallationInvariant, [Next]_vars PROVE (TypeOK /\ InstallationInvariant)'
    BY <1>1, TypesKept, StepsKept, CopiesKept, YamlKept, CleanKept, SurvivalKept DEF InstallationInvariant
  <1> QED BY <1>1, InstallationStarts, PTL DEF Spec

\* Every variable has its type, and the lock is held exactly by the instance
\* that is in an operation.
THEOREM InstallationTyped == Spec => []TypeOK
  <1> QED BY InstallationInvariantHolds, PTL

\* What an operation that succeeds changes keeps every configuration that was
\* there when it began.
THEOREM ConfigurationsKept == Spec => []ConfigsKept
  <1>1. InstallationInvariant => ConfigsKept
    BY DEF InstallationInvariant, ConfigsKept, StepShape, YamlShape, At
  <1> QED BY <1>1, InstallationInvariantHolds, PTL

\* An operation that fails leaves a complete program when one step failed at
\* most, and the one it began with when none did.
THEOREM FailureSurvived == Spec => []OneFailureIsSurvived
  <1>1. ASSUME TypeOK, InstallationInvariant PROVE OneFailureIsSurvived
    <2>1. faults \in Nat
      BY <1>1, NamesAssumption DEF TypeOK
    <2>2. faults = 0 => faults <= 1
      BY <2>1
    <2> QED BY <1>1, <2>2 DEF InstallationInvariant, OneFailureIsSurvived, SurvivalShape, Began, At
  <1> QED BY <1>1, InstallationInvariantHolds, PTL

\* No file of the program moves while a Java process of any instance runs from
\* it.
THEOREM NotMovedUnderJava == Spec => NotUnderJava
  <1>1. ASSUME TypeOK, InstallationInvariant, [Next]_vars
        PROVE  [SameProgram(live, live') \/ \A i \in Instances : ~java[i]]_vars
    BY <1>1, MovedUnused DEF InstallationInvariant
  <1> QED BY <1>1, InstallationInvariantHolds, PTL DEF Spec, NotUnderJava

\* A complete copy of the program stays on the disk, wherever a step fails or the
\* manager dies, as long as no removal left one that only looks installed. (When
\* the directory of state is the program's own, a first start makes a directory
\* that is no program.)
THEOREM CompleteCopyStays ==
    ASSUME ~StateInside PROVE Spec => []SomeCompleteCopy
  <1>1. Init => SomeInstalled
    <2>1. ASSUME Init, NEW c \in Copies PROVE Installed(c)
      <3>1. \A i \in Instances : op[i].temporary = Missing
        BY <2>1 DEF Init, Idle
      <3>2. c = live /\ c # Missing
        BY <2>1, <3>1 DEF Copies, Init
      <3>3. c.state = "whole"
        BY <2>1, <3>2 DEF Init
      <3> QED BY <3>2, <3>3 DEF Installed
    <2> QED BY <2>1 DEF SomeInstalled
  <1>2. ASSUME TypeOK /\ InstallationInvariant, SomeInstalled, [Next]_vars PROVE SomeInstalled'
    BY <1>2, InstalledKept DEF InstallationInvariant
  <1>3. ASSUME TypeOK, SomeInstalled PROVE SomeCompleteCopy
    <2>1. \A c \in Copies : c \in Copy
      BY <1>3 DEF TypeOK, Copies, Slot, Operation
    <2>2. \A c \in Copies : Installed(c) /\ c.state # "partial" => Whole(c)
      BY <2>1 DEF Installed, Whole, Copy
    <2> QED BY <1>3, <2>2 DEF SomeInstalled, SomeCompleteCopy
  <1> QED BY <1>1, <1>2, <1>3, InstallationInvariantHolds, PTL DEF Spec
=============================================================================
