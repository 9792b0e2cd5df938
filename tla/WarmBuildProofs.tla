-------------------------- MODULE WarmBuildProofs --------------------------
(***************************************************************************)
(* Proofs about WarmBuild: its type invariant, that the stamps a walk of   *)
(* the watch set trusts are sound, and that a build nobody disturbs leaves *)
(* the firmware of the tree it was asked to build.                         *)
(*                                                                         *)
(* A stamp is trusted when its modification time is that of the file, so   *)
(* what has to be known is that no time is ever used twice: every recorded *)
(* time lies at or before the clock, and an edit takes a later one.        *)
(*                                                                         *)
(* The last theorem needs that, until somebody edits during a build, every *)
(* object, job, firmware and fingerprint says truly what it was made of    *)
(* (BuildInv): what one build leaves behind decides what the next one      *)
(* skips.                                                                  *)
(***************************************************************************)
EXTENDS WarmBuild, TLAPS

\* What the steps of a build rely on: its configuration is fixed, there is
\* something to convert, jobs exist only while it compiles, and finds only
\* while it walks.
Running ==
  /\ pc # "idle" => cfg \in Configs
  /\ pc = "convert" => elf \in Elves
  /\ pc # "compile" => work = {}
  /\ ~Walking => found = Nothing(Inputs)

\* No recorded modification time lies in the future.
Clocked ==
  /\ \A f \in Inputs : /\ input[f] # None => input[f].time <= now
                       /\ kept[f] # None => kept[f].time <= now
                       /\ stamps[f] # None => stamps[f].time <= now
                       /\ found[f] # None => found[f].time <= now
  /\ stamp # None => stamp.time <= now

\* StampsAreSound for the stamps of a walk that has not been saved yet.
FoundIsSound ==
  "backdated" \notin causes =>
    \A f \in Inputs :
      found[f] # None /\ input[f] # None /\ found[f].time = input[f].time
      => found[f].content = input[f].content

\* The inductive invariant.
Inv == TypeOK /\ Running /\ Clocked /\ StampsAreSound /\ FoundIsSound

\* What a compile reads is a well-formed build input.
LEMMA MadeOfIsMade ==
  ASSUME TypeOK, cfg \in Configs, NEW s \in Sources,
         \A d \in Deps(s) : input[d] # None
  PROVE  MadeOf(s) \in Made
<1> DEFINE contents == [d \in Deps(s) |-> input[d].content]
<1>1. Deps(s) \subseteq Inputs
  BY DEF Deps, Inputs
<1>2. contents \in [Deps(s) -> Contents]
  BY <1>1 DEF TypeOK, Version
<1>3. MadeOf(s) = [config |-> CmdOf[cfg], of |-> contents]
  BY DEF MadeOf
<1> HIDE DEF contents
<1>5. MadeOf(s) \in [config : Commands, of : [Deps(s) -> Contents]]
  BY <1>2, <1>3 DEF Commands
<1> QED
  BY <1>5 DEF Made

\* Objects of some sources are a firmware.
LEMMA FirmwareIn ==
  ASSUME NEW S, S \subseteq Sources, NEW F \in [S -> Made]
  PROVE  F \in Linkable
BY DEF Linkable

\* The contents of the files that exist are a file set.
LEMMA FileSetIn ==
  ASSUME NEW files \in [Inputs -> Version \cup {None}]
  PROVE  ContentsOf(files) \in FileSets
<1> DEFINE F == {g \in Inputs : files[g] # None}
<1>1. F \in SUBSET Inputs
  OBVIOUS
<1>2. ContentsOf(files) \in [F -> Contents]
  BY DEF ContentsOf, Version
<1> HIDE DEF F
<1> QED
  BY <1>1, <1>2 DEF FileSets

\* The invariant holds initially.
LEMMA InitInv == Init => Inv
<1> SUFFICES ASSUME Init PROVE Inv
  OBVIOUS
<1> USE BoundAssumption
<1>0. PICK c \in Contents :
        input = [f \in Inputs |-> [content |-> c, time |-> 1]]
  BY DEF Init
<1>1. input \in [Inputs -> Version \cup {None}]
  BY <1>0 DEF Version
<1>2. TypeOK
  BY <1>1 DEF Init, TypeOK, Nothing
<1>3. Running
  BY DEF Init, Running, Walking
<1>4. Clocked /\ StampsAreSound /\ FoundIsSound
  BY <1>0, <1>1 DEF Init, Clocked, StampsAreSound, FoundIsSound, Nothing
<1> QED
  BY <1>2, <1>3, <1>4 DEF Inv

\* A person saves a file, at a new time.
LEMMA EditInv ==
  ASSUME Inv, NEW f \in Inputs, NEW c \in Contents, Edit(f, c)
  PROVE  Inv'
<1> USE BoundAssumption
    DEF Inv, project, outputs, caches, walk, compiling, request, bounds
<1>1. TypeOK'
  BY SMTT(30) DEF TypeOK, Edit, Raced, Version
<1>2. Running'
  BY DEF Running, Walking, TypeOK, Edit
<1>3. Clocked'
  BY SMTT(30) DEF Clocked, TypeOK, Version, Edit
<1>4. StampsAreSound' /\ FoundIsSound'
  BY SMTT(30) DEF StampsAreSound, FoundIsSound, Clocked, TypeOK, Version, Edit
<1> QED
  BY <1>1, <1>2, <1>3, <1>4

\* A person removes a source.
LEMMA RemoveInv ==
  ASSUME Inv, NEW s \in Sources, Remove(s)
  PROVE  Inv'
<1> USE BoundAssumption
    DEF Inv, project, outputs, caches, walk, compiling, request, bounds
<1>1. TypeOK'
  BY SMTT(30) DEF TypeOK, Remove, Raced, Inputs
<1>2. Running'
  BY DEF Running, Walking, TypeOK, Remove
<1>3. Clocked'
  BY SMTT(30) DEF Clocked, TypeOK, Version, Remove, Inputs
<1>4. StampsAreSound' /\ FoundIsSound'
  BY SMTT(30) DEF StampsAreSound, FoundIsSound, Clocked, TypeOK, Version,
      Remove, Inputs
<1> QED
  BY <1>1, <1>2, <1>3, <1>4

\* A person puts a file back.
LEMMA PutBackInv ==
  ASSUME Inv, NEW f \in Inputs, PutBack(f)
  PROVE  Inv'
<1> USE BoundAssumption
    DEF Inv, project, outputs, caches, walk, compiling, request, bounds
<1>1. TypeOK'
  BY SMTT(30) DEF TypeOK, PutBack
<1>2. Running'
  BY DEF Running, Walking, TypeOK, PutBack
<1>3. Clocked'
  BY SMTT(30) DEF Clocked, TypeOK, Version, PutBack
<1>4. StampsAreSound' /\ FoundIsSound'
  BY DEF StampsAreSound, FoundIsSound, PutBack
<1> QED
  BY <1>1, <1>2, <1>3, <1>4

\* A person changes the build configuration.
LEMMA ReconfigureInv ==
  ASSUME Inv, NEW c \in Configs, Reconfigure(c)
  PROVE  Inv'
<1> USE BoundAssumption
    DEF Inv, project, outputs, caches, walk, compiling, request, bounds
<1>1. TypeOK'
  BY SMTT(30) DEF TypeOK, Reconfigure
<1>2. Running'
  BY DEF Running, Walking, TypeOK, Reconfigure
<1>3. Clocked'
  BY SMTT(30) DEF Clocked, TypeOK, Version, Reconfigure
<1>4. StampsAreSound' /\ FoundIsSound'
  BY SMTT(30) DEF StampsAreSound, FoundIsSound, Clocked, TypeOK, Version,
      Reconfigure
<1> QED
  BY <1>1, <1>2, <1>3, <1>4

\* A build starts, cleaning the outputs or not.
LEMMA StartInv ==
  ASSUME Inv, NEW mode \in {"clean", "incremental"}, NEW w \in {"firmware",
      "symbols"}, Start(mode, w)
  PROVE  Inv'
<1> USE BoundAssumption
    DEF Inv, project, outputs, caches, walk, compiling, request, bounds
<1>1. TypeOK'
  <2>1. CASE mode = "clean"
    BY <2>1 DEF TypeOK, Start, Wipe, Nothing
  <2>2. CASE mode # "clean"
    <3>1. UNCHANGED <<outputs, fp, stamps, causes>>
      BY <2>2 DEF Start
    <3> QED
      BY <3>1 DEF TypeOK, Start
  <2> QED
    BY <2>1, <2>2
<1>2. Running'
  BY DEF Running, Walking, TypeOK, Start, Wipe
<1>3. Clocked'
  BY SMTT(30) DEF Clocked, TypeOK, Version, Start, Wipe, Nothing
<1>4. StampsAreSound' /\ FoundIsSound'
  BY SMTT(30) DEF StampsAreSound, FoundIsSound, Clocked, TypeOK, Version,
      Start, Wipe, Nothing, Running, Walking
<1> QED
  BY <1>1, <1>2, <1>3, <1>4

\* fast_path_check begins.
LEMMA CheckInv ==
  ASSUME Inv, Check
  PROVE  Inv'
<1> USE BoundAssumption
    DEF Inv, project, outputs, caches, walk, compiling, request, bounds
<1>1. TypeOK'
  BY SMTT(30) DEF TypeOK, Check, BeginWalk, Present
<1>2. Running'
  BY DEF Running, Walking, TypeOK, Check, BeginWalk
<1>3. Clocked'
  BY SMTT(30) DEF Clocked, TypeOK, Version, Check, BeginWalk
<1>4. StampsAreSound' /\ FoundIsSound'
  BY SMTT(30) DEF StampsAreSound, FoundIsSound, Clocked, TypeOK, Version,
      Check, BeginWalk
<1> QED
  BY <1>1, <1>2, <1>3, <1>4

\* The walk meets a file whose stamp is still good.
LEMMA WalkStampInv ==
  ASSUME Inv, NEW f \in Inputs, WalkStamp(f)
  PROVE  Inv'
<1> USE BoundAssumption
    DEF Inv, project, outputs, caches, walk, compiling, request, bounds
<1>1. TypeOK'
  BY SMTT(30) DEF TypeOK, WalkStamp, Version
<1>2. Running'
  BY DEF Running, Walking, TypeOK, WalkStamp
<1>3. Clocked'
  BY SMTT(30) DEF Clocked, TypeOK, Version, WalkStamp
<1>4. StampsAreSound' /\ FoundIsSound'
  BY SMTT(30) DEF StampsAreSound, FoundIsSound, Clocked, TypeOK, Version,
      WalkStamp
<1> QED
  BY <1>1, <1>2, <1>3, <1>4

\* The walk reads a file.
LEMMA WalkReadInv ==
  ASSUME Inv, WalkRead
  PROVE  Inv'
<1> USE BoundAssumption
    DEF Inv, project, outputs, caches, walk, compiling, request, bounds
<1>1. TypeOK'
  BY SMTT(30) DEF TypeOK, WalkRead, Version
<1>2. Running'
  BY DEF Running, Walking, TypeOK, WalkRead
<1>3. Clocked'
  BY SMTT(30) DEF Clocked, TypeOK, Version, WalkRead
<1>4. StampsAreSound' /\ FoundIsSound'
  BY SMTT(30) DEF StampsAreSound, FoundIsSound, Clocked, TypeOK, Version,
      WalkRead
<1> QED
  BY <1>1, <1>2, <1>3, <1>4

\* The walk ends: a hit, a miss, or a fingerprint to save.
LEMMA WalkEndInv ==
  ASSUME Inv, WalkEnd
  PROVE  Inv'
<1> USE BoundAssumption
    DEF Inv, project, outputs, caches, walk, compiling, request, bounds
<1>0. cfg \in Configs
  BY DEF Running, WalkEnd, Walking
<1>a. ContentsOf(found) \in FileSets
  BY FileSetIn DEF TypeOK
<1>1. TypeOK'
  <2>1. fp' = None \/ /\ fp'.meta \in {MetaOf[c] : c \in Configs}
                         /\ fp'.files \in FileSets \cup {None}
    <3>1. CASE pc = "checking"
      <4>1. fp' = fp
        BY <3>1 DEF WalkEnd
      <4> QED
        BY <4>1 DEF TypeOK
    <3>2. CASE pc # "checking"
      <4>1. fp' = [meta |-> MetaOf[cfg], files |-> ContentsOf(found)]
        BY <3>2 DEF WalkEnd
      <4> QED
        BY <4>1, <1>0, <1>a
    <3> QED
      BY <3>1, <3>2
  <2>2. pc' \in {"hit", "scan", "built"}
    BY DEF WalkEnd
  <2>3. causes' \subseteq causes
    BY DEF WalkEnd, Saved
  <2> QED
    BY <2>1, <2>2, <2>3 DEF TypeOK, WalkEnd, LeaveWalk, Nothing
<1>2. Running'
  BY <1>0, <1>a DEF Running, Walking, TypeOK, WalkEnd, LeaveWalk
<1>3. Clocked'
  BY SMTT(30) DEF Clocked, TypeOK, Version, WalkEnd, LeaveWalk, Nothing
<1>4. StampsAreSound' /\ FoundIsSound'
  BY SMTT(30) DEF StampsAreSound, FoundIsSound, Clocked, TypeOK, Version,
      WalkEnd, LeaveWalk, Nothing, Saved
<1> QED
  BY <1>1, <1>2, <1>3, <1>4

\* The walk fails, a file having vanished.
LEMMA WalkFailsInv ==
  ASSUME Inv, WalkFails
  PROVE  Inv'
<1> USE BoundAssumption
    DEF Inv, project, outputs, caches, walk, compiling, request, bounds
<1>0. cfg \in Configs
  BY DEF Running, WalkFails, Walking
<1>1. TypeOK'
  <2>1. fp' = None \/ /\ fp'.meta \in {MetaOf[c] : c \in Configs}
                         /\ fp'.files \in FileSets \cup {None}
    <3>1. CASE pc = "checking"
      <4>1. fp' = fp
        BY <3>1 DEF WalkFails
      <4> QED
        BY <4>1 DEF TypeOK
    <3>2. CASE pc # "checking"
      <4>1. fp' = [meta |-> MetaOf[cfg], files |-> None]
        BY <3>2 DEF WalkFails
      <4> QED
        BY <4>1, <1>0
    <3> QED
      BY <3>1, <3>2
  <2>2. pc' \in {"scan", "built"}
    BY DEF WalkFails
  <2>3. causes' \subseteq causes
    BY DEF WalkFails, Saved
  <2> QED
    BY <2>1, <2>2, <2>3 DEF TypeOK, WalkFails, LeaveWalk, Nothing
<1>2. Running'
  BY <1>0 DEF Running, Walking, TypeOK, WalkFails, LeaveWalk
<1>3. Clocked'
  BY SMTT(30) DEF Clocked, TypeOK, Version, WalkFails, LeaveWalk, Nothing
<1>4. StampsAreSound' /\ FoundIsSound'
  BY SMTT(30) DEF StampsAreSound, FoundIsSound, Clocked, TypeOK, Version,
      WalkFails, LeaveWalk, Nothing, Saved
<1> QED
  BY <1>1, <1>2, <1>3, <1>4

\* The sources are listed.
LEMMA ScanInv ==
  ASSUME Inv, Scan
  PROVE  Inv'
<1> USE BoundAssumption
    DEF Inv, project, outputs, caches, walk, compiling, request, bounds
<1>1. TypeOK'
  BY SMTT(30) DEF TypeOK, Scan, Present, Running
<1>2. Running'
  BY DEF Running, Walking, TypeOK, Scan
<1>3. Clocked'
  BY SMTT(30) DEF Clocked, TypeOK, Version, Scan
<1>4. StampsAreSound' /\ FoundIsSound'
  BY SMTT(30) DEF StampsAreSound, FoundIsSound, Clocked, TypeOK, Version, Scan
<1> QED
  BY <1>1, <1>2, <1>3, <1>4

\* The stale objects are found.
LEMMA PlanInv ==
  ASSUME Inv, Plan
  PROVE  Inv'
<1> USE BoundAssumption
    DEF Inv, project, outputs, caches, walk, compiling, request, bounds
<1>1. TypeOK'
  BY SMTT(30) DEF TypeOK, Plan, Running
<1>2. Running'
  BY DEF Running, Walking, TypeOK, Plan
<1>3. Clocked'
  BY SMTT(30) DEF Clocked, TypeOK, Version, Plan
<1>4. StampsAreSound' /\ FoundIsSound'
  BY SMTT(30) DEF StampsAreSound, FoundIsSound, Clocked, TypeOK, Version, Plan
<1> QED
  BY <1>1, <1>2, <1>3, <1>4

\* A compiler reads its inputs.
LEMMA CompileReadInv ==
  ASSUME Inv, NEW s \in Sources, CompileRead(s)
  PROVE  Inv'
<1> USE BoundAssumption
    DEF Inv, project, outputs, caches, walk, compiling, request, bounds
<1>0. MadeOf(s) \in Made
  BY MadeOfIsMade DEF CompileRead, Running
<1>1. TypeOK'
  BY <1>0, SMTT(30) DEF TypeOK, CompileRead
<1>2. Running'
  BY <1>0 DEF Running, Walking, TypeOK, CompileRead
<1>3. Clocked'
  BY SMTT(30) DEF Clocked, TypeOK, Version, CompileRead
<1>4. StampsAreSound' /\ FoundIsSound'
  BY SMTT(30) DEF StampsAreSound, FoundIsSound, Clocked, TypeOK, Version,
      CompileRead
<1> QED
  BY <1>1, <1>2, <1>3, <1>4

\* A compiler writes its object.
LEMMA CompileWriteInv ==
  ASSUME Inv, NEW s \in Sources, CompileWrite(s)
  PROVE  Inv'
<1> USE BoundAssumption
    DEF Inv, project, outputs, caches, walk, compiling, request, bounds
<1>1. TypeOK'
  BY SMTT(30) DEF TypeOK, CompileWrite
<1>2. Running'
  BY DEF Running, Walking, TypeOK, CompileWrite
<1>3. Clocked'
  BY SMTT(30) DEF Clocked, TypeOK, Version, CompileWrite
<1>4. StampsAreSound' /\ FoundIsSound'
  BY SMTT(30) DEF StampsAreSound, FoundIsSound, Clocked, TypeOK, Version,
      CompileWrite
<1> QED
  BY <1>1, <1>2, <1>3, <1>4

\* The command hash is written next to the object.
LEMMA CompileSignInv ==
  ASSUME Inv, NEW s \in Sources, CompileSign(s)
  PROVE  Inv'
<1> USE BoundAssumption
    DEF Inv, project, outputs, caches, walk, compiling, request, bounds
<1>0. cfg \in Configs
  BY DEF Running, CompileSign
<1>1. TypeOK'
  BY <1>0, SMTT(30) DEF TypeOK, CompileSign, Commands
<1>2. Running'
  BY <1>0 DEF Running, Walking, TypeOK, CompileSign
<1>3. Clocked'
  BY SMTT(30) DEF Clocked, TypeOK, Version, CompileSign
<1>4. StampsAreSound' /\ FoundIsSound'
  BY SMTT(30) DEF StampsAreSound, FoundIsSound, Clocked, TypeOK, Version,
      CompileSign
<1> QED
  BY <1>1, <1>2, <1>3, <1>4

\* A compile fails and the others are abandoned.
LEMMA CompileFailsInv ==
  ASSUME Inv, NEW s \in Sources, CompileFails(s)
  PROVE  Inv'
<1> USE BoundAssumption
    DEF Inv, project, outputs, caches, walk, compiling, request, bounds
<1>1. TypeOK'
  BY SMTT(30) DEF TypeOK, CompileFails, Unsigned, Abandon, Nothing
<1>2. Running'
  BY DEF Running, Walking, TypeOK, CompileFails, Abandon
<1>3. Clocked'
  BY SMTT(30) DEF Clocked, TypeOK, Version, CompileFails
<1>4. StampsAreSound' /\ FoundIsSound'
  BY SMTT(30) DEF StampsAreSound, FoundIsSound, Clocked, TypeOK, Version,
      CompileFails
<1> QED
  BY <1>1, <1>2, <1>3, <1>4

\* The linker runs, or the ELF file is newer than its inputs.
LEMMA LinkInv ==
  ASSUME Inv, Link
  PROVE  Inv'
<1> USE BoundAssumption
    DEF Inv, project, outputs, caches, walk, compiling, request, bounds
<1>0. (\A s \in sources : object[s] # None)
       => [s \in sources |-> object[s].made] \in Linkable
  <2>1. SUFFICES ASSUME \A s \in sources : object[s] # None
                 PROVE  [s \in sources |-> object[s].made] \in [sources -> Made]
    BY FirmwareIn DEF TypeOK
  <2> QED
    BY <2>1 DEF TypeOK
<1>a. LinkOf[cfg] \in Options
  BY DEF Running, Link, Options
<1>1. TypeOK'
  <2>1. now' \in Nat /\ pc' \in {"convert", "failed"}
    BY DEF TypeOK, Link
  <2>2. elf' \in Elves \cup {None}
    BY <1>0, <1>a DEF TypeOK, Link, Elves
  <2>3. causes' \subseteq causes \cup {"unsaved"}
    BY DEF Link
  <2> QED
    BY <2>1, <2>2, <2>3 DEF TypeOK, Link
<1>2. Running'
  BY <1>0, <1>a DEF Running, Walking, TypeOK, Link, ElfIsUpToDate, Elves
<1>3. Clocked'
  BY SMTT(30) DEF Clocked, TypeOK, Version, Link
<1>4. StampsAreSound' /\ FoundIsSound'
  BY SMTT(30) DEF StampsAreSound, FoundIsSound, Clocked, TypeOK, Version, Link,
      Relinked
<1> QED
  BY <1>1, <1>2, <1>3, <1>4

\* The ELF file is converted; a fingerprint is due.
LEMMA ConvertInv ==
  ASSUME Inv, Convert
  PROVE  Inv'
<1> USE BoundAssumption
    DEF Inv, project, outputs, caches, walk, compiling, request, bounds
<1>1. TypeOK'
  <2>1. hex' \in [made : Linkable, options : Options] \cup {None}
    BY DEF TypeOK, Convert, Linked, Running, Elves
  <2> QED
    BY <2>1, SMTT(30) DEF TypeOK, Convert, BeginWalk, Present
<1>2. Running'
  BY DEF Running, Walking, TypeOK, Convert, BeginWalk
<1>3. Clocked'
  BY SMTT(30) DEF Clocked, TypeOK, Version, Convert, BeginWalk
<1>4. StampsAreSound' /\ FoundIsSound'
  BY SMTT(30) DEF StampsAreSound, FoundIsSound, Clocked, TypeOK, Version,
      Convert, BeginWalk
<1> QED
  BY <1>1, <1>2, <1>3, <1>4

\* The build answers.
LEMMA ReportInv ==
  ASSUME Inv, Report
  PROVE  Inv'
<1> USE BoundAssumption
    DEF Inv, project, outputs, caches, walk, compiling, request, bounds
<1>1. TypeOK'
  BY SMTT(30) DEF TypeOK, Report, Over, Running
<1>2. Running'
  BY DEF Running, Walking, TypeOK, Report, Over
<1>3. Clocked'
  BY SMTT(30) DEF Clocked, TypeOK, Version, Report, Over
<1>4. StampsAreSound' /\ FoundIsSound'
  BY SMTT(30) DEF StampsAreSound, FoundIsSound, Clocked, TypeOK, Version,
      Report, Over
<1> QED
  BY <1>1, <1>2, <1>3, <1>4

\* The daemon dies during a build.
LEMMA DiesInv ==
  ASSUME Inv, Dies
  PROVE  Inv'
<1> USE BoundAssumption
    DEF Inv, project, outputs, caches, walk, compiling, request, bounds
<1>1. TypeOK'
  BY SMTT(30) DEF TypeOK, Dies, Over, LeaveWalk, Abandon, Unsigned, Nothing
<1>2. Running'
  BY DEF Running, Walking, TypeOK, Dies, Over, Abandon, LeaveWalk
<1>3. Clocked'
  BY SMTT(30) DEF Clocked, TypeOK, Version, Dies, Over, LeaveWalk, Nothing
<1>4. StampsAreSound' /\ FoundIsSound'
  BY SMTT(30) DEF StampsAreSound, FoundIsSound, Clocked, TypeOK, Version,
      Dies, Over, LeaveWalk, Nothing
<1> QED
  BY <1>1, <1>2, <1>3, <1>4

\* Nothing happens.
LEMMA StutterInv == ASSUME Inv, UNCHANGED vars PROVE Inv'
BY DEF Inv, TypeOK, Running, Walking, Clocked, StampsAreSound, FoundIsSound, vars,
       project, outputs, caches, walk, compiling, request, bounds

\* Every step keeps the invariant.
LEMMA StepInv == Inv /\ [Next]_vars => Inv'
<1> SUFFICES ASSUME Inv, [Next]_vars PROVE Inv'
  OBVIOUS
<1>1. CASE User
  BY <1>1, EditInv, RemoveInv, PutBackInv, ReconfigureInv DEF User
<1>2. CASE Build
  BY <1>2, StartInv, CheckInv, WalkStampInv, WalkReadInv, WalkEndInv,
     WalkFailsInv, ScanInv, PlanInv, CompileReadInv, CompileWriteInv,
     CompileSignInv, CompileFailsInv, LinkInv, ConvertInv, ReportInv DEF Build
<1>3. CASE Dies
  BY <1>3, DiesInv
<1>4. CASE UNCHANGED vars
  BY <1>4, StutterInv
<1> QED
  BY <1>1, <1>2, <1>3, <1>4 DEF Next

\* The state of the build directory, of the fingerprint and stamp files and of
\* the running build always has its type, whatever is edited meanwhile and
\* wherever the daemon dies.
THEOREM TypeCorrect == Spec => []TypeOK
<1>1. Inv => TypeOK
  BY DEF Inv
<1> QED
  BY InitInv, StepInv, <1>1, PTL DEF Spec

\* hash_watch_set_stamps_inner never trusts a wrong stamp: a saved stamp whose
\* modification time is the file's has the file's content, for any number of
\* files, edits and builds, until a file is put back with an old time.
THEOREM StampsSound == Spec => []StampsAreSound
<1>1. Inv => StampsAreSound
  BY DEF Inv
<1> QED
  BY InitInv, StepInv, <1>1, PTL DEF Spec

-----------------------------------------------------------------------------
(***************************************************************************)
(* What a build reports.  The parts of the invariant follow the data from  *)
(* the files to the artifact: the objects are honest about what they are   *)
(* made of, unless a file changed under a compiler or an object lost its   *)
(* .cmdhash; the jobs of the build that runs are honest; firmware.elf is   *)
(* made of the objects older than itself; a walk finds the files as they   *)
(* are; and the fingerprint tells what firmware.elf is made of, unless it  *)
(* was linked anew or lacks a removed source.                              *)
(***************************************************************************)
MadeFor(s) == [config : Commands, of : [Deps(s) -> Contents]]

\* Every output is made of the inputs of its source, at a time that was.
Shaped ==
  /\ \A s \in Sources :
       /\ object[s] # None => object[s].made \in MadeFor(s) /\ object[s].time <= now
       /\ image[s] # None => image[s] \in MadeFor(s)
  /\ elf # None => /\ DOMAIN elf.made \subseteq Sources
                   /\ \A s \in DOMAIN elf.made : elf.made[s] \in MadeFor(s)
                   /\ elf.time <= now

\* What is there in which phase of a build.
Phased ==
  /\ \A s \in Sources : image[s] # None => s \in work
  /\ ~Walking => found = Nothing(Inputs) /\ stamp = None /\ todo = {}
  /\ pc = "checking" => MayHit
  /\ pc \in {"saving", "built"} => elf # None /\ hex = Linked
  /\ elf # None /\ hex # Linked => "unsaved" \in causes

\* The configuration a build has read is that of the project or has another
\* metadata hash.
CfgTold ==
  pc # "idle" /\ "flags" \notin causes => cfg = config \/ MetaOf[cfg] # MetaOf[config]

LEMMA Absent ==
  /\ None \notin Version
  /\ \A f \in Inputs, t \in Nat : [file |-> f, time |-> t] # None
  /\ \A m \in Made, t \in Nat : [made |-> m, time |-> t] # None
  /\ None \notin Elves
  /\ None \notin FileSets
BY NoneAssumption

LEMMA MadeForIsMade == \A s \in Sources : MadeFor(s) \subseteq Made
BY DEF MadeFor, Made

LEMMA MadeOfIsFor ==
  ASSUME TypeOK, cfg \in Configs, NEW s \in Sources, \A d \in Deps(s) : input[d] # None
  PROVE  MadeOf(s) \in MadeFor(s)
<1>1. Deps(s) \subseteq Inputs
  BY DEF Deps, Inputs
<1>2. [d \in Deps(s) |-> input[d].content] \in [Deps(s) -> Contents]
  BY <1>1 DEF TypeOK, Version
<1> QED BY <1>2 DEF MadeOf, MadeFor, Commands

LEMMA MadeOfFields ==
  ASSUME NEW s
  PROVE  MadeOf(s).config = CmdOf[cfg] /\ MadeOf(s).of = [d \in Deps(s) |-> input[d].content]
<1> DEFINE contents == [d \in Deps(s) |-> input[d].content]
<1>1. MadeOf(s) = [config |-> CmdOf[cfg], of |-> contents]
  BY DEF MadeOf
<1> HIDE DEF contents
<1>2. MadeOf(s).config = CmdOf[cfg] /\ MadeOf(s).of = contents
  BY <1>1
<1> QED BY <1>2 DEF contents

\* What a source is made of changes with the files and the configuration only.
LEMMA SameProject ==
  ASSUME input' = input
  PROVE  /\ \A S : Present(S)' = Present(S)
         /\ cfg' = cfg => /\ \A s : MadeOf(s)' = MadeOf(s)
                          /\ Units' = Units
                          /\ Firmware' = Firmware
BY DEF Present, MadeOf, Units, Firmware

LEMMA ShapedStep == ASSUME Inv, Shaped, [Next]_vars PROVE Shaped'
<1> USE DEF Inv
<1> USE DEF project, outputs, caches, walk, compiling, request, bounds
<1>0. now \in Nat
  BY DEF TypeOK
<1>1. ASSUME UNCHANGED <<object, image, elf>>, now' \in {now, now + 1} PROVE Shaped'
  <2>1. \A t \in Nat : t <= now => t <= now'
    BY <1>0, <1>1
  <2>2. /\ \A s \in Sources : object[s] # None => object[s].time \in Nat
        /\ elf # None => elf.time \in Nat
    BY DEF TypeOK, Elves
  <2> QED BY <1>1, <2>1, <2>2 DEF Shaped
<1>2. CASE User
  BY <1>1, <1>2 DEF User, Edit, Remove, PutBack, Reconfigure
<1>3. ASSUME NEW m, NEW w, Start(m, w) PROVE Shaped'
  <2>1. CASE m = "clean"
    BY <1>3, <2>1 DEF Start, Wipe, Nothing, Shaped
  <2>2. CASE m # "clean"
    BY <1>1, <1>3, <2>2 DEF Start
  <2> QED BY <2>1, <2>2
<1>4. CASE \/ Check \/ (\E f \in Inputs : WalkStamp(f)) \/ WalkRead \/ WalkEnd \/ WalkFails
           \/ Scan \/ Plan \/ Convert \/ Report \/ UNCHANGED vars
  BY <1>1, <1>4 DEF Check, WalkStamp, WalkRead, WalkEnd, WalkFails, Scan, Plan, Convert,
                    Report, vars
<1>5. ASSUME NEW s \in Sources, CompileRead(s) PROVE Shaped'
  <2>1. MadeOf(s) \in MadeFor(s)
    BY <1>5, MadeOfIsFor DEF CompileRead, Running
  <2>2. \A t \in Sources : image'[t] = IF t = s THEN MadeOf(s) ELSE image[t]
    BY <1>5 DEF CompileRead, TypeOK
  <2> QED BY <1>5, <2>1, <2>2 DEF Shaped, CompileRead
<1>6. ASSUME NEW s \in Sources, CompileWrite(s) PROVE Shaped'
  <2>1. \A t \in Sources : object'[t] = IF t = s THEN [made |-> image[s], time |-> now + 1]
                                        ELSE object[t]
    BY <1>6 DEF CompileWrite, TypeOK
  <2>2. image[s] \in MadeFor(s) /\ now' = now + 1 /\ UNCHANGED <<image, elf>>
    BY <1>6 DEF CompileWrite, Shaped
  <2>3. /\ \A t \in Sources : object[t] # None => object[t].time \in Nat
        /\ elf # None => elf.time \in Nat
    BY DEF TypeOK, Elves
  <2> QED BY <1>0, <2>1, <2>2, <2>3 DEF Shaped
<1>7. ASSUME NEW s \in Sources, CompileSign(s) \/ CompileFails(s) PROVE Shaped'
  <2>1. /\ UNCHANGED <<elf, now>>
        /\ \A t \in Sources : /\ object'[t] \in {None, object[t]}
                              /\ image'[t] \in {None, image[t]}
    BY <1>7 DEF CompileSign, CompileFails, Abandon, Nothing, TypeOK
  <2> QED BY <2>1 DEF Shaped
<1>8. CASE Link
  <2>1. UNCHANGED <<object, image>> /\ now' \in {now, now + 1}
    BY <1>8 DEF Link
  <2>2. CASE elf' \in {elf, None}
    <3>1. CASE elf' = elf
      BY <1>1, <2>1, <3>1
    <3>2. CASE elf' = None
      <4>1. \A s \in Sources : object[s] # None => object[s].time \in Nat
        BY DEF TypeOK
      <4> QED BY <1>0, <2>1, <3>2, <4>1 DEF Shaped
    <3> QED BY <2>2, <3>1, <3>2
  <2>3. CASE elf' \notin {elf, None}
    <3>1. /\ \A s \in sources : object[s] # None
          /\ now' = now + 1
          /\ elf' = [made |-> [s \in sources |-> object[s].made],
                     options |-> LinkOf[cfg], time |-> now + 1]
      BY <1>8, <2>3 DEF Link
    <3>2. sources \subseteq Sources
      BY DEF TypeOK
    <3>3. \A s \in Sources : object[s] # None => object[s].time \in Nat
      BY DEF TypeOK
    <3> QED BY <1>0, <2>1, <3>1, <3>2, <3>3 DEF Shaped
  <2> QED BY <2>2, <2>3
<1>9. CASE Dies
  <2>1. /\ UNCHANGED <<elf, now, object>>
        /\ \A t \in Sources : image'[t] = None
    BY <1>9 DEF Dies, Abandon, Nothing
  <2> QED BY <2>1 DEF Shaped
<1> QED
  BY <1>2, <1>3, <1>4, <1>5, <1>6, <1>7, <1>8, <1>9 DEF Next, Build

LEMMA PhasedStep == ASSUME Inv, Phased, [Next]_vars PROVE Phased'
<1> USE DEF Inv, Linked
<1> USE DEF project, outputs, caches, walk, compiling, request, bounds
<1>1. ASSUME UNCHANGED <<pc, work, image, found, stamp, todo, wants, fp, cfg, elf, hex>>,
             "unsaved" \in causes => "unsaved" \in causes'
      PROVE  Phased'
  BY <1>1 DEF Phased, Walking, MayHit
<1>2. CASE User
  BY <1>1, <1>2 DEF User, Edit, Remove, PutBack, Reconfigure
<1>3. ASSUME NEW m, NEW w, Start(m, w) PROVE Phased'
  BY <1>3 DEF Phased, Start, Wipe, Walking
<1>4. CASE Check \/ (\E f \in Inputs : WalkStamp(f)) \/ WalkRead
  BY <1>4 DEF Phased, Walking, MayHit, Check, BeginWalk, WalkStamp, WalkRead
<1>5. CASE WalkEnd \/ WalkFails
  BY <1>5 DEF Phased, Walking, WalkEnd, WalkFails, LeaveWalk, Saved
<1>6. CASE Scan \/ Plan
  BY <1>6 DEF Phased, Walking, Scan, Plan, Running
<1>7. ASSUME NEW s \in Sources, CompileRead(s) \/ CompileWrite(s) \/ CompileSign(s) \/ CompileFails(s)
      PROVE  Phased'
  <2>1. pc = "compile" /\ pc' \in {"compile", "failed"}
        /\ UNCHANGED <<found, stamp, todo, elf, hex>> /\ causes \subseteq causes'
    BY <1>7 DEF CompileRead, CompileWrite, CompileSign, CompileFails
  <2>2. \A t \in Sources : image'[t] # None => t \in work'
    <3>1. CASE CompileRead(s) \/ CompileWrite(s)
      BY <3>1 DEF Phased, CompileRead, CompileWrite, TypeOK
    <3>2. CASE CompileSign(s)
      BY <3>2 DEF Phased, CompileSign, TypeOK
    <3>3. CASE CompileFails(s)
      BY <3>3 DEF CompileFails, Abandon, Nothing
    <3> QED BY <1>7, <3>1, <3>2, <3>3
  <2> QED BY <2>1, <2>2 DEF Phased, Walking
<1>8. CASE Link
  <2>1. UNCHANGED <<hex, todo, stamp, found, image, work>> /\ pc = "compile"
    BY <1>8 DEF Link
  <2>2. pc' \in {"convert", "failed"}
    BY <1>8 DEF Link
  <2>3. "unsaved" \notin causes' => elf' \in {elf, None} /\ causes' = causes
    BY <1>8 DEF Link
  <2> QED BY <2>1, <2>2, <2>3 DEF Phased, Walking
<1>9. CASE Convert
  <2>1. elf # None
    BY <1>9, Absent DEF Running, Convert
  <2> QED BY <1>9, <2>1 DEF Phased, Walking, Running, Convert, BeginWalk
<1>10. CASE Report
  BY <1>10 DEF Phased, Walking, Report, Over
<1>11. CASE Dies
  BY <1>11 DEF Phased, Walking, Dies, Over, LeaveWalk, Abandon, Nothing
<1>12. CASE UNCHANGED vars
  BY <1>1, <1>12 DEF vars
<1> QED
  BY <1>2, <1>3, <1>4, <1>5, <1>6, <1>7, <1>8, <1>9, <1>10, <1>11, <1>12 DEF Next, Build

LEMMA CfgToldStep == ASSUME Inv, CfgTold, [Next]_vars PROVE CfgTold'
<1> USE DEF Inv
<1> USE DEF project, outputs, caches, walk, compiling, request, bounds
<1>1. ASSUME UNCHANGED <<cfg, config>>, pc # "idle",
             "flags" \in causes => "flags" \in causes'
      PROVE  CfgTold'
  BY <1>1 DEF CfgTold
<1>2. CASE User
  <2>1. CASE \E c \in Configs : Reconfigure(c)
    BY <2>1 DEF CfgTold, Reconfigure, Running
  <2>2. CASE ~\E c \in Configs : Reconfigure(c)
    BY <1>2, <2>2 DEF User, CfgTold, Edit, Remove, PutBack
  <2> QED BY <2>1, <2>2
<1>3. ASSUME NEW m, NEW w, Start(m, w) PROVE CfgTold'
  BY <1>3 DEF CfgTold, Start
<1>4. CASE WalkEnd \/ WalkFails
  BY <1>4 DEF CfgTold, WalkEnd, WalkFails, Saved, Walking
<1>5. CASE \/ Check \/ (\E f \in Inputs : WalkStamp(f)) \/ WalkRead \/ Scan \/ Plan \/ Link
           \/ Convert
  BY <1>1, <1>5 DEF Check, WalkStamp, WalkRead, Walking, Scan, Plan, Link, Relinked, Convert
<1>6. ASSUME NEW s \in Sources, CompileRead(s) \/ CompileWrite(s) \/ CompileSign(s) \/ CompileFails(s)
      PROVE  CfgTold'
  BY <1>1, <1>6 DEF CompileRead, CompileWrite, CompileSign, CompileFails
<1>7. CASE Report \/ Dies
  BY <1>7 DEF CfgTold, Report, Dies, Over
<1>8. CASE UNCHANGED vars
  BY <1>8 DEF vars, CfgTold
<1> QED
  BY <1>2, <1>3, <1>4, <1>5, <1>6, <1>7, <1>8 DEF Next, Build

-----------------------------------------------------------------------------
\* No file was changed while a build ran, none was put back with an old time,
\* and no object lacks its .cmdhash.
Undisturbed == {"race", "backdated", "unsigned"} \cap causes = {}

\* The object of s is made of the project as it is.
Fresh(s) ==
  /\ object[s] # None /\ object[s].made = MadeOf(s)
  /\ \A d \in Deps(s) : input[d] # None /\ input[d].time <= object[s].time

\* An object is made with the configuration its .cmdhash names and of the files
\* older than itself.
ObjectsHonest ==
  \A s \in Sources : object[s] # None =>
    /\ object[s].made.config = IF s \in unsigned THEN CmdOf[cfg] ELSE cmd[s]
    /\ \A d \in Deps(s) : input[d] # None /\ input[d].time <= object[s].time
         => object[s].made.of[d] = input[d].content

\* A compiler has read the files as they are, a build has scanned all sources,
\* and the ones it need not compile, or has compiled, have fresh objects.
JobsHonest ==
  /\ \A s \in Sources : image[s] # None =>
       image[s] = MadeOf(s) /\ \A d \in Deps(s) : input[d] # None
  /\ pc \in {"plan", "compile"} => sources = Present(Sources)
  /\ pc = "compile" => \A s \in unsigned \cup (sources \ work) : Fresh(s)

\* A disturbance is made good by a clean build only, and the user disturbs
\* nothing between builds.
LEMMA Disturbances ==
  ASSUME [Next]_vars, Undisturbed', ~\E w \in {"firmware", "symbols"} : Start("clean", w)
  PROVE  /\ Undisturbed
         /\ input' # input => pc = "idle" /\ pc' = "idle"
<1> USE DEF project, outputs, caches, walk, compiling, request, bounds, Undisturbed
<1>1. CASE User
  BY <1>1 DEF User, Edit, Remove, PutBack, Reconfigure, Raced
<1>2. CASE Build
  <2>1. ASSUME NEW m \in {"clean", "incremental"}, NEW w \in {"firmware", "symbols"}, Start(m, w)
        PROVE  Undisturbed /\ input' = input
    BY <2>1 DEF Start
  <2>2. ASSUME NEW s \in Sources,
               CompileRead(s) \/ CompileWrite(s) \/ CompileSign(s) \/ CompileFails(s)
        PROVE  Undisturbed /\ input' = input
    BY <2>2 DEF CompileRead, CompileWrite, CompileSign, CompileFails
  <2>3. CASE Link
    <3>1. causes \subseteq causes' \cup {"removed", "options"} /\ input' = input
      BY <2>3 DEF Link, Relinked
    <3> QED BY <3>1
  <2>4. CASE WalkEnd \/ WalkFails
    <3>1. causes \subseteq causes' \cup {"unsaved", "flags"} /\ input' = input
      BY <2>4 DEF WalkEnd, WalkFails, Saved
    <3> QED BY <3>1
  <2>5. CASE \/ Check \/ (\E f \in Inputs : WalkStamp(f)) \/ WalkRead \/ Scan \/ Plan \/ Convert
             \/ Report
    BY <2>5 DEF Check, WalkStamp, WalkRead, Scan, Plan, Convert, Report
  <2> QED BY <1>2, <2>1, <2>2, <2>3, <2>4, <2>5 DEF Build
<1>3. CASE Dies
  BY <1>3 DEF Dies
<1>4. CASE UNCHANGED vars
  BY <1>4 DEF vars
<1> QED BY <1>1, <1>2, <1>3, <1>4 DEF Next

\* What need not be compiled again is fresh.
LEMMA SkippedIsFresh ==
  ASSUME TypeOK, Shaped, ObjectsHonest, NEW s \in Sources, s \notin unsigned, ~NeedsRebuild(s)
  PROVE  Fresh(s)
<1> DEFINE m == object[s].made
<1>1. /\ object[s] # None /\ cmd[s] = CmdOf[cfg]
      /\ \A d \in Deps(s) : input[d] # None /\ ~(input[d].time > object[s].time)
  BY DEF NeedsRebuild
<1>2. \A d \in Deps(s) : input[d].time <= object[s].time
  <2>1. Deps(s) \subseteq Inputs /\ object[s].time \in Nat
    BY <1>1 DEF Deps, Inputs, TypeOK
  <2>2. \A d \in Deps(s) : input[d].time \in Nat
    BY <1>1, <2>1 DEF TypeOK, Version
  <2> QED BY <1>1, <2>1, <2>2
<1>3. m \in MadeFor(s)
  BY <1>1 DEF Shaped
<1>4. m.config = CmdOf[cfg] /\ \A d \in Deps(s) : m.of[d] = input[d].content
  BY <1>1, <1>2 DEF ObjectsHonest
<1>5. m.of = [d \in Deps(s) |-> input[d].content]
  BY <1>3, <1>4 DEF MadeFor
<1>6. m = MadeOf(s)
  BY <1>3, <1>4, <1>5 DEF MadeFor, MadeOf
<1> QED BY <1>1, <1>2, <1>6 DEF Fresh

LEMMA ObjectsStep ==
  ASSUME Inv, Shaped, Phased, Undisturbed => ObjectsHonest /\ JobsHonest,
         [Next]_vars, Undisturbed'
  PROVE  ObjectsHonest'
<1> USE DEF Inv
<1> USE DEF project, outputs, caches, walk, compiling, request, bounds
<1>0. /\ pc # "compile" => unsigned = {}
      /\ now \in Nat
      /\ \A s \in Sources : object[s] # None => object[s].time \in Nat
      /\ \A s \in Sources : Deps(s) \subseteq Inputs
  BY DEF TypeOK, Running, Deps, Inputs
<1>1. ASSUME NEW w \in {"firmware", "symbols"}, Start("clean", w) PROVE ObjectsHonest'
  BY <1>1 DEF Start, Wipe, Nothing, ObjectsHonest
<1>2. CASE ~\E w \in {"firmware", "symbols"} : Start("clean", w)
  <2>0. ObjectsHonest /\ JobsHonest /\ (input' # input => pc = "idle" /\ pc' = "idle")
    BY <1>2, Disturbances
  <2>1. ASSUME UNCHANGED <<object, cmd, input>>, unsigned' = unsigned, cfg' = cfg \/ unsigned = {}
        PROVE  ObjectsHonest'
    BY <2>0, <2>1 DEF ObjectsHonest
  <2>2. CASE User
    <3>1. CASE \E c \in Configs : Reconfigure(c)
      BY <2>1, <3>1 DEF Reconfigure
    <3>2. CASE ~\E c \in Configs : Reconfigure(c)
      <4>0. ~\E f \in Inputs : PutBack(f)
        BY DEF PutBack, Undisturbed
      <4>1. UNCHANGED <<object, cmd, unsigned, cfg>>
        BY <2>2, <3>2 DEF User, Edit, Remove, PutBack
      <4>2. \A f \in Inputs : input'[f] # None => input'[f] = input[f] \/ input'[f].time = now + 1
        BY <2>2, <3>2, <4>0 DEF User, Edit, Remove, TypeOK
      <4>3. \A s \in Sources : \A d \in Deps(s) :
              /\ object[s] # None /\ input'[d] # None /\ input'[d].time <= object[s].time
              => input'[d] = input[d]
        BY <1>0, <4>2 DEF Shaped
      <4> QED BY <2>0, <4>1, <4>3 DEF ObjectsHonest
    <3> QED BY <3>1, <3>2
  <2>3. ASSUME NEW w \in {"firmware", "symbols"}, Start("incremental", w) PROVE ObjectsHonest'
    BY <1>0, <2>1, <2>3 DEF Start
  <2>4. CASE \/ Check \/ (\E f \in Inputs : WalkStamp(f)) \/ WalkRead \/ WalkEnd \/ WalkFails
             \/ Scan \/ Plan \/ Link \/ Convert \/ (\E s \in Sources : CompileRead(s))
    BY <2>1, <2>4 DEF Check, WalkStamp, WalkRead, WalkEnd, WalkFails, Scan, Plan, Link,
                      Convert, CompileRead
  <2>5. ASSUME NEW s \in Sources, CompileWrite(s) PROVE ObjectsHonest'
    <3>1. \A t \in Sources : object'[t] = IF t = s THEN [made |-> image[s], time |-> now + 1]
                                          ELSE object[t]
      BY <2>5 DEF CompileWrite, TypeOK
    <3>2. /\ UNCHANGED <<cmd, input, cfg>> /\ unsigned' = unsigned \cup {s}
          /\ image[s] = MadeOf(s)
      BY <2>0, <2>5 DEF CompileWrite, JobsHonest
    <3>3. image[s].config = CmdOf[cfg] /\ \A d \in Deps(s) : image[s].of[d] = input[d].content
      BY <3>2 DEF MadeOf
    <3> QED BY <2>0, <3>1, <3>2, <3>3 DEF ObjectsHonest
  <2>6. ASSUME NEW s \in Sources, CompileSign(s) PROVE ObjectsHonest'
    <3>1. /\ UNCHANGED <<object, input, cfg>> /\ s \in unsigned /\ unsigned' = unsigned \ {s}
          /\ \A t \in Sources : cmd'[t] = IF t = s THEN CmdOf[cfg] ELSE cmd[t]
      BY <2>6 DEF CompileSign, TypeOK
    <3> QED BY <2>0, <3>1 DEF ObjectsHonest
  <2>7. ASSUME NEW s \in Sources, CompileFails(s) PROVE ObjectsHonest'
    <3>1. /\ UNCHANGED <<input, cmd>> /\ unsigned = {} /\ unsigned' = {}
          /\ \A t \in Sources : object'[t] \in {None, object[t]}
      BY <2>7 DEF CompileFails, Undisturbed, Unsigned, Abandon, TypeOK
    <3> QED BY <2>0, <3>1 DEF ObjectsHonest
  <2>8. CASE Report
    <3>1. unsigned = {}
      BY <1>0, <2>8 DEF Report
    <3> QED BY <2>1, <2>8, <3>1 DEF Report
  <2>9. CASE Dies
    <3>1. unsigned = {} /\ unsigned' = {}
      BY <2>9 DEF Dies, Undisturbed, Unsigned, Abandon
    <3> QED BY <2>1, <2>9, <3>1 DEF Dies
  <2>10. CASE UNCHANGED vars
    BY <2>1, <2>10 DEF vars
  <2> QED
    BY <1>2, <2>2, <2>3, <2>4, <2>5, <2>6, <2>7, <2>8, <2>9, <2>10 DEF Next, Build
<1> QED BY <1>1, <1>2

LEMMA JobsStep ==
  ASSUME Inv, Shaped, Phased, Undisturbed => ObjectsHonest /\ JobsHonest,
         [Next]_vars, Undisturbed'
  PROVE  JobsHonest'
<1> USE DEF Inv
<1> USE DEF project, outputs, caches, walk, compiling, request, bounds
<1>0. pc # "compile" => unsigned = {} /\ \A s \in Sources : image[s] = None
  BY DEF TypeOK, Running, Phased
<1>1. ASSUME pc' \notin {"plan", "compile"}, \A s \in Sources : image'[s] = None
      PROVE  JobsHonest'
  BY <1>1 DEF JobsHonest
<1>2. ASSUME NEW m \in {"clean", "incremental"}, NEW w \in {"firmware", "symbols"}, Start(m, w)
      PROVE  JobsHonest'
  BY <1>0, <1>1, <1>2 DEF Start
<1>3. CASE ~\E m \in {"clean", "incremental"}, w \in {"firmware", "symbols"} : Start(m, w)
  <2>0. ObjectsHonest /\ JobsHonest /\ (input' # input => pc = "idle" /\ pc' = "idle")
    BY <1>3, Disturbances
  <2>1. ASSUME UNCHANGED <<pc, cfg, input, image, sources, unsigned, work, object>>
        PROVE  JobsHonest'
    <3>1. \A s : Fresh(s)' = Fresh(s)
      BY <2>1, SameProject DEF Fresh
    <3> QED BY <2>0, <2>1, <3>1, SameProject DEF JobsHonest
  <2>2. CASE User
    <3>1. CASE input' = input
      BY <2>1, <2>2, <3>1 DEF User, Edit, Remove, PutBack, Reconfigure
    <3>2. CASE input' # input
      BY <1>0, <1>1, <2>0, <2>2, <3>2 DEF User, Edit, Remove, PutBack, Reconfigure
    <3> QED BY <3>1, <3>2
  <2>3. CASE Check \/ (\E f \in Inputs : WalkStamp(f)) \/ WalkRead \/ WalkEnd \/ WalkFails
    <3>1. pc \notin {"plan", "compile"} /\ pc' \notin {"plan", "compile"} /\ image' = image
      BY <2>3 DEF Check, WalkStamp, WalkRead, WalkEnd, WalkFails, Walking
    <3> QED BY <1>0, <1>1, <3>1
  <2>4. CASE Scan
    <3>1. /\ pc = "scan" /\ pc' = "plan" /\ image' = image
          /\ input' = input /\ sources' = Present(Sources)
      BY <2>4 DEF Scan
    <3>2. Present(Sources)' = Present(Sources)
      BY <3>1, SameProject
    <3> QED BY <1>0, <3>1, <3>2 DEF JobsHonest
  <2>5. CASE Plan
    <3>1. /\ pc = "plan" /\ pc' = "compile"
          /\ UNCHANGED <<input, cfg, image, object, sources, unsigned>>
          /\ work' = {s \in sources : NeedsRebuild(s)}
      BY <2>5 DEF Plan
    <3>2. unsigned = {} /\ sources = Present(Sources) /\ sources \subseteq Sources
      BY <1>0, <2>0, <3>1 DEF JobsHonest, TypeOK
    <3>3. \A s \in sources \ work' : Fresh(s)
      BY <2>0, <3>1, <3>2, SkippedIsFresh
    <3>4. \A s : Fresh(s)' = Fresh(s)
      BY <3>1, SameProject DEF Fresh
    <3> QED BY <1>0, <3>1, <3>2, <3>3, <3>4, SameProject DEF JobsHonest
  <2>6. ASSUME NEW s \in Sources, CompileRead(s) PROVE JobsHonest'
    <3>1. /\ UNCHANGED <<pc, cfg, input, sources, unsigned, work, object>>
          /\ \A d \in Deps(s) : input[d] # None
          /\ \A t \in Sources : image'[t] = IF t = s THEN MadeOf(s) ELSE image[t]
      BY <2>6 DEF CompileRead, TypeOK
    <3>2. \A t : Fresh(t)' = Fresh(t)
      BY <3>1, SameProject DEF Fresh
    <3> QED BY <2>0, <3>1, <3>2, SameProject DEF JobsHonest
  <2>7. ASSUME NEW s \in Sources, CompileWrite(s) PROVE JobsHonest'
    <3>1. /\ UNCHANGED <<pc, cfg, input, image, sources, work>>
          /\ unsigned' = unsigned \cup {s} /\ image[s] # None
          /\ \A t \in Sources : object'[t] = IF t = s THEN [made |-> image[s], time |-> now + 1]
                                             ELSE object[t]
      BY <2>7 DEF CompileWrite, TypeOK
    <3>2. \A t \in Sources : t # s => Fresh(t)' = Fresh(t)
      BY <3>1, SameProject DEF Fresh
    <3>3. Fresh(s)'
      <4>1. image[s] = MadeOf(s) /\ \A d \in Deps(s) : input[d] # None
        BY <2>0, <3>1 DEF JobsHonest
      <4>2. object'[s].made = MadeOf(s) /\ object'[s].time = now + 1
        BY <3>1, <4>1
      <4>3. object'[s] # None
        BY <3>1, Absent DEF TypeOK
      <4>4. \A d \in Deps(s) : input[d].time <= now + 1
        BY <4>1 DEF Clocked, TypeOK, Version, Deps, Inputs
      <4> QED BY <3>1, <4>1, <4>2, <4>3, <4>4, SameProject DEF Fresh
    <3>4. unsigned \subseteq Sources /\ sources \subseteq Sources
      BY DEF TypeOK
    <3> QED BY <2>0, <3>1, <3>2, <3>3, <3>4, SameProject DEF JobsHonest
  <2>8. ASSUME NEW s \in Sources, CompileSign(s) PROVE JobsHonest'
    <3>1. /\ UNCHANGED <<pc, cfg, input, object, sources>> /\ s \in unsigned
          /\ unsigned' = unsigned \ {s} /\ work' = work \ {s}
          /\ \A t \in Sources : image'[t] \in {None, image[t]}
      BY <2>8 DEF CompileSign, TypeOK
    <3>2. \A t : Fresh(t)' = Fresh(t)
      BY <3>1, SameProject DEF Fresh
    <3> QED BY <2>0, <3>1, <3>2, SameProject DEF JobsHonest
  <2>9. ASSUME NEW s \in Sources, CompileFails(s) PROVE JobsHonest'
    BY <1>1, <2>9 DEF CompileFails, Abandon, Nothing
  <2>10. CASE Link
    <3>1. work = {} /\ image' = image /\ pc' \notin {"plan", "compile"}
      BY <2>10 DEF Link
    <3> QED BY <1>1, <3>1 DEF Phased
  <2>11. CASE Convert \/ Report
    <3>1. pc # "compile" /\ image' = image /\ pc' \notin {"plan", "compile"}
      BY <2>11 DEF Convert, Report, Over
    <3> QED BY <1>0, <1>1, <3>1
  <2>12. CASE Dies
    BY <1>1, <2>12 DEF Dies, Over, Abandon, Nothing
  <2>13. CASE UNCHANGED vars
    BY <2>1, <2>13 DEF vars
  <2> QED
    BY <1>3, <2>2, <2>3, <2>4, <2>5, <2>6, <2>7, <2>8, <2>9, <2>10, <2>11, <2>12, <2>13
    DEF Next, Build
<1> QED BY <1>2, <1>3

-----------------------------------------------------------------------------
\* firmware.elf is made of the objects that are older than itself; the object of
\* a source it lacks is of no use to the next build.
ElfHonest ==
  elf # None =>
    /\ \A s \in Sources : object[s] # None /\ object[s].time < elf.time =>
         IF s \in DOMAIN elf.made THEN elf.made[s] = object[s].made
         ELSE input[s] = None \/ input[s].time > object[s].time
    /\ "removed" \notin causes => \A s \in DOMAIN elf.made : input[s] # None

\* A walk has found, or will find, every file as it is.
WalkHonest ==
  /\ \A f \in Inputs :
       /\ found[f] # None => input[f] # None /\ found[f].content = input[f].content
       /\ Walking /\ input[f] # None
          => f \in todo \/ found[f] # None \/ (stamp # None /\ stamp.file = f)
  /\ stamp # None => input[stamp.file] # None /\ stamp.time = input[stamp.file].time

LEMMA ElfStep ==
  ASSUME Inv, Shaped, Undisturbed => JobsHonest /\ ElfHonest, [Next]_vars, Undisturbed'
  PROVE  ElfHonest'
<1> USE DEF Inv
<1> USE DEF project, outputs, caches, walk, compiling, request, bounds
<1>0. /\ now \in Nat /\ (elf # None => elf.time \in Nat)
      /\ \A s \in Sources : object[s] # None => object[s].time \in Nat
  BY DEF TypeOK, Elves
<1>1. ASSUME NEW w \in {"firmware", "symbols"}, Start("clean", w) PROVE ElfHonest'
  BY <1>1 DEF Start, Wipe, ElfHonest
<1>2. CASE ~\E w \in {"firmware", "symbols"} : Start("clean", w)
  <2>0. JobsHonest /\ ElfHonest
    BY <1>2, Disturbances
  <2>1. ASSUME UNCHANGED <<elf, input>>,
               \A s \in Sources : object'[s] \in {None, object[s]},
               "removed" \in causes => "removed" \in causes'
        PROVE  ElfHonest'
    BY <2>0, <2>1 DEF ElfHonest
  <2>2. CASE User
    <3>1. CASE \E c \in Configs : Reconfigure(c)
      BY <2>1, <3>1 DEF Reconfigure
    <3>2. CASE \E f \in Inputs, c \in Contents : Edit(f, c)
      <4>1. PICK f \in Inputs, c \in Contents : Edit(f, c)
        BY <3>2
      <4>2. /\ UNCHANGED <<elf, object>> /\ ("removed" \in causes => "removed" \in causes')
            /\ \A g \in Inputs : input'[g] = IF g = f THEN [content |-> c, time |-> now + 1]
                                             ELSE input[g]
        BY <4>1 DEF Edit, TypeOK
      <4>3. input'[f] # None /\ input'[f].time = now + 1
        BY <1>0, <4>2, Absent DEF Version
      <4>4. Sources \subseteq Inputs /\ (elf # None => DOMAIN elf.made \subseteq Sources)
        BY DEF Inputs, Shaped
      <4>5. \A s \in Sources : object[s] # None => now + 1 > object[s].time
        BY <1>0 DEF Shaped
      <4>6. ASSUME elf # None PROVE ElfHonest'
        <5>1. \A s \in Sources : object[s] # None /\ object[s].time < elf.time =>
                IF s \in DOMAIN elf.made THEN elf.made[s] = object[s].made
                ELSE input'[s] = None \/ input'[s].time > object[s].time
          BY <2>0, <4>2, <4>3, <4>4, <4>5, <4>6 DEF ElfHonest
        <5>2. "removed" \notin causes' => \A s \in DOMAIN elf.made : input'[s] # None
          BY <2>0, <4>2, <4>3, <4>4, <4>6 DEF ElfHonest
        <5> QED BY <4>2, <5>1, <5>2 DEF ElfHonest
      <4> QED BY <4>2, <4>6 DEF ElfHonest
    <3>3. CASE \E s \in Sources : Remove(s)
      <4>1. /\ UNCHANGED <<elf, object>> /\ "removed" \in causes'
            /\ \A g \in Inputs : input'[g] \in {None, input[g]}
        BY <3>3 DEF Remove, TypeOK
      <4>2. Sources \subseteq Inputs
        BY DEF Inputs
      <4> QED BY <2>0, <4>1, <4>2 DEF ElfHonest
    <3>4. ~\E f \in Inputs : PutBack(f)
      BY DEF PutBack, Undisturbed
    <3> QED BY <2>2, <3>1, <3>2, <3>3, <3>4 DEF User
  <2>3. ASSUME NEW w \in {"firmware", "symbols"}, Start("incremental", w) PROVE ElfHonest'
    BY <2>1, <2>3 DEF Start
  <2>4. CASE \/ Check \/ (\E f \in Inputs : WalkStamp(f)) \/ WalkRead \/ WalkEnd \/ WalkFails
             \/ Scan \/ Plan \/ Convert \/ Report \/ Dies
             \/ (\E s \in Sources : CompileRead(s) \/ CompileSign(s))
    <3>1. UNCHANGED <<elf, input, object>>
      BY <2>4 DEF Check, WalkStamp, WalkRead, WalkEnd, WalkFails, Scan, Plan, Convert, Report,
                  Dies, CompileRead, CompileSign
    <3>2. "removed" \in causes => "removed" \in causes'
      BY <2>4 DEF Check, WalkStamp, WalkRead, WalkEnd, WalkFails, Saved, Scan, Plan, Convert,
                  Report, Dies, CompileRead, CompileSign
    <3> QED BY <2>1, <3>1, <3>2
  <2>5. ASSUME NEW s \in Sources, CompileWrite(s) PROVE ElfHonest'
    <3>1. /\ UNCHANGED <<elf, input, causes>>
          /\ \A t \in Sources : object'[t] = IF t = s THEN [made |-> image[s], time |-> now + 1]
                                             ELSE object[t]
      BY <2>5 DEF CompileWrite, TypeOK
    <3>2. elf # None => ~(object'[s].time < elf.time)
      BY <1>0, <3>1 DEF Shaped
    <3> QED BY <2>0, <3>1, <3>2 DEF ElfHonest
  <2>6. ASSUME NEW s \in Sources, CompileFails(s) PROVE ElfHonest'
    BY <2>1, <2>6 DEF CompileFails, TypeOK
  <2>7. CASE Link
    <3>1. UNCHANGED <<input, object>> /\ pc = "compile"
      BY <2>7 DEF Link
    <3>2. CASE elf' \in {elf, None} /\ causes' = causes
      BY <2>0, <3>1, <3>2 DEF ElfHonest
    <3>3. CASE ~(elf' \in {elf, None} /\ causes' = causes)
      <4>1. /\ elf' = [made |-> [s \in sources |-> object[s].made],
                       options |-> LinkOf[cfg], time |-> now + 1]
            /\ \A s \in sources : object[s] # None
        BY <2>7, <3>3 DEF Link
      <4>2. sources = {s \in Sources : input[s] # None}
        BY <2>0, <3>1 DEF JobsHonest, Present
      <4> QED BY <3>1, <4>1, <4>2 DEF ElfHonest
    <3> QED BY <3>2, <3>3
  <2>8. CASE UNCHANGED vars
    BY <2>1, <2>8 DEF vars
  <2> QED
    BY <1>2, <2>2, <2>3, <2>4, <2>5, <2>6, <2>7, <2>8 DEF Next, Build
<1> QED BY <1>1, <1>2

LEMMA WalkStep ==
  ASSUME Inv, Phased, Undisturbed => WalkHonest, [Next]_vars, Undisturbed'
  PROVE  WalkHonest'
<1> USE DEF Inv
<1> USE DEF project, outputs, caches, walk, compiling, request, bounds
<1>0. ~Walking => stamp = None /\ \A f \in Inputs : found[f] = None
  BY DEF Phased, Nothing
<1>1. ASSUME pc' \notin {"checking", "saving"}, stamp' = None, \A f \in Inputs : found'[f] = None
      PROVE  WalkHonest'
  BY <1>1 DEF WalkHonest, Walking
<1>2. ASSUME NEW m \in {"clean", "incremental"}, NEW w \in {"firmware", "symbols"}, Start(m, w)
      PROVE  WalkHonest'
  BY <1>0, <1>1, <1>2 DEF Start, Walking
<1>3. CASE ~\E m \in {"clean", "incremental"}, w \in {"firmware", "symbols"} : Start(m, w)
  <2>0. Undisturbed /\ WalkHonest /\ (input' # input => pc = "idle" /\ pc' = "idle")
    BY <1>3, Disturbances
  <2>1. CASE User \/ UNCHANGED vars
    <3>0. UNCHANGED <<pc, todo, stamp, found>>
      BY <2>1 DEF User, Edit, Remove, PutBack, Reconfigure, vars
    <3>1. CASE input' = input
      BY <2>0, <3>0, <3>1 DEF WalkHonest, Walking
    <3>2. CASE input' # input
      BY <1>0, <1>1, <2>0, <3>0, <3>2 DEF Walking
    <3> QED BY <3>1, <3>2
  <2>2. CASE \/ Check \/ Convert
    <3>1. ~Walking /\ input' = input /\ UNCHANGED <<stamp, found>>
      BY <2>2 DEF Check, Convert, Walking, BeginWalk
    <3>2. pc' \in {"checking", "saving"} => todo' = {f \in Inputs : input[f] # None}
      BY <2>2 DEF Check, Convert, BeginWalk, Present
    <3> QED BY <1>0, <3>1, <3>2 DEF WalkHonest, Walking
  <2>3. ASSUME NEW f \in Inputs, WalkStamp(f) PROVE WalkHonest'
    <3>1. /\ UNCHANGED <<pc, input, found>> /\ todo' = todo \ {f} /\ stamp = None /\ input[f] # None
          /\ stamp' = [file |-> f, time |-> input[f].time]
      BY <2>3 DEF WalkStamp
    <3>2. stamp' # None
      BY <3>1, Absent DEF TypeOK, Version
    <3> QED BY <2>0, <3>1, <3>2 DEF WalkHonest, Walking
  <2>4. CASE WalkRead
    <3>0. PICK f \in Inputs : f = stamp.file /\ stamp # None
      BY <2>4 DEF WalkRead, TypeOK
    <3>1. /\ UNCHANGED <<pc, input, todo>> /\ stamp' = None
          /\ input[f] # None /\ stamp.time = input[f].time
      BY <2>0, <2>4, <3>0 DEF WalkRead, WalkHonest
    <3>2. found' = [found EXCEPT ![f] = [content |-> input[f].content, time |-> stamp.time]]
      BY <2>0, <2>4, <3>0, <3>1 DEF WalkRead, StampsAreSound, Undisturbed
    <3>3. [content |-> input[f].content, time |-> stamp.time] \in Version
      BY <3>1 DEF TypeOK, Version
    <3>4. \A g \in Inputs :
            found'[g] = IF g = f THEN [content |-> input[f].content, time |-> stamp.time]
                        ELSE found[g]
      BY <3>2 DEF TypeOK
    <3>5. found'[f] # None /\ found'[f].content = input[f].content
      BY <3>3, <3>4, Absent
    <3> QED BY <2>0, <3>0, <3>1, <3>4, <3>5 DEF WalkHonest, Walking
  <2>5. CASE WalkEnd \/ WalkFails \/ Dies
    BY <1>1, <2>5 DEF WalkEnd, WalkFails, Dies, LeaveWalk, Over, Nothing
  <2>6. CASE Scan \/ Plan \/ Report \/ Link
    <3>1. ~Walking /\ pc' \notin {"checking", "saving"} /\ UNCHANGED <<stamp, found>>
      BY <2>6 DEF Scan, Plan, Report, Over, Link, Walking
    <3> QED BY <1>0, <1>1, <3>1
  <2>7. ASSUME NEW s \in Sources,
               CompileRead(s) \/ CompileWrite(s) \/ CompileSign(s) \/ CompileFails(s)
        PROVE  WalkHonest'
    <3>1. ~Walking /\ pc' \notin {"checking", "saving"} /\ UNCHANGED <<stamp, found>>
      BY <2>7 DEF CompileRead, CompileWrite, CompileSign, CompileFails, Walking
    <3> QED BY <1>0, <1>1, <3>1
  <2> QED
    BY <1>3, <2>1, <2>2, <2>3, <2>4, <2>5, <2>6, <2>7 DEF Next, Build
<1> QED BY <1>2, <1>3

-----------------------------------------------------------------------------
\* firmware.elf is made of the project as it is.
Current ==
  /\ elf # None /\ elf.made = Units
  /\ \A s \in Present(Sources) : \A d \in Deps(s) : input[d] # None

\* What the pipeline has made, when no source was removed since the last link.
BuiltTrue ==
  /\ pc \in {"convert", "saving"} => Current
  /\ pc = "built" => hex # None /\ hex.made = Units

\* firmware.elf is linked with the options of the project, which are those a
\* build has read.
OptionsTold ==
  "options" \notin causes =>
    /\ elf # None => elf.options = LinkOf[config]
    /\ pc # "idle" => LinkOf[cfg] = LinkOf[config]

\* Configuration c is k, or one of another hash.
Told(k, c) == k = c \/ MetaOf[k] # MetaOf[c]

\* The fingerprint tells what firmware.elf is made of.
FpTells ==
  fp # None /\ fp.files # None /\ elf # None =>
    /\ DOMAIN elf.made = Sources \cap DOMAIN fp.files
    /\ \A s \in DOMAIN elf.made :
         /\ Deps(s) \subseteq DOMAIN fp.files
         /\ elf.made[s].of = [d \in Deps(s) |-> fp.files[d]]
    /\ \E k \in Configs :
         /\ fp.meta = MetaOf[k]
         /\ \A s \in DOMAIN elf.made : elf.made[s].config = CmdOf[k]
         /\ "flags" \notin causes => /\ Told(k, config)
                                     /\ pc \in {"check", "checking"} => Told(k, cfg)

\* What the fast path has found.
HitTrue == pc = "hit" /\ causes = {} => hex = Firmware

Settled == Undisturbed /\ "removed" \notin causes
Signed == Settled /\ "unsaved" \notin causes

\* The inductive invariant of what a build reports.
BuildInv ==
  /\ Inv /\ Shaped /\ Phased /\ CfgTold /\ OptionsTold
  /\ Undisturbed => ObjectsHonest /\ JobsHonest /\ ElfHonest /\ WalkHonest
  /\ Settled => BuiltTrue
  /\ Signed => FpTells
  /\ HitTrue

\* firmware.elf is a function of sources.
LEMMA ElfShape ==
  ASSUME TypeOK, elf # None
  PROVE  elf.made = [s \in DOMAIN elf.made |-> elf.made[s]]
<1>1. elf.made \in Linkable
  BY DEF TypeOK, Elves
<1>2. PICK S \in SUBSET Sources : elf.made \in [S -> Made]
  BY <1>1 DEF Linkable
<1> QED BY <1>2

\* What is converted of it is there.
LEMMA LinkedThere ==
  ASSUME TypeOK, elf # None
  PROVE  Linked # None /\ Linked.made = elf.made /\ Linked.options = elf.options
<1>1. elf \in Elves
  BY DEF TypeOK
<1>2. Linked \in [made : Linkable, options : Options]
  BY <1>1 DEF Linked, Elves
<1> QED BY <1>2, NoneAssumption DEF Linked

\* A walk that is over has found the contents of all files there are.
LEMMA WalkedAll ==
  ASSUME TypeOK, WalkHonest, Walking, stamp = None, todo = {}
  PROVE  ContentsOf(found) = [f \in Present(Inputs) |-> input[f].content]
<1>1. \A f \in Inputs : found[f] # None <=> input[f] # None
  BY DEF WalkHonest
<1>2. {f \in Inputs : found[f] # None} = Present(Inputs)
  BY <1>1 DEF Present
<1>3. \A f \in Present(Inputs) : found[f].content = input[f].content
  BY <1>2 DEF WalkHonest
<1> QED BY <1>2, <1>3 DEF ContentsOf

\* A link makes firmware.elf of the project, and one that is not needed would.
LEMMA LinkIsCurrent ==
  ASSUME Inv, Shaped, JobsHonest, "removed" \notin causes => ElfHonest,
         Link, pc' = "convert", "removed" \notin causes'
  PROVE  Current'
<1> USE DEF Inv
<1> USE DEF project, outputs, caches, walk, compiling, request, bounds
<1>1. /\ pc = "compile" /\ work = {} /\ UNCHANGED <<input, cfg, object, sources>>
      /\ sources = Present(Sources)
  BY DEF Link, JobsHonest
<1>2. \A s \in sources : Fresh(s)
  BY <1>1 DEF JobsHonest
<1>3. \A s \in Present(Sources) : \A d \in Deps(s) : input[d] # None
  BY <1>1, <1>2 DEF Fresh
<1>4. Units = [s \in sources |-> object[s].made]
  BY <1>1, <1>2 DEF Units, Fresh
<1>5. CASE ElfIsUpToDate
  <2>1. elf' = elf /\ causes' = causes /\ elf # None
    BY <1>5 DEF Link, ElfIsUpToDate
  <2>2. ElfHonest
    BY <2>1
  <2>3. /\ \A s \in sources : s \in DOMAIN elf.made /\ elf.made[s] = object[s].made
    <3> SUFFICES ASSUME NEW s \in sources
                 PROVE  s \in DOMAIN elf.made /\ elf.made[s] = object[s].made
      OBVIOUS
    <3>1. s \in Sources /\ object[s] # None /\ object[s].time < elf.time
      BY <1>5 DEF ElfIsUpToDate, TypeOK
    <3>2. s \in Inputs /\ s \in Deps(s)
      BY <3>1 DEF Inputs, Deps
    <3>3. input[s] # None /\ input[s].time <= object[s].time
      BY <1>2, <3>2 DEF Fresh
    <3>4. input[s].time \in Nat /\ object[s].time \in Nat
      BY <3>1, <3>2, <3>3 DEF TypeOK, Version
    <3> QED BY <2>1, <2>2, <3>1, <3>3, <3>4 DEF ElfHonest
  <2>4. DOMAIN elf.made \subseteq sources
    BY <1>1, <2>1, <2>2 DEF ElfHonest, Shaped, Present
  <2>5. elf.made = Units
    BY <1>4, <2>1, <2>3, <2>4, ElfShape
  <2> QED BY <1>1, <1>3, <2>1, <2>5, SameProject DEF Current
<1>6. CASE ~ElfIsUpToDate
  <2>1. /\ \A s \in sources : object[s] # None
        /\ elf' = [made |-> [s \in sources |-> object[s].made],
                   options |-> LinkOf[cfg], time |-> now + 1]
    BY <1>6 DEF Link
  <2>2. [s \in sources |-> object[s].made] \in Linkable
    <3>1. [s \in sources |-> object[s].made] \in [sources -> Made]
      BY <2>1 DEF TypeOK
    <3> QED BY <3>1, FirmwareIn DEF TypeOK
  <2>3. elf' # None
    <3>1. LinkOf[cfg] \in Options
      BY <1>1 DEF Options, Running
    <3> QED BY <2>1, <2>2, <3>1, Absent DEF TypeOK, Elves
  <2> QED BY <1>1, <1>3, <1>4, <2>1, <2>3, SameProject DEF Current
<1> QED BY <1>5, <1>6

LEMMA OptionsStep == ASSUME OptionsTold, [Next]_vars PROVE OptionsTold'
<1> USE DEF project, outputs, caches, walk, compiling, request, bounds, OptionsTold
<1>1. ASSUME UNCHANGED <<elf, config>>, "options" \in causes => "options" \in causes',
             pc' # "idle" => pc # "idle" /\ cfg' = cfg
      PROVE  OptionsTold'
  BY <1>1
<1>2. CASE User
  <2>1. CASE \E c \in Configs : Reconfigure(c)
    BY <2>1 DEF Reconfigure
  <2>2. CASE ~\E c \in Configs : Reconfigure(c)
    BY <1>1, <1>2, <2>2 DEF User, Edit, Remove, PutBack
  <2> QED BY <2>1, <2>2
<1>3. ASSUME NEW m, NEW w, Start(m, w) PROVE OptionsTold'
  BY <1>3 DEF Start, Wipe
<1>4. CASE WalkEnd \/ WalkFails
  BY <1>1, <1>4 DEF WalkEnd, WalkFails, Saved, Walking
<1>5. CASE \/ Check \/ (\E f \in Inputs : WalkStamp(f)) \/ WalkRead \/ Scan \/ Plan \/ Convert
  BY <1>1, <1>5 DEF Check, WalkStamp, WalkRead, Walking, Scan, Plan, Convert
<1>6. ASSUME NEW s \in Sources, CompileRead(s) \/ CompileWrite(s) \/ CompileSign(s) \/ CompileFails(s)
      PROVE  OptionsTold'
  BY <1>1, <1>6 DEF CompileRead, CompileWrite, CompileSign, CompileFails
<1>7. CASE Report \/ Dies
  BY <1>1, <1>7 DEF Report, Dies, Over
<1>8. CASE Link
  BY <1>8 DEF Link, Relinked
<1>9. CASE UNCHANGED vars
  BY <1>9 DEF vars
<1> QED
  BY <1>2, <1>3, <1>4, <1>5, <1>6, <1>7, <1>8, <1>9 DEF Next, Build

LEMMA BuiltStep == ASSUME BuildInv, [Next]_vars, Settled' PROVE BuiltTrue'
<1> USE DEF BuildInv, Settled
<1> USE DEF project, outputs, caches, walk, compiling, request, bounds
<1>1. ASSUME pc' \notin {"convert", "saving", "built"} PROVE BuiltTrue'
  BY <1>1 DEF BuiltTrue
<1>2. ASSUME NEW m \in {"clean", "incremental"}, NEW w \in {"firmware", "symbols"}, Start(m, w)
      PROVE  BuiltTrue'
  BY <1>1, <1>2 DEF Start
<1>3. CASE Link
  <2>1. Undisturbed
    BY <1>3, Disturbances DEF Link, Start
  <2>2. CASE pc' = "convert"
    BY <1>3, <2>1, <2>2, LinkIsCurrent DEF BuiltTrue
  <2>3. CASE pc' # "convert"
    BY <1>1, <1>3, <2>3 DEF Link
  <2> QED BY <2>2, <2>3
<1>4. CASE /\ ~Link
           /\ ~\E m \in {"clean", "incremental"}, w \in {"firmware", "symbols"} : Start(m, w)
  <2>0. Undisturbed /\ (input' # input => pc = "idle" /\ pc' = "idle")
    BY <1>4, Disturbances
  <2>1. ASSUME UNCHANGED <<pc, input, cfg, elf, hex>>, causes \subseteq causes' PROVE BuiltTrue'
    <3>1. BuiltTrue
      BY <2>0, <2>1
    <3>2. Current' = Current
      BY <2>1, SameProject DEF Current
    <3> QED BY <2>1, <3>1, <3>2, SameProject DEF BuiltTrue
  <2>2. CASE User
    <3>1. UNCHANGED <<pc, cfg, elf, hex>> /\ causes \subseteq causes'
      BY <2>2 DEF User, Edit, Remove, PutBack, Reconfigure
    <3>2. CASE input' = input
      BY <2>1, <3>1, <3>2
    <3>3. CASE input' # input
      BY <1>1, <2>0, <3>3
    <3> QED BY <3>2, <3>3
  <2>3. CASE (\E f \in Inputs : WalkStamp(f)) \/ WalkRead \/ UNCHANGED vars
    BY <2>1, <2>3 DEF WalkStamp, WalkRead, vars
  <2>4. CASE Check \/ Scan \/ Plan \/ Report \/ Dies
    BY <1>1, <2>4 DEF Check, Scan, Plan, Report, Dies, Over
  <2>5. ASSUME NEW s \in Sources,
               CompileRead(s) \/ CompileWrite(s) \/ CompileSign(s) \/ CompileFails(s)
        PROVE  BuiltTrue'
    BY <1>1, <2>5 DEF CompileRead, CompileWrite, CompileSign, CompileFails
  <2>6. CASE WalkEnd \/ WalkFails
    <3>1. CASE pc = "checking"
      BY <1>1, <2>6, <3>1 DEF WalkEnd, WalkFails
    <3>2. CASE pc # "checking"
      <4>1. /\ pc = "saving" /\ pc' = "built" /\ UNCHANGED <<input, cfg, hex>>
            /\ "removed" \notin causes
        BY <2>6, <3>2 DEF WalkEnd, WalkFails, Walking, Saved
      <4>2. Current /\ hex = Linked
        BY <2>0, <4>1 DEF BuiltTrue, Phased
      <4>3. hex # None /\ hex.made = Units
        BY <4>2, LinkedThere DEF Current, Inv
      <4> QED BY <4>1, <4>3, SameProject DEF BuiltTrue
    <3> QED BY <3>1, <3>2
  <2>7. CASE Convert
    <3>1. /\ pc = "convert" /\ UNCHANGED <<input, cfg, elf, causes>>
          /\ pc' # "failed" => pc' \in {"built", "saving"} /\ hex' = Linked
      BY <2>7 DEF Convert
    <3>2. Current
      BY <2>0, <3>1 DEF BuiltTrue
    <3>3. Current' = Current
      BY <3>1, SameProject DEF Current
    <3>4. Linked # None /\ Linked.made = Units
      BY <3>2, LinkedThere DEF Current, Inv
    <3> QED BY <3>1, <3>2, <3>3, <3>4, SameProject DEF BuiltTrue
  <2> QED
    BY <1>4, <2>2, <2>3, <2>4, <2>5, <2>6, <2>7 DEF Next, Build
<1> QED BY <1>2, <1>3, <1>4

LEMMA FpStep == ASSUME BuildInv, [Next]_vars, Signed' PROVE FpTells'
<1> USE DEF BuildInv, Signed, Settled
<1> USE DEF project, outputs, caches, walk, compiling, request, bounds
<1>1. ASSUME NEW w \in {"firmware", "symbols"}, Start("clean", w) PROVE FpTells'
  BY <1>1 DEF Start, Wipe, FpTells
<1>2. CASE WalkEnd /\ pc = "saving"
  <2>1. /\ UNCHANGED <<input, config, cfg, elf>> /\ pc' = "built"
        /\ fp' = [meta |-> MetaOf[cfg], files |-> ContentsOf(found)]
        /\ causes' = Saved /\ stamp = None /\ todo = {} /\ Walking
    BY <1>2 DEF WalkEnd
  <2>2. Settled
    BY <2>1 DEF Saved, Undisturbed
  <2>3. Current /\ WalkHonest
    BY <1>2, <2>2 DEF BuiltTrue
  <2>4. fp'.files = [f \in Present(Inputs) |-> input[f].content] /\ fp'.meta = MetaOf[cfg]
    BY <2>1, <2>3, WalkedAll DEF Inv
  <2>5. DOMAIN elf.made = Sources \cap DOMAIN fp'.files
    BY <2>3, <2>4 DEF Current, Units, Present, Inputs
  <2>6. \A s \in DOMAIN elf.made : elf.made[s] = MadeOf(s) /\ Deps(s) \subseteq Present(Inputs)
    BY <2>3 DEF Current, Units, Present, Deps, Inputs
  <2>7. \A s \in DOMAIN elf.made : /\ elf.made[s].of = [d \in Deps(s) |-> fp'.files[d]]
                                   /\ elf.made[s].config = CmdOf[cfg]
    <3> SUFFICES ASSUME NEW s \in DOMAIN elf.made
                 PROVE  /\ elf.made[s].of = [d \in Deps(s) |-> fp'.files[d]]
                        /\ elf.made[s].config = CmdOf[cfg]
      OBVIOUS
    <3>1. \A d \in Deps(s) : fp'.files[d] = input[d].content
      BY <2>4, <2>6
    <3>2. /\ elf.made[s].of = [d \in Deps(s) |-> input[d].content]
          /\ elf.made[s].config = CmdOf[cfg]
      BY <2>6, MadeOfFields
    <3> QED BY <3>1, <3>2
  <2>8. "flags" \notin causes' => cfg = config \/ MetaOf[cfg] # MetaOf[config]
    BY <1>2, <2>1 DEF Saved, CfgTold
  <2>9. cfg \in Configs
    BY <1>2 DEF Inv, Running
  <2> QED BY <2>1, <2>4, <2>5, <2>6, <2>7, <2>8, <2>9 DEF FpTells, Told
<1>3. CASE /\ ~(WalkEnd /\ pc = "saving")
           /\ ~\E w \in {"firmware", "symbols"} : Start("clean", w)
  <2>0. Undisturbed
    BY <1>3, Disturbances
  <2>1. ASSUME UNCHANGED <<fp, config, cfg>>, elf' \in {elf, None}, causes \subseteq causes',
               pc' \in {"check", "checking"} => pc \in {"check", "checking"}
        PROVE  FpTells'
    BY <2>0, <2>1 DEF FpTells, Told
  <2>2. CASE User
    <3>1. CASE \E c \in Configs : Reconfigure(c)
      <4>1. PICK c \in Configs : Reconfigure(c)
        BY <3>1
      <4>2. /\ UNCHANGED <<fp, cfg, elf, pc>> /\ config' = c /\ causes \subseteq causes'
            /\ "flags" \notin causes' => \A d \in Configs \ {c} : MetaOf[d] # MetaOf[c]
        BY <4>1 DEF Reconfigure
      <4>3. FpTells
        BY <2>0, <4>2
      <4> QED BY <4>2, <4>3 DEF FpTells, Told
    <3>2. CASE ~\E c \in Configs : Reconfigure(c)
      BY <2>1, <2>2, <3>2 DEF User, Edit, Remove, PutBack
    <3> QED BY <3>1, <3>2
  <2>3. ASSUME NEW w \in {"firmware", "symbols"}, Start("incremental", w) PROVE FpTells'
    <3>1. UNCHANGED <<fp, config, elf, causes>> /\ cfg' = config
      BY <2>3 DEF Start
    <3>2. FpTells
      BY <2>0, <3>1
    <3> QED BY <3>1, <3>2 DEF FpTells, Told
  <2>4. CASE \/ Check \/ (\E f \in Inputs : WalkStamp(f)) \/ WalkRead \/ Scan \/ Plan \/ Convert
             \/ UNCHANGED vars
    BY <2>1, <2>4 DEF Check, WalkStamp, WalkRead, Scan, Plan, Convert, vars
  <2>5. CASE WalkEnd
    <3>1. UNCHANGED <<fp, config, cfg, elf, causes>> /\ pc' \in {"hit", "scan"}
      BY <1>3, <2>5 DEF WalkEnd, Walking
    <3> QED BY <2>1, <3>1
  <2>6. CASE WalkFails
    <3>1. CASE pc = "checking"
      BY <2>1, <2>6, <3>1 DEF WalkFails
    <3>2. CASE pc # "checking"
      BY <2>6, <3>2 DEF WalkFails, FpTells
    <3> QED BY <3>1, <3>2
  <2>7. ASSUME NEW s \in Sources,
               CompileRead(s) \/ CompileWrite(s) \/ CompileSign(s) \/ CompileFails(s)
        PROVE  FpTells'
    BY <2>1, <2>7 DEF CompileRead, CompileWrite, CompileSign, CompileFails
  <2>8. CASE Link
    <3>1. /\ UNCHANGED <<fp, config, cfg>> /\ pc' \in {"convert", "failed"}
          /\ elf' \in {elf, None} /\ causes' = causes
      BY <2>8 DEF Link
    <3> QED BY <2>1, <3>1
  <2>9. CASE Report \/ Dies
    <3>1. UNCHANGED <<fp, config, elf>> /\ causes \subseteq causes' /\ pc' = "idle"
      BY <2>9 DEF Report, Dies, Over
    <3>2. FpTells
      BY <2>0, <3>1
    <3> QED BY <3>1, <3>2 DEF FpTells, Told
  <2> QED
    BY <1>3, <2>2, <2>3, <2>4, <2>5, <2>6, <2>7, <2>8, <2>9 DEF Next, Build
<1> QED BY <1>1, <1>2, <1>3

\* A fingerprint that matches tells that the artifact is made of the project.
LEMMA HitStep == ASSUME BuildInv, [Next]_vars PROVE HitTrue'
<1> USE DEF BuildInv
<1> USE DEF project, outputs, caches, walk, compiling, request, bounds
<1> SUFFICES ASSUME pc' = "hit", causes' = {} PROVE hex' = Firmware'
  BY DEF HitTrue
<1>1. CASE WalkEnd
  <2>1. /\ UNCHANGED <<input, cfg, hex>> /\ pc = "checking" /\ causes = {}
        /\ ContentsOf(found) = fp.files /\ stamp = None /\ todo = {} /\ Walking
    BY <1>1 DEF WalkEnd, Walking
  <2>2. FpTells /\ WalkHonest /\ MayHit /\ hex = Linked
    BY <2>1 DEF Signed, Settled, Undisturbed, Phased, MayHit
  <2>3. fp.files = [f \in Present(Inputs) |-> input[f].content]
    BY <2>1, <2>2, WalkedAll DEF Inv
  <2>4. fp.files # None
    BY <2>1, FileSetIn, Absent DEF Inv, TypeOK
  <2>5. DOMAIN elf.made = Present(Sources)
    BY <2>2, <2>3, <2>4 DEF FpTells, MayHit, Present, Inputs
  <2>a. \A s \in DOMAIN elf.made : elf.made[s].config = CmdOf[cfg]
    <3>1. PICK k \in Configs : /\ fp.meta = MetaOf[k] /\ Told(k, cfg)
                               /\ \A s \in DOMAIN elf.made : elf.made[s].config = CmdOf[k]
      BY <2>1, <2>2, <2>4 DEF FpTells, MayHit
    <3>2. k = cfg
      BY <2>2, <3>1 DEF Told, MayHit
    <3> QED BY <3>1, <3>2
  <2>6. \A s \in DOMAIN elf.made : /\ elf.made[s].config = CmdOf[cfg]
                                   /\ elf.made[s].of = [d \in Deps(s) |-> fp.files[d]]
                                   /\ Deps(s) \subseteq DOMAIN fp.files
                                   /\ elf.made[s] \in MadeFor(s)
    BY <2>2, <2>4, <2>a DEF FpTells, MayHit, Shaped
  <2>7. \A s \in DOMAIN elf.made : elf.made[s] = MadeOf(s)
    <3> SUFFICES ASSUME NEW s \in DOMAIN elf.made PROVE elf.made[s] = MadeOf(s)
      OBVIOUS
    <3>1. \A d \in Deps(s) : fp.files[d] = input[d].content
      BY <2>3, <2>6
    <3> QED BY <2>6, <3>1 DEF MadeFor, MadeOf
  <2>8. elf.made = Units
    BY <2>2, <2>5, <2>7, ElfShape DEF Inv, MayHit, Units
  <2>9. elf.options = LinkOf[cfg]
    BY <2>1, <2>2 DEF OptionsTold, MayHit
  <2> QED BY <2>1, <2>2, <2>8, <2>9, SameProject DEF Linked, Firmware
<1>2. CASE ~WalkEnd
  <2>1. UNCHANGED <<pc, input, cfg, hex, causes>>
    <3>1. CASE User
      BY <3>1 DEF User, Edit, Remove, PutBack, Reconfigure, Raced
    <3>2. CASE Build
      <4>1. \A s \in Sources :
              ~(CompileRead(s) \/ CompileWrite(s) \/ CompileSign(s) \/ CompileFails(s))
        BY DEF CompileRead, CompileWrite, CompileSign, CompileFails
      <4>2. ~(Link \/ Convert)
        BY DEF Link, Convert
      <4>3. \A m, w : ~Start(m, w)
        BY DEF Start
      <4>4. ~(Check \/ WalkFails \/ Scan \/ Plan \/ Report)
        BY DEF Check, WalkFails, Scan, Plan, Report, Over
      <4>5. (\E f \in Inputs : WalkStamp(f)) \/ WalkRead
        BY <1>2, <3>2, <4>1, <4>2, <4>3, <4>4 DEF Build
      <4> QED BY <4>5 DEF WalkStamp, WalkRead, Walking
    <3>3. CASE Dies \/ UNCHANGED vars
      BY <3>3 DEF Dies, Over, vars
    <3> QED BY <3>1, <3>2, <3>3 DEF Next
  <2> QED BY <2>1, SameProject DEF HitTrue
<1> QED BY <1>1, <1>2

LEMMA BuildInvInit == Init => BuildInv
<1> SUFFICES ASSUME Init PROVE BuildInv
  OBVIOUS
<1>1. Inv
  BY InitInv
<1>2. Shaped /\ Phased /\ CfgTold /\ OptionsTold
  BY DEF Init, Nothing, Shaped, Phased, CfgTold, OptionsTold, Walking
<1>3. ObjectsHonest /\ JobsHonest /\ ElfHonest /\ WalkHonest
  BY DEF Init, Nothing, ObjectsHonest, JobsHonest, ElfHonest, WalkHonest, Walking
<1>4. BuiltTrue /\ FpTells /\ HitTrue
  BY DEF Init, BuiltTrue, FpTells, HitTrue
<1> QED BY <1>1, <1>2, <1>3, <1>4 DEF BuildInv

LEMMA BuildInvStep == BuildInv /\ [Next]_vars => BuildInv'
<1> SUFFICES ASSUME BuildInv, [Next]_vars PROVE BuildInv'
  OBVIOUS
<1>1. Inv' /\ Shaped' /\ Phased' /\ CfgTold' /\ OptionsTold'
  BY StepInv, ShapedStep, PhasedStep, CfgToldStep, OptionsStep DEF BuildInv
<1>2. Undisturbed' => ObjectsHonest' /\ JobsHonest' /\ ElfHonest' /\ WalkHonest'
  BY ObjectsStep, JobsStep, ElfStep, WalkStep DEF BuildInv
<1>3. (Settled' => BuiltTrue') /\ (Signed' => FpTells') /\ HitTrue'
  BY BuiltStep, FpStep, HitStep
<1> QED BY <1>1, <1>2, <1>3 DEF BuildInv

\* What a build reports is made of the project as it is: an artifact that the
\* fast path finds, when nothing misled it since the fingerprint was saved, and
\* one that the pipeline makes, when no file changed under a build or was put
\* back with an old time, no object lost its .cmdhash, and no source was removed
\* and no link option changed without a link since; for any number of sources, headers, configurations, edits, builds and deaths of the daemon.
THEOREM QuietBuilds == Spec => []QuietBuildIsCurrent
<1>1. BuildInv => QuietBuildIsCurrent
  <2> SUFFICES ASSUME BuildInv, pc = "built", causes \subseteq {"unsaved", "flags"}
               PROVE  hex = Firmware
    BY DEF BuildInv, HitTrue, QuietBuildIsCurrent
  <2>1. hex = Linked /\ hex # None /\ hex.made = Units
    BY DEF BuildInv, Phased, BuiltTrue, Settled, Undisturbed
  <2>2. elf # None /\ elf.options = LinkOf[cfg]
    BY DEF BuildInv, Phased, OptionsTold
  <2> QED BY <2>1, <2>2 DEF Linked, Firmware
<1> QED
  BY BuildInvInit, BuildInvStep, <1>1, PTL DEF Spec
=============================================================================
