----------------------------- MODULE WarmBuild -----------------------------
(***************************************************************************)
(* Builds of one environment of a project, one at a time (they hold the    *)
(* project lock), against a user who edits it: the fast path over the      *)
(* persisted fingerprint, the walk of the watched files with its stamp     *)
(* cache, the recompilation of what changed, the link that is skipped when *)
(* firmware.elf is newer than its inputs, and the new fingerprint.         *)
(*                                                                         *)
(* What a file holds is abstracted to a content, and what is made of it to *)
(* the contents and the options it was made with.  A configuration is all  *)
(* of platformio.ini and its extra scripts that reaches the command lines: *)
(* MetaOf is what the metadata hash sees of it, CmdOf what the compiler's  *)
(* command lines and so the .cmdhash see, LinkOf what the linker gets.     *)
(* Every write gets a modification time of its own; a file that is put     *)
(* back, as by mv, cp -p or a restored cache, has the time it had.  The    *)
(* daemon's watch-set cache has its default window, of no time at all: it  *)
(* never answers.                                                          *)
(***************************************************************************)
EXTENDS Integers

CONSTANTS Sources,    \* the sources a project may have
          Headers,    \* files every source includes
          Contents,   \* what a file may hold
          Configs,    \* configurations
          MetaOf,     \* the metadata hash of a configuration,
          CmdOf,      \* its compile options,
          LinkOf,     \* its link options
          None,
          MaxEdits,   \* bound: changes by the user
          MaxBuilds,  \* bound: builds
          MaxFaults   \* bound: daemons that die

Inputs == Sources \cup Headers
Deps(s) == {s} \cup Headers

ASSUME BoundAssumption ==
  MaxEdits \in Nat /\ MaxBuilds \in Nat /\ MaxFaults \in Nat

VARIABLES input,    \* what a file holds and when it was written; None: absent
          kept,     \* what it was before its last change
          config,   \* platformio.ini
          now,      \* the last modification time given
          object,   \* a source's object file: what it is made of, and when
          cmd,      \* its .cmdhash
          elf,      \* firmware.elf: what it is made of and how, and when
          hex,      \* firmware.hex or .bin: what it is made of and how
          fp,       \* build_fingerprint.json
          stamps,   \* the stamp cache of the watch
          pc,       \* where the build is
          cfg,      \* the configuration it has read
          wants,    \* what it was asked for: firmware, or its symbols too
          todo,     \* the walk: files it has not stamped
          stamp,    \* the walk: the file it has stamped, with the stamp
          found,    \* the walk: what it has found
          sources,  \* the sources it has scanned
          work,     \* the ones it recompiles
          image,    \* what a compiler that runs has read
          unsigned, \* sources with a new object and an old .cmdhash
          causes,   \* history: what may mislead the next builds
          edits, builds, faults

project == <<input, kept, config>>
outputs == <<object, cmd, elf, hex>>
caches == <<fp, stamps>>
walk == <<todo, stamp, found>>
compiling == <<sources, work, image, unsigned>>
request == <<cfg, wants>>
bounds == <<edits, builds, faults>>
vars == <<project, now, outputs, caches, pc, request, walk, compiling, causes,
          bounds>>

Nothing(S) == [x \in S |-> None]
Present(S) == {f \in S : input[f] # None}
ContentsOf(files) == [f \in {g \in Inputs : files[g] # None} |->
                        files[f].content]

\* What source s is made of now, and what the project is.
MadeOf(s) == [config |-> CmdOf[cfg], of |-> [d \in Deps(s) |-> input[d].content]]
Units == [s \in Present(Sources) |-> MadeOf(s)]
Firmware == [made |-> Units, options |-> LinkOf[cfg]]

Init ==
  \* Contents of two files are never compared: they may start alike.
  /\ \E c \in Contents : input = [f \in Inputs |-> [content |-> c, time |-> 1]]
  /\ kept = Nothing(Inputs)
  /\ config \in Configs
  /\ now = 1
  /\ object = Nothing(Sources) /\ cmd = Nothing(Sources)
  /\ elf = None /\ hex = None
  /\ fp = None /\ stamps = Nothing(Inputs)
  /\ pc = "idle" /\ cfg = None /\ wants = None
  /\ todo = {} /\ stamp = None /\ found = Nothing(Inputs)
  /\ sources = {} /\ work = {} /\ image = Nothing(Sources) /\ unsigned = {}
  /\ causes = {}
  /\ edits = 0 /\ builds = 0 /\ faults = 0

-----------------------------------------------------------------------------
(* The user. *)

Raced == IF pc = "idle" THEN {} ELSE {"race"}

Edit(f, c) ==
  /\ edits < MaxEdits
  /\ input[f] # None => input[f].content # c
  /\ edits' = edits + 1
  /\ now' = now + 1
  /\ input' = [input EXCEPT ![f] = [content |-> c, time |-> now + 1]]
  /\ kept' = [kept EXCEPT ![f] = input[f]]
  /\ causes' = causes \cup Raced
  /\ UNCHANGED <<config, outputs, caches, pc, request, walk, compiling,
                 builds, faults>>

Remove(s) ==
  /\ edits < MaxEdits
  /\ input[s] # None
  /\ edits' = edits + 1
  /\ input' = [input EXCEPT ![s] = None]
  /\ kept' = [kept EXCEPT ![s] = input[s]]
  /\ causes' = causes \cup Raced \cup {"removed"}
  /\ UNCHANGED <<config, now, outputs, caches, pc, request, walk, compiling,
                 builds, faults>>

\* The file is again what it was, and as old as it was.
PutBack(f) ==
  /\ edits < MaxEdits
  /\ kept[f] # None
  /\ edits' = edits + 1
  /\ input' = [input EXCEPT ![f] = kept[f]]
  /\ kept' = [kept EXCEPT ![f] = input[f]]
  /\ causes' = causes \cup {"backdated"}
  /\ UNCHANGED <<config, now, outputs, caches, pc, request, walk, compiling,
                 builds, faults>>

Reconfigure(c) ==
  /\ edits < MaxEdits
  /\ c # config
  /\ edits' = edits + 1
  /\ config' = c
  /\ causes' = causes
       \cup (IF \E d \in Configs \ {c} : MetaOf[d] = MetaOf[c] THEN {"flags"} ELSE {})
       \cup (IF LinkOf[c] # LinkOf[config] THEN {"options"} ELSE {})
  /\ UNCHANGED <<input, kept, now, outputs, caches, pc, request, walk, compiling,
                 builds, faults>>

-----------------------------------------------------------------------------
(* BuildContext::new and the fast path. *)

\* A clean build removes the build directory, the two caches in it included.
Wipe ==
  /\ object' = Nothing(Sources) /\ cmd' = Nothing(Sources)
  /\ elf' = None /\ hex' = None
  /\ fp' = None /\ stamps' = Nothing(Inputs)
  /\ causes' = {}

Start(mode, w) ==
  /\ pc = "idle"
  /\ builds < MaxBuilds
  /\ builds' = builds + 1
  /\ cfg' = config
  /\ wants' = w
  /\ pc' = "check"
  /\ IF mode = "clean" THEN Wipe ELSE UNCHANGED <<outputs, fp, stamps, causes>>
  /\ UNCHANGED <<project, now, walk, compiling, edits, faults>>

\* A walk starts with the list of the files there are.
BeginWalk ==
  todo' = Present(Inputs) /\ UNCHANGED <<stamp, found>>

LeaveWalk == todo' = {} /\ stamp' = None /\ found' = Nothing(Inputs)

MayHit ==
  /\ wants = "firmware"
  /\ fp # None
  /\ fp.meta = MetaOf[cfg]
  /\ elf # None /\ hex # None

Check ==
  /\ pc = "check"
  /\ IF ~MayHit
     THEN pc' = "scan" /\ UNCHANGED walk
     ELSE pc' = "checking" /\ BeginWalk
  /\ UNCHANGED <<project, now, outputs, caches, request, compiling, causes,
                 bounds>>

-----------------------------------------------------------------------------
(* hash_watch_set_stamps, for the check and for the new fingerprint. *)

Walking == pc \in {"checking", "saving"}

\* The stamp of the next file.
WalkStamp(f) ==
  /\ Walking
  /\ stamp = None /\ f \in todo /\ input[f] # None
  /\ stamp' = [file |-> f, time |-> input[f].time]
  /\ todo' = todo \ {f}
  /\ UNCHANGED <<project, now, outputs, caches, pc, request, found, compiling,
                 causes, bounds>>

\* Mutant: the content is read with the stamp of an earlier version.
WalkReadTrustsAnyStamp ==
  /\ Walking
  /\ stamp # None /\ input[stamp.file] # None
  /\ found' = [found EXCEPT ![stamp.file] =
                 [content |-> IF stamps[stamp.file] # None
                              THEN stamps[stamp.file].content
                              ELSE input[stamp.file].content,
                  time |-> stamp.time]]
  /\ stamp' = None
  /\ UNCHANGED <<project, now, outputs, caches, pc, request, todo, compiling,
                 causes, bounds>>

\* Its content: from the stamp cache when the stamp is the same.
WalkRead ==
  /\ Walking
  /\ stamp # None
  /\ LET f == stamp.file
         same == stamps[f] # None /\ stamps[f].time = stamp.time
     IN  /\ same \/ input[f] # None
         /\ found' = [found EXCEPT ![f] =
              [content |-> IF same THEN stamps[f].content
                           ELSE input[f].content,
               time |-> stamp.time]]
  /\ stamp' = None
  /\ UNCHANGED <<project, now, outputs, caches, pc, request, todo, compiling,
                 causes, bounds>>

\* What a fingerprint that was saved makes good.
Saved == causes \ ({"unsaved"} \cup IF config = cfg THEN {"flags"} ELSE {})

\* The walk is over: its stamps and its hash are kept, and compared or saved.
WalkEnd ==
  /\ Walking
  /\ stamp = None /\ todo = {}
  /\ stamps' = found
  /\ IF pc = "checking"
     THEN /\ pc' = IF ContentsOf(found) = fp.files THEN "hit" ELSE "scan"
          /\ UNCHANGED <<fp, causes>>
     ELSE /\ pc' = "built"
          /\ fp' = [meta |-> MetaOf[cfg], files |-> ContentsOf(found)]
          /\ causes' = Saved
  /\ LeaveWalk
  /\ UNCHANGED <<project, now, outputs, request, compiling, bounds>>

\* An error, as when a file of the list is gone: no hit, or a fingerprint
\* without a hash.
WalkFails ==
  /\ Walking
  /\ IF pc = "checking"
     THEN pc' = "scan" /\ UNCHANGED <<fp, causes>>
     ELSE /\ pc' = "built"
          /\ fp' = [meta |-> MetaOf[cfg], files |-> None]
          /\ causes' = Saved
  /\ LeaveWalk
  /\ UNCHANGED <<project, now, outputs, stamps, request, compiling, bounds>>

-----------------------------------------------------------------------------
(* The pipeline: scan, recompile, link, convert, save. *)

Scan ==
  /\ pc = "scan"
  /\ sources' = Present(Sources)
  /\ pc' = "plan"
  /\ UNCHANGED <<project, now, outputs, caches, request, walk, work, image,
                 unsigned, causes, bounds>>

\* Mutant: the .cmdhash is not looked at.
NeedsRebuildByTime(s) ==
  \/ object[s] = None
  \/ \E d \in Deps(s) : \/ input[d] = None
                        \/ input[d].time > object[s].time

NeedsRebuild(s) ==
  \/ object[s] = None
  \/ cmd[s] # CmdOf[cfg]
  \/ \E d \in Deps(s) : \/ input[d] = None
                        \/ input[d].time > object[s].time

\* compile_sources_parallel tests all sources before it compiles one.
Plan ==
  /\ pc = "plan"
  /\ work' = {s \in sources : NeedsRebuild(s)}
  /\ pc' = "compile"
  /\ UNCHANGED <<project, now, outputs, caches, request, walk, sources, image,
                 unsigned, causes, bounds>>

\* The compiler reads the source and its headers...
CompileRead(s) ==
  /\ pc = "compile"
  /\ s \in work /\ image[s] = None
  /\ \A d \in Deps(s) : input[d] # None
  /\ image' = [image EXCEPT ![s] = MadeOf(s)]
  /\ UNCHANGED <<project, now, outputs, caches, pc, request, walk, sources,
                 work, unsigned, causes, bounds>>

\* ... and writes the object and its depfile,
CompileWrite(s) ==
  /\ pc = "compile"
  /\ s \in work \ unsigned /\ image[s] # None
  /\ now' = now + 1
  /\ object' = [object EXCEPT ![s] = [made |-> image[s], time |-> now + 1]]
  /\ unsigned' = unsigned \cup {s}
  /\ UNCHANGED <<project, cmd, elf, hex, caches, pc, request, walk, sources,
                 work, image, causes, bounds>>

\* and compile_source writes the .cmdhash.
CompileSign(s) ==
  /\ pc = "compile"
  /\ s \in unsigned
  /\ cmd' = [cmd EXCEPT ![s] = CmdOf[cfg]]
  /\ unsigned' = unsigned \ {s}
  /\ work' = work \ {s}
  /\ image' = [image EXCEPT ![s] = None]
  /\ UNCHANGED <<project, now, object, elf, hex, caches, pc, request, walk,
                 sources, causes, bounds>>

\* Mutant: the jobs of an abandoned build stay.
AbandonKeepsJobs ==
  image' = Nothing(Sources) /\ unsigned' = {} /\ UNCHANGED work

Abandon == work' = {} /\ image' = Nothing(Sources) /\ unsigned' = {}

\* Objects without their .cmdhash mislead the next builds.
Unsigned == IF unsigned = {} THEN {} ELSE {"unsigned"}

\* A compile fails, and its object may be gone: the others are aborted where
\* they wait, which may be between an object and its .cmdhash.
CompileFails(s) ==
  /\ pc = "compile"
  /\ s \in work \ unsigned
  /\ object' \in {object, [object EXCEPT ![s] = None]}
  /\ pc' = "failed"
  /\ causes' = causes \cup Unsigned
  /\ Abandon
  /\ UNCHANGED <<project, now, cmd, elf, hex, caches, request, walk, sources,
                 bounds>>

ElfIsUpToDate ==
  /\ elf # None
  /\ \A s \in sources : object[s] # None /\ object[s].time < elf.time

\* What a link makes good: nothing else looks at the sources that are gone,
\* or at the link options.
Relinked ==
  {"removed"} \cup IF LinkOf[config] = LinkOf[cfg] THEN {"options"} ELSE {}

\* link_all: the link, which may fail, or none at all.
Link ==
  /\ pc = "compile" /\ work = {}
  /\ IF ElfIsUpToDate
     THEN pc' = "convert" /\ UNCHANGED <<now, elf, causes>>
     ELSE \/ /\ \A s \in sources : object[s] # None
             /\ now' = now + 1
             /\ elf' = [made |-> [s \in sources |-> object[s].made],
                        options |-> LinkOf[cfg], time |-> now + 1]
             /\ causes' = (causes \ Relinked) \cup {"unsaved"}
             /\ pc' = "convert"
          \/ /\ elf' \in {elf, None}
             /\ pc' = "failed"
             /\ UNCHANGED <<now, causes>>
  /\ UNCHANGED <<project, object, cmd, hex, caches, request, walk, compiling,
                 bounds>>

\* What firmware.elf holds.
Linked == [made |-> elf.made, options |-> elf.options]

\* convert_firmware, on every build that gets here; then the fingerprint.
Convert ==
  /\ pc = "convert"
  /\ \/ pc' = "failed" /\ UNCHANGED <<hex, walk>>
     \/ /\ hex' = Linked
        /\ IF wants = "symbols"
           THEN pc' = "built" /\ UNCHANGED walk
           ELSE pc' = "saving" /\ BeginWalk
  /\ UNCHANGED <<project, now, object, cmd, elf, caches, request, compiling,
                 causes, bounds>>

\* The build is over, and what it kept in memory is gone.
Over == pc' = "idle" /\ cfg' = None /\ wants' = None /\ sources' = {}

\* The result is reported.
Report ==
  /\ pc \in {"hit", "built", "failed"}
  /\ Over
  /\ UNCHANGED <<project, now, outputs, caches, walk, work, image, unsigned,
                 causes, bounds>>

\* The daemon dies, or the build is cancelled.
Dies ==
  /\ pc # "idle"
  /\ faults < MaxFaults
  /\ faults' = faults + 1
  /\ causes' = causes \cup Unsigned
  /\ Over /\ LeaveWalk /\ Abandon
  /\ UNCHANGED <<project, now, outputs, caches, edits, builds>>

User ==
  \/ \E f \in Inputs, c \in Contents : Edit(f, c)
  \/ \E s \in Sources : Remove(s)
  \/ \E f \in Inputs : PutBack(f)
  \/ \E c \in Configs : Reconfigure(c)

Build ==
  \/ \E mode \in {"clean", "incremental"}, w \in {"firmware", "symbols"} :
       Start(mode, w)
  \/ Check
  \/ \E f \in Inputs : WalkStamp(f)
  \/ WalkRead \/ WalkEnd \/ WalkFails
  \/ Scan \/ Plan
  \/ \E s \in Sources : CompileRead(s) \/ CompileWrite(s) \/ CompileSign(s)
                         \/ CompileFails(s)
  \/ Link \/ Convert \/ Report

Next == User \/ Build \/ Dies

Spec == Init /\ [][Next]_vars

-----------------------------------------------------------------------------
(* What the files and the build may be. *)

Version == [content : Contents, time : Nat]
Commands == {CmdOf[c] : c \in Configs}
Options == {LinkOf[c] : c \in Configs}
Made == UNION {[config : Commands, of : [Deps(s) -> Contents]] : s \in Sources}
Linkable == UNION {[S -> Made] : S \in SUBSET Sources}
Elves == [made : Linkable, options : Options, time : Nat]
FileSets == UNION {[F -> Contents] : F \in SUBSET Inputs}

\* What is absent is told from what is there.
ASSUME NoneAssumption ==
  None \notin Version \cup [file : Inputs, time : Nat]
                \cup [made : Made, time : Nat] \cup Elves
                \cup [made : Linkable, options : Options] \cup FileSets

\* TypeOK: every file is absent or a version of something, a build is at one
\* of its steps, and it only compiles what it has scanned.
TypeOK ==
  /\ input \in [Inputs -> Version \cup {None}]
  /\ kept \in [Inputs -> Version \cup {None}]
  /\ config \in Configs /\ cfg \in Configs \cup {None}
  /\ now \in Nat
  /\ object \in [Sources -> [made : Made, time : Nat] \cup {None}]
  /\ cmd \in [Sources -> Commands \cup {None}]
  /\ elf \in Elves \cup {None}
  /\ hex \in [made : Linkable, options : Options] \cup {None}
  /\ fp = None \/ /\ fp.meta \in {MetaOf[c] : c \in Configs}
                  /\ fp.files \in FileSets \cup {None}
  /\ stamps \in [Inputs -> Version \cup {None}]
  /\ pc \in {"idle", "check", "checking", "hit", "scan", "plan",
             "compile", "convert", "saving", "built", "failed"}
  /\ wants \in {"firmware", "symbols", None}
  /\ todo \in SUBSET Inputs
  /\ stamp \in [file : Inputs, time : Nat] \cup {None}
  /\ found \in [Inputs -> Version \cup {None}]
  /\ sources \in SUBSET Sources
  /\ work \in SUBSET sources /\ unsigned \in SUBSET work
  /\ image \in [Sources -> Made \cup {None}]
  /\ causes \in SUBSET {"race", "removed", "backdated", "flags", "options",
                        "unsaved", "unsigned"}
  /\ edits \in 0 .. MaxEdits /\ builds \in 0 .. MaxBuilds
  /\ faults \in 0 .. MaxFaults

(***************************************************************************)
(* What a build reports, be it the artifacts it found or the ones it made, *)
(* is made of the project as it is, with the compile and link options it   *)
(* has now, by all of the fast path, the recompilation and the link        *)
(* together; a build that runs its pipeline even makes good what a         *)
(* fingerprint cannot know: an artifact of a build that saved none, and a  *)
(* configuration whose metadata hash is another's.  What misleads a build, *)
(* all of it named in `causes': an edit while one ran, a file put back     *)
(* with its old time, an object without its .cmdhash (only a clean build   *)
(* makes these good), a source removed and link options changed without a  *)
(* link since (fast_path.rs, compiler.rs:422-490, 688, linker.rs:93-108).  *)
(***************************************************************************)
QuietBuildIsCurrent ==
  \/ pc = "hit" /\ causes = {}
  \/ pc = "built" /\ causes \subseteq {"unsaved", "flags"}
  => hex = Firmware

(***************************************************************************)
(* A stamp the watch keeps never vouches for a content its file does not   *)
(* have, although the stamp is taken before the content is read and a user *)
(* may write the file in between; unless a file was put back with a time   *)
(* it had before (fbuild-build-engine's hash_watch_set_stamps).            *)
(***************************************************************************)
StampsAreSound ==
  "backdated" \notin causes =>
    \A f \in Inputs :
      stamps[f] # None /\ input[f] # None /\ stamps[f].time = input[f].time
      => stamps[f].content = input[f].content

\* A build that reuses the artifacts reuses ones compiled with the options it
\* has read from platformio.ini.
HitHonoursConfig ==
  pc = "hit" => \A s \in DOMAIN hex.made : hex.made[s].config = CmdOf[cfg]
=============================================================================
