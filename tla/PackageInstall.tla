--------------------------- MODULE PackageInstall ---------------------------
(***************************************************************************)
(* The installation of one package by several processes that share a cache *)
(* root: is_cached, staged_install and its directory lock, with processes  *)
(* that crash, pids that come back, and the two tasks of a daemon that     *)
(* remove the installed tree without taking the lock: the garbage          *)
(* collector, and the reconciliation at its start.                         *)
(*                                                                         *)
(* The lock is a directory: made by create_dir, given an owner record in a *)
(* second step, judged stale by a waiter in a third and removed by it in a *)
(* fourth.  Nothing ties the directory that is removed to the one that was *)
(* judged.  A tree is "whole" (what the archive holds) or "partial" (cut   *)
(* short, mixed or half removed); names and bytes are left out.            *)
(***************************************************************************)
EXTENDS Naturals

CONSTANTS Installers,  \* processes (or tasks) that need the package
          Nothing,
          MaxMishaps,  \* bound: deaths, and owners that are slow
          MaxSweeps    \* bound: evictions and reconciliations

\* Why a lock is stale, and what a lock directory says.
Verdicts == {"outdated", "missing", "dead", "old"}
LockRecords == [owner : Installers \cup {Nothing}, by : Installers, age : 0..1]

ASSUME NothingAssumption ==
  /\ Nothing \notin Installers
  /\ Nothing \notin LockRecords
  /\ Nothing \notin Verdicts \cup {"release"}
ASSUME BoundsAssumption == MaxMishaps \in Nat /\ MaxSweeps \in Nat

VARIABLES at,        \* where a process is in ensure_installed
          lock,      \* the lock directory: Nothing, or its record
          verdict,   \* why a process found the lock stale; "outdated" once
                     \* the directory it looked at is gone
          stage,     \* the staging directory: "none", "partial", "whole"
          mine,      \* the staging directory is still the one p created
          final,     \* the install directory: "none", "partial", "whole"
          sentinel,  \* .install_complete is in it
          recorded,  \* the index has a row for the install
          evictor,   \* the collector: "idle", "picked", "removing", "removed"
          purger,    \* reconcile: "idle", "listed", "probe", "purge",
                     \* "removing", "clear"
          reused,    \* dead processes whose pid another fbuild process has
          torn,      \* history: why a live owner first lost its lock
          spoilt,    \* history: a removal of the tree stopped half way
          mishaps, sweeps

stageVars == <<stage, mine>>
treeVars == <<final, sentinel, recorded>>
sweepVars == <<evictor, purger, sweeps>>
faultVars == <<reused, mishaps>>
pastVars == <<torn, spoilt>>
installVars == <<at, lock, verdict, stageVars, treeVars, sweepVars, faultVars, pastVars>>

Over == {"idle", "using", "failed", "dead"}

\* From create_dir to the drop of the guard.
Section == {"own", "recheck", "stage", "download", "extract", "commit",
            "sentinel", "record", "release", "abandon"}

(***************************************************************************)
(* The lock directory goes away by the hand of p, for the given reason.    *)
(* Whoever else found it stale is about to remove another one; if its      *)
(* owner is still at work, that is remembered the first time.              *)
(***************************************************************************)
RemoveLock(p, why) ==
  /\ lock' = Nothing
  /\ verdict' = [q \in Installers |-> IF q = p \/ verdict[q] = Nothing
                                      THEN Nothing ELSE "outdated"]
  /\ torn' = IF /\ torn = Nothing /\ lock # Nothing
                /\ lock.by # p /\ at[lock.by] \in Section
             THEN why ELSE torn

InstallInit ==
  /\ at = [p \in Installers |-> "idle"]
  /\ lock = Nothing
  /\ verdict = [p \in Installers |-> Nothing]
  /\ stage = "none"
  /\ mine = [p \in Installers |-> FALSE]
  /\ final = "none"
  /\ sentinel = FALSE
  /\ recorded = FALSE
  /\ evictor = "idle"
  /\ purger = "idle"
  /\ reused = {}
  /\ torn = Nothing
  /\ spoilt = FALSE
  /\ mishaps = 0
  /\ sweeps = 0

Move(p, s) == at' = [at EXCEPT ![p] = s]

Mishap ==
  /\ mishaps < MaxMishaps
  /\ mishaps' = mishaps + 1

-----------------------------------------------------------------------------
(* The fast paths. *)

\* is_cached: the directory and the sentinel.
IsCached(p) ==
  /\ at[p] = "idle"
  /\ Move(p, IF final # "none" /\ sentinel THEN "using" ELSE "check")
  /\ UNCHANGED <<lock, verdict, stageVars, treeVars, sweepVars, faultVars, pastVars>>

\* staged_install: an existing directory is taken as it is.
Check(p) ==
  /\ at[p] = "check"
  /\ Move(p, IF final # "none" THEN "using" ELSE "create")
  /\ UNCHANGED <<lock, verdict, stageVars, treeVars, sweepVars, faultVars, pastVars>>

-----------------------------------------------------------------------------
(* acquire_install_lock_at. *)

CreateLock(p) ==
  /\ at[p] = "create"
  /\ IF lock = Nothing
     THEN /\ lock' = [owner |-> Nothing, by |-> p, age |-> 0]
          /\ Move(p, "own")
     ELSE /\ Move(p, "judge")
          /\ UNCHANGED lock
  /\ UNCHANGED <<verdict, stageVars, treeVars, sweepVars, faultVars, pastVars>>

(***************************************************************************)
(* write_lock_owner, into the directory that is there now, whose age counts *)
(* from its last change: making a file in it renews it.  When it cannot be *)
(* written, there being no directory or for an I/O error, the process      *)
(* removes the directory and gives up.                                     *)
(***************************************************************************)
WriteOwner(p) ==
  /\ at[p] = "own"
  /\ \/ /\ lock # Nothing
        /\ lock' = [lock EXCEPT !.owner = p, !.age = IF lock.owner = Nothing THEN 0 ELSE @]
        /\ Move(p, "recheck")
     \/ /\ Move(p, "abandon")
        /\ UNCHANGED lock
  /\ UNCHANGED <<verdict, stageVars, treeVars, sweepVars, faultVars, pastVars>>

\* Mutant: an owner that cannot be inspected is taken for dead.
OwnerNotKnownAlive(q) == q \in Installers /\ q \notin reused

\* owner_is_dead: no such pid, or another program has it.
OwnerIsDead(q) == at[q] = "dead" /\ q \notin reused

\* Mutant: no age ceiling.
StaleWithoutCeiling ==
  IF lock = Nothing THEN "outdated"
  ELSE IF lock.owner = Nothing THEN IF lock.age = 1 THEN "missing" ELSE "live"
  ELSE IF OwnerIsDead(lock.owner) THEN "dead" ELSE "live"

\* lock_is_stale: "old" is past the age ceiling, "missing" past the grace for
\* a lock without an owner record; a directory that vanished counts as stale.
StaleBecause ==
  IF lock = Nothing THEN "outdated"
  ELSE IF lock.owner = Nothing THEN IF lock.age = 1 THEN "missing" ELSE "live"
  ELSE IF OwnerIsDead(lock.owner) THEN "dead"
  ELSE IF lock.age = 1 THEN "old" ELSE "live"

Judge(p) ==
  /\ at[p] = "judge"
  /\ IF StaleBecause = "live"
     THEN Move(p, "create") /\ UNCHANGED verdict
     ELSE Move(p, "tear") /\ verdict' = [verdict EXCEPT ![p] = StaleBecause]
  /\ UNCHANGED <<lock, stageVars, treeVars, sweepVars, faultVars, pastVars>>

\* remove_dir_all of the lock that is there now; there being none is an error.
Tear(p) ==
  /\ at[p] = "tear"
  /\ Move(p, IF lock = Nothing THEN "failed" ELSE "create")
  /\ RemoveLock(p, verdict[p])
  /\ UNCHANGED <<stageVars, treeVars, sweepVars, faultVars, spoilt>>

-----------------------------------------------------------------------------
(* staged_install under the lock. *)

Recheck(p) ==
  /\ at[p] = "recheck"
  /\ Move(p, IF final # "none" THEN "release" ELSE "stage")
  /\ UNCHANGED <<lock, verdict, stageVars, treeVars, sweepVars, faultVars, pastVars>>

\* A staging directory left behind is removed; a new one is made.
Stage(p) ==
  /\ at[p] = "stage"
  /\ stage' = "partial"
  /\ mine' = [q \in Installers |-> q = p]
  /\ Move(p, "download")
  /\ UNCHANGED <<lock, verdict, treeVars, sweepVars, faultVars, pastVars>>

\* Mutant: the package is built in its final place.
FetchInPlace(p) ==
  /\ at[p] = "download"
  /\ Move(p, "extract")
  /\ final' = "partial"
  /\ UNCHANGED <<lock, verdict, stageVars, sentinel, recorded, sweepVars, faultVars,
                 pastVars>>

\* Download and checksum: they fail, or the archive is in the directory, if
\* that is still there.
Fetch(p) ==
  /\ at[p] = "download"
  /\ \/ Move(p, "abandon")
     \/ stage # "none" /\ Move(p, "extract")
  /\ UNCHANGED <<lock, verdict, stageVars, treeVars, sweepVars, faultVars, pastVars>>

(***************************************************************************)
(* Extraction and the caller's validation.  The tree is whole only if      *)
(* nobody replaced the directory since this process made it; otherwise     *)
(* files of the archive went away with the old one.  A whole tree may be   *)
(* rejected and a partial one accepted: validators look for a few files.   *)
(***************************************************************************)
Extract(p) ==
  /\ at[p] = "extract"
  /\ \/ Move(p, "abandon") /\ UNCHANGED stage
     \/ /\ stage # "none"
        /\ Move(p, "commit")
        /\ stage' = IF mine[p] THEN "whole" ELSE "partial"
  /\ UNCHANGED <<lock, verdict, mine, treeVars, sweepVars, faultVars, pastVars>>

\* The rename; it fails when there is nothing to rename or a directory that
\* is not empty in the way.
Commit(p) ==
  /\ at[p] = "commit"
  /\ IF stage # "none" /\ final = "none"
     THEN /\ Move(p, "sentinel")
          /\ final' = IF stage = "whole" THEN "whole" ELSE "partial"
          /\ stage' = "none"
          /\ mine' = [q \in Installers |-> FALSE]
     ELSE Move(p, "abandon") /\ UNCHANGED <<final, stage, mine>>
  /\ UNCHANGED <<lock, verdict, sentinel, recorded, sweepVars, faultVars, pastVars>>

\* Best effort: a failure is logged.
WriteSentinel(p) ==
  /\ at[p] = "sentinel"
  /\ sentinel' \in {sentinel, final # "none"}
  /\ Move(p, "record")
  /\ UNCHANGED <<lock, verdict, stageVars, final, recorded, sweepVars, faultVars,
                 pastVars>>

\* Best effort too; a row that is not written only keeps the sweeps away, and
\* they may stay away in any case.
RecordInstall(p) ==
  /\ at[p] = "record"
  /\ recorded' = TRUE
  /\ Move(p, "release")
  /\ UNCHANGED <<lock, verdict, stageVars, final, sentinel, sweepVars, faultVars,
                 pastVars>>

\* The drop of the guard removes the lock directory, whoever made it.
Release(p) ==
  /\ \/ at[p] = "release" /\ Move(p, "using")
     \/ at[p] = "abandon" /\ Move(p, "failed")
  /\ RemoveLock(p, "release")
  /\ UNCHANGED <<stageVars, treeVars, sweepVars, faultVars, spoilt>>

-----------------------------------------------------------------------------
(* Faults and time. *)

\* A process that dies without the lock leaves nothing behind.
InstallerDies(p) ==
  /\ at[p] \in Section
  /\ Mishap
  /\ Move(p, "dead")
  /\ UNCHANGED <<lock, verdict, stageVars, treeVars, sweepVars, reused, pastVars>>

\* Another fbuild process gets the pid that the lock names.
PidReused(p) ==
  /\ at[p] = "dead"
  /\ lock # Nothing /\ lock.owner = p
  /\ p \notin reused
  /\ reused' = reused \cup {p}
  /\ UNCHANGED <<at, lock, verdict, stageVars, treeVars, sweepVars, mishaps,
                 pastVars>>

\* Whose step the lock waits for: the process named in it, or else its maker.
Awaited == IF lock.owner = Nothing THEN lock.by ELSE lock.owner

\* Mutant: one age too many.
LockAgesOnce ==
  /\ lock # Nothing /\ lock.age <= 1
  /\ lock' = [lock EXCEPT !.age = @ + 1]
  /\ IF at[Awaited] = "dead" THEN UNCHANGED mishaps ELSE Mishap
  /\ UNCHANGED <<at, verdict, stageVars, treeVars, sweepVars, reused, pastVars>>

\* MISSING_OWNER_GRACE passes without an owner record, or with one
\* INSTALL_LOCK_STALE_AFTER; a live owner that lets it pass is slow.
LockAges ==
  /\ lock # Nothing /\ lock.age < 1
  /\ lock' = [lock EXCEPT !.age = @ + 1]
  /\ IF at[Awaited] = "dead" THEN UNCHANGED mishaps ELSE Mishap
  /\ UNCHANGED <<at, verdict, stageVars, treeVars, sweepVars, reused, pastVars>>

-----------------------------------------------------------------------------
(* The daemon: run_gc and reconcile. *)

(***************************************************************************)
(* remove_dir_all of the install directory, by a task that goes from one   *)
(* state to another: it starts, and at some later moment the directory is  *)
(* gone, or it stops at a file it cannot remove.                           *)
(***************************************************************************)
StartRemoval ==
  /\ final' = IF final = "none" THEN "none" ELSE "partial"
  /\ sentinel' = FALSE
  /\ UNCHANGED spoilt

EndRemoval ==
  /\ final' = "none"
  /\ sentinel' = FALSE
  /\ UNCHANGED spoilt

StopRemoval ==
  /\ spoilt' = TRUE
  /\ UNCHANGED <<final, sentinel>>

\* run_gc, over budget, reads the entries to evict: nothing pins a package.
EvictPick ==
  /\ evictor = "idle"
  /\ recorded
  /\ sweeps < MaxSweeps
  /\ sweeps' = sweeps + 1
  /\ evictor' = "picked"
  /\ UNCHANGED <<at, lock, verdict, stageVars, treeVars, purger, faultVars, pastVars>>

\* A tree that cannot be removed is skipped, with its row.
EvictRemove ==
  /\ \/ /\ evictor = "picked"
        /\ evictor' = IF final = "none" THEN "removed" ELSE "removing"
        /\ StartRemoval
     \/ evictor = "removing" /\ evictor' = "removed" /\ EndRemoval
     \/ evictor = "removing" /\ evictor' = "idle" /\ StopRemoval
  /\ UNCHANGED <<at, lock, verdict, stageVars, recorded, purger, sweeps, faultVars,
                 torn>>

\* clear_installed and delete_entry.
EvictClear ==
  /\ evictor = "removed"
  /\ evictor' = "idle"
  /\ recorded' = FALSE
  /\ UNCHANGED <<at, lock, verdict, stageVars, final, sentinel, purger, sweeps,
                 faultVars, pastVars>>

\* reconcile reads all entries ...
PurgeList ==
  /\ purger = "idle"
  /\ recorded
  /\ sweeps < MaxSweeps
  /\ sweeps' = sweeps + 1
  /\ purger' = "listed"
  /\ UNCHANGED <<at, lock, verdict, stageVars, treeVars, evictor, faultVars, pastVars>>

\* ... looks for the directory of one, and for the sentinel in it ...
PurgeLook ==
  /\ \/ /\ purger = "listed"
        /\ purger' = IF final = "none" THEN "clear" ELSE "probe"
     \/ /\ purger = "probe"
        /\ purger' = IF sentinel THEN "idle" ELSE "purge"
  /\ UNCHANGED <<at, lock, verdict, stageVars, treeVars, evictor, sweeps, faultVars,
                 pastVars>>

\* ... removes a directory without one, as far as it goes, lock or no lock ...
PurgeRemove ==
  /\ \/ /\ purger = "purge"
        /\ purger' = IF final = "none" THEN "clear" ELSE "removing"
        /\ StartRemoval
     \/ purger = "removing" /\ purger' = "clear" /\ EndRemoval
     \/ purger = "removing" /\ purger' = "clear" /\ StopRemoval
  /\ UNCHANGED <<at, lock, verdict, stageVars, recorded, evictor, sweeps, faultVars,
                 torn>>

\* ... and clears the row in either case.
PurgeClear ==
  /\ purger = "clear"
  /\ purger' = "idle"
  /\ recorded' = FALSE
  /\ UNCHANGED <<at, lock, verdict, stageVars, final, sentinel, evictor, sweeps,
                 faultVars, pastVars>>

\* The daemon dies with what its two tasks were doing.
DaemonDies ==
  /\ evictor # "idle" \/ purger # "idle"
  /\ evictor' = "idle" /\ purger' = "idle"
  /\ spoilt' = (spoilt \/ evictor = "removing" \/ purger = "removing")
  /\ UNCHANGED <<at, lock, verdict, stageVars, treeVars, sweeps, faultVars, torn>>

Installer(p) ==
  \/ IsCached(p) \/ Check(p) \/ CreateLock(p) \/ WriteOwner(p) \/ Judge(p)
  \/ Tear(p) \/ Recheck(p) \/ Stage(p) \/ Fetch(p) \/ Extract(p)
  \/ Commit(p) \/ WriteSentinel(p) \/ RecordInstall(p)
  \/ Release(p)

InstallNext ==
  \/ \E p \in Installers : Installer(p) \/ InstallerDies(p) \/ PidReused(p)
  \/ LockAges
  \/ EvictPick \/ EvictRemove \/ EvictClear
  \/ PurgeList \/ PurgeLook \/ PurgeRemove \/ PurgeClear
  \/ DaemonDies

InstallSpec == InstallInit /\ [][InstallNext]_installVars

\* A process that runs goes on (downloads carry their own timeout, #805), and
\* time passes.
InstallFairSpec ==
  /\ InstallSpec
  /\ \A p \in Installers : WF_installVars(Installer(p) /\ at[p] # "idle")
  /\ WF_installVars(LockAges)
-----------------------------------------------------------------------------
(* Properties. *)

\* InstallTypeOK: processes, lock, trees and collector have their types.
InstallTypeOK ==
  /\ at \in [Installers -> Over \cup Section
                        \cup {"check", "create", "judge", "tear"}]
  /\ lock \in LockRecords \cup {Nothing}
  /\ verdict \in [Installers -> Verdicts \cup {Nothing}]
  /\ stage \in {"none", "partial", "whole"}
  /\ mine \in [Installers -> BOOLEAN]
  /\ final \in {"none", "partial", "whole"}
  /\ sentinel \in BOOLEAN
  /\ recorded \in BOOLEAN
  /\ evictor \in {"idle", "picked", "removing", "removed"}
  /\ purger \in {"idle", "listed", "probe", "purge", "removing", "clear"}
  /\ reused \subseteq Installers
  /\ torn \in Verdicts \cup {"release", Nothing}
  /\ spoilt \in BOOLEAN
  /\ mishaps \in 0..MaxMishaps
  /\ sweeps \in 0..MaxSweeps

(***************************************************************************)
(* Two processes are between create_dir and the drop of their guard only   *)
(* after one of three things took a live owner's lock away: it held it     *)
(* past the age ceiling, it had not written its owner record within the    *)
(* grace, or a waiter removed a directory it had not looked at: the stale  *)
(* one it judged was removed, or the free one made, by somebody else in    *)
(* between.  A crash and its clean-up alone, a pid that came back, a       *)
(* guard's drop and the verdict "the owner is dead" about the directory    *)
(* that is removed never do: "a live install is never torn out from under  *)
(* itself" (install_lock.rs:73-147, 184-256).                              *)
(***************************************************************************)
OneInstaller ==
  \A p, q \in Installers :
    at[p] \in Section /\ at[q] \in Section /\ p # q
      => torn \in {"old", "missing", "outdated"}

(***************************************************************************)
(* The install directory is never a cut-off or mixed tree, except while    *)
(* the collector or the reconciliation removes it, after such a removal    *)
(* stopped half way, or after a live owner lost its lock: no crash between *)
(* download and rename can produce one (lib.rs:370-446, "atomic commit").  *)
(***************************************************************************)
TreeIsWhole ==
  final = "partial" =>
    evictor = "removing" \/ purger = "removing" \/ spoilt \/ torn # Nothing

(***************************************************************************)
(* Whoever needs the package ends up with it, fails or dies: a crashed     *)
(* owner, even one whose pid is taken again, blocks nobody for ever        *)
(* (#1213, install_lock.rs:243-256).  Each process asks once, so all are   *)
(* at rest from some point on.                                             *)
(***************************************************************************)
EveryInstallEnds == <>[](\A p \in Installers : at[p] \in Over)
=============================================================================
