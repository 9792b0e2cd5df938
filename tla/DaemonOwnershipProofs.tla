------------------------ MODULE DaemonOwnershipProofs ------------------------
(***************************************************************************)
(* Proofs about the ownership of a cache root, for any set of process ids, *)
(* commands and versions and any bounds.                                   *)
(***************************************************************************)
EXTENDS DaemonOwnership, TLAPS

LEMMA Constants ==
    /\ None \notin Pids /\ None \notin Clis
    /\ Pids \cap Clis = {}
    /\ MaxTries \in Nat
    /\ \A c \in Clis : CliVersion[c] \in Versions
    /\ Idle \in CliState
    /\ Commands \subseteq CliSteps
  BY OwnershipAssumption DEF Idle, CliState, CliSteps, Commands

LEMMA DaemonType ==
    ASSUME TypeOK, NEW p \in Pids,
           DaemonStep(p) \/ BeginWork(p) \/ EndWork(p) \/ SelfShutdown(p) \/ Crash(p)
              \/ Recycle(p)
    PROVE  TypeOK'
<1> USE Constants DEF TypeOK, Daemon, Starting, Owning
<1>1. CASE ReadStalePid(p)
  BY <1>1 DEF ReadStalePid, Goto, fileVars, boundVars, daemonVars
<1>2. CASE RemoveStalePid(p)
  BY <1>2 DEF RemoveStalePid, Goto, fileVars, boundVars, daemonVars
<1>3. CASE Bind(p)
  BY <1>3 DEF Bind, Goto, fileVars, boundVars, daemonVars
<1>4. CASE Yield(p)
  BY <1>4 DEF Yield, Dies, fileVars, boundVars, daemonVars
<1>5. CASE AcquireRoot(p)
  BY <1>5 DEF AcquireRoot, Goto, fileVars, boundVars, daemonVars
<1>6. CASE RootBusy(p)
  BY <1>6 DEF RootBusy, Dies, fileVars, boundVars, daemonVars
<1>7. CASE WritePid(p)
  BY <1>7 DEF WritePid, Goto, fileVars, boundVars, daemonVars
<1>8. CASE WritePort(p)
  BY <1>8 DEF WritePort, Goto, fileVars, boundVars, daemonVars
<1>9. CASE WriteClaim(p)
  BY <1>9 DEF WriteClaim, Goto, fileVars, boundVars, daemonVars
<1>10. CASE Drained(p)
  BY <1>10 DEF Drained, Goto, fileVars, boundVars, daemonVars
<1>11. CASE DropPid(p)
  BY <1>11 DEF DropPid, Goto, fileVars, boundVars, daemonVars
<1>12. CASE DropPort(p)
  BY <1>12 DEF DropPort, Goto, fileVars, boundVars, daemonVars
<1>13. CASE DropClaimAndExit(p)
  BY <1>13 DEF DropClaimAndExit, Dies, fileVars, boundVars, daemonVars
<1>14. CASE BeginWork(p)
  BY <1>14 DEF BeginWork, fileVars, boundVars, daemonVars
<1>15. CASE EndWork(p)
  BY <1>15 DEF EndWork, fileVars, boundVars, daemonVars
<1>16. CASE SelfShutdown(p)
  BY <1>16 DEF SelfShutdown, Goto, fileVars, boundVars, daemonVars
<1>17. CASE Crash(p)
  BY <1>17 DEF Crash, Dies, fileVars, boundVars, daemonVars
<1>18. CASE Recycle(p)
  BY <1>18 DEF Recycle, Goto, fileVars, boundVars, daemonVars
<1> QED BY <1>1, <1>2, <1>3, <1>4, <1>5, <1>6, <1>7, <1>8, <1>9, <1>10, <1>11,
           <1>12, <1>13, <1>14, <1>15, <1>16, <1>17, <1>18
   DEF DaemonStep

\* The parts of the state that a death and a shutdown change keep their type.
LEMMA DiesType ==
    ASSUME TypeOK, NEW p \in Pids, Dies(p)
    PROVE  /\ proc' \in [Pids -> Daemon \cup {"dead", "other"}]
           /\ ver' \in [Pids -> Versions \cup {None}]
           /\ \A q \in Pids : proc'[q] \in Daemon => ver'[q] \in Versions
           /\ work' \in [Pids -> Nat]
           /\ flag' \in [Pids -> BOOLEAN]
           /\ rootLock' \in Pids \cup Clis \cup {None}
  BY DEF TypeOK, Dies, Daemon, Starting, Owning

LEMMA ShutdownType ==
    ASSUME TypeOK, NEW v, Shutdown(v), UNCHANGED ver
    PROVE  /\ proc' \in [Pids -> Daemon \cup {"dead", "other"}]
           /\ \A q \in Pids : proc'[q] \in Daemon => ver'[q] \in Versions
  BY DEF TypeOK, Shutdown, Daemon, Starting, Owning

\* The record of a command keeps its type.
LEMMA RecordType ==
    ASSUME TypeOK, NEW c \in Clis
    PROVE  /\ \A s \in CliSteps : Step(c, s) => cli' \in [Clis -> CliState]
           /\ Done(c) => /\ cli' \in [Clis -> CliState]
                         /\ spawnLock' \in Clis \cup {None}
           /\ DropSpawnLock(c) => spawnLock' \in Clis \cup {None}
           /\ cli[c] \in CliState
  BY Constants DEF TypeOK, CliState, Step, Done, DropSpawnLock

LEMMA CliType ==
    ASSUME TypeOK, NEW c \in Clis,
           CliStep(c) \/ CliDies(c) \/ \E s \in Commands : Begin(c, s)
    PROVE  TypeOK'
<1>1. CASE Probe(c)
  BY <1>1, Constants
     DEF Probe, Done, DropSpawnLock, Step, TypeOK, CliState, CliSteps,
         fileVars,
         boundVars, daemonVars
<1>2. CASE RestartForUpdate(c)
  <2>1. "elect" \in CliSteps
    BY DEF CliSteps
  <2> QED BY <1>2, <2>1, Constants, ShutdownType, RecordType
        DEF RestartForUpdate, TypeOK, fileVars, boundVars
<1>3. CASE DaemonRestart(c)
  <2>1. "probe" \in CliSteps
    BY DEF CliSteps
  <2> QED BY <1>3, <2>1, Constants, ShutdownType, RecordType
        DEF DaemonRestart, TypeOK, fileVars, boundVars
<1>4. CASE Elect(c)
  BY <1>4, Constants
     DEF Elect, Step, TypeOK, CliState, CliSteps, fileVars, boundVars,
         daemonVars
<1>5. CASE Herd(c)
  BY <1>5, Constants
     DEF Herd, Done, DropSpawnLock, TypeOK, CliState, CliSteps, fileVars,
         boundVars,
         daemonVars
<1>6. CASE Adopt(c)
  BY <1>6, Constants
     DEF Adopt, Done, DropSpawnLock, TypeOK, CliState, CliSteps, fileVars,
         boundVars,
         daemonVars
<1>7. CASE NextTry(c)
  BY <1>7, Constants
     DEF NextTry, Done, DropSpawnLock, TypeOK, CliState, CliSteps, fileVars,
         boundVars,
         daemonVars
<1>8. CASE Stop(c)
  <2>1. PICK s \in CliSteps : Step(c, s)
    BY <1>8 DEF Stop, CliSteps
  <2> QED BY <1>8, <2>1, ShutdownType, RecordType DEF Stop, TypeOK, fileVars,
      boundVars
<1>9. CASE Refused(c)
  BY <1>9, Constants
     DEF Refused, Done, DropSpawnLock, AfterStop, TypeOK, CliState, CliSteps,
         fileVars,
         boundVars, daemonVars
<1>10. CASE StopWait(c)
  BY <1>10, Constants
     DEF StopWait, AfterStop, Done, DropSpawnLock, Step, TypeOK, CliState,
         CliSteps,
         fileVars, boundVars, daemonVars
<1>11. CASE Clear(c)
  BY <1>11, Constants
     DEF Clear, AfterStop, Done, DropSpawnLock, TypeOK, CliState, CliSteps,
         fileVars,
         boundVars, daemonVars
<1>12. CASE Kill(c)
  <2>1. PICK p \in Pids : cli' = [cli EXCEPT ![c].pc = "signal", ![c].aim = p]
    BY <1>12 DEF Kill
  <2>2. [cli[c] EXCEPT !.pc = "signal", !.aim = p] \in CliState
    BY RecordType DEF CliState, CliSteps
  <2>3. cli' \in [Clis -> CliState]
    BY <2>1, <2>2 DEF TypeOK
  <2> QED BY <1>12, <2>3 DEF Kill, TypeOK, daemonVars, fileVars, boundVars
<1>13. CASE KillFindsNone(c)
  BY <1>13, Constants
     DEF KillFindsNone, Done, DropSpawnLock, TypeOK, CliState, CliSteps,
         fileVars,
         boundVars, daemonVars
<1>14. CASE Signal(c)
  <2>1. CASE Alive(cli[c].aim)
    BY <1>14, <2>1, DiesType, RecordType DEF Signal, Alive, TypeOK, boundVars
  <2>2. CASE ~Alive(cli[c].aim)
    BY <1>14, <2>2, RecordType DEF Signal, TypeOK, daemonVars, boundVars
  <2> QED BY <2>1, <2>2
<1>15. CASE KillAll(c)
  BY <1>15, Constants
     DEF KillAll, Done, DropSpawnLock, TypeOK, CliState, CliSteps, fileVars,
         boundVars,
         daemonVars
<1>16. CASE KilledAll(c)
  BY <1>16, Constants
     DEF KilledAll, Done, DropSpawnLock, TypeOK, CliState, CliSteps, fileVars,
         boundVars, daemonVars
<1>17. CASE ResetLock(c)
  BY <1>17, Constants
     DEF ResetLock, Step, TypeOK, CliState, CliSteps, fileVars, boundVars,
         daemonVars
<1>18. CASE ReadRecords(c)
  <2>1. [cli[c] EXCEPT !.pc = "sweepPids", !.targets = {claim,
      pidFile} \cap Pids]
           \in CliState
    BY RecordType DEF CliState, CliSteps
  <2>2. cli' \in [Clis -> CliState]
    BY <1>18, <2>1 DEF ReadRecords, TypeOK
  <2> QED BY <1>18, <2>2 DEF ReadRecords, TypeOK, daemonVars, fileVars,
      boundVars
<1>19. CASE KillWait(c)
  BY <1>19, Constants
     DEF KillWait, Step, TypeOK, CliState, CliSteps, fileVars, boundVars,
         daemonVars
<1>20. CASE ForceKill(c)
  <2>1. "sweepPids" \in CliSteps
    BY DEF CliSteps
  <2>2. CASE Alive(cli[c].aim)
    BY <1>20, <2>1, <2>2, DiesType, RecordType
       DEF ForceKill, Alive, TypeOK, fileVars, boundVars
  <2>3. CASE ~Alive(cli[c].aim)
    BY <1>20, <2>1, <2>3, RecordType
       DEF ForceKill, TypeOK, daemonVars, fileVars, boundVars
  <2> QED BY <2>2, <2>3
<1>21. CASE Swept(c)
  BY <1>21, Constants
     DEF Swept, Step, TypeOK, CliState, CliSteps, fileVars, boundVars,
         daemonVars
<1>22. CASE OwnRoot(c)
  BY <1>22, Constants
     DEF OwnRoot, Step, TypeOK, CliState, CliSteps, fileVars, boundVars,
         daemonVars
<1>23. CASE OwnRootTimeout(c)
  BY <1>23, Constants
     DEF OwnRootTimeout, Step, DropSpawnLock, TypeOK, CliState, CliSteps,
         fileVars,
         boundVars, daemonVars
<1>24. CASE Delete(c)
  BY <1>24, Constants
     DEF Delete, Step, DropSpawnLock, TypeOK, CliState, CliSteps, fileVars,
         boundVars,
         daemonVars
<1>25. CASE CliDies(c)
  BY <1>25, Constants
     DEF CliDies, Done, DropSpawnLock, TypeOK, CliState, CliSteps, fileVars,
         boundVars,
         daemonVars
<1>26. CASE \E p \in Pids : Spawn(c, p)
  BY <1>26, Constants
     DEF Spawn, Step, TypeOK, CliState, CliSteps, Daemon, Starting, Owning,
         fileVars
<1>27. CASE \E p \in Pids : SignalOne(c, p)
  <2>1. PICK p \in Pids : SignalOne(c, p)
    BY <1>27
  <2>2. cli' \in [Clis -> CliState]
    BY <2>1 DEF SignalOne, TypeOK, CliState
  <2>3. CASE Alive(p)
    BY <2>1, <2>2, <2>3, DiesType DEF SignalOne, TypeOK, fileVars, boundVars
  <2>4. CASE ~Alive(p)
    BY <2>1, <2>2, <2>4 DEF SignalOne, TypeOK, daemonVars, fileVars, boundVars
  <2> QED BY <2>3, <2>4
<1>28. CASE \E p \in Pids : Verify(c, p)
  BY <1>28, Constants
     DEF Verify, TypeOK, CliState, CliSteps, fileVars, boundVars, daemonVars
<1>29. CASE \E v \in Versions : SweepPort(c, v)
  <2>1. PICK v \in Versions : SweepPort(c, v)
    BY <1>29
  <2>2. cli' \in [Clis -> CliState]
    BY <2>1 DEF SweepPort, TypeOK, CliState, CliSteps
  <2> QED BY <2>1, <2>2, ShutdownType, RecordType
     DEF SweepPort, TypeOK, fileVars, boundVars
<1>30. CASE \E s \in Commands : Begin(c, s)
  <2>1. PICK s \in CliSteps : Begin(c, s)
    BY <1>30, Constants
  <2>2. [cli[c] EXCEPT !.pc = s, !.reset = (s = "resetLock")] \in CliState
    BY RecordType DEF CliState
  <2>3. cli' = [cli EXCEPT ![c] = [@ EXCEPT !.pc = s,
      !.reset = (s = "resetLock")]]
    BY <2>1, Zenon DEF Begin
  <2>4. cli' \in [Clis -> CliState]
    BY <2>2, <2>3 DEF TypeOK
  <2>5. /\ commands' = commands + 1
        /\ UNCHANGED <<daemonVars, rootLock, spawnLock, fileVars, spawns,
            faults>>
    BY <2>1, Zenon DEF Begin
  <2> QED BY <2>4, <2>5 DEF TypeOK, daemonVars, fileVars
<1> QED BY <1>1, <1>2, <1>3, <1>4, <1>5, <1>6, <1>7, <1>8, <1>9, <1>10, <1>11,
    <1>12,
           <1>13, <1>14, <1>15, <1>16, <1>17, <1>18, <1>19, <1>20, <1>21,
           <1>22, <1>23, <1>24, <1>25, <1>26, <1>27, <1>28, <1>29,
               <1>30 DEF CliStep

\* The type invariant holds in every behaviour.
THEOREM TypeCorrect == Spec => []TypeOK
<1>1. Init => TypeOK
  BY Constants DEF Init, TypeOK, Daemon, Starting, Owning
<1>2. TypeOK /\ [Next]_vars => TypeOK'
  <2> SUFFICES ASSUME TypeOK, [Next]_vars PROVE TypeOK'
    OBVIOUS
  <2>1. CASE UNCHANGED vars
    BY <2>1 DEF TypeOK, vars, daemonVars, fileVars, boundVars
  <2> QED BY <2>1, DaemonType, CliType DEF Next
<1> QED BY <1>1, <1>2, PTL DEF Spec

------------------------------------------------------------------------------
(* Exclusive ownership.  A process that touches the cache holds the lock:  *)
(* a daemon from the poll that found the lock free until it has died, a    *)
(* reset from its own poll until it drops the guard.                       *)

HoldsLock ==
    /\ \A p \in Pids : proc[p] \in Owning => rootLock = p
    /\ \A c \in Clis : cli[c].pc = "delete" => rootLock = c

Inv == TypeOK /\ HoldsLock

\* While the lock is free nobody touches the cache, and only its holder does.
LEMMA OnlyHolder ==
    ASSUME Inv
    PROVE  /\ CacheUsers \subseteq {rootLock}
           /\ rootLock = None => CacheUsers = {}
  BY Constants DEF Inv, HoldsLock, CacheUsers

\* What a step does to the users, in terms of the abstract specification.
Abstract == Root!Next \/ UNCHANGED CacheUsers

SameDaemons == \A p \in Pids : proc'[p] \in Owning <=> proc[p] \in Owning
SameResets == \A c \in Clis : cli'[c].pc = "delete" <=> cli[c].pc = "delete"

\* Steps that change no user leave the invariant and the users alone.
LEMMA NoUserMoves ==
    ASSUME Inv, SameDaemons, SameResets, UNCHANGED rootLock
    PROVE  HoldsLock' /\ Abstract
<1>1. HoldsLock'
  BY DEF Inv, HoldsLock, SameDaemons, SameResets
<1>2. UNCHANGED CacheUsers
  BY DEF CacheUsers, SameDaemons, SameResets
<1> QED BY <1>1, <1>2 DEF Abstract

\* A process that dies leaves the root, if it was its user.
LEMMA DeathLeaves ==
    ASSUME Inv, NEW p \in Pids, Dies(p), SameResets
    PROVE  HoldsLock' /\ Abstract
<1>1. /\ \A q \in Pids : proc'[q] \in Owning <=> proc[q] \in Owning /\ q # p
      /\ rootLock' = IF rootLock = p THEN None ELSE rootLock
  BY DEF Inv, TypeOK, Dies, Owning
<1>2. HoldsLock'
  BY <1>1, Constants DEF Inv, HoldsLock, SameResets
<1>3. CacheUsers' = CacheUsers \ {p}
  BY <1>1, Constants DEF CacheUsers, SameResets
<1>4. Abstract
  BY <1>3 DEF Abstract, Root!Next, Root!Leave
<1> QED BY <1>2, <1>4

LEMMA DaemonOwns ==
    ASSUME Inv, NEW p \in Pids,
           DaemonStep(p) \/ BeginWork(p) \/ EndWork(p) \/ SelfShutdown(p) \/ Crash(p)
              \/ Recycle(p)
    PROVE  HoldsLock' /\ Abstract
<1>1. CASE ReadStalePid(p) \/ RemoveStalePid(p) \/ Bind(p) \/ WritePid(p) \/
           WritePort(p) \/ WriteClaim(p) \/ Drained(p) \/ DropPid(p) \/
           DropPort(p) \/ BeginWork(p) \/ EndWork(p) \/ SelfShutdown(p) \/
           Recycle(p)
  <2>1. SameDaemons
    <3>1. CASE ReadStalePid(p)
      BY <3>1 DEF ReadStalePid, Goto, Inv, TypeOK, SameDaemons, Owning
    <3>2. CASE RemoveStalePid(p)
      BY <3>2 DEF RemoveStalePid, Goto, Inv, TypeOK, SameDaemons, Owning
    <3>3. CASE Bind(p)
      BY <3>3 DEF Bind, Goto, Inv, TypeOK, SameDaemons, Owning
    <3>4. CASE WritePid(p)
      BY <3>4 DEF WritePid, Goto, Inv, TypeOK, SameDaemons, Owning
    <3>5. CASE WritePort(p)
      BY <3>5 DEF WritePort, Goto, Inv, TypeOK, SameDaemons, Owning
    <3>6. CASE WriteClaim(p)
      BY <3>6 DEF WriteClaim, Goto, Inv, TypeOK, SameDaemons, Owning
    <3>7. CASE Drained(p)
      BY <3>7 DEF Drained, Goto, Inv, TypeOK, SameDaemons, Owning
    <3>8. CASE DropPid(p)
      BY <3>8 DEF DropPid, Goto, Inv, TypeOK, SameDaemons, Owning
    <3>9. CASE DropPort(p)
      BY <3>9 DEF DropPort, Goto, Inv, TypeOK, SameDaemons, Owning
    <3>10. CASE BeginWork(p)
      BY <3>10 DEF BeginWork, Inv, TypeOK, SameDaemons, Owning
    <3>11. CASE EndWork(p)
      BY <3>11 DEF EndWork, Inv, TypeOK, SameDaemons, Owning
    <3>12. CASE SelfShutdown(p)
      BY <3>12 DEF SelfShutdown, Goto, Inv, TypeOK, SameDaemons, Owning
    <3>13. CASE Recycle(p)
      BY <3>13 DEF Recycle, Goto, Inv, TypeOK, SameDaemons, Owning
    <3> QED BY <1>1, <3>1, <3>2, <3>3, <3>4, <3>5, <3>6, <3>7, <3>8, <3>9,
        <3>10, <3>11,
               <3>12, <3>13
  <2>2. SameResets /\ UNCHANGED rootLock
    BY <1>1 DEF ReadStalePid, RemoveStalePid, Bind, WritePid, WritePort,
        WriteClaim,
              Drained, DropPid, DropPort, BeginWork, EndWork,
              SelfShutdown, Recycle, SameResets
  <2> QED BY <2>1, <2>2, NoUserMoves
<1>2. CASE Yield(p) \/ RootBusy(p) \/ DropClaimAndExit(p) \/ Crash(p)
  <2>1. Dies(p) /\ SameResets
    BY <1>2 DEF Yield, RootBusy, DropClaimAndExit, Crash, SameResets
  <2> QED BY <2>1, DeathLeaves
<1>3. CASE AcquireRoot(p)
  <2>1. /\ rootLock = None /\ rootLock' = p
        /\ \A q \in Pids : proc'[q] \in Owning <=> proc[q] \in Owning \/ q = p
        /\ SameResets
    BY <1>3 DEF AcquireRoot, Goto, Inv, TypeOK, Owning, SameResets
  <2>2. CacheUsers = {}
    BY <2>1, OnlyHolder
  <2>3. CacheUsers' = {p}
    BY <2>1, <2>2 DEF CacheUsers, SameResets
  <2>4. HoldsLock'
    BY <2>1, <2>2 DEF HoldsLock, CacheUsers, SameResets
  <2>5. Root!Enter(p)
    BY <2>2, <2>3 DEF Root!Enter
  <2> QED BY <2>4, <2>5 DEF Abstract, Root!Next
<1> QED BY <1>1, <1>2, <1>3 DEF DaemonStep

\* The commands other than the reset's last steps and an interrupted command
\* neither start nor end a deletion.
LEMMA ResetsStay ==
    ASSUME Inv, NEW c \in Clis,
           Probe(c) \/ RestartForUpdate(c) \/ DaemonRestart(c) \/ Elect(c) \/ Herd(c)
              \/ Adopt(c) \/ NextTry(c) \/ Stop(c) \/ Refused(c) \/
              StopWait(c) \/ Clear(c) \/ Kill(c) \/ KillFindsNone(c) \/
              Signal(c) \/ KillAll(c) \/ KilledAll(c) \/ ResetLock(c) \/
              ReadRecords(c) \/ KillWait(c) \/ ForceKill(c) \/ Swept(c) \/
              OwnRootTimeout(c) \/ (\E p \in Pids : Spawn(c, p) \/
              SignalOne(c, p) \/ Verify(c, p)) \/ (\E v \in Versions :
              SweepPort(c, v)) \/ (\E s \in Commands : Begin(c, s))
    PROVE  SameResets
<1>1. CASE Probe(c)
  BY <1>1 DEF Probe, Done, Step, Idle, Inv, TypeOK, CliState, SameResets
<1>2. CASE RestartForUpdate(c)
  BY <1>2 DEF RestartForUpdate, Step, Inv, TypeOK, CliState, SameResets
<1>3. CASE DaemonRestart(c)
  BY <1>3 DEF DaemonRestart, Done, Step, Idle, Inv, TypeOK, CliState,
      SameResets
<1>4. CASE Elect(c)
  BY <1>4 DEF Elect, Step, Inv, TypeOK, CliState, SameResets
<1>5. CASE Herd(c)
  BY <1>5 DEF Herd, Done, Idle, Inv, TypeOK, CliState, SameResets
<1>6. CASE Adopt(c)
  BY <1>6 DEF Adopt, Done, Idle, Inv, TypeOK, CliState, SameResets
<1>7. CASE NextTry(c)
  BY <1>7 DEF NextTry, Done, Idle, Inv, TypeOK, CliState, SameResets
<1>8. CASE Stop(c)
  BY <1>8 DEF Stop, Step, Inv, TypeOK, CliState, SameResets
<1>9. CASE Refused(c)
  BY <1>9 DEF Refused, Done, AfterStop, Idle, Inv, TypeOK, CliState, SameResets
<1>10. CASE StopWait(c)
  BY <1>10 DEF StopWait, AfterStop, Done, Step, Idle, Inv, TypeOK, CliState,
      SameResets
<1>11. CASE Clear(c)
  BY <1>11 DEF Clear, AfterStop, Done, Idle, Inv, TypeOK, CliState, SameResets
<1>12. CASE Kill(c)
  BY <1>12 DEF Kill, Inv, TypeOK, CliState, SameResets
<1>13. CASE KillFindsNone(c)
  BY <1>13 DEF KillFindsNone, Done, Idle, Inv, TypeOK, CliState, SameResets
<1>14. CASE Signal(c)
  BY <1>14 DEF Signal, Done, Idle, Inv, TypeOK, CliState, SameResets
<1>15. CASE KillAll(c)
  BY <1>15 DEF KillAll, Done, Idle, Inv, TypeOK, CliState, SameResets
<1>16. CASE KilledAll(c)
  BY <1>16 DEF KilledAll, Done, Idle, Inv, TypeOK, CliState, SameResets
<1>17. CASE ResetLock(c)
  BY <1>17 DEF ResetLock, Step, Inv, TypeOK, CliState, SameResets
<1>18. CASE ReadRecords(c)
  BY <1>18 DEF ReadRecords, Inv, TypeOK, CliState, SameResets
<1>19. CASE KillWait(c)
  BY <1>19 DEF KillWait, Step, Inv, TypeOK, CliState, SameResets
<1>20. CASE ForceKill(c)
  BY <1>20 DEF ForceKill, Step, Inv, TypeOK, CliState, SameResets
<1>21. CASE Swept(c)
  BY <1>21 DEF Swept, Step, Inv, TypeOK, CliState, SameResets
<1>22. CASE OwnRootTimeout(c)
  BY <1>22 DEF OwnRootTimeout, Step, Inv, TypeOK, CliState, SameResets
<1>23. CASE \E p \in Pids : Spawn(c, p) \/ SignalOne(c, p) \/ Verify(c, p)
  <2>1. CASE \E p \in Pids : Spawn(c, p)
    BY <2>1 DEF Spawn, Step, Inv, TypeOK, CliState, SameResets
  <2>2. CASE \E p \in Pids : SignalOne(c, p)
    BY <2>2 DEF SignalOne, Inv, TypeOK, CliState, SameResets
  <2>3. CASE \E p \in Pids : Verify(c, p)
    <3>1. PICK p \in Pids : Verify(c, p)
      BY <2>3
    <3>2. CASE IsDaemon(p)
      BY <3>1, <3>2 DEF Verify, Inv, TypeOK, CliState, SameResets
    <3>3. CASE ~IsDaemon(p)
      BY <3>1, <3>3 DEF Verify, Inv, TypeOK, CliState, SameResets
    <3> QED BY <3>2, <3>3
  <2> QED BY <1>23, <2>1, <2>2, <2>3
<1>24. CASE \E v \in Versions : SweepPort(c, v)
  BY <1>24 DEF SweepPort, Inv, TypeOK, CliState, SameResets
<1>25. CASE \E s \in Commands : Begin(c, s)
  <2>1. PICK s \in Commands : Begin(c, s)
    BY <1>25
  <2>2. cli' = [cli EXCEPT ![c] = [@ EXCEPT !.pc = s,
      !.reset = (s = "resetLock")]]
    BY <2>1, Zenon DEF Begin
  <2>3. cli[c].pc = "idle" /\ s # "delete"
    BY <2>1 DEF Begin, Commands
  <2> QED BY <2>2, <2>3 DEF Inv, TypeOK, CliState, SameResets
<1> QED BY <1>1, <1>2, <1>3, <1>4, <1>5, <1>6, <1>7, <1>8, <1>9, <1>10, <1>11,
    <1>12,
           <1>13, <1>14, <1>15, <1>16, <1>17, <1>18, <1>19, <1>20, <1>21,
           <1>22, <1>23, <1>24, <1>25

LEMMA CliOwns ==
    ASSUME Inv, NEW c \in Clis,
           CliStep(c) \/ CliDies(c) \/ \E s \in Commands : Begin(c, s)
    PROVE  HoldsLock' /\ Abstract
<1>1. CASE \/ Probe(c) \/ Elect(c) \/ Herd(c) \/ Adopt(c) \/ NextTry(c) \/ Refused(c)
              \/ StopWait(c) \/ Clear(c) \/ Kill(c) \/ KillFindsNone(c)
              \/ KillAll(c) \/ KilledAll(c) \/ ResetLock(c) \/
              ReadRecords(c) \/ KillWait(c) \/ Swept(c) \/
              OwnRootTimeout(c)
           \/ \E p \in Pids : Spawn(c, p) \/ Verify(c, p)
  <2>1. SameDaemons /\ UNCHANGED rootLock
    BY <1>1 DEF Probe, Elect, Herd, Adopt, NextTry, Refused, StopWait, Clear,
        Kill,
              KillFindsNone, KillAll, KilledAll, ResetLock, ReadRecords,
              KillWait, Swept, OwnRootTimeout, Spawn, Verify, daemonVars,
              Owning, Inv, TypeOK, SameDaemons
  <2>2. SameResets
    BY <1>1, ResetsStay
  <2> QED BY <2>1, <2>2, NoUserMoves
<1>2. CASE \/ RestartForUpdate(c) \/ DaemonRestart(c) \/ Stop(c)
           \/ \E v \in Versions : SweepPort(c, v)
  <2>1. SameDaemons /\ UNCHANGED rootLock
    BY <1>2 DEF RestartForUpdate, DaemonRestart, Stop, SweepPort, Shutdown,
        Owning, Inv,
              TypeOK, SameDaemons
  <2>2. SameResets
    BY <1>2, ResetsStay
  <2> QED BY <2>1, <2>2, NoUserMoves
<1>3. CASE Signal(c) \/ ForceKill(c) \/ \E p \in Pids : SignalOne(c, p)
  <2>1. SameResets
    BY <1>3, ResetsStay
  <2>2. CASE \E p \in Pids : Dies(p)
    BY <2>1, <2>2, DeathLeaves
  <2>3. CASE UNCHANGED <<daemonVars, rootLock>>
    BY <2>1, <2>3, NoUserMoves DEF SameDaemons, daemonVars
  <2> QED BY <1>3, <2>2, <2>3 DEF Signal, ForceKill, SignalOne, Alive
<1>4. CASE \E s \in Commands : Begin(c, s)
  <2>1. PICK s \in Commands : Begin(c, s)
    BY <1>4
  <2>2. SameDaemons /\ UNCHANGED rootLock
    BY <2>1, Zenon DEF Begin, daemonVars, SameDaemons
  <2>3. SameResets
    BY <1>4, ResetsStay
  <2> QED BY <2>2, <2>3, NoUserMoves
<1>5. CASE OwnRoot(c)
  <2>1. /\ rootLock = None /\ rootLock' = c
        /\ \A d \in Clis : cli'[d].pc = "delete" <=> cli[d].pc = "delete" \/ d = c
        /\ SameDaemons
    BY <1>5 DEF OwnRoot, Step, Inv, TypeOK, CliState, daemonVars, SameDaemons
  <2>2. CacheUsers = {}
    BY <2>1, OnlyHolder
  <2>3. CacheUsers' = {c}
    BY <2>1, <2>2 DEF CacheUsers, SameDaemons
  <2>4. HoldsLock'
    BY <2>1, <2>2 DEF HoldsLock, CacheUsers, SameDaemons
  <2>5. Root!Enter(c)
    BY <2>2, <2>3 DEF Root!Enter
  <2> QED BY <2>4, <2>5 DEF Abstract, Root!Next
<1>6. CASE Delete(c) \/ CliDies(c)
  <2>1. /\ \A d \in Clis : cli'[d].pc = "delete" <=> cli[d].pc = "delete" /\ d # c
        /\ rootLock' = IF rootLock = c THEN None ELSE rootLock
        /\ SameDaemons
    BY <1>6 DEF Delete, CliDies, Done, Idle, Step, Inv, TypeOK, CliState,
        daemonVars,
                SameDaemons
  <2>2. HoldsLock'
    BY <2>1, Constants DEF Inv, HoldsLock, SameDaemons
  <2>3. CacheUsers' = CacheUsers \ {c}
    BY <2>1, Constants DEF CacheUsers, SameDaemons
  <2>4. Abstract
    BY <2>3 DEF Abstract, Root!Next, Root!Leave
  <2> QED BY <2>2, <2>4
<1> QED BY <1>1, <1>2, <1>3, <1>4, <1>5, <1>6 DEF CliStep

\* The inductive invariant, and each step's image under the mapping.
LEMMA StepAbstract == Inv /\ [Next]_vars => HoldsLock' /\ Abstract
<1> SUFFICES ASSUME Inv, [Next]_vars PROVE HoldsLock' /\ Abstract
  OBVIOUS
<1>1. CASE UNCHANGED vars
  <2>1. SameDaemons /\ SameResets /\ UNCHANGED rootLock
    BY <1>1 DEF vars, daemonVars, SameDaemons, SameResets
  <2> QED BY <2>1, NoUserMoves
<1> QED BY <1>1, DaemonOwns, CliOwns DEF Next

\* The daemons and the commands of any number of versions implement an
\* exclusive cache root: one user at a time, under every interleaving of
\* starts, stops, kills, crashes and resets.
THEOREM RootIsExclusive == Spec => CacheRootIsExclusive
<1>1. Init => Inv /\ Root!Init
  <2> SUFFICES ASSUME Init PROVE Inv /\ Root!Init
    OBVIOUS
  <2>1. TypeOK
    BY Constants DEF Init, TypeOK, Daemon, Starting, Owning
  <2>2. CacheUsers = {} /\ HoldsLock
    BY DEF Init, Idle, CacheUsers, HoldsLock, Owning
  <2> QED BY <2>1, <2>2 DEF Inv, Root!Init
<1>2. TypeOK' /\ Inv /\ [Next]_vars => Inv' /\ [Root!Next]_CacheUsers
  BY StepAbstract DEF Inv, Abstract
<1> QED BY <1>1, <1>2, TypeCorrect, PTL DEF Spec, CacheRootIsExclusive,
    Root!Spec

==============================================================================
