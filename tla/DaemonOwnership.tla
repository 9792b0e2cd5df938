--------------------------- MODULE DaemonOwnership ---------------------------
(***************************************************************************)
(* Who owns a cache root: the start and the end of fbuild-daemon processes *)
(* (fbuild-daemon/src/main.rs), the commands that start, stop and kill     *)
(* them (fbuild-cli/src/daemon_client.rs, cli/daemon_cmd.rs) and the       *)
(* compiler-cache reset (cli/clean.rs), with the two file locks and the    *)
(* records of fbuild-paths/src/daemon_ownership.rs between them.           *)
(*                                                                         *)
(* All processes share one daemon directory.  A process is its process id: *)
(* an id whose process has died may be given to a new daemon or to an      *)
(* unrelated program.  A daemon's endpoint is keyed by its version, the    *)
(* pid file and the owner claim are not.  A process can be killed at any   *)
(* step, and the operating system then releases its locks.  Every timeout  *)
(* may expire at any moment, since the steps of the others take any time.  *)
(*                                                                         *)
(* Not modelled: the running-process broker (the code falls back to the    *)
(* direct path modelled here) and daemon_status.json, which no code of     *)
(* this version writes.                                                    *)
(***************************************************************************)
EXTENDS Naturals, FiniteSets

CONSTANTS
    Pids,          \* process ids a daemon or an unrelated program may get
    Clis,          \* running `fbuild` commands
    Versions,      \* versions of fbuild installed side by side
    CliVersion,    \* the version of each command
    None,          \* no process, no version
    MaxSpawns,     \* bound: daemons spawned in a behaviour
    MaxCommands,   \* bound: commands run in a behaviour
    MaxTries,      \* spawn attempts of one command (three in the code)
    MaxFaults,     \* bound: processes that die or ids that are recycled
    MaxWork        \* bound: operations that overlap in one daemon

ASSUME OwnershipAssumption ==
    /\ CliVersion \in [Clis -> Versions]
    /\ Pids \cap Clis = {}
    /\ MaxTries \in Nat
    /\ None \notin Pids \cup Clis \cup Versions

VARIABLES
    proc,       \* what runs under each process id
    ver,        \* its version, if it is a daemon
    work,       \* operations in progress in a daemon
    flag,       \* operation_in_progress of a daemon
    rootLock,   \* holder of root-owner.lock
    spawnLock,  \* holder of spawn.lock
    pidFile,    \* the process named by fbuild_daemon.pid
    portFile,   \* the versions whose daemon-<key>.port file exists
    claim,      \* the process named by root-owner.json
    cli,        \* each command: what it does next, and its local variables
    spawns, commands, faults   \* what has been used of the bounds

daemonVars == <<proc, ver, work, flag>>
fileVars == <<pidFile, portFile, claim>>
boundVars == <<spawns, commands, faults>>
vars == <<daemonVars, rootLock, spawnLock, fileVars, cli, boundVars>>

\* A daemon's stages, named after what it does next (main.rs, in order).
Starting == {"boot", "unstale", "bind", "own"}
Owning == {"writePid", "writePort", "writeClaim", "serving", "draining",
           "dropPid", "dropPort", "dropClaim"}
Listening == {"own", "writePid", "writePort", "writeClaim", "serving"}
Daemon == Starting \cup Owning

CliSteps == {"idle", "probe", "restart", "elect", "herd", "spawn", "poll",
             "daemonRestart", "stop", "stopWait", "refused", "clear", "kill",
             "signal", "killAll", "signalAll", "resetLock", "sweepPorts",
             "sweepPids", "killWait", "force", "ownRoot", "delete"}

\* A command that is not running.  reset: it is a cache reset; tries: spawn
\* attempts; ports: endpoints its sweep has yet to ask; targets: processes it
\* has yet to signal; aim: the one it signals next.
Idle == [pc |-> "idle", reset |-> FALSE, tries |-> 0, ports |-> {}, targets |-> {},
         aim |-> None]

Init ==
    /\ proc = [p \in Pids |-> "dead"]
    /\ ver = [p \in Pids |-> None]
    /\ work = [p \in Pids |-> 0]
    /\ flag = [p \in Pids |-> FALSE]
    /\ rootLock = None /\ spawnLock = None
    /\ pidFile = None /\ portFile = {} /\ claim = None
    /\ cli = [c \in Clis |-> Idle]
    /\ spawns = 0 /\ commands = 0 /\ faults = 0

------------------------------------------------------------------------------
(* The processes *)

\* pid_is_alive: some process runs under the id.
Alive(p) == p \in Pids /\ proc[p] # "dead"

\* pid_exe_stem_matches: the process is an fbuild-daemon.
IsDaemon(p) == p \in Pids /\ proc[p] \in Daemon

\* GET /health of a version's endpoint is answered: the server accepts.
Healthy(v) == \E p \in Pids : proc[p] = "serving" /\ ver[p] = v

Goto(p, s) == proc' = [proc EXCEPT ![p] = s]

\* The process under an id is gone; the system releases its lock.
Dies(p) ==
    /\ proc' = [proc EXCEPT ![p] = "dead"]
    /\ work' = [work EXCEPT ![p] = 0]
    /\ flag' = [flag EXCEPT ![p] = FALSE]
    /\ rootLock' = IF rootLock = p THEN None ELSE rootLock
    /\ ver' = [ver EXCEPT ![p] = None]

------------------------------------------------------------------------------
(* A daemon's life: main.rs *)

\* A pid file that names a dead process is found ...
ReadStalePid(p) ==
    /\ proc[p] = "boot"
    /\ Goto(p, IF pidFile # None /\ ~Alive(pidFile) THEN "unstale" ELSE "bind")
    /\ UNCHANGED <<ver, work, flag, rootLock, spawnLock, fileVars, cli, boundVars>>

\* ... and removed, whatever it names by then.
RemoveStalePid(p) ==
    /\ proc[p] = "unstale"
    /\ Goto(p, "bind")
    /\ pidFile' = None
    /\ UNCHANGED <<ver, work, flag, rootLock, spawnLock, portFile, claim, cli,
                   boundVars>>

\* bind_listener_with_retry: one listener per endpoint, and a daemon that
\* finds another one listening yields.
Bind(p) ==
    /\ proc[p] = "bind"
    /\ ~\E q \in Pids : proc[q] \in Listening /\ ver[q] = ver[p]
    /\ Goto(p, "own")
    /\ UNCHANGED <<ver, work, flag, rootLock, spawnLock, fileVars, cli, boundVars>>

Yield(p) ==
    /\ proc[p] = "bind"
    /\ \E q \in Pids : proc[q] \in Listening /\ ver[q] = ver[p]
    /\ Dies(p)
    /\ UNCHANGED <<spawnLock, fileVars, cli, boundVars>>

\* The poll for root ownership succeeds, or its ten seconds are over.
AcquireRoot(p) ==
    /\ proc[p] = "own"
    /\ rootLock = None
    /\ rootLock' = p
    /\ Goto(p, "writePid")
    /\ UNCHANGED <<ver, work, flag, spawnLock, fileVars, cli, boundVars>>

\* Mutant: the daemon comes up without the lock when its poll times out.
RootBusyIsIgnored(p) ==
    /\ proc[p] = "own"
    /\ rootLock # None
    /\ Goto(p, "writePid")
    /\ UNCHANGED <<ver, work, flag, rootLock, spawnLock, fileVars, cli, boundVars>>

RootBusy(p) ==
    /\ proc[p] = "own"
    /\ rootLock # None
    /\ Dies(p)
    /\ UNCHANGED <<spawnLock, fileVars, cli, boundVars>>

\* The backend runs; the records are written, the claim last.
WritePid(p) ==
    /\ proc[p] = "writePid"
    /\ pidFile' = p
    /\ Goto(p, "writePort")
    /\ UNCHANGED <<ver, work, flag, rootLock, spawnLock, portFile, claim, cli,
                   boundVars>>

WritePort(p) ==
    /\ proc[p] = "writePort"
    /\ portFile' = portFile \cup {ver[p]}
    /\ Goto(p, "writeClaim")
    /\ UNCHANGED <<ver, work, flag, rootLock, spawnLock, pidFile, claim, cli,
                   boundVars>>

\* A claim that cannot be written is only logged.
WriteClaim(p) ==
    /\ proc[p] = "writeClaim"
    /\ claim' \in {claim, p}
    /\ Goto(p, "serving")
    /\ UNCHANGED <<ver, work, flag, rootLock, spawnLock, pidFile, portFile, cli,
                   boundVars>>

\* OperationGuard: begins and ends of operations share one flag.
BeginWork(p) ==
    /\ proc[p] = "serving"
    /\ work[p] < MaxWork
    /\ work' = [work EXCEPT ![p] = @ + 1]
    /\ flag' = [flag EXCEPT ![p] = TRUE]
    /\ UNCHANGED <<proc, ver, rootLock, spawnLock, fileVars, cli, boundVars>>

EndWork(p) ==
    /\ work[p] > 0
    /\ work' = [work EXCEPT ![p] = @ - 1]
    /\ flag' = [flag EXCEPT ![p] = FALSE]
    /\ UNCHANGED <<proc, ver, rootLock, spawnLock, fileVars, cli, boundVars>>

\* The 12 h idle timeout does not look at the operation flag.  Self-eviction and
\* Ctrl+C do, and so add no behaviour to it.
SelfShutdown(p) ==
    /\ proc[p] = "serving"
    /\ Goto(p, "draining")
    /\ UNCHANGED <<ver, work, flag, rootLock, spawnLock, fileVars, cli, boundVars>>

\* The server returns once the requests in flight are answered.
Drained(p) ==
    /\ proc[p] = "draining"
    /\ work[p] = 0
    /\ Goto(p, "dropPid")
    /\ UNCHANGED <<ver, work, flag, rootLock, spawnLock, fileVars, cli, boundVars>>

DropPid(p) ==
    /\ proc[p] = "dropPid"
    /\ pidFile' = None
    /\ Goto(p, "dropPort")
    /\ UNCHANGED <<ver, work, flag, rootLock, spawnLock, portFile, claim, cli,
                   boundVars>>

DropPort(p) ==
    /\ proc[p] = "dropPort"
    /\ portFile' = portFile \ {ver[p]}
    /\ Goto(p, "dropClaim")
    /\ UNCHANGED <<ver, work, flag, rootLock, spawnLock, pidFile, claim, cli,
                   boundVars>>

\* remove_owner_claim, then exit: the lock goes with the process.
DropClaimAndExit(p) ==
    /\ proc[p] = "dropClaim"
    /\ claim' = None
    /\ Dies(p)
    /\ UNCHANGED <<spawnLock, pidFile, portFile, cli, boundVars>>

\* A crash, SIGKILL or power loss of the process.
Crash(p) ==
    /\ IsDaemon(p)
    /\ faults < MaxFaults
    /\ faults' = faults + 1
    /\ Dies(p)
    /\ UNCHANGED <<spawnLock, fileVars, cli, spawns, commands>>

\* The id of a dead process is given to an unrelated program.
Recycle(p) ==
    /\ proc[p] = "dead"
    /\ faults < MaxFaults
    /\ faults' = faults + 1
    /\ Goto(p, "other")
    /\ UNCHANGED <<ver, work, flag, rootLock, spawnLock, fileVars, cli, spawns,
                   commands>>

DaemonStep(p) ==
    \/ ReadStalePid(p) \/ RemoveStalePid(p) \/ Bind(p) \/ Yield(p)
    \/ AcquireRoot(p) \/ RootBusy(p) \/ WritePid(p) \/ WritePort(p) \/ WriteClaim(p)
    \/ Drained(p) \/ DropPid(p) \/ DropPort(p) \/ DropClaimAndExit(p)

------------------------------------------------------------------------------
(* The commands: daemon_client.rs and daemon_cmd.rs *)

Step(c, s) == cli' = [cli EXCEPT ![c].pc = s]

\* The guard of spawn.lock is dropped, if the command has it.
DropSpawnLock(c) == spawnLock' = IF spawnLock = c THEN None ELSE spawnLock

\* The command returns.
Done(c) == cli' = [cli EXCEPT ![c] = Idle] /\ DropSpawnLock(c)

\* POST /api/daemon/shutdown without force, at an endpoint that serves.
Accepts(v) == \E p \in Pids : proc[p] = "serving" /\ ver[p] = v /\ ~flag[p]
Refuses(v) == \E p \in Pids : proc[p] = "serving" /\ ver[p] = v /\ flag[p]
Shutdown(v) ==
    proc' = [p \in Pids |-> IF proc[p] = "serving" /\ ver[p] = v /\ ~flag[p]
                               THEN "draining" ELSE proc[p]]

\* A command is run: an operation that needs a daemon, `daemon restart`,
\* `daemon stop`, `daemon kill`, `daemon kill-all` or `clean cache`.
Commands == {"probe", "daemonRestart", "stop", "kill", "killAll", "resetLock"}
Begin(c, s) ==
    /\ cli[c].pc = "idle"
    /\ commands < MaxCommands
    /\ commands' = commands + 1
    /\ cli' = [cli EXCEPT ![c].pc = s, ![c].reset = (s = "resetLock")]
    /\ UNCHANGED <<daemonVars, rootLock, spawnLock, fileVars, spawns, faults>>

\* ensure_direct_daemon_running: a healthy daemon is used, or restarted when
\* the binary on disk is newer.
Probe(c) ==
    /\ cli[c].pc = "probe"
    /\ \/ Healthy(CliVersion[c]) /\ Done(c)
       \/ Healthy(CliVersion[c]) /\ Step(c, "restart") /\ UNCHANGED spawnLock
       \/ ~Healthy(CliVersion[c]) /\ Step(c, "elect") /\ UNCHANGED spawnLock
    /\ UNCHANGED <<daemonVars, rootLock, fileVars, boundVars>>

\* The answer is ignored; the wait for the daemon to stop is bounded.
RestartForUpdate(c) ==
    /\ cli[c].pc = "restart"
    /\ Shutdown(CliVersion[c])
    /\ Step(c, "elect")
    /\ UNCHANGED <<ver, work, flag, rootLock, spawnLock, fileVars, boundVars>>

\* DaemonAction::Restart: a refusal ends the command.
DaemonRestart(c) ==
    /\ cli[c].pc = "daemonRestart"
    /\ Shutdown(CliVersion[c])
    /\ IF Refuses(CliVersion[c]) THEN Done(c)
                                 ELSE Step(c, "probe") /\ UNCHANGED spawnLock
    /\ UNCHANGED <<ver, work, flag, rootLock, fileVars, boundVars>>

\* The spawn-herd election: the winner of spawn.lock spawns ...
Elect(c) ==
    /\ cli[c].pc = "elect"
    /\ IF spawnLock = None
          THEN /\ spawnLock' = c
               /\ cli' = [cli EXCEPT ![c].pc = "spawn", ![c].tries = 1]
          ELSE Step(c, "herd") /\ UNCHANGED spawnLock
    /\ UNCHANGED <<daemonVars, rootLock, fileVars, boundVars>>

\* ... and a loser waits for its daemon, or gives up.
Herd(c) ==
    /\ cli[c].pc = "herd"
    /\ Done(c)
    /\ UNCHANGED <<daemonVars, rootLock, fileVars, boundVars>>

Spawn(c, p) ==
    /\ cli[c].pc = "spawn"
    /\ ~Healthy(CliVersion[c])
    /\ proc[p] = "dead"
    /\ spawns < MaxSpawns
    /\ spawns' = spawns + 1
    /\ proc' = [proc EXCEPT ![p] = "boot"]
    /\ ver' = [ver EXCEPT ![p] = CliVersion[c]]
    /\ Step(c, "poll")
    /\ UNCHANGED <<work, flag, rootLock, spawnLock, fileVars, commands, faults>>

\* A healthy daemon ends the attempts, whoever started it.
Adopt(c) ==
    /\ cli[c].pc \in {"spawn", "poll"}
    /\ Healthy(CliVersion[c])
    /\ Done(c)
    /\ UNCHANGED <<daemonVars, rootLock, fileVars, boundVars>>

\* The next attempt after a failed spawn or ten seconds without an answer.
NextTry(c) ==
    /\ cli[c].pc \in {"spawn", "poll"}
    /\ ~Healthy(CliVersion[c])
    /\ IF cli[c].tries < MaxTries
          THEN /\ cli' = [cli EXCEPT ![c].pc = "spawn", ![c].tries = @ + 1]
               /\ UNCHANGED spawnLock
          ELSE Done(c)
    /\ UNCHANGED <<daemonVars, rootLock, fileVars, boundVars>>

\* DaemonAction::Stop.
Stop(c) ==
    /\ cli[c].pc = "stop"
    /\ Shutdown(CliVersion[c])
    /\ Step(c, CASE Refuses(CliVersion[c]) -> "refused"
                 [] Accepts(CliVersion[c]) -> "stopWait"
                 [] OTHER                  -> "clear")
    /\ UNCHANGED <<ver, work, flag, rootLock, spawnLock, fileVars, boundVars>>

\* What follows a stop: the command ends, or the reset lists the port files.
AfterStop(c, files) ==
    IF cli[c].reset
       THEN /\ cli' = [cli EXCEPT ![c].pc = "sweepPorts", ![c].ports = files]
            /\ UNCHANGED spawnLock
       ELSE Done(c)

\* accept_stop_outcome: a reset goes on after a refusal if the daemon is gone.
Refused(c) ==
    /\ cli[c].pc = "refused"
    /\ IF Healthy(CliVersion[c]) THEN Done(c) ELSE AfterStop(c, portFile)
    /\ UNCHANGED <<daemonVars, rootLock, fileVars, boundVars>>

\* The endpoint no longer answers, or it still does after five seconds.
StopWait(c) ==
    /\ cli[c].pc = "stopWait"
    /\ IF Healthy(CliVersion[c]) THEN AfterStop(c, portFile)
                                 ELSE Step(c, "clear") /\ UNCHANGED spawnLock
    /\ UNCHANGED <<daemonVars, rootLock, fileVars, boundVars>>

\* clear_daemon_records.
Clear(c) ==
    /\ cli[c].pc = "clear"
    /\ pidFile' = None /\ claim' = None
    /\ portFile' = portFile \ {CliVersion[c]}
    /\ AfterStop(c, portFile')
    /\ UNCHANGED <<daemonVars, rootLock, boundVars>>

\* run_daemon_kill: the daemon that answers, or else the one on file.
Kill(c) ==
    /\ cli[c].pc = "kill"
    /\ \E p \in Pids :
          /\ IF Healthy(CliVersion[c])
                THEN proc[p] = "serving" /\ ver[p] = CliVersion[c]
                ELSE p = pidFile
          /\ cli' = [cli EXCEPT ![c].pc = "signal", ![c].aim = p]
    /\ UNCHANGED <<daemonVars, rootLock, spawnLock, fileVars, boundVars>>

KillFindsNone(c) ==
    /\ cli[c].pc = "kill"
    /\ ~Healthy(CliVersion[c]) /\ pidFile = None
    /\ Done(c)
    /\ UNCHANGED <<daemonVars, rootLock, fileVars, boundVars>>

\* kill_process: the signal ends whatever runs under the id.
Signal(c) ==
    /\ cli[c].pc = "signal"
    /\ IF Alive(cli[c].aim) THEN Dies(cli[c].aim) /\ pidFile' = None
                            ELSE UNCHANGED <<daemonVars, rootLock, pidFile>>
    /\ Done(c)
    /\ UNCHANGED <<portFile, claim, boundVars>>

\* run_daemon_kill_all: the daemons listed by the system, one after another.
KillAll(c) ==
    /\ cli[c].pc = "killAll"
    /\ IF \E p \in Pids : IsDaemon(p)
          THEN /\ cli' = [cli EXCEPT ![c].pc = "signalAll",
                                     ![c].targets = {p \in Pids : IsDaemon(p)}]
               /\ UNCHANGED spawnLock
          ELSE Done(c)
    /\ UNCHANGED <<daemonVars, rootLock, fileVars, boundVars>>

SignalOne(c, p) ==
    /\ cli[c].pc = "signalAll"
    /\ p \in cli[c].targets
    /\ cli' = [cli EXCEPT ![c].targets = @ \ {p}]
    /\ IF Alive(p) THEN Dies(p) ELSE UNCHANGED <<daemonVars, rootLock>>
    /\ UNCHANGED <<spawnLock, fileVars, boundVars>>

KilledAll(c) ==
    /\ cli[c].pc = "signalAll"
    /\ cli[c].targets = {}
    /\ pidFile' = None
    /\ Done(c)
    /\ UNCHANGED <<daemonVars, rootLock, portFile, claim, boundVars>>

------------------------------------------------------------------------------
(* The cache reset: clean.rs *)

\* acquire_reset_spawn_lock, which may go on without the lock.
ResetLock(c) ==
    /\ cli[c].pc = "resetLock"
    /\ spawnLock' = IF spawnLock = None THEN c ELSE spawnLock
    /\ Step(c, "stop")
    /\ UNCHANGED <<daemonVars, rootLock, fileVars, boundVars>>

\* shutdown_matching_port_daemons, one port file: an endpoint that does not
\* answer is skipped, one that refuses ends the reset, after which a daemon
\* is brought back.
SweepPort(c, v) ==
    /\ cli[c].pc = "sweepPorts"
    /\ v \in cli[c].ports
    /\ Shutdown(v)
    /\ IF Refuses(v)
          THEN /\ cli' = [cli EXCEPT ![c].pc = "probe", ![c].ports = {}]
               /\ DropSpawnLock(c)
          ELSE /\ cli' = [cli EXCEPT ![c].ports = @ \ {v}]
               /\ UNCHANGED spawnLock
    /\ UNCHANGED <<ver, work, flag, rootLock, fileVars, boundVars>>

\* Mutant: a record that is missing is taken for a process id.
ReadRecordsUnchecked(c) ==
    /\ cli[c].pc = "sweepPorts"
    /\ cli[c].ports = {}
    /\ cli' = [cli EXCEPT ![c].pc = "sweepPids", ![c].targets = {claim, pidFile}]
    /\ UNCHANGED <<daemonVars, rootLock, spawnLock, fileVars, boundVars>>

\* sweep_legacy_daemons reads the claim and the pid file.
ReadRecords(c) ==
    /\ cli[c].pc = "sweepPorts"
    /\ cli[c].ports = {}
    /\ cli' = [cli EXCEPT ![c].pc = "sweepPids",
                          ![c].targets = {claim, pidFile} \cap Pids]
    /\ UNCHANGED <<daemonVars, rootLock, spawnLock, fileVars, boundVars>>

\* terminate_legacy_pid_if_verified: only a live daemon is a target.
Verify(c, p) ==
    /\ cli[c].pc = "sweepPids"
    /\ p \in cli[c].targets
    /\ cli' = IF IsDaemon(p)
                 THEN [cli EXCEPT ![c].pc = "killWait", ![c].targets = @ \ {p},
                                  ![c].aim = p]
                 ELSE [cli EXCEPT ![c].targets = @ \ {p}]
    /\ UNCHANGED <<daemonVars, rootLock, spawnLock, fileVars, boundVars>>

\* It may still exit by itself for five seconds, then it is killed.
KillWait(c) ==
    /\ cli[c].pc = "killWait"
    /\ Step(c, IF Alive(cli[c].aim) THEN "force" ELSE "sweepPids")
    /\ UNCHANGED <<daemonVars, rootLock, spawnLock, fileVars, boundVars>>

ForceKill(c) ==
    /\ cli[c].pc = "force"
    /\ IF Alive(cli[c].aim) THEN Dies(cli[c].aim) ELSE UNCHANGED <<daemonVars, rootLock>>
    /\ Step(c, "sweepPids")
    /\ UNCHANGED <<spawnLock, fileVars, boundVars>>

Swept(c) ==
    /\ cli[c].pc = "sweepPids"
    /\ cli[c].targets = {}
    /\ Step(c, "ownRoot")
    /\ UNCHANGED <<daemonVars, rootLock, spawnLock, fileVars, boundVars>>

\* acquire_root_ownership_before_reset.
OwnRoot(c) ==
    /\ cli[c].pc = "ownRoot"
    /\ rootLock = None
    /\ rootLock' = c
    /\ Step(c, "delete")
    /\ UNCHANGED <<daemonVars, spawnLock, fileVars, boundVars>>

\* Mutant: the wait for the root has no deadline.
OwnRootNeverTimesOut(c) ==
    /\ cli[c].pc = "ownRoot"
    /\ rootLock # None
    /\ UNCHANGED vars

\* The root is still owned after thirty seconds: the reset is given up and a
\* daemon is brought back.
OwnRootTimeout(c) ==
    /\ cli[c].pc = "ownRoot"
    /\ rootLock # None
    /\ Step(c, "probe")
    /\ DropSpawnLock(c)
    /\ UNCHANGED <<daemonVars, rootLock, fileVars, boundVars>>

\* The cache is deleted, both guards are dropped, then the daemon restarted.
Delete(c) ==
    /\ cli[c].pc = "delete"
    /\ rootLock' = IF rootLock = c THEN None ELSE rootLock
    /\ DropSpawnLock(c)
    /\ Step(c, "daemonRestart")
    /\ UNCHANGED <<daemonVars, fileVars, boundVars>>

\* The command is interrupted; its locks go with it.
CliDies(c) ==
    /\ cli[c].pc # "idle"
    /\ faults < MaxFaults
    /\ faults' = faults + 1
    /\ Done(c)
    /\ rootLock' = IF rootLock = c THEN None ELSE rootLock
    /\ UNCHANGED <<daemonVars, fileVars, spawns, commands>>

CliStep(c) ==
    \/ Probe(c) \/ RestartForUpdate(c) \/ DaemonRestart(c) \/ Elect(c) \/ Herd(c)
    \/ (\E p \in Pids : Spawn(c, p)) \/ Adopt(c) \/ NextTry(c)
    \/ Stop(c) \/ Refused(c) \/ StopWait(c) \/ Clear(c)
    \/ Kill(c) \/ KillFindsNone(c) \/ Signal(c)
    \/ KillAll(c) \/ (\E p \in Pids : SignalOne(c, p)) \/ KilledAll(c)
    \/ ResetLock(c) \/ (\E v \in Versions : SweepPort(c, v)) \/ ReadRecords(c)
    \/ (\E p \in Pids : Verify(c, p)) \/ KillWait(c) \/ ForceKill(c) \/ Swept(c)
    \/ OwnRoot(c) \/ OwnRootTimeout(c) \/ Delete(c)

Next ==
    \/ \E p \in Pids : DaemonStep(p) \/ BeginWork(p) \/ EndWork(p) \/ SelfShutdown(p) \/ Crash(p)
                       \/ Recycle(p)
    \/ \E c \in Clis : CliStep(c) \/ CliDies(c) \/ \E s \in Commands : Begin(c, s)

Spec == Init /\ [][Next]_vars

\* Commands and daemons are running processes, and every wait of a command
\* has a deadline.  Nothing is assumed of operations, users and faults.
FairSpec ==
    /\ Spec
    /\ \A c \in Clis : WF_vars(CliStep(c))
    /\ \A p \in Pids : WF_vars(DaemonStep(p))

------------------------------------------------------------------------------
(* Properties *)

CliState ==
    [pc : CliSteps, reset : BOOLEAN, tries : Nat, ports : SUBSET Versions,
     targets : SUBSET Pids, aim : Pids \cup {None}]

\* The type invariant.
TypeOK ==
    /\ proc \in [Pids -> Daemon \cup {"dead", "other"}]
    /\ ver \in [Pids -> Versions \cup {None}]
    /\ \A p \in Pids : proc[p] \in Daemon => ver[p] \in Versions
    /\ work \in [Pids -> Nat]
    /\ flag \in [Pids -> BOOLEAN]
    /\ rootLock \in Pids \cup Clis \cup {None}
    /\ spawnLock \in Clis \cup {None}
    /\ pidFile \in Pids \cup {None}
    /\ portFile \subseteq Versions
    /\ claim \in Pids \cup {None}
    /\ cli \in [Clis -> CliState]
    /\ spawns \in Nat /\ commands \in Nat /\ faults \in Nat

\* The processes that touch the compiler cache: a daemon from the moment its
\* backend starts until it has exited, a reset while it deletes.
CacheUsers == {p \in Pids : proc[p] \in Owning} \cup {c \in Clis : cli[c].pc = "delete"}

Root == INSTANCE CacheRoot WITH Users <- Pids \cup Clis, using <- CacheUsers

\* However daemons of two versions, commands, kills and crashes interleave,
\* the cache root has one user at a time: no daemon starts its backend under
\* another one or under a deletion, and the reset never deletes the cache
\* that a daemon uses.  (main.rs:132, clean.rs:77)
CacheRootIsExclusive == Root!Spec

\* Every command returns, whichever lock another process holds and whether or
\* not a daemon ever answers, refuses to stop or stays in its last request:
\* the waits for an election, for a daemon that boots, for one that stops and
\* for the root are all given up at last.  (daemon_client.rs:893, clean.rs:348)
EveryCommandReturns == \A c \in Clis : cli[c].pc # "idle" ~> cli[c].pc = "idle"
=============================================================================
