----------------------------- MODULE BuildLocks -----------------------------
(***************************************************************************)
(* The per-project build lock of the daemon and everything that takes it   *)
(* apart: build requests (streaming and plain), their deadlines, clients   *)
(* that leave, the two cleaners of the lock table, the shared operation    *)
(* flag and a shutdown that reads it.                                      *)
(*                                                                         *)
(* A streaming build (build.rs:240-676) runs in a detached worker: a       *)
(* client that leaves is noticed only through CancelOnDrop, whose          *)
(* notify_waiters reaches the worker only while it waits in select!.  A    *)
(* plain request (build.rs:677-, the build before a deploy, install-deps)  *)
(* runs in the handler's future, which hyper drops when the client leaves. *)
(*                                                                         *)
(* A lock is a tokio Mutex behind an Arc: released, it goes straight to a  *)
(* waiter, so a try_lock succeeds only when nobody waits.  A lock object   *)
(* nothing refers to is freed and its model value is used again.           *)
(***************************************************************************)
EXTENDS FiniteSets, Naturals

CONSTANTS Requests,      \* HTTP requests that build
          Streaming,     \* those that stream their log
          Uncapped,      \* plain requests with no build deadline (install-deps)
          Projects,
          ProjectOf,     \* the project a request builds
          Locks,         \* lock objects
          Cleaners,      \* the periodic cleaner and POST /api/locks/clear
          None

ASSUME RequestsAssumption ==
  /\ Streaming \subseteq Requests
  /\ Uncapped \subseteq Requests \ Streaming
  /\ ProjectOf \in [Requests -> Projects]

ASSUME NoneAssumption ==
  /\ None \notin Requests
  /\ None \notin Projects
  /\ None \notin Locks

VARIABLES table,      \* DaemonContext.project_locks
          holder,     \* who has the permit of a lock, noticed or not
          waiting,    \* who is queued for it
          pc,         \* where a request's handler or worker is
          lock,       \* the Arc it cloned out of the table
          task,       \* its orchestrator's future, and the compile jobs it spawned
          client,     \* the HTTP client: open, or gone (it left, or was answered)
          cancelled,  \* notify_waiters reached the worker
          flag,       \* operation_in_progress, one for the whole daemon
          clean,      \* the project a cleaner is about to remove
          orphaned,   \* history: locks removed while a request used them
          phase       \* the daemon: up, draining or exited

vars == <<table, holder, waiting, pc, lock, task, client, cancelled, flag,
          clean, orphaned, phase>>

Live == phase # "exited"
Active(r) == pc[r] \notin {"idle", "done"}

\* The orchestrator's future or one of its compile jobs is at work.  A future
\* that returns has joined all its jobs; one that is dropped only aborts them
\* (the JoinSet of compile_sources_parallel) and is "stray" until they stop.
Compiling(r) == task[r] \in {"running", "aborting", "stray"}

\* The future is gone, and with it the build's log sender.
FutureGone(r) == task[r] \in {"ended", "stray"}

Users(l) == {r \in Requests : lock[r] = l}

\* The lock objects nothing refers to; which of them is the next allocated is
\* of no consequence.
Free == {l \in Locks : Users(l) = {} /\ \A p \in Projects : table[p] # l}
NewLock == CHOOSE l \in Free : TRUE

Init ==
  /\ table = [p \in Projects |-> None]
  /\ holder = [l \in Locks |-> None]
  /\ waiting = [l \in Locks |-> {}]
  /\ pc = [r \in Requests |-> "idle"]
  /\ lock = [r \in Requests |-> None]
  /\ task = [r \in Requests |-> "none"]
  /\ client = [r \in Requests |-> "open"]
  /\ cancelled = [r \in Requests |-> FALSE]
  /\ flag = FALSE
  /\ clean = [k \in Cleaners |-> None]
  /\ orphaned = {}
  /\ phase = "up"

-----------------------------------------------------------------------------
(* The lock. *)

(***************************************************************************)
(* Giving l back hands it to one of the waiters, if there is one (tokio    *)
(* picks the first; any waiter is allowed here).                           *)
(***************************************************************************)
HandOver(l) ==
  IF waiting[l] = {}
  THEN /\ holder' = [holder EXCEPT ![l] = None]
       /\ UNCHANGED waiting
  ELSE \E w \in waiting[l] :
         /\ holder' = [holder EXCEPT ![l] = w]
         /\ waiting' = [waiting EXCEPT ![l] = @ \ {w}]

\* Mutant: the drop of lock()'s future forgets a grant.
LeaveQueueLosesGrant(r) ==
  /\ pc' = [pc EXCEPT ![r] = "ending"]
  /\ waiting' = [waiting EXCEPT ![lock[r]] = @ \ {r}]

\* The future of lock() is dropped: a grant nobody looked at yet is left for
\* "releasing" to hand on, a place in the queue is given up.
LeaveQueue(r) ==
  IF holder[lock[r]] = r
  THEN /\ pc' = [pc EXCEPT ![r] = "releasing"]
       /\ UNCHANGED waiting
  ELSE /\ pc' = [pc EXCEPT ![r] = "ending"]
       /\ waiting' = [waiting EXCEPT ![lock[r]] = @ \ {r}]

-----------------------------------------------------------------------------
(* A request. *)

(***************************************************************************)
(* OperationGuard::new raises the flag; project_lock then clones the lock  *)
(* of the table, or puts a new one there.                                  *)
(***************************************************************************)
Begin(r) ==
  /\ phase = "up"
  /\ pc[r] = "idle"
  /\ pc' = [pc EXCEPT ![r] = "begun"]
  /\ flag' = TRUE
  /\ LET p == ProjectOf[r] IN
     \/ /\ table[p] # None
        /\ lock' = [lock EXCEPT ![r] = table[p]]
        /\ UNCHANGED <<table, orphaned>>
     \/ /\ table[p] = None
        /\ Free # {}
        /\ table' = [table EXCEPT ![p] = NewLock]
        /\ lock' = [lock EXCEPT ![r] = NewLock]
        /\ orphaned' = orphaned \ {NewLock}
  /\ UNCHANGED <<holder, waiting, task, client, cancelled, clean, phase>>

\* lock(): taken at once when it is free, queued for otherwise.
Enqueue(r) ==
  /\ Live
  /\ pc[r] = "begun"
  /\ pc' = [pc EXCEPT ![r] = "waiting"]
  /\ IF holder[lock[r]] = None
     THEN /\ holder' = [holder EXCEPT ![lock[r]] = r]
          /\ UNCHANGED waiting
     ELSE /\ waiting' = [waiting EXCEPT ![lock[r]] = @ \cup {r}]
          /\ UNCHANGED holder
  /\ UNCHANGED <<table, lock, task, client, cancelled, flag, clean, orphaned,
                 phase>>

\* Mutant: the wait for the lock has no deadline.
LockNeverTimesOut(r) ==
  FALSE /\ r \in Requests /\ UNCHANGED vars

(***************************************************************************)
(* LOCK_WAIT_HARD_DEADLINE: the request answers with an error.  The lock   *)
(* may have been granted in the meantime.                                  *)
(***************************************************************************)
LockTimeout(r) ==
  /\ Live
  /\ pc[r] = "waiting"
  /\ LeaveQueue(r)
  /\ UNCHANGED <<table, holder, lock, task, client, cancelled, flag, clean,
                 orphaned, phase>>

StartBuild(r) ==
  /\ Live
  /\ pc[r] = "waiting"
  /\ holder[lock[r]] = r
  /\ pc' = [pc EXCEPT ![r] = "building"]
  /\ task' = [task EXCEPT ![r] = "running"]
  /\ UNCHANGED <<table, holder, waiting, lock, client, cancelled, flag, clean,
                 orphaned, phase>>

\* The orchestrator returns, fails or panics.
TaskEnds(r) ==
  /\ Live
  /\ task[r] = "running"
  /\ task' = [task EXCEPT ![r] = "ended"]
  /\ UNCHANGED <<table, holder, waiting, pc, lock, client, cancelled, flag,
                 clean, orphaned, phase>>

\* The handler takes its result; `biased` looks at the cancellation first.
Result(r) ==
  /\ Live
  /\ pc[r] = "building"
  /\ task[r] = "ended"
  /\ ~cancelled[r]
  /\ pc' = [pc EXCEPT ![r] = "flush"]
  /\ UNCHANGED <<table, holder, waiting, lock, task, client, cancelled, flag,
                 clean, orphaned, phase>>

\* Every ten seconds the worker leaves select! to send a status event: it has
\* no Notified future until it is back.
Heartbeat(r) ==
  /\ Live
  /\ r \in Streaming
  /\ \/ pc[r] = "building" /\ ~cancelled[r] /\ pc' = [pc EXCEPT ![r] = "beat"]
     \/ pc[r] = "beat" /\ pc' = [pc EXCEPT ![r] = "building"]
  /\ UNCHANGED <<table, holder, waiting, lock, task, client, cancelled, flag,
                 clean, orphaned, phase>>

(***************************************************************************)
(* BUILD_HARD_DEADLINE.  The streaming worker aborts its task and does not *)
(* wait for it to stop; a plain handler drops the build's future, which    *)
(* does not wait for its compile jobs.                                     *)
(***************************************************************************)
Deadline(r) ==
  /\ Live
  /\ r \notin Uncapped
  /\ pc[r] \in {"building", "beat"}
  /\ ~cancelled[r]
  /\ pc' = [pc EXCEPT ![r] = "flush"]
  /\ task' = [task EXCEPT ![r] = CASE @ # "running" -> @
                                   [] r \in Streaming -> "aborting"
                                   [] OTHER -> "stray"]
  /\ UNCHANGED <<table, holder, waiting, lock, client, cancelled, flag, clean,
                 orphaned, phase>>

\* select! takes its cancel branch: abort, then await the JoinHandle.
CancelSeen(r) ==
  /\ Live
  /\ pc[r] = "building"
  /\ cancelled[r]
  /\ pc' = [pc EXCEPT ![r] = "joining"]
  /\ task' = [task EXCEPT ![r] = IF @ = "running" THEN "aborting" ELSE @]
  /\ UNCHANGED <<table, holder, waiting, lock, client, cancelled, flag, clean,
                 orphaned, phase>>

\* An aborted future stops at its next await and is dropped there.
TaskAborted(r) ==
  /\ Live
  /\ task[r] = "aborting"
  /\ task' = [task EXCEPT ![r] = "stray"]
  /\ UNCHANGED <<table, holder, waiting, pc, lock, client, cancelled, flag,
                 clean, orphaned, phase>>

\* The aborted compile jobs have come to their next await, too, or there were
\* none.
JobsStop(r) ==
  /\ Live
  /\ task[r] = "stray"
  /\ task' = [task EXCEPT ![r] = "ended"]
  /\ UNCHANGED <<table, holder, waiting, pc, lock, client, cancelled, flag,
                 clean, orphaned, phase>>

Joined(r) ==
  /\ Live
  /\ pc[r] = "joining"
  /\ FutureGone(r)
  /\ pc' = [pc EXCEPT ![r] = "flush"]
  /\ UNCHANGED <<table, holder, waiting, lock, task, client, cancelled, flag,
                 clean, orphaned, phase>>

\* Mutant: the worker does not wait for the forwarder.
FlushAtOnce(r) ==
  /\ Live
  /\ pc[r] = "flush"
  /\ pc' = [pc EXCEPT ![r] = "releasing"]
  /\ UNCHANGED <<table, holder, waiting, lock, task, client, cancelled, flag,
                 clean, orphaned, phase>>

(***************************************************************************)
(* The worker waits for the log forwarder, which ends when the build has   *)
(* dropped its log sender or when the client is gone and a line cannot be  *)
(* sent; then it sends the result.                                         *)
(***************************************************************************)
Flush(r) ==
  /\ Live
  /\ pc[r] = "flush"
  /\ FutureGone(r) \/ client[r] = "gone"
  /\ pc' = [pc EXCEPT ![r] = "releasing"]
  /\ UNCHANGED <<table, holder, waiting, lock, task, client, cancelled, flag,
                 clean, orphaned, phase>>

\* Locals are dropped in reverse: the lock's guard first...
Release(r) ==
  /\ Live
  /\ pc[r] = "releasing"
  /\ HandOver(lock[r])
  /\ pc' = [pc EXCEPT ![r] = "ending"]
  /\ UNCHANGED <<table, lock, task, client, cancelled, flag, clean, orphaned,
                 phase>>

\* Mutant: an operation that leaves the flag up.
UnguardKeepsFlag(r) ==
  /\ Live
  /\ pc[r] = "ending"
  /\ pc' = [pc EXCEPT ![r] = "done"]
  /\ lock' = [lock EXCEPT ![r] = None]
  /\ cancelled' = [cancelled EXCEPT ![r] = FALSE]
  /\ orphaned' = {l \in orphaned : Users(l) # {r}}
  /\ client' = [client EXCEPT ![r] = "gone"]
  /\ UNCHANGED <<table, holder, waiting, task, flag, clean, phase>>

\* ...then the Arc and the OperationGuard, which lowers the flag; the response
\* is over.
Unguard(r) ==
  /\ Live
  /\ pc[r] = "ending"
  /\ pc' = [pc EXCEPT ![r] = "done"]
  /\ lock' = [lock EXCEPT ![r] = None]
  /\ flag' = FALSE
  /\ cancelled' = [cancelled EXCEPT ![r] = FALSE]
  /\ orphaned' = {l \in orphaned : Users(l) # {r}}
  /\ client' = [client EXCEPT ![r] = "gone"]
  /\ UNCHANGED <<table, holder, waiting, task, clean, phase>>

-----------------------------------------------------------------------------
(* The client, the cleaners, the daemon. *)

(***************************************************************************)
(* The client closes its connection.  Streaming: CancelOnDrop notifies     *)
(* those who wait, and only a worker inside select! does.  Plain: the      *)
(* handler's future is dropped wherever it is, the build's with it.        *)
(***************************************************************************)
Disconnect(r) ==
  /\ Live
  /\ Active(r) /\ client[r] = "open"
  /\ client' = [client EXCEPT ![r] = "gone"]
  /\ \/ /\ r \in Streaming
        /\ cancelled' = [cancelled EXCEPT ![r] = pc[r] = "building"]
        /\ UNCHANGED <<pc, waiting, task>>
     \/ /\ r \notin Streaming
        /\ CASE pc[r] = "begun" -> /\ pc' = [pc EXCEPT ![r] = "ending"]
                                   /\ UNCHANGED waiting
             [] pc[r] = "waiting" -> LeaveQueue(r)
             [] pc[r] \in {"building", "flush"} ->
                  /\ pc' = [pc EXCEPT ![r] = "releasing"]
                  /\ UNCHANGED waiting
             [] OTHER -> UNCHANGED <<pc, waiting>>
        /\ task' = [task EXCEPT ![r] = IF @ = "running" THEN "stray" ELSE @]
        /\ UNCHANGED cancelled
  /\ UNCHANGED <<table, holder, lock, flag, clean, orphaned, phase>>

\* Mutant: the lock is kept for the removal where its key is needed.
CleanTryKeepsLock(k) ==
  /\ Live
  /\ clean[k] = None
  /\ \E p \in Projects :
       /\ table[p] # None
       /\ holder[table[p]] = None
       /\ clean' = [clean EXCEPT ![k] = table[p]]
  /\ UNCHANGED <<table, holder, waiting, pc, lock, task, client, cancelled,
                 flag, orphaned, phase>>

\* Under the entry's shard lock, try_lock succeeds; both are then given up.
CleanTry(k) ==
  /\ Live
  /\ clean[k] = None
  /\ \E p \in Projects :
       /\ table[p] # None
       /\ holder[table[p]] = None
       /\ clean' = [clean EXCEPT ![k] = p]
  /\ UNCHANGED <<table, holder, waiting, pc, lock, task, client, cancelled,
                 flag, orphaned, phase>>

\* remove(&key) takes away whatever lock is under the key by now.
CleanRemove(k) ==
  /\ Live
  /\ clean[k] # None
  /\ clean' = [clean EXCEPT ![k] = None]
  /\ table' = [table EXCEPT ![clean[k]] = None]
  /\ orphaned' = orphaned \cup {l \in {table[clean[k]]} \ {None} : Users(l) # {}}
  /\ UNCHANGED <<holder, waiting, pc, lock, task, client, cancelled, flag,
                 phase>>

\* POST /api/daemon/shutdown without force.
Shutdown ==
  /\ phase = "up"
  /\ ~flag
  /\ phase' = "draining"
  /\ UNCHANGED <<table, holder, waiting, pc, lock, task, client, cancelled,
                 flag, clean, orphaned>>

\* The server waits for the responses that are still open, not for workers.
Exit ==
  /\ phase = "draining"
  /\ \A r \in Requests : client[r] = "open" => ~Active(r)
  /\ phase' = "exited"
  /\ UNCHANGED <<table, holder, waiting, pc, lock, task, client, cancelled,
                 flag, clean, orphaned>>

Advance(r) ==
  \/ Enqueue(r) \/ LockTimeout(r) \/ StartBuild(r)
  \/ Result(r) \/ Deadline(r) \/ CancelSeen(r) \/ Joined(r)
  \/ Flush(r) \/ Release(r) \/ Unguard(r)

Worker(r) == Advance(r) \/ Heartbeat(r)

Next ==
  \/ \E r \in Requests :
       \/ Begin(r) \/ Worker(r) \/ TaskEnds(r) \/ TaskAborted(r)
       \/ JobsStop(r) \/ Disconnect(r)
  \/ \E k \in Cleaners : CleanTry(k) \/ CleanRemove(k)
  \/ Shutdown
  \/ Exit

Spec == Init /\ [][Next]_vars

-----------------------------------------------------------------------------
(***************************************************************************)
(* What the tokio runtime gives: a worker that is runnable, or whose timer *)
(* comes due, is polled and goes on (a heartbeat does not count); an       *)
(* aborted task is dropped at its next await.  Nothing                     *)
(* says a build or a compile job ends (a compiler may be wedged) or a      *)
(* client leaves.                                                          *)
(***************************************************************************)
Fairness ==
  \A r \in Requests : WF_vars(Advance(r)) /\ WF_vars(TaskAborted(r))

FairSpec == Spec /\ Fairness
-----------------------------------------------------------------------------
(* Properties. *)

Holding == {"building", "beat", "joining", "flush", "releasing"}

\* TypeOK: the lock table, the permits, the requests and their tasks have their
\* types.
TypeOK ==
  /\ table \in [Projects -> Locks \cup {None}]
  /\ holder \in [Locks -> Requests \cup {None}]
  /\ waiting \in [Locks -> SUBSET Requests]
  /\ pc \in [Requests -> {"idle", "begun", "waiting", "ending", "done"} \cup Holding]
  /\ lock \in [Requests -> Locks \cup {None}]
  /\ task \in [Requests -> {"none", "running", "aborting", "stray", "ended"}]
  /\ client \in [Requests -> {"open", "gone"}]
  /\ cancelled \in [Requests -> BOOLEAN]
  /\ flag \in BOOLEAN
  /\ clean \in [Cleaners -> Projects \cup {None}]
  /\ orphaned \subseteq Locks
  /\ phase \in {"up", "draining", "exited"}

(***************************************************************************)
(* No permit is lost and none is given twice, whatever the order of a      *)
(* grant, a lock timeout and a disconnect (build.rs:330-372, 690-712): the *)
(* holder of a lock is a request that will give it back, a build runs on   *)
(* with the lock it took until it releases it, and whoever waits is either *)
(* queued behind a live holder or has been granted the lock.               *)
(***************************************************************************)
LocksAccounted ==
  /\ \A l \in Locks :
       /\ holder[l] # None =>
            lock[holder[l]] = l /\ pc[holder[l]] \in Holding \cup {"waiting"}
       /\ \A r \in waiting[l] :
            lock[r] = l /\ pc[r] = "waiting" /\ holder[l] \notin {None, r}
  /\ \A r \in Requests :
       /\ pc[r] \in Holding => holder[lock[r]] = r
       /\ pc[r] = "waiting" => holder[lock[r]] = r \/ r \in waiting[lock[r]]

\* A build whose lock was given up with its abort still under way: past its
\* deadline, its client gone (build.rs:458-466, 618).
Runaway(r) ==
  /\ r \in Streaming
  /\ task[r] = "aborting"
  /\ client[r] = "gone"
  /\ pc[r] \in {"releasing", "ending", "done"}

\* Compile jobs of a build that was dropped (its plain client left or its
\* deadline came) or aborted, and whose lock was given up without a wait for
\* them (parallel.rs:98-152).
Stray(r) == task[r] = "stray" /\ pc[r] \in {"ending", "done"}

(***************************************************************************)
(* The work of two builds of one project overlaps in three cases only: a   *)
(* cleaner removed the lock of one of them from the table while it was in  *)
(* use (main.rs:425, locks.rs:212), one is a runaway, or what is left of   *)
(* one is stray compile jobs.  Two orchestrators neither of which was      *)
(* aborted, dropped or robbed of its lock never run together: timeouts,    *)
(* cancellations, hand-overs and lost notifications do not let two in.     *)
(***************************************************************************)
BuildsExclude ==
  \A r, s \in Requests :
    (r # s /\ ProjectOf[r] = ProjectOf[s] /\ Compiling(r) /\ Compiling(s)) =>
      \/ Runaway(r) \/ Runaway(s) \/ Stray(r) \/ Stray(s)
      \/ lock[r] \in orphaned \/ lock[s] \in orphaned

(***************************************************************************)
(* The one flag all operations share is not left up: some operation is     *)
(* still to lower it (common.rs:173-202).  It keeps the daemon from ever   *)
(* shutting itself down.                                                   *)
(***************************************************************************)
FlagIsNotStuck == flag => \E r \in Requests : Active(r)

(***************************************************************************)
(* Every request with a build deadline ends, although builds need not, and *)
(* although it may queue behind one without a deadline (#808, build.rs:    *)
(* 322-329, 449-466).                                                      *)
(***************************************************************************)
EveryRequestEnds ==
  \A r \in Requests \ Uncapped :
    Active(r) ~> (~Active(r) \/ phase = "exited")

(***************************************************************************)
(* runtime.md says the project lock "prevents concurrent builds of same    *)
(* project".  Here of two orchestrators at work, neither told to stop.     *)
(***************************************************************************)
OneBuildPerProject ==
  \A r, s \in Requests :
    ProjectOf[r] = ProjectOf[s] /\ task[r] = "running" /\ task[s] = "running" => r = s
=============================================================================
