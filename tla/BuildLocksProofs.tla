-------------------------- MODULE BuildLocksProofs --------------------------
(***************************************************************************)
(* For every set of requests, projects, locks and cleaners: the state of   *)
(* BuildLocks is well typed, no permit is lost or given twice, two builds  *)
(* of a project overlap in the three named cases only, and the operation   *)
(* flag is never left up by nobody.                                        *)
(***************************************************************************)
EXTENDS BuildLocks, TLAPS

(* The parts of the inductive invariant that are not properties by         *)
(* themselves.                                                             *)

\* A request refers to a lock exactly while it is active.
LockKnown == \A r \in Requests : Active(r) <=> lock[r] # None

\* ... and that lock is the one in the table unless a cleaner took it away.
LockCurrent ==
  \A r \in Requests :
    Active(r) => lock[r] \in orphaned \/ lock[r] = table[ProjectOf[r]]

\* Where the future of a build can still be alive.
TaskPlace ==
  \A r \in Requests :
    /\ task[r] = "running" => pc[r] \in {"building", "beat"}
    /\ task[r] = "aborting" =>
         r \in Streaming /\ (pc[r] \in {"joining", "flush"} \/ Runaway(r))
    /\ task[r] = "stray" => pc[r] \in {"joining", "flush", "releasing"} \/ Stray(r)
    /\ pc[r] \in {"beat", "joining"} \/ cancelled[r] => r \in Streaming
    /\ cancelled[r] => pc[r] \notin {"idle", "begun", "waiting", "done"}

\* Every action keeps the types.
LEMMA TypeStep == TypeOK /\ [Next]_vars => TypeOK'
<1> SUFFICES ASSUME TypeOK, [Next]_vars PROVE  TypeOK'
  OBVIOUS
<1> USE RequestsAssumption, NoneAssumption
<1>1. ASSUME NEW r \in Requests, Begin(r) PROVE TypeOK'
  <2>1. NewLock \in Free \/ Free = {}
    BY DEF NewLock
  <2> QED  BY <1>1, <2>1 DEF TypeOK, Holding, Begin, Free
<1>2. ASSUME NEW r \in Requests, Enqueue(r) PROVE TypeOK'
  BY <1>2 DEF TypeOK, Holding, Enqueue
<1>3. ASSUME NEW r \in Requests, LockTimeout(r) PROVE TypeOK'
  BY <1>3 DEF TypeOK, Holding, LockTimeout, LeaveQueue
<1>4. ASSUME NEW r \in Requests, StartBuild(r) PROVE TypeOK'
  BY <1>4 DEF TypeOK, Holding, StartBuild
<1>5. ASSUME NEW r \in Requests, Result(r) PROVE TypeOK'
  BY <1>5 DEF TypeOK, Holding, Result
<1>6. ASSUME NEW r \in Requests, Heartbeat(r) PROVE TypeOK'
  BY <1>6 DEF TypeOK, Holding, Heartbeat
<1>7. ASSUME NEW r \in Requests, Deadline(r) PROVE TypeOK'
  BY <1>7 DEF TypeOK, Holding, Deadline
<1>8. ASSUME NEW r \in Requests, CancelSeen(r) PROVE TypeOK'
  BY <1>8 DEF TypeOK, Holding, CancelSeen
<1>9. ASSUME NEW r \in Requests, Joined(r) PROVE TypeOK'
  BY <1>9 DEF TypeOK, Holding, Joined
<1>10. ASSUME NEW r \in Requests, Flush(r) PROVE TypeOK'
  BY <1>10 DEF TypeOK, Holding, Flush
<1>11. ASSUME NEW r \in Requests, Release(r) PROVE TypeOK'
  BY <1>11 DEF TypeOK, Holding, Release, HandOver
<1>12. ASSUME NEW r \in Requests, Unguard(r) PROVE TypeOK'
  BY <1>12 DEF TypeOK, Holding, Unguard
<1>13. ASSUME NEW r \in Requests, TaskEnds(r) PROVE TypeOK'
  BY <1>13 DEF TypeOK, Holding, TaskEnds
<1>14. ASSUME NEW r \in Requests, TaskAborted(r) PROVE TypeOK'
  BY <1>14 DEF TypeOK, Holding, TaskAborted
<1>15. ASSUME NEW r \in Requests, Disconnect(r) PROVE TypeOK'
  <2>1. cancelled' \in [Requests -> BOOLEAN]
    <3>1. (pc[r] = "building") \in BOOLEAN
      OBVIOUS
    <3>2. CASE r \in Streaming
      <4>1. cancelled' = [cancelled EXCEPT ![r] = pc[r] = "building"]
        BY <1>15, <3>2 DEF Disconnect
      <4>2. cancelled \in [Requests -> BOOLEAN]
        BY DEF TypeOK
      <4>3. QED
        BY <3>1, <4>1, <4>2, Zenon
    <3>3. CASE r \notin Streaming
      BY <1>15, <3>3 DEF Disconnect, TypeOK
    <3>4. QED
      BY <3>2, <3>3
  <2>2. pc' \in [Requests -> {"idle", "begun", "waiting", "ending",
      "done"} \cup Holding]
        /\ waiting' \in [Locks -> SUBSET Requests]
        /\ task' \in [Requests -> {"none", "running", "aborting", "stray", "ended"}]
        /\ client' \in [Requests -> {"open", "gone"}]
    BY <1>15 DEF TypeOK, Holding, Disconnect, LeaveQueue, Active
  <2>3. QED
    BY <1>15, <2>1, <2>2 DEF TypeOK, Disconnect
<1>16. ASSUME NEW k \in Cleaners, CleanTry(k) PROVE TypeOK'
  BY <1>16 DEF TypeOK, Holding, CleanTry
<1>17. ASSUME NEW k \in Cleaners, CleanRemove(k) PROVE TypeOK'
  BY <1>17 DEF TypeOK, Holding, CleanRemove
<1>18. CASE Shutdown
  BY <1>18 DEF TypeOK, Holding, Shutdown
<1>19. CASE Exit
  BY <1>19 DEF TypeOK, Holding, Exit
<1>20. CASE UNCHANGED vars
  BY <1>20 DEF TypeOK, Holding, vars
<1>21. ASSUME NEW r \in Requests, JobsStop(r) PROVE TypeOK'
  BY <1>21 DEF TypeOK, Holding, JobsStop
<1>22. QED
  BY <1>1, <1>2, <1>3, <1>4, <1>5, <1>6, <1>7, <1>8, <1>9, <1>10, <1>11,
      <1>12, <1>13, <1>14, <1>15, <1>16, <1>17, <1>18, <1>19, <1>20, <1>21
  DEF Next, Worker, Advance

\* Every action keeps LockKnown.
LEMMA KnownStep == TypeOK /\ LockKnown /\ [Next]_vars => LockKnown'
<1> SUFFICES ASSUME TypeOK, LockKnown, [Next]_vars PROVE  LockKnown'
  OBVIOUS
<1> USE RequestsAssumption, NoneAssumption
<1>1. ASSUME NEW r \in Requests, Begin(r) PROVE LockKnown'
  <2>1. NewLock \in Free \/ Free = {}
    BY DEF NewLock
  <2> QED  BY <1>1, <2>1 DEF TypeOK, Holding, LockKnown, Active, Begin, Free
<1>2. ASSUME NEW r \in Requests, Enqueue(r) PROVE LockKnown'
  BY <1>2 DEF TypeOK, Holding, LockKnown, Active, Enqueue
<1>3. ASSUME NEW r \in Requests, LockTimeout(r) PROVE LockKnown'
  BY <1>3 DEF TypeOK, Holding, LockKnown, Active, LockTimeout, LeaveQueue
<1>4. ASSUME NEW r \in Requests, StartBuild(r) PROVE LockKnown'
  BY <1>4 DEF TypeOK, Holding, LockKnown, Active, StartBuild
<1>5. ASSUME NEW r \in Requests, Result(r) PROVE LockKnown'
  BY <1>5 DEF TypeOK, Holding, LockKnown, Active, Result
<1>6. ASSUME NEW r \in Requests, Heartbeat(r) PROVE LockKnown'
  BY <1>6 DEF TypeOK, Holding, LockKnown, Active, Heartbeat
<1>7. ASSUME NEW r \in Requests, Deadline(r) PROVE LockKnown'
  BY <1>7 DEF TypeOK, Holding, LockKnown, Active, Deadline
<1>8. ASSUME NEW r \in Requests, CancelSeen(r) PROVE LockKnown'
  BY <1>8 DEF TypeOK, Holding, LockKnown, Active, CancelSeen
<1>9. ASSUME NEW r \in Requests, Joined(r) PROVE LockKnown'
  BY <1>9 DEF TypeOK, Holding, LockKnown, Active, Joined
<1>10. ASSUME NEW r \in Requests, Flush(r) PROVE LockKnown'
  BY <1>10 DEF TypeOK, Holding, LockKnown, Active, Flush
<1>11. ASSUME NEW r \in Requests, Release(r) PROVE LockKnown'
  BY <1>11 DEF TypeOK, Holding, LockKnown, Active, Release, HandOver
<1>12. ASSUME NEW r \in Requests, Unguard(r) PROVE LockKnown'
  BY <1>12 DEF TypeOK, Holding, LockKnown, Active, Unguard
<1>13. ASSUME NEW r \in Requests, TaskEnds(r) PROVE LockKnown'
  BY <1>13 DEF TypeOK, Holding, LockKnown, Active, TaskEnds
<1>14. ASSUME NEW r \in Requests, TaskAborted(r) PROVE LockKnown'
  BY <1>14 DEF TypeOK, Holding, LockKnown, Active, TaskAborted
<1>15. ASSUME NEW r \in Requests, Disconnect(r) PROVE LockKnown'
  BY <1>15 DEF TypeOK, Holding, LockKnown, Disconnect, LeaveQueue, Active
<1>16. ASSUME NEW k \in Cleaners, CleanTry(k) PROVE LockKnown'
  BY <1>16 DEF TypeOK, Holding, LockKnown, Active, CleanTry
<1>17. ASSUME NEW k \in Cleaners, CleanRemove(k) PROVE LockKnown'
  BY <1>17 DEF TypeOK, Holding, LockKnown, Active, CleanRemove
<1>18. CASE Shutdown
  BY <1>18 DEF TypeOK, Holding, LockKnown, Active, Shutdown
<1>19. CASE Exit
  BY <1>19 DEF TypeOK, Holding, LockKnown, Active, Exit
<1>20. CASE UNCHANGED vars
  BY <1>20 DEF TypeOK, Holding, LockKnown, Active, vars
<1>21. ASSUME NEW r \in Requests, JobsStop(r) PROVE LockKnown'
  BY <1>21 DEF TypeOK, Holding, LockKnown, Active, JobsStop
<1>22. QED
  BY <1>1, <1>2, <1>3, <1>4, <1>5, <1>6, <1>7, <1>8, <1>9, <1>10, <1>11,
      <1>12, <1>13, <1>14, <1>15, <1>16, <1>17, <1>18, <1>19, <1>20, <1>21
  DEF Next, Worker, Advance

\* Every action keeps LockCurrent.
LEMMA CurrentStep == TypeOK /\ LockKnown /\ LockCurrent /\ [Next]_vars => LockCurrent'
<1> SUFFICES ASSUME TypeOK, LockKnown, LockCurrent,
    [Next]_vars PROVE  LockCurrent'
  OBVIOUS
<1> USE RequestsAssumption, NoneAssumption
<1>1. ASSUME NEW r \in Requests, Begin(r) PROVE LockCurrent'
  <2>1. NewLock \in Free \/ Free = {}
    BY DEF NewLock
  <2> QED  BY <1>1, <2>1 DEF TypeOK, Holding, LockKnown, LockCurrent, Active,
      Begin, Free, Users
<1>2. ASSUME NEW r \in Requests, Enqueue(r) PROVE LockCurrent'
  BY <1>2 DEF TypeOK, Holding, LockKnown, LockCurrent, Active, Enqueue
<1>3. ASSUME NEW r \in Requests, LockTimeout(r) PROVE LockCurrent'
  BY <1>3 DEF TypeOK, Holding, LockKnown, LockCurrent, Active, LockTimeout,
      LeaveQueue
<1>4. ASSUME NEW r \in Requests, StartBuild(r) PROVE LockCurrent'
  BY <1>4 DEF TypeOK, Holding, LockKnown, LockCurrent, Active, StartBuild
<1>5. ASSUME NEW r \in Requests, Result(r) PROVE LockCurrent'
  BY <1>5 DEF TypeOK, Holding, LockKnown, LockCurrent, Active, Result
<1>6. ASSUME NEW r \in Requests, Heartbeat(r) PROVE LockCurrent'
  BY <1>6 DEF TypeOK, Holding, LockKnown, LockCurrent, Active, Heartbeat
<1>7. ASSUME NEW r \in Requests, Deadline(r) PROVE LockCurrent'
  BY <1>7 DEF TypeOK, Holding, LockKnown, LockCurrent, Active, Deadline
<1>8. ASSUME NEW r \in Requests, CancelSeen(r) PROVE LockCurrent'
  BY <1>8 DEF TypeOK, Holding, LockKnown, LockCurrent, Active, CancelSeen
<1>9. ASSUME NEW r \in Requests, Joined(r) PROVE LockCurrent'
  BY <1>9 DEF TypeOK, Holding, LockKnown, LockCurrent, Active, Joined
<1>10. ASSUME NEW r \in Requests, Flush(r) PROVE LockCurrent'
  BY <1>10 DEF TypeOK, Holding, LockKnown, LockCurrent, Active, Flush
<1>11. ASSUME NEW r \in Requests, Release(r) PROVE LockCurrent'
  BY <1>11 DEF TypeOK, Holding, LockKnown, LockCurrent, Active, Release,
      HandOver
<1>12. ASSUME NEW r \in Requests, Unguard(r) PROVE LockCurrent'
  BY <1>12 DEF TypeOK, Holding, LockKnown, LockCurrent, Active, Unguard, Users
<1>13. ASSUME NEW r \in Requests, TaskEnds(r) PROVE LockCurrent'
  BY <1>13 DEF TypeOK, Holding, LockKnown, LockCurrent, Active, TaskEnds
<1>14. ASSUME NEW r \in Requests, TaskAborted(r) PROVE LockCurrent'
  BY <1>14 DEF TypeOK, Holding, LockKnown, LockCurrent, Active, TaskAborted
<1>15. ASSUME NEW r \in Requests, Disconnect(r) PROVE LockCurrent'
  BY <1>15 DEF TypeOK, Holding, LockKnown, LockCurrent, Active, Disconnect,
      LeaveQueue
<1>16. ASSUME NEW k \in Cleaners, CleanTry(k) PROVE LockCurrent'
  BY <1>16 DEF TypeOK, Holding, LockKnown, LockCurrent, Active, CleanTry
<1>17. ASSUME NEW k \in Cleaners, CleanRemove(k) PROVE LockCurrent'
  BY <1>17 DEF TypeOK, Holding, LockKnown, LockCurrent, Active, CleanRemove,
      Users
<1>18. CASE Shutdown
  BY <1>18 DEF TypeOK, Holding, LockKnown, LockCurrent, Active, Shutdown
<1>19. CASE Exit
  BY <1>19 DEF TypeOK, Holding, LockKnown, LockCurrent, Active, Exit
<1>20. CASE UNCHANGED vars
  BY <1>20 DEF TypeOK, Holding, LockKnown, LockCurrent, Active, vars
<1>21. ASSUME NEW r \in Requests, JobsStop(r) PROVE LockCurrent'
  BY <1>21 DEF TypeOK, Holding, LockKnown, LockCurrent, Active, JobsStop
<1>22. QED
  BY <1>1, <1>2, <1>3, <1>4, <1>5, <1>6, <1>7, <1>8, <1>9, <1>10, <1>11,
      <1>12, <1>13, <1>14, <1>15, <1>16, <1>17, <1>18, <1>19, <1>20, <1>21
  DEF Next, Worker, Advance

\* Every action keeps TaskPlace.
LEMMA PlaceStep == TypeOK /\ TaskPlace /\ [Next]_vars => TaskPlace'
<1> SUFFICES ASSUME TypeOK, TaskPlace, [Next]_vars PROVE  TaskPlace'
  OBVIOUS
<1> USE RequestsAssumption, NoneAssumption
<1>1. ASSUME NEW r \in Requests, Begin(r) PROVE TaskPlace'
  BY <1>1 DEF TypeOK, Holding, TaskPlace, Runaway, Stray, Begin
<1>2. ASSUME NEW r \in Requests, Enqueue(r) PROVE TaskPlace'
  BY <1>2 DEF TypeOK, Holding, TaskPlace, Runaway, Stray, Enqueue
<1>3. ASSUME NEW r \in Requests, LockTimeout(r) PROVE TaskPlace'
  BY <1>3 DEF TypeOK, Holding, TaskPlace, Runaway, Stray, LockTimeout, LeaveQueue
<1>4. ASSUME NEW r \in Requests, StartBuild(r) PROVE TaskPlace'
  BY <1>4 DEF TypeOK, Holding, TaskPlace, Runaway, Stray, StartBuild
<1>5. ASSUME NEW r \in Requests, Result(r) PROVE TaskPlace'
  BY <1>5 DEF TypeOK, Holding, TaskPlace, Runaway, Stray, Result
<1>6. ASSUME NEW r \in Requests, Heartbeat(r) PROVE TaskPlace'
  BY <1>6 DEF TypeOK, Holding, TaskPlace, Runaway, Stray, Heartbeat
<1>7. ASSUME NEW r \in Requests, Deadline(r) PROVE TaskPlace'
  BY <1>7 DEF TypeOK, Holding, TaskPlace, Runaway, Stray, Deadline
<1>8. ASSUME NEW r \in Requests, CancelSeen(r) PROVE TaskPlace'
  BY <1>8 DEF TypeOK, Holding, TaskPlace, Runaway, Stray, CancelSeen
<1>9. ASSUME NEW r \in Requests, Joined(r) PROVE TaskPlace'
  BY <1>9 DEF TypeOK, Holding, TaskPlace, Runaway, Stray, Joined, FutureGone
<1>10. ASSUME NEW r \in Requests, Flush(r) PROVE TaskPlace'
  BY <1>10 DEF TypeOK, Holding, TaskPlace, Runaway, Stray, Flush, FutureGone
<1>11. ASSUME NEW r \in Requests, Release(r) PROVE TaskPlace'
  BY <1>11 DEF TypeOK, Holding, TaskPlace, Runaway, Stray, Release, HandOver
<1>12. ASSUME NEW r \in Requests, Unguard(r) PROVE TaskPlace'
  BY <1>12 DEF TypeOK, Holding, TaskPlace, Runaway, Stray, Unguard
<1>13. ASSUME NEW r \in Requests, TaskEnds(r) PROVE TaskPlace'
  BY <1>13 DEF TypeOK, Holding, TaskPlace, Runaway, Stray, TaskEnds
<1>14. ASSUME NEW r \in Requests, TaskAborted(r) PROVE TaskPlace'
  BY <1>14 DEF TypeOK, Holding, TaskPlace, Runaway, Stray, TaskAborted
<1>15. ASSUME NEW r \in Requests, Disconnect(r) PROVE TaskPlace'
  BY <1>15 DEF TypeOK, Holding, TaskPlace, Runaway, Stray, Disconnect, LeaveQueue,
      Active
<1>16. ASSUME NEW k \in Cleaners, CleanTry(k) PROVE TaskPlace'
  BY <1>16 DEF TypeOK, Holding, TaskPlace, Runaway, Stray, CleanTry
<1>17. ASSUME NEW k \in Cleaners, CleanRemove(k) PROVE TaskPlace'
  BY <1>17 DEF TypeOK, Holding, TaskPlace, Runaway, Stray, CleanRemove
<1>18. CASE Shutdown
  BY <1>18 DEF TypeOK, Holding, TaskPlace, Runaway, Stray, Shutdown
<1>19. CASE Exit
  BY <1>19 DEF TypeOK, Holding, TaskPlace, Runaway, Stray, Exit
<1>20. CASE UNCHANGED vars
  BY <1>20 DEF TypeOK, Holding, TaskPlace, Runaway, Stray, vars
<1>21. ASSUME NEW r \in Requests, JobsStop(r) PROVE TaskPlace'
  BY <1>21 DEF TypeOK, Holding, TaskPlace, Runaway, Stray, JobsStop
<1>22. QED
  BY <1>1, <1>2, <1>3, <1>4, <1>5, <1>6, <1>7, <1>8, <1>9, <1>10, <1>11,
      <1>12, <1>13, <1>14, <1>15, <1>16, <1>17, <1>18, <1>19, <1>20, <1>21
  DEF Next, Worker, Advance

\* Every action keeps LocksAccounted.
LEMMA AccountStep == TypeOK /\ LockKnown /\ LocksAccounted /\ [Next]_vars => LocksAccounted'
<1> SUFFICES ASSUME TypeOK, LockKnown, LocksAccounted,
    [Next]_vars PROVE  LocksAccounted'
  OBVIOUS
<1> USE RequestsAssumption, NoneAssumption
<1>1. ASSUME NEW r \in Requests, Begin(r) PROVE LocksAccounted'
  <2>1. NewLock \in Free \/ Free = {}
    BY DEF NewLock
  <2> QED  BY <1>1, <2>1 DEF TypeOK, Holding, LockKnown, Active,
      LocksAccounted, Begin, Free, Users
<1>2. ASSUME NEW r \in Requests, Enqueue(r) PROVE LocksAccounted'
  <2>1. /\ lock[r] \in Locks
        /\ pc' = [pc EXCEPT ![r] = "waiting"]
        /\ UNCHANGED lock
    BY <1>2 DEF TypeOK, LockKnown, Active, Enqueue
  <2>2. \A l \in Locks : r \notin waiting[l] /\ holder[l] # r
    <3>1. pc[r] = "begun" /\ r # None
      BY <1>2 DEF Enqueue
    <3> QED BY <3>1 DEF TypeOK, Holding, LocksAccounted
  <2>3. \A q \in Requests \ {r} : pc'[q] = pc[q]
    BY <2>1 DEF TypeOK
  <2>4. pc'[r] = "waiting" /\ pc[r] = "begun"
    BY <1>2, <2>1 DEF Enqueue, TypeOK
  <2>5. CASE holder[lock[r]] = None
    <3>1. holder' = [holder EXCEPT ![lock[r]] = r] /\ UNCHANGED waiting
      BY <1>2, <2>5 DEF Enqueue
    <3>2. waiting[lock[r]] = {}
      BY <2>1, <2>5 DEF LocksAccounted, TypeOK
    <3>3. \A l \in Locks : holder'[l] = IF l = lock[r] THEN r ELSE holder[l]
      BY <2>1, <3>1 DEF TypeOK
    <3> QED BY <2>1, <2>2, <2>3, <2>4, <2>5, <3>1, <3>2, <3>3 DEF TypeOK, Holding, LocksAccounted,
              LockKnown, Active
  <2>6. CASE holder[lock[r]] # None
    <3>1. waiting' = [waiting EXCEPT ![lock[r]] = @ \cup {r}] /\ UNCHANGED holder
      BY <1>2, <2>6 DEF Enqueue
    <3>2. \A l \in Locks :
            waiting'[l] = IF l = lock[r] THEN waiting[l] \cup {r} ELSE waiting[l]
      BY <2>1, <3>1 DEF TypeOK
    <3> QED BY <2>1, <2>2, <2>3, <2>4, <2>6, <3>1, <3>2 DEF TypeOK, Holding, LocksAccounted,
              LockKnown, Active
  <2> QED BY <2>5, <2>6
<1>3. ASSUME NEW r \in Requests, LockTimeout(r) PROVE LocksAccounted'
  BY <1>3 DEF TypeOK, Holding, LockKnown, Active, LocksAccounted, LockTimeout,
      LeaveQueue
<1>4. ASSUME NEW r \in Requests, StartBuild(r) PROVE LocksAccounted'
  BY <1>4 DEF TypeOK, Holding, LockKnown, Active, LocksAccounted, StartBuild
<1>5. ASSUME NEW r \in Requests, Result(r) PROVE LocksAccounted'
  BY <1>5 DEF TypeOK, Holding, LockKnown, Active, LocksAccounted, Result
<1>6. ASSUME NEW r \in Requests, Heartbeat(r) PROVE LocksAccounted'
  BY <1>6 DEF TypeOK, Holding, LockKnown, Active, LocksAccounted, Heartbeat
<1>7. ASSUME NEW r \in Requests, Deadline(r) PROVE LocksAccounted'
  BY <1>7 DEF TypeOK, Holding, LockKnown, Active, LocksAccounted, Deadline
<1>8. ASSUME NEW r \in Requests, CancelSeen(r) PROVE LocksAccounted'
  BY <1>8 DEF TypeOK, Holding, LockKnown, Active, LocksAccounted, CancelSeen
<1>9. ASSUME NEW r \in Requests, Joined(r) PROVE LocksAccounted'
  BY <1>9 DEF TypeOK, Holding, LockKnown, Active, LocksAccounted, Joined
<1>10. ASSUME NEW r \in Requests, Flush(r) PROVE LocksAccounted'
  BY <1>10 DEF TypeOK, Holding, LockKnown, Active, LocksAccounted, Flush
<1>11. ASSUME NEW r \in Requests, Release(r) PROVE LocksAccounted'
  BY <1>11 DEF TypeOK, Holding, LockKnown, Active, LocksAccounted, Release,
      HandOver
<1>12. ASSUME NEW r \in Requests, Unguard(r) PROVE LocksAccounted'
  BY <1>12 DEF TypeOK, Holding, LockKnown, Active, LocksAccounted, Unguard
<1>13. ASSUME NEW r \in Requests, TaskEnds(r) PROVE LocksAccounted'
  BY <1>13 DEF TypeOK, Holding, LockKnown, Active, LocksAccounted, TaskEnds
<1>14. ASSUME NEW r \in Requests, TaskAborted(r) PROVE LocksAccounted'
  BY <1>14 DEF TypeOK, Holding, LockKnown, Active, LocksAccounted, TaskAborted
<1>15. ASSUME NEW r \in Requests, Disconnect(r) PROVE LocksAccounted'
  BY <1>15 DEF TypeOK, Holding, LockKnown, Active, LocksAccounted, Disconnect,
      LeaveQueue
<1>16. ASSUME NEW k \in Cleaners, CleanTry(k) PROVE LocksAccounted'
  BY <1>16 DEF TypeOK, Holding, LockKnown, Active, LocksAccounted, CleanTry
<1>17. ASSUME NEW k \in Cleaners, CleanRemove(k) PROVE LocksAccounted'
  BY <1>17 DEF TypeOK, Holding, LockKnown, Active, LocksAccounted, CleanRemove
<1>18. CASE Shutdown
  BY <1>18 DEF TypeOK, Holding, LockKnown, Active, LocksAccounted, Shutdown
<1>19. CASE Exit
  BY <1>19 DEF TypeOK, Holding, LockKnown, Active, LocksAccounted, Exit
<1>20. CASE UNCHANGED vars
  BY <1>20 DEF TypeOK, Holding, LockKnown, Active, LocksAccounted, vars
<1>21. ASSUME NEW r \in Requests, JobsStop(r) PROVE LocksAccounted'
  BY <1>21 DEF TypeOK, Holding, LockKnown, Active, LocksAccounted, JobsStop
<1>22. QED
  BY <1>1, <1>2, <1>3, <1>4, <1>5, <1>6, <1>7, <1>8, <1>9, <1>10, <1>11,
      <1>12, <1>13, <1>14, <1>15, <1>16, <1>17, <1>18, <1>19, <1>20, <1>21
  DEF Next, Worker, Advance

\* Every action keeps FlagIsNotStuck.
LEMMA FlagStep == TypeOK /\ FlagIsNotStuck /\ [Next]_vars => FlagIsNotStuck'
<1> SUFFICES ASSUME TypeOK, FlagIsNotStuck, [Next]_vars PROVE  FlagIsNotStuck'
  OBVIOUS
<1> USE RequestsAssumption, NoneAssumption
<1>1. ASSUME NEW r \in Requests, Begin(r) PROVE FlagIsNotStuck'
  BY <1>1 DEF TypeOK, Holding, LockKnown, Active, FlagIsNotStuck, Begin
<1>2. ASSUME NEW r \in Requests, Enqueue(r) PROVE FlagIsNotStuck'
  BY <1>2 DEF TypeOK, Holding, LockKnown, Active, FlagIsNotStuck, Enqueue
<1>3. ASSUME NEW r \in Requests, LockTimeout(r) PROVE FlagIsNotStuck'
  BY <1>3 DEF TypeOK, Holding, LockKnown, Active, FlagIsNotStuck, LockTimeout,
      LeaveQueue
<1>4. ASSUME NEW r \in Requests, StartBuild(r) PROVE FlagIsNotStuck'
  BY <1>4 DEF TypeOK, Holding, LockKnown, Active, FlagIsNotStuck, StartBuild
<1>5. ASSUME NEW r \in Requests, Result(r) PROVE FlagIsNotStuck'
  BY <1>5 DEF TypeOK, Holding, LockKnown, Active, FlagIsNotStuck, Result
<1>6. ASSUME NEW r \in Requests, Heartbeat(r) PROVE FlagIsNotStuck'
  BY <1>6 DEF TypeOK, Holding, LockKnown, Active, FlagIsNotStuck, Heartbeat
<1>7. ASSUME NEW r \in Requests, Deadline(r) PROVE FlagIsNotStuck'
  BY <1>7 DEF TypeOK, Holding, LockKnown, Active, FlagIsNotStuck, Deadline
<1>8. ASSUME NEW r \in Requests, CancelSeen(r) PROVE FlagIsNotStuck'
  BY <1>8 DEF TypeOK, Holding, LockKnown, Active, FlagIsNotStuck, CancelSeen
<1>9. ASSUME NEW r \in Requests, Joined(r) PROVE FlagIsNotStuck'
  BY <1>9 DEF TypeOK, Holding, LockKnown, Active, FlagIsNotStuck, Joined
<1>10. ASSUME NEW r \in Requests, Flush(r) PROVE FlagIsNotStuck'
  BY <1>10 DEF TypeOK, Holding, LockKnown, Active, FlagIsNotStuck, Flush
<1>11. ASSUME NEW r \in Requests, Release(r) PROVE FlagIsNotStuck'
  BY <1>11 DEF TypeOK, Holding, LockKnown, Active, FlagIsNotStuck, Release,
      HandOver
<1>12. ASSUME NEW r \in Requests, Unguard(r) PROVE FlagIsNotStuck'
  BY <1>12 DEF TypeOK, Holding, LockKnown, Active, FlagIsNotStuck, Unguard
<1>13. ASSUME NEW r \in Requests, TaskEnds(r) PROVE FlagIsNotStuck'
  BY <1>13 DEF TypeOK, Holding, LockKnown, Active, FlagIsNotStuck, TaskEnds
<1>14. ASSUME NEW r \in Requests, TaskAborted(r) PROVE FlagIsNotStuck'
  BY <1>14 DEF TypeOK, Holding, LockKnown, Active, FlagIsNotStuck, TaskAborted
<1>15. ASSUME NEW r \in Requests, Disconnect(r) PROVE FlagIsNotStuck'
  BY <1>15 DEF TypeOK, Holding, LockKnown, Active, FlagIsNotStuck, Disconnect,
      LeaveQueue
<1>16. ASSUME NEW k \in Cleaners, CleanTry(k) PROVE FlagIsNotStuck'
  BY <1>16 DEF TypeOK, Holding, LockKnown, Active, FlagIsNotStuck, CleanTry
<1>17. ASSUME NEW k \in Cleaners, CleanRemove(k) PROVE FlagIsNotStuck'
  BY <1>17 DEF TypeOK, Holding, LockKnown, Active, FlagIsNotStuck, CleanRemove
<1>18. CASE Shutdown
  BY <1>18 DEF TypeOK, Holding, LockKnown, Active, FlagIsNotStuck, Shutdown
<1>19. CASE Exit
  BY <1>19 DEF TypeOK, Holding, LockKnown, Active, FlagIsNotStuck, Exit
<1>20. CASE UNCHANGED vars
  BY <1>20 DEF TypeOK, Holding, LockKnown, Active, FlagIsNotStuck, vars
<1>21. ASSUME NEW r \in Requests, JobsStop(r) PROVE FlagIsNotStuck'
  BY <1>21 DEF TypeOK, Active, FlagIsNotStuck, JobsStop
<1>22. QED
  BY <1>1, <1>2, <1>3, <1>4, <1>5, <1>6, <1>7, <1>8, <1>9, <1>10, <1>11,
      <1>12, <1>13, <1>14, <1>15, <1>16, <1>17, <1>18, <1>19, <1>20, <1>21
  DEF Next, Worker, Advance

-----------------------------------------------------------------------------
\* The inductive invariant.
Inv == TypeOK /\ LockKnown /\ LockCurrent /\ TaskPlace /\ LocksAccounted

\* The parts hold at the start, and every step keeps them together.
LEMMA InvInit == Init => Inv /\ FlagIsNotStuck
<1> SUFFICES ASSUME Init PROVE Inv /\ FlagIsNotStuck
  OBVIOUS
<1> USE RequestsAssumption, NoneAssumption
<1>1. TypeOK
  BY DEF Init, TypeOK, Holding
<1>2. LockKnown /\ LockCurrent
  BY DEF Init, LockKnown, LockCurrent, Active
<1>3. TaskPlace
  BY DEF Init, TaskPlace
<1>4. LocksAccounted
  BY DEF Init, LocksAccounted, Holding
<1>5. FlagIsNotStuck
  BY DEF Init, FlagIsNotStuck
<1>6. QED
  BY <1>1, <1>2, <1>3, <1>4, <1>5 DEF Inv

\* One step keeps the inductive invariant.
LEMMA InvStep == Inv /\ [Next]_vars => Inv'
BY TypeStep, KnownStep, CurrentStep, PlaceStep, AccountStep DEF Inv

(***************************************************************************)
(* What the overlap of two builds rests on: both hold their lock unless    *)
(* they ran away or strayed, both locks are the table's unless orphaned,   *)
(* and a lock has one holder.                                              *)
(***************************************************************************)
LEMMA InvExcludes == Inv => BuildsExclude
<1> SUFFICES ASSUME Inv, NEW r \in Requests, NEW s \in Requests, r # s,
                    ProjectOf[r] = ProjectOf[s], Compiling(r), Compiling(s),
                    ~Runaway(r), ~Runaway(s), ~Stray(r), ~Stray(s),
                    lock[r] \notin orphaned, lock[s] \notin orphaned
             PROVE  FALSE
  BY DEF BuildsExclude
<1>1. pc[r] \in Holding /\ pc[s] \in Holding
  BY DEF Inv, TaskPlace, Compiling, Holding
<1>2. holder[lock[r]] = r /\ holder[lock[s]] = s
  BY <1>1 DEF Inv, LocksAccounted
<1>3. lock[r] = lock[s]
  BY <1>1 DEF Inv, LockCurrent, Active, Holding
<1>4. QED
  BY <1>2, <1>3

\* The state is well typed for every instance.
THEOREM TypeCorrect == Spec => []TypeOK
<1>1. Inv => TypeOK
  BY DEF Inv
<1>2. QED
  BY <1>1, InvInit, InvStep, PTL DEF Spec

\* No permit of a project lock is lost or given twice (build.rs:330-372).
THEOREM PermitsAccounted == Spec => []LocksAccounted
<1>1. Inv => LocksAccounted
  BY DEF Inv
<1>2. QED
  BY <1>1, InvInit, InvStep, PTL DEF Spec

\* Builds of one project overlap in the three named cases only.
THEOREM ProjectExclusion == Spec => []BuildsExclude
BY InvInit, InvStep, InvExcludes, PTL DEF Spec

\* The shared operation flag is up only while an operation is (common.rs:193).
THEOREM FlagLowered == Spec => []FlagIsNotStuck
<1>1. Inv => TypeOK
  BY DEF Inv
<1>2. QED
  BY <1>1, InvInit, InvStep, FlagStep, PTL DEF Spec
=============================================================================
