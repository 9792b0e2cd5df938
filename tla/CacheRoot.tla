------------------------------ MODULE CacheRoot ------------------------------
(***************************************************************************)
(* What root-owner.lock promises (fbuild-paths/src/daemon_ownership.rs,    *)
(* lines 1 to 24): the compiler-cache root has one user at a time, a       *)
(* daemon of any version or `fbuild clean cache`, and a user that dies     *)
(* leaves the root free.  DaemonOwnership implements this specification.   *)
(***************************************************************************)

CONSTANT Users      \* the processes that may touch the cache root

VARIABLE using      \* the processes that touch it now

Init == using = {}

\* A process starts to use the root only when nobody does.
Enter(u) == /\ using = {}
            /\ using' = {u}

\* It stops: it exits, is killed, or has finished the deletion.
Leave(u) == /\ u \in using
            /\ using' = using \ {u}

Next == \E u \in Users : Enter(u) \/ Leave(u)

Spec == Init /\ [][Next]_using

==============================================================================
