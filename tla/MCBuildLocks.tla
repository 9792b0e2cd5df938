---------------------------- MODULE MCBuildLocks ----------------------------
(* BuildLocks for TLC: a streaming build, a plain one and an install-deps, *)
(* all of one project.                                                     *)
EXTENDS BuildLocks

CONSTANTS p1

OneProject == [r \in Requests |-> p1]
=============================================================================
