-------------------------- MODULE MCDaemonOwnership --------------------------
(* DaemonOwnership for TLC: the CLIs of two releases share a cache root. *)
EXTENDS DaemonOwnership, TLC

CONSTANTS c1, c2, v1, v2

TwoClisTwoVersions == (c1 :> v1) @@ (c2 :> v2)
==============================================================================
