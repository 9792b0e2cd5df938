---------------------------- MODULE MCWarmBuild ----------------------------
(* A sketch of two sources and a header, with three configurations: debug  *)
(* is slow with other build_flags, lean is slow on another board, with     *)
(* other link options only.                                                *)
EXTENDS WarmBuild, TLC

CONSTANTS slow, debug, lean

MCMetaOf == [c \in Configs |-> IF c = lean THEN 2 ELSE 1]
MCCmdOf == [c \in Configs |-> IF c = debug THEN 2 ELSE 1]
MCLinkOf == [c \in Configs |-> IF c = lean THEN 2 ELSE 1]

Alike == Permutations(Sources) \cup Permutations(Contents)
=============================================================================
