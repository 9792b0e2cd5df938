--------------------------- MODULE MCSerialRebind ---------------------------
(***************************************************************************)
(* SerialRebind for TLC: a board that changes between two names, and a     *)
(* connection under each of them.                                          *)
(***************************************************************************)
EXTENDS SerialRebind, TLC

CONSTANTS c1, c2, p1, p2

OneEach == (c1 :> p1) @@ (c2 :> p2)
=============================================================================
