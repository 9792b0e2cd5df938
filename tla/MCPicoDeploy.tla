---------------------------- MODULE MCPicoDeploy ----------------------------
(* PicoDeploy for TLC: a board with a USB serial, whose application as found *)
(* has a reset interface and a sick port, and a board without a serial.      *)
EXTENDS PicoDeploy, TLC

CONSTANTS b1, b2, s1

MCSerialOf == (b1 :> s1) @@ (b2 :> None)
MCResetInterfaces == {<<b1, 0>>}
=============================================================================
