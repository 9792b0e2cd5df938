-------------------------- MODULE MCSerialManager --------------------------
(***************************************************************************)
(* SerialManager for TLC: two connections, each with a client id of its    *)
(* own, and the handlers that serve them.                                  *)
(***************************************************************************)
EXTENDS SerialManager, TLC

CONSTANTS c1, c2, x1, x2

TwoClients == (c1 :> x1) @@ (c2 :> x2)

WsMonitor == (c1 :> "ws") @@ (c2 :> "monitor")
=============================================================================
