-------------------------- MODULE MCDeviceManager --------------------------
(***************************************************************************)
(* DeviceManager for TLC: two ports and two boards with serial numbers.    *)
(***************************************************************************)
EXTENDS DeviceManager, TLC

CONSTANTS b1, b2, s1, s2

TwoBoards == (b1 :> s1) @@ (b2 :> s2)

\* Ports, lease ids and refreshers are interchangeable; boards are not.
Symmetry ==
    Permutations(Ports) \cup Permutations(LeaseIds)
        \cup Permutations(Refreshers)
=============================================================================
