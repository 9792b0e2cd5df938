-------------------------- MODULE MCTrustedDeploy --------------------------
(***************************************************************************)
(* TrustedDeploy for TLC: a board that can be on one of two ports.         *)
(***************************************************************************)
EXTENDS TrustedDeploy, TLC

CONSTANTS b1, s1

OneBoard == b1 :> s1

\* Nothing is claimed once a lapse has happened: do not go on from there.
NoLapse == lapses = {}

Symmetry ==
    Permutations(Ports) \cup Permutations(Hashes) \cup Permutations(Deploys)
=============================================================================
