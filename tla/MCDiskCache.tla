---------------------------- MODULE MCDiskCache ----------------------------
(* DiskCache for TLC: two builds of the daemon. *)
EXTENDS DiskCache, TLC

CONSTANT d

MCProcOf == [r \in Resolvers |-> d]

\* The builds are alike, and so are the blobs.
BuildSymmetry == Permutations(Resolvers) \cup Permutations(Blobs)
=============================================================================
