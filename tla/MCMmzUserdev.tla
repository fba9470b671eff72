---------------------------- MODULE MCMmzUserdev ----------------------------
(* The instance of MmzUserdev that TLC explores. *)
EXTENDS MmzUserdev, FiniteSetsExt

\* Bound: mappings of all blocks together, by files and by the kernel.
FewMappings == MapThenSumSet(LAMBDA b : node[b].map_ref + kmaps[b], Blocks) <= 2
=============================================================================
