-------------------------- MODULE MmzAllocAligned ---------------------------
(***************************************************************************)
(* The zones the allocator is sound for: both ends of every zone are       *)
(* multiples of every alignment that is asked for.  Module MmzAlloc        *)
(* without this assumption shows what happens otherwise.                   *)
(***************************************************************************)
EXTENDS MmzAlloc

ASSUME ZonesAligned ==
  \A z \in Zones, a \in Aligns :
    /\ Lo[z] % EffectiveAlign(a) = 0
    /\ Hi[z] % EffectiveAlign(a) = 0
=============================================================================
