----------------------------- MODULE MCMmzAlloc -----------------------------
(* Two zones whose ends are multiples of the largest alignment. *)
EXTENDS MmzAllocAligned

MCLo == [z \in 1 .. 2 |-> IF z = 1 THEN 8 ELSE 24]
MCHi == [z \in 1 .. 2 |-> IF z = 1 THEN 20 ELSE 28]
=============================================================================
