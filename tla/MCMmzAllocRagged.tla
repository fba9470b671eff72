-------------------------- MODULE MCMmzAllocRagged --------------------------
(* One zone of eight grains that starts and ends between two multiples of  *)
(* the largest alignment.                                                  *)
EXTENDS MmzAlloc

MCLo == [z \in 1 .. 1 |-> 5]
MCHi == [z \in 1 .. 1 |-> 13]
=============================================================================
