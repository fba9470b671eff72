----------------------------- MODULE MmbPromise -----------------------------
(***************************************************************************)
(* What the block manager promises to the holders of a block, without      *)
(* reference counts: a block is allocated by taking it while nobody holds  *)
(* it, further holders may join while it is allocated, and it becomes      *)
(* available again in the very step in which its last holder leaves.       *)
(***************************************************************************)
CONSTANTS Blocks, Holder

VARIABLES
  live,     \* the blocks that are allocated
  holders   \* who relies on each block

Init == live = {} /\ holders = [b \in Blocks |-> {}]

Take(b, h) ==
  /\ b \notin live
  /\ live' = live \union {b}
  /\ holders' = [holders EXCEPT ![b] = {h}]

Join(b, h) ==
  /\ b \in live
  /\ holders' = [holders EXCEPT ![b] = @ \union {h}]
  /\ UNCHANGED live

Leave(b, h) ==
  /\ h \in holders[b]
  /\ holders' = [holders EXCEPT ![b] = @ \ {h}]
  /\ live' = IF holders[b] = {h} THEN live \ {b} ELSE live

Next == \E b \in Blocks, h \in Holder : Take(b, h) \/ Join(b, h) \/ Leave(b, h)

Spec == Init /\ [][Next]_<<live, holders>>
=============================================================================
