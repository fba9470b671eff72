------------------------------ MODULE MmzAlloc ------------------------------
(***************************************************************************)
(* Placement of blocks in the zones by the "ot" allocator                  *)
(* (allocator_mmb_alloc).  One request runs under g_mmz_lock from end to   *)
(* end, so no other action can come between its steps; it is modelled one  *)
(* loop iteration per step, so that the loop invariants can be stated and  *)
(* proved.  Addresses are unsigned words: a difference wraps at WordLimit. *)
(***************************************************************************)
EXTENDS Integers

CONSTANTS
  ZoneCount,   \* zones that pass mmz_default_filter, 1..ZoneCount in list order
  Lo, Hi,      \* phys_start and phys_start + nbytes of each zone
  Grain,       \* MMZ_GRAIN
  Sizes,       \* sizes callers ask for
  Aligns,      \* alignments callers ask for
  WordLimit    \* 2^64: one more than the largest unsigned long

Zones == 1 .. ZoneCount

\* mmz_align2: the least multiple of g that is not below x.
Align2(x, g) == ((x + g - 1) \div g) * g

\* The alignment find_fixed_region works with: a multiple of the grain.
EffectiveAlign(a) == IF a = 0 THEN Grain ELSE Align2(a, Grain)

\* mmz_register_check keeps the zones apart; no zone starts at address 0,
\* which find_fixed_region uses for "no room"; the addresses are far from
\* the end of the word, so that sums do not wrap.
ASSUME AllocConstants ==
  /\ ZoneCount \in Nat
  /\ Grain \in Nat \ {0}
  /\ Lo \in [Zones -> Nat \ {0}] /\ Hi \in [Zones -> Nat]
  /\ Sizes \subseteq Nat \ {0} /\ Aligns \subseteq Nat
  /\ WordLimit \in Nat \ {0}
  /\ \A z \in Zones : Lo[z] < Hi[z]
  /\ \A z \in Zones, s \in Sizes, a \in Aligns :
       Align2(Hi[z], EffectiveAlign(a)) + Align2(s, Grain) + Grain < WordLimit

VARIABLES
  blocks,   \* mmb_list of each zone, which do_mmb_alloc keeps sorted by phys
  pc,       \* where the request in progress stands
  req,      \* its length and alignment, rounded to the grain
  zone,     \* the zone under consideration
  cur,      \* p, the block under consideration
  start,    \* start of the gap after p
  fixed,    \* fixed_start and fixed_len: the best gap of this zone so far
  choice    \* fixed_mmz, fixed_start and fixed_len of the outer loop

vars == <<blocks, pc, req, zone, cur, start, fixed, choice>>
-----------------------------------------------------------------------------
Block == [phys : Nat \ {0}, len : Nat \ {0}]
End(b) == b.phys + b.len

\* Unsigned subtraction.
Minus(x, y) == IF x >= y THEN x - y ELSE x - y + WordLimit

\* fixed_len = (unsigned long)-1: no gap yet.
NoLen == WordLimit - 1
NoGap == [start |-> 0, len |-> NoLen]

\* Mutants: the last gap that fits wins; a gap of just the size is refused.
AcceptsAny(e, s, best, len) == Minus(e, s) >= len
AcceptsLarger(e, s, best, len) == Minus(e, s) < best.len /\ Minus(e, s) > len

\* calculate_fixed_region accepts the gap from s to e.
Accepts(e, s, best, len) == Minus(e, s) < best.len /\ Minus(e, s) >= len
Calculate(e, s, best, len) ==
  IF Accepts(e, s, best, len) THEN [start |-> s, len |-> Minus(e, s)] ELSE best

IsFirst(z, b) == b \in blocks[z] /\ \A c \in blocks[z] : b.phys <= c.phys
IsLast(z, b) == b \in blocks[z] /\ \A c \in blocks[z] : c.phys <= b.phys
IsNext(z, b, n) ==
  /\ n \in blocks[z] /\ b.phys < n.phys
  /\ \A c \in blocks[z] : b.phys < c.phys => n.phys <= c.phys

NoBlock == [phys |-> 0, len |-> 0]
NoZone == 0
NoChoice == [zone |-> NoZone, start |-> 0, len |-> WordLimit - 2]   \* ~1

Init ==
  /\ blocks = [z \in Zones |-> {}]
  /\ pc = "idle"
  /\ req = [len |-> 0, align |-> 0]
  /\ zone = NoZone /\ cur = NoBlock /\ start = 0
  /\ fixed = NoGap /\ choice = NoChoice
-----------------------------------------------------------------------------
\* Mutant: the size is rounded down.
RequestRoundedDown(size, align) ==
  /\ pc = "idle"
  /\ req' = [len |-> (size \div Grain) * Grain, align |-> EffectiveAlign(align)]
  /\ pc' = "zone" /\ zone' = 1 /\ choice' = NoChoice
  /\ UNCHANGED <<blocks, cur, start, fixed>>

\* allocator_mmb_alloc: take the lock and round the size to the grain.
Request(size, align) ==
  /\ pc = "idle"
  /\ req' = [len |-> Align2(size, Grain), align |-> EffectiveAlign(align)]
  /\ pc' = "zone" /\ zone' = 1 /\ choice' = NoChoice
  /\ UNCHANGED <<blocks, cur, start, fixed>>

\* find_fixed_region, before the loop: an empty list goes to the final test.
ZoneEmpty ==
  /\ pc = "zone" /\ zone \in Zones /\ blocks[zone] = {}
  /\ start' = Align2(Lo[zone], req.align)
  /\ fixed' = NoGap
  /\ pc' = "tail"
  /\ UNCHANGED <<blocks, req, zone, cur, choice>>

\* The first entry: the gap in front of it.
ZoneFirst ==
  /\ pc = "zone" /\ zone \in Zones
  /\ \E p \in blocks[zone] :
       /\ IsFirst(zone, p)
       /\ cur' = p
       /\ start' = Align2(Lo[zone], req.align)
       /\ fixed' = Calculate(p.phys, start', NoGap, req.len)
  /\ pc' = "scan"
  /\ UNCHANGED <<blocks, req, zone, choice>>

\* Mutant: without the test for a blank that is too small.
ScanNextUntested ==
  /\ pc = "scan"
  /\ \E n \in blocks[zone] :
       /\ IsNext(zone, cur, n)
       /\ start' = Align2(End(cur), req.align)
       /\ fixed' = Calculate(n.phys, start', fixed, req.len)
       /\ cur' = n
  /\ UNCHANGED <<blocks, pc, req, zone, choice>>

\* An entry with a successor: the gap between the two, unless it is too small.
ScanNext ==
  /\ pc = "scan"
  /\ \E n \in blocks[zone] :
       /\ IsNext(zone, cur, n)
       /\ start' = Align2(End(cur), req.align)
       /\ fixed' = IF start' + req.len > n.phys THEN fixed
                   ELSE Calculate(n.phys, start', fixed, req.len)
       /\ cur' = n
  /\ UNCHANGED <<blocks, pc, req, zone, choice>>

\* The last entry: the gap up to the end of the zone, if it is better,
\* leaves the loop for the final test; else the best gap so far stands.
ScanLast ==
  /\ pc = "scan" /\ IsLast(zone, cur)
  /\ start' = Align2(End(cur), req.align)
  /\ IF Accepts(Hi[zone], start', fixed, req.len)
       THEN /\ fixed' = Calculate(Hi[zone], start', fixed, req.len)
            /\ pc' = "tail"
       ELSE /\ fixed' = IF fixed.len = NoLen THEN [fixed EXCEPT !.start = 0] ELSE fixed
            /\ pc' = "found"
  /\ UNCHANGED <<blocks, req, zone, cur, choice>>

\* Mutant: the end of the zone is not tested.
TailUntested ==
  /\ pc = "tail"
  /\ fixed' = [fixed EXCEPT !.start = start]
  /\ pc' = "found"
  /\ UNCHANGED <<blocks, req, zone, cur, start, choice>>

\* The test after the loop: start is taken if the block fits in the zone there.
Tail ==
  /\ pc = "tail"
  /\ fixed' = [fixed EXCEPT !.start =
                 IF /\ Align2(start + req.len, Grain) <= Hi[zone]
                    /\ start >= Lo[zone] /\ start < Hi[zone]
                 THEN start ELSE 0]
  /\ pc' = "found"
  /\ UNCHANGED <<blocks, req, zone, cur, start, choice>>

\* Back in allocator_mmb_alloc: region_len is the rounded size, so the first
\* zone with room wins.
NextZone ==
  /\ pc = "found"
  /\ choice' = IF choice.len > req.len /\ fixed.start # 0
                 THEN [zone |-> zone, start |-> fixed.start, len |-> req.len]
                 ELSE choice
  /\ zone' = zone + 1
  /\ pc' = "zone"
  /\ UNCHANGED <<blocks, req, cur, start, fixed>>

ZonesDone ==
  /\ pc = "zone" /\ zone \notin Zones
  /\ pc' = "commit"
  /\ UNCHANGED <<blocks, req, zone, cur, start, fixed, choice>>

NewBlock == [phys |-> choice.start, len |-> req.len]

Finish ==
  /\ pc' = "idle"
  /\ UNCHANGED <<req, zone, cur, start, fixed, choice>>

\* No zone has room: ot_mmb_alloc returns NULL.
Fail ==
  /\ pc = "commit" /\ choice.zone = NoZone
  /\ Finish /\ UNCHANGED blocks

\* do_mmb_alloc found a block at that address: "media-mem allocator bad".
AllocatorBad == \E b \in blocks[choice.zone] : b.phys = choice.start

\* mmb_real_alloc and do_mmb_alloc: insert the block into the sorted list, or
\* give up when the address is taken.
Insert ==
  /\ pc = "commit" /\ choice.zone # NoZone
  /\ blocks' = IF AllocatorBad THEN blocks
               ELSE [blocks EXCEPT ![choice.zone] = @ \union {NewBlock}]
  /\ Finish

\* allocator_mmb_free
Remove(z, b) ==
  /\ pc = "idle" /\ b \in blocks[z]
  /\ blocks' = [blocks EXCEPT ![z] = @ \ {b}]
  /\ UNCHANGED <<pc, req, zone, cur, start, fixed, choice>>

Next ==
  \/ \E size \in Sizes, align \in Aligns : Request(size, align)
  \/ ZoneEmpty \/ ZoneFirst \/ ScanNext \/ ScanLast \/ Tail \/ NextZone
  \/ ZonesDone \/ Fail \/ Insert
  \/ \E z \in Zones : \E b \in blocks[z] : Remove(z, b)

Spec == Init /\ [][Next]_vars
-----------------------------------------------------------------------------
(* Every variable has its type; no block is empty or at address 0.         *)
TypeOK ==
  /\ blocks \in [Zones -> SUBSET Block]
  /\ pc \in {"idle", "zone", "scan", "tail", "found", "commit"}
  /\ req \in [len : Nat, align : Nat]
  /\ zone \in Nat /\ cur \in Block \union {NoBlock} /\ start \in Nat
  /\ fixed \in [start : Nat, len : Nat]
  /\ choice \in [zone : Nat, start : Nat, len : Int]

Apart(b, c) == End(b) <= c.phys \/ End(c) <= b.phys
Inside(z, b) == Lo[z] <= b.phys /\ End(b) <= Hi[z]

(* No two blocks of a zone share an address and every block lies in its    *)
(* zone: what find_fixed_region and do_mmb_alloc together must guarantee.  *)
BlocksDisjoint ==
  \A z \in Zones :
    /\ \A b \in blocks[z] : Inside(z, b)
    /\ \A b, c \in blocks[z] : b # c => Apart(b, c)

(* find_fixed_region never hands do_mmb_alloc the address of an existing   *)
(* block, the case its message calls "media-mem allocator bad".            *)
NeverBad == ~(pc = "commit" /\ choice.zone # NoZone /\ AllocatorBad)

\* The gaps of zone z: from an aligned start to the next block or the end.
GapStarts(z) == {Align2(x, req.align) : x \in {Lo[z]} \union {End(b) : b \in blocks[z]}}
GapEnds(z) == {Hi[z]} \union {b.phys : b \in blocks[z]}
IsGap(z, s, e) ==
  /\ s \in GapStarts(z) /\ e \in GapEnds(z) /\ s <= e
  /\ \A b \in blocks[z] : End(b) <= s \/ e <= b.phys
Fits(z, s, e) == IsGap(z, s, e) /\ e - s >= req.len
HasRoom(z) == \E s \in GapStarts(z), e \in GapEnds(z) : Fits(z, s, e)

(* A request gets the smallest gap it fits into, in the first zone that    *)
(* has one (the comparison of blank_len with *fixed_len).                  *)
BestFit ==
  pc = "commit" /\ choice.zone # NoZone =>
    /\ \A z \in 1 .. choice.zone - 1 : ~HasRoom(z)
    /\ \E e \in GapEnds(choice.zone) :
         /\ Fits(choice.zone, choice.start, e)
         /\ \A t \in GapStarts(choice.zone), u \in GapEnds(choice.zone) :
              Fits(choice.zone, t, u) => u - t >= e - choice.start

(* A request fails only when no zone has a gap it fits into.               *)
FailOnlyIfFull ==
  pc = "commit" /\ choice.zone = NoZone =>
    \A z \in Zones : ~HasRoom(z)
=============================================================================
