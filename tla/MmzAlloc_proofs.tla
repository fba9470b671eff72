-------------------------- MODULE MmzAlloc_proofs --------------------------
(***************************************************************************)
(* The "ot" allocator keeps its blocks apart and inside their zones, for   *)
(* every number of zones, every layout of aligned zones, every size and    *)
(* alignment: proofs about MmzAllocAligned.                                *)
(***************************************************************************)
EXTENDS MmzAllocAligned, TLAPS

(* mmz_align2 does not go below its argument.                              *)
LEMMA Align2NotBelow ==
  ASSUME NEW x \in Nat, NEW g \in Nat \ {0}
  PROVE  Align2(x, g) \in Nat /\ x <= Align2(x, g)
<1>1. (x + g - 1) \div g \in Nat /\ x + g - 1 < ((x + g - 1) \div g) * g + g
  OBVIOUS
<1>. QED  BY <1>1 DEF Align2

(* mmz_align2 does not go beyond a multiple of the alignment: this is why  *)
(* no aligned start passes the end of an aligned zone.                     *)
LEMMA Align2NotBeyond ==
  ASSUME NEW x \in Nat, NEW y \in Nat, NEW g \in Nat \ {0}, x <= y, y % g = 0
  PROVE  Align2(x, g) <= y
<1>. DEFINE q == (x + g - 1) \div g
            r == y \div g
<1>1. q \in Nat /\ q * g <= x + g - 1
  OBVIOUS
<1>2. r \in Nat /\ y = r * g
  OBVIOUS
<1>. HIDE DEF q, r
<1>3. q * g < r * g + g
  BY <1>1, <1>2
<1>4. q <= r
  BY <1>1, <1>2, <1>3
<1>5. q * g <= r * g
  BY <1>1, <1>2, <1>4
<1>. QED  BY <1>2, <1>5 DEF Align2, q

-----------------------------------------------------------------------------
\* The block asked for has room at address s of zone z.
RoomAt(z, s) ==
  /\ Lo[z] <= s /\ s + req.len <= Hi[z]
  /\ \A b \in blocks[z] : End(b) <= s \/ s + req.len <= b.phys

\* The request in progress is one that allocator_mmb_alloc accepted.
RequestOK ==
  pc # "idle" =>
    /\ req.len # 0 /\ req.align # 0
    /\ \A z \in Zones : Lo[z] % req.align = 0 /\ Hi[z] % req.align = 0

\* Loop invariants of find_fixed_region: the best gap so far has room ...
ScanOK ==
  pc = "scan" => cur \in blocks[zone] /\ (fixed.start # 0 => RoomAt(zone, fixed.start))

\* ... after the loop every block ends below start ...
TailOK ==
  pc = "tail" => Lo[zone] <= start /\ \A b \in blocks[zone] : End(b) <= start

\* ... and what it returns has room.
FoundOK == pc = "found" /\ fixed.start # 0 => RoomAt(zone, fixed.start)

ZoneOK == pc \in {"scan", "tail", "found"} => zone \in Zones

\* Loop invariant of allocator_mmb_alloc.
ChoiceOK ==
  pc # "idle" /\ choice.zone # NoZone =>
    choice.zone \in Zones /\ choice.start # 0 /\ RoomAt(choice.zone, choice.start)

IInv ==
  /\ TypeOK /\ BlocksDisjoint /\ RequestOK
  /\ ScanOK /\ TailOK /\ FoundOK /\ ZoneOK /\ ChoiceOK
-----------------------------------------------------------------------------
(* The first states satisfy the invariant.                                 *)
LEMMA InitIInv == Init => IInv
<1>. SUFFICES ASSUME Init PROVE IInv
  OBVIOUS
<1>. USE AllocConstants DEF Init
<1>1. TypeOK
  BY DEF TypeOK, Block, NoBlock, NoGap, NoLen, NoChoice, NoZone
<1>2. BlocksDisjoint
  BY DEF BlocksDisjoint
<1>. QED  BY <1>1, <1>2 DEF IInv, RequestOK, ScanOK, TailOK, FoundOK, ZoneOK, ChoiceOK

(* A request is accepted: it is rounded, nothing is chosen yet.            *)
LEMMA RequestIInv ==
  ASSUME IInv, NEW size \in Sizes, NEW align \in Aligns, Request(size, align)
  PROVE  IInv'
<1>. USE AllocConstants DEF Request
<1>1. Align2(size, Grain) \in Nat \ {0}
  <2>1. size \in Nat \ {0} /\ Grain \in Nat \ {0}
    OBVIOUS
  <2>. QED  BY <2>1, Align2NotBelow
<1>2. EffectiveAlign(align) \in Nat \ {0}
  <2>1. align \in Nat /\ Grain \in Nat \ {0}
    OBVIOUS
  <2>. QED  BY <2>1, Align2NotBelow DEF EffectiveAlign
<1>3. TypeOK'
  BY <1>1, <1>2 DEF IInv, TypeOK, NoChoice, NoZone
<1>4. BlocksDisjoint'
  BY DEF IInv, BlocksDisjoint
<1>5. RequestOK'
  BY <1>1, <1>2, ZonesAligned DEF RequestOK
<1>. QED
  BY <1>3, <1>4, <1>5 DEF IInv, ScanOK, TailOK, FoundOK, ZoneOK, ChoiceOK, NoChoice

(* The region of calculate_fixed_region: when end is not below start, the  *)
(* subtraction does not wrap and an accepted gap is long enough.           *)
LEMMA CalculateSound ==
  ASSUME NEW e \in Nat, NEW s \in Nat, s <= e, NEW len \in Nat,
         NEW best \in [start : Nat, len : Nat]
  PROVE  /\ Calculate(e, s, best, len) \in [start : Nat, len : Nat]
         /\ \/ Calculate(e, s, best, len) = best
            \/ Calculate(e, s, best, len).start = s /\ s + len <= e
BY DEF Calculate, Accepts, Minus

(* A zone without blocks: the whole zone is left for the test after the    *)
(* loop.                                                                   *)
LEMMA ZoneEmptyIInv == ASSUME IInv, ZoneEmpty PROVE IInv'
<1>. USE AllocConstants DEF ZoneEmpty
<1>1. /\ zone \in Zones /\ Lo[zone] \in Nat /\ req.align \in Nat \ {0}
  BY DEF IInv, TypeOK, RequestOK
<1>2. start' \in Nat /\ Lo[zone] <= start'
  BY <1>1, Align2NotBelow
<1>3. TypeOK'
  BY <1>2 DEF IInv, TypeOK, NoGap, NoLen
<1>4. BlocksDisjoint' /\ RequestOK'
  BY DEF IInv, BlocksDisjoint, RequestOK
<1>5. TailOK'
  BY <1>2 DEF TailOK
<1>6. ChoiceOK'
  BY DEF IInv, ChoiceOK, RoomAt
<1>. QED  BY <1>3, <1>4, <1>5, <1>6 DEF IInv, ScanOK, FoundOK, ZoneOK

(* The gap in front of the first block.                                    *)
LEMMA ZoneFirstIInv == ASSUME IInv, ZoneFirst PROVE IInv'
<1>. USE AllocConstants DEF ZoneFirst
<1>1. PICK p \in blocks[zone] :
        /\ IsFirst(zone, p) /\ cur' = p
        /\ start' = Align2(Lo[zone], req.align)
        /\ fixed' = Calculate(p.phys, start', NoGap, req.len)
  OBVIOUS
<1>2. /\ zone \in Zones /\ Lo[zone] \in Nat /\ req.align \in Nat \ {0} /\ req.len \in Nat \ {0}
      /\ Lo[zone] % req.align = 0
  BY DEF IInv, TypeOK, RequestOK
<1>3. start' \in Nat /\ start' = Lo[zone]
  <2>1. Align2(Lo[zone], req.align) \in Nat /\ Lo[zone] <= Align2(Lo[zone], req.align)
    BY <1>2, Align2NotBelow
  <2>2. Lo[zone] <= Lo[zone]
    BY <1>2
  <2>3. Align2(Lo[zone], req.align) <= Lo[zone]
    BY <1>2, <2>2, Align2NotBeyond
  <2>. QED  BY <1>1, <1>2, <2>1, <2>3
<1>4. p \in Block /\ Inside(zone, p) /\ start' <= p.phys
  BY <1>2, <1>3 DEF IInv, TypeOK, BlocksDisjoint, Inside, Block
<1>5. /\ fixed' \in [start : Nat, len : Nat]
      /\ fixed' = NoGap \/ (fixed'.start = start' /\ start' + req.len <= p.phys)
  BY <1>1, <1>2, <1>3, <1>4, CalculateSound DEF NoGap, NoLen, Block
<1>6. TypeOK'
  BY <1>1, <1>3, <1>4, <1>5 DEF IInv, TypeOK
<1>7. BlocksDisjoint' /\ RequestOK' /\ ZoneOK'
  BY <1>2 DEF IInv, BlocksDisjoint, RequestOK, ZoneOK
<1>8. ScanOK'
  <2>1. ASSUME fixed'.start # 0 PROVE RoomAt(zone, fixed'.start)
    <3>1. fixed'.start = Lo[zone] /\ Lo[zone] + req.len <= p.phys
      BY <1>3, <1>5, <2>1 DEF NoGap
    <3>2. p.phys + p.len <= Hi[zone]
      BY <1>4 DEF Inside, End
    <3>3. \A b \in blocks[zone] : p.phys <= b.phys /\ b \in Block
      BY <1>1, <1>2 DEF IInv, TypeOK, IsFirst
    <3>. QED  BY <1>2, <1>4, <3>1, <3>2, <3>3 DEF RoomAt, Block
  <2>. QED  BY <1>1, <2>1 DEF ScanOK, RoomAt
<1>9. ChoiceOK'
  BY DEF IInv, ChoiceOK, RoomAt
<1>. QED  BY <1>6, <1>7, <1>8, <1>9 DEF IInv, TailOK, FoundOK

(* Every other block lies below the block that the loop looks at or not    *)
(* below it.                                                               *)
LEMMA BelowOrAfter ==
  ASSUME IInv, pc = "scan", NEW c \in blocks[zone]
  PROVE  End(c) <= End(cur) \/ (cur.phys < c.phys /\ End(cur) <= c.phys)
<1>1. zone \in Zones /\ cur \in blocks[zone]
  BY DEF IInv, ZoneOK, ScanOK
<1>2. c \in Block /\ cur \in Block
  BY <1>1 DEF IInv, TypeOK
<1>3. c = cur \/ Apart(c, cur)
  BY <1>1 DEF IInv, BlocksDisjoint
<1>. QED  BY <1>2, <1>3 DEF Apart, End, Block

(* The gap between two neighbours.                                         *)
LEMMA ScanNextIInv == ASSUME IInv, ScanNext PROVE IInv'
<1>. USE AllocConstants DEF ScanNext
<1>1. PICK n \in blocks[zone] :
        /\ IsNext(zone, cur, n) /\ cur' = n
        /\ start' = Align2(End(cur), req.align)
        /\ fixed' = IF start' + req.len > n.phys THEN fixed
                    ELSE Calculate(n.phys, start', fixed, req.len)
  OBVIOUS
<1>2. /\ zone \in Zones /\ req.align \in Nat \ {0} /\ req.len \in Nat \ {0}
      /\ cur \in blocks[zone] /\ cur \in Block /\ n \in Block
      /\ fixed \in [start : Nat, len : Nat]
  BY DEF IInv, TypeOK, RequestOK, ZoneOK, ScanOK
<1>3. End(cur) \in Nat /\ start' \in Nat /\ End(cur) <= start'
  BY <1>1, <1>2, Align2NotBelow DEF End, Block
<1>4. /\ fixed' \in [start : Nat, len : Nat]
      /\ fixed' = fixed \/ (fixed'.start = start' /\ start' + req.len <= n.phys)
  BY <1>1, <1>2, <1>3, CalculateSound, SMTT(30) DEF Block
<1>5. TypeOK'
  BY <1>1, <1>2, <1>3, <1>4 DEF IInv, TypeOK
<1>6. BlocksDisjoint' /\ RequestOK' /\ ZoneOK'
  BY <1>2 DEF IInv, BlocksDisjoint, RequestOK, ZoneOK
<1>7. ScanOK'
  <2>1. CASE fixed' = fixed
    BY <1>1, <2>1 DEF IInv, ScanOK, RoomAt
  <2>2. CASE fixed'.start = start' /\ start' + req.len <= n.phys
    <3>1. Lo[zone] <= cur.phys /\ End(n) <= Hi[zone]
      BY <1>2 DEF IInv, BlocksDisjoint, Inside
    <3>2. ASSUME NEW b \in blocks[zone]
          PROVE  End(b) <= start' \/ start' + req.len <= b.phys
      <4>1. End(b) <= End(cur) \/ cur.phys < b.phys
        BY BelowOrAfter
      <4>2. cur.phys < b.phys => n.phys <= b.phys
        BY <1>1 DEF IsNext
      <4>3. b \in Block
        BY <1>2 DEF IInv, TypeOK
      <4>. QED  BY <1>2, <1>3, <2>2, <4>1, <4>2, <4>3 DEF End, Block
    <3>3. Lo[zone] \in Nat /\ Hi[zone] \in Nat
      BY <1>2
    <3>4. Lo[zone] <= start' /\ start' + req.len <= Hi[zone]
      BY <1>2, <1>3, <2>2, <3>1, <3>3 DEF End, Block
    <3>5. RoomAt(zone, start')
      BY <3>2, <3>4 DEF RoomAt
    <3>. QED  BY <1>1, <2>2, <3>5 DEF ScanOK, RoomAt
  <2>. QED  BY <1>4, <2>1, <2>2
<1>8. ChoiceOK'
  BY DEF IInv, ChoiceOK, RoomAt
<1>. QED  BY <1>5, <1>6, <1>7, <1>8 DEF IInv, TailOK, FoundOK

(* The gap behind the last block: the end of the zone is a multiple of the *)
(* alignment, so that start cannot pass it.                                *)
LEMMA ScanLastIInv == ASSUME IInv, ScanLast PROVE IInv'
<1>. USE AllocConstants DEF ScanLast
<1>1. /\ zone \in Zones /\ req.align \in Nat \ {0} /\ req.len \in Nat \ {0}
      /\ Hi[zone] % req.align = 0 /\ Lo[zone] \in Nat /\ Hi[zone] \in Nat
      /\ cur \in blocks[zone] /\ cur \in Block
      /\ fixed \in [start : Nat, len : Nat]
  BY DEF IInv, TypeOK, RequestOK, ZoneOK, ScanOK
<1>2. End(cur) \in Nat /\ Lo[zone] <= End(cur) /\ End(cur) <= Hi[zone]
  <2>1. Inside(zone, cur)
    BY <1>1 DEF IInv, BlocksDisjoint
  <2>. QED  BY <1>1, <2>1 DEF Inside, End, Block
<1>3. /\ start' \in Nat /\ End(cur) <= start' /\ start' <= Hi[zone]
  BY <1>1, <1>2, Align2NotBelow, Align2NotBeyond
<1>4. fixed' \in [start : Nat, len : Nat]
  <2>1. Calculate(Hi[zone], start', fixed, req.len) \in [start : Nat, len : Nat]
    BY <1>1, <1>3, CalculateSound
  <2>. QED  BY <1>1, <2>1
<1>5. TypeOK'
  BY <1>1, <1>3, <1>4 DEF IInv, TypeOK
<1>6. BlocksDisjoint' /\ RequestOK' /\ ZoneOK'
  BY <1>1 DEF IInv, BlocksDisjoint, RequestOK, ZoneOK
<1>7. TailOK'
  <2>1. ASSUME NEW b \in blocks[zone] PROVE End(b) <= start'
    <3>1. End(b) <= End(cur) \/ cur.phys < b.phys
      BY BelowOrAfter
    <3>2. b.phys <= cur.phys
      BY DEF IsLast
    <3>3. b \in Block
      BY <1>1 DEF IInv, TypeOK
    <3>. QED  BY <1>1, <1>2, <1>3, <3>1, <3>2, <3>3 DEF End, Block
  <2>. QED  BY <1>1, <1>2, <1>3, <2>1 DEF TailOK
<1>8. FoundOK'
  <2>1. SUFFICES ASSUME pc' = "found", fixed'.start # 0 PROVE RoomAt(zone, fixed'.start)
    BY DEF FoundOK, RoomAt
  <2>2. fixed' = fixed
    BY <1>1, <2>1
  <2>. QED  BY <2>1, <2>2 DEF IInv, ScanOK
<1>9. ChoiceOK'
  BY DEF IInv, ChoiceOK, RoomAt
<1>. QED  BY <1>5, <1>6, <1>7, <1>8, <1>9 DEF IInv, ScanOK

(* The test after the loop.                                                *)
LEMMA TailIInv == ASSUME IInv, Tail PROVE IInv'
<1>. USE AllocConstants DEF Tail
<1>1. /\ zone \in Zones /\ Hi[zone] \in Nat /\ start \in Nat
      /\ req.len \in Nat \ {0} /\ Grain \in Nat \ {0}
      /\ fixed \in [start : Nat, len : Nat]
  BY DEF IInv, TypeOK, RequestOK, ZoneOK
<1>2. TypeOK'
  BY <1>1 DEF IInv, TypeOK
<1>3. BlocksDisjoint' /\ RequestOK' /\ ZoneOK'
  BY <1>1 DEF IInv, BlocksDisjoint, RequestOK, ZoneOK
<1>4. FoundOK'
  <2>1. SUFFICES ASSUME fixed'.start # 0 PROVE RoomAt(zone, fixed'.start)
    BY DEF FoundOK, RoomAt
  <2>2. /\ fixed'.start = start
        /\ Align2(start + req.len, Grain) <= Hi[zone] /\ Lo[zone] <= start
    BY <1>1, <2>1
  <2>3. start + req.len \in Nat
    BY <1>1
  <2>4. start + req.len <= Align2(start + req.len, Grain) /\ Align2(start + req.len, Grain) \in Nat
    BY <1>1, <2>3, Align2NotBelow
  <2>5. start + req.len <= Hi[zone]
    BY <1>1, <2>2, <2>3, <2>4
  <2>. QED  BY <2>2, <2>5 DEF IInv, TailOK, RoomAt
<1>5. ChoiceOK'
  BY DEF IInv, ChoiceOK, RoomAt
<1>. QED  BY <1>2, <1>3, <1>4, <1>5 DEF IInv, ScanOK, TailOK

(* The outer loop keeps a choice that has room.                            *)
LEMMA NextZoneIInv == ASSUME IInv, NextZone PROVE IInv'
<1>. USE AllocConstants DEF NextZone
<1>1. /\ zone \in Zones /\ zone \in Nat
      /\ req \in [len : Nat, align : Nat] /\ fixed \in [start : Nat, len : Nat]
      /\ choice \in [zone : Nat, start : Nat, len : Int]
  BY DEF IInv, TypeOK, ZoneOK
<1>2. TypeOK'
  BY <1>1 DEF IInv, TypeOK
<1>3. BlocksDisjoint' /\ RequestOK'
  BY DEF IInv, BlocksDisjoint, RequestOK
<1>4. ChoiceOK'
  <2>1. CASE choice' = choice
    BY <2>1 DEF IInv, ChoiceOK, RoomAt
  <2>2. CASE choice' # choice
    <3>1. fixed.start # 0 /\ choice'.zone = zone /\ choice'.start = fixed.start
      BY <2>2
    <3>2. RoomAt(zone, fixed.start)
      BY <3>1 DEF IInv, FoundOK
    <3>. QED  BY <1>1, <3>1, <3>2 DEF ChoiceOK, RoomAt
  <2>. QED  BY <2>1, <2>2
<1>. QED  BY <1>2, <1>3, <1>4 DEF IInv, ScanOK, TailOK, FoundOK, ZoneOK

(* The new block joins the list of the chosen zone.                        *)
LEMMA InsertIInv == ASSUME IInv, Insert PROVE IInv'
<1>. USE AllocConstants DEF Insert, Finish
<1>. DEFINE z == choice.zone
<1>1. /\ z \in Zones /\ choice.start \in Nat \ {0} /\ req.len \in Nat \ {0}
      /\ RoomAt(z, choice.start)
  BY DEF IInv, TypeOK, RequestOK, ChoiceOK
<1>2. NewBlock \in Block /\ Inside(z, NewBlock)
  BY <1>1 DEF NewBlock, Block, Inside, End, RoomAt
<1>3. \A b \in blocks[z] : Apart(b, NewBlock) /\ Apart(NewBlock, b)
  BY <1>1 DEF RoomAt, Apart, NewBlock, End
<1>4. TypeOK'
  BY <1>1, <1>2 DEF IInv, TypeOK
<1>5. BlocksDisjoint'
  <2>1. CASE AllocatorBad
    BY <2>1 DEF IInv, BlocksDisjoint
  <2>2. CASE ~AllocatorBad
    <3>1. blocks' = [blocks EXCEPT ![z] = @ \union {NewBlock}]
      BY <2>2
    <3>2. blocks \in [Zones -> SUBSET Block]
      BY DEF IInv, TypeOK
    <3>3. \A y \in Zones : blocks'[y] = IF y = z THEN blocks[z] \union {NewBlock} ELSE blocks[y]
      BY <1>1, <3>1, <3>2
    <3>. QED  BY <1>1, <1>2, <1>3, <3>3 DEF IInv, BlocksDisjoint
  <2>. QED  BY <2>1, <2>2
<1>. QED
  BY <1>4, <1>5 DEF IInv, RequestOK, ScanOK, TailOK, FoundOK, ZoneOK, ChoiceOK

(* Steps that leave the list and the request alone, or give a block back.  *)
LEMMA OtherIInv ==
  ASSUME IInv,
         \/ ZonesDone \/ Fail \/ UNCHANGED vars
         \/ \E z \in Zones : \E b \in blocks[z] : Remove(z, b)
  PROVE  IInv'
<1>1. CASE ZonesDone
  BY <1>1 DEF ZonesDone, IInv, TypeOK, BlocksDisjoint, RequestOK, ScanOK, TailOK, FoundOK,
              ZoneOK, ChoiceOK, RoomAt
<1>2. CASE Fail
  BY <1>2 DEF Fail, Finish, IInv, TypeOK, BlocksDisjoint, RequestOK, ScanOK, TailOK, FoundOK,
              ZoneOK, ChoiceOK
<1>3. CASE UNCHANGED vars
  BY <1>3 DEF vars, IInv, TypeOK, BlocksDisjoint, RequestOK, ScanOK, TailOK, FoundOK,
              ZoneOK, ChoiceOK, RoomAt
<1>4. ASSUME NEW z \in Zones, NEW b \in blocks[z], Remove(z, b) PROVE IInv'
  <2>1. blocks \in [Zones -> SUBSET Block]
    BY DEF IInv, TypeOK
  <2>2. \A y \in Zones : blocks'[y] \subseteq blocks[y]
    BY <1>4, <2>1 DEF Remove
  <2>3. TypeOK'
    BY <1>4, <2>1 DEF Remove, IInv, TypeOK
  <2>4. BlocksDisjoint'
    BY <2>2 DEF IInv, BlocksDisjoint
  <2>. QED
    BY <1>4, <2>3, <2>4 DEF Remove, IInv, RequestOK, ScanOK, TailOK, FoundOK, ZoneOK, ChoiceOK
<1>. QED  BY <1>1, <1>2, <1>3, <1>4

(* Every step keeps the invariant.                                         *)
LEMMA NextIInv == IInv /\ [Next]_vars => IInv'
<1>. SUFFICES ASSUME IInv, [Next]_vars PROVE IInv'
  OBVIOUS
<1>1. ASSUME NEW size \in Sizes, NEW align \in Aligns, Request(size, align) PROVE IInv'
  BY <1>1, RequestIInv
<1>2. CASE ZoneEmpty
  BY <1>2, ZoneEmptyIInv
<1>3. CASE ZoneFirst
  BY <1>3, ZoneFirstIInv
<1>4. CASE ScanNext
  BY <1>4, ScanNextIInv
<1>5. CASE ScanLast
  BY <1>5, ScanLastIInv
<1>6. CASE Tail
  BY <1>6, TailIInv
<1>7. CASE NextZone
  BY <1>7, NextZoneIInv
<1>8. CASE Insert
  BY <1>8, InsertIInv
<1>9. CASE \/ ZonesDone \/ Fail \/ UNCHANGED vars
           \/ \E z \in Zones : \E b \in blocks[z] : Remove(z, b)
  BY <1>9, OtherIInv
<1>. QED  BY <1>1, <1>2, <1>3, <1>4, <1>5, <1>6, <1>7, <1>8, <1>9 DEF Next

(* The invariant holds in every reachable state.                           *)
THEOREM Invariance == Spec => []IInv
BY InitIInv, NextIInv, PTL DEF Spec

(* Every variable keeps its type; no block is empty or at address 0.       *)
THEOREM TypeCorrect == Spec => []TypeOK
<1>1. IInv => TypeOK
  BY DEF IInv
<1>. QED  BY <1>1, Invariance, PTL

(* Live blocks never overlap and never leave their zone.                   *)
THEOREM Disjoint == Spec => []BlocksDisjoint
<1>1. IInv => BlocksDisjoint
  BY DEF IInv
<1>. QED  BY <1>1, Invariance, PTL

(* "media-mem allocator bad" is never reported for aligned zones.          *)
THEOREM AllocatorNeverBad == Spec => []NeverBad
<1>1. IInv => NeverBad
  <2>. SUFFICES ASSUME IInv, pc = "commit", choice.zone # NoZone,
                       NEW b \in blocks[choice.zone], b.phys = choice.start
                PROVE  FALSE
    BY DEF NeverBad, AllocatorBad
  <2>1. /\ choice.zone \in Zones /\ req.len \in Nat \ {0} /\ RoomAt(choice.zone, choice.start)
    BY DEF IInv, TypeOK, RequestOK, ChoiceOK
  <2>2. b \in Block
    BY <2>1 DEF IInv, TypeOK
  <2>. QED  BY <2>1, <2>2 DEF RoomAt, End, Block
<1>. QED  BY <1>1, Invariance, PTL
=============================================================================
