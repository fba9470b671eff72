------------------------- MODULE MmzAllocFit_proofs -------------------------
(***************************************************************************)
(* The "ot" allocator takes the smallest gap of the first zone that has    *)
(* one, and fails only when no zone has: further proofs about              *)
(* MmzAllocAligned, on top of the invariant of MmzAlloc_proofs.            *)
(***************************************************************************)
EXTENDS MmzAlloc_proofs

(* Multiples of g.                                                         *)
LEMMA Multiple ==
  ASSUME NEW q \in Nat, NEW g \in Nat \ {0}
  PROVE  (q * g) % g = 0
OBVIOUS

(* mmz_align2 returns a multiple of the alignment.                         *)
LEMMA Align2Multiple ==
  ASSUME NEW x \in Nat, NEW g \in Nat \ {0}
  PROVE  Align2(x, g) % g = 0
<1>. DEFINE q == (x + g - 1) \div g
<1>1. q \in Nat
  OBVIOUS
<1>. HIDE DEF q
<1>2. (q * g) % g = 0
  BY <1>1, Multiple
<1>. QED  BY <1>2 DEF Align2, q

(* A multiple of an alignment is a multiple of the grain.                  *)
LEMMA MultipleOfGrain ==
  ASSUME NEW a \in Nat, NEW y \in Nat, Grain \in Nat \ {0}, y % EffectiveAlign(a) = 0
  PROVE  y % Grain = 0
<1>1. PICK k \in Nat \ {0} : EffectiveAlign(a) = k * Grain
  <2>1. CASE a = 0
    BY <2>1 DEF EffectiveAlign
  <2>2. CASE a # 0
    <3>. DEFINE q == (a + Grain - 1) \div Grain
    <3>1. q \in Nat \ {0}
      BY <2>2
    <3>. QED  BY <2>2, <3>1 DEF EffectiveAlign, Align2
  <2>. QED  BY <2>1, <2>2
<1>2. k * Grain \in Nat \ {0}
  BY <1>1
<1>. DEFINE r == y \div (k * Grain)
<1>3. r \in Nat /\ y = r * (k * Grain)
  BY <1>1, <1>2
<1>. HIDE DEF r
<1>4. r * k \in Nat /\ y = (r * k) * Grain
  BY <1>1, <1>3
<1>. DEFINE m == r * k
<1>5. m \in Nat /\ y = m * Grain
  BY <1>4
<1>. HIDE DEF m
<1>6. (m * Grain) % Grain = 0
  BY <1>5, Multiple
<1>. QED  BY <1>5, <1>6

(* mmz_align2 is monotone.                                                 *)
LEMMA Align2Monotone ==
  ASSUME NEW x \in Nat, NEW y \in Nat, NEW g \in Nat \ {0}, x <= y
  PROVE  Align2(x, g) <= Align2(y, g)
<1>1. Align2(y, g) \in Nat /\ y <= Align2(y, g) /\ Align2(y, g) % g = 0
  BY Align2NotBelow, Align2Multiple
<1>2. x <= Align2(y, g)
  BY <1>1
<1>. QED  BY <1>1, <1>2, Align2NotBeyond
-----------------------------------------------------------------------------
\* Gap (s, e) of zone z is the smallest the request fits into.
Smallest(z, s, e) ==
  /\ s \in GapStarts(z) /\ e \in GapEnds(z) /\ Fits(z, s, e)
  /\ \A t \in GapStarts(z), u \in GapEnds(z) : Fits(z, t, u) => e - s <= u - t
Best(z, s) == \E e \in GapEnds(z) : Smallest(z, s, e)

\* The request came from somebody who may ask.
RequestKnown ==
  pc # "idle" => \E size \in Sizes, align \in Aligns :
                   req.len = Align2(size, Grain) /\ req.align = EffectiveAlign(align)

\* Loop invariants of find_fixed_region: fixed is the smallest gap up to p, ...
ScanBest ==
  pc = "scan" =>
    /\ fixed.start = 0 => fixed.len = NoLen
    /\ fixed.start # 0 =>
         \E e \in GapEnds(zone) : Fits(zone, fixed.start, e) /\ fixed.len = e - fixed.start
    /\ \A t \in GapStarts(zone), u \in GapEnds(zone) :
         Fits(zone, t, u) /\ u <= cur.phys => fixed.len <= u - t

\* ... after the loop it is the gap behind the last block or there is none, ...
TailBest ==
  pc = "tail" => IF start + req.len <= Hi[zone] THEN Best(zone, start) ELSE ~HasRoom(zone)

\* ... and the result is the smallest gap of the zone or 0 for none.
FoundBest ==
  pc = "found" => IF fixed.start # 0 THEN Best(zone, fixed.start) ELSE ~HasRoom(zone)

\* Loop invariant of allocator_mmb_alloc: the zones before the choice, or all
\* so far, have no room.
ChoiceBest ==
  pc # "idle" =>
    /\ zone \in Nat \ {0}
    /\ pc = "commit" => zone \notin Zones
    /\ IF choice.zone = NoZone
       THEN choice.len = WordLimit - 2 /\ \A z \in Zones : z < zone => ~HasRoom(z)
       ELSE /\ choice.zone < zone /\ choice.len = req.len
            /\ \A z \in Zones : z < choice.zone => ~HasRoom(z)
            /\ Best(choice.zone, choice.start)

FitInv == RequestKnown /\ ScanBest /\ TailBest /\ FoundBest /\ ChoiceBest
-----------------------------------------------------------------------------
(* What the constants say of a request in progress.                        *)
LEMMA RequestFacts ==
  ASSUME IInv, RequestKnown, pc # "idle", NEW z \in Zones
  PROVE  /\ req.len \in Nat \ {0} /\ req.align \in Nat \ {0}
         /\ Lo[z] \in Nat \ {0} /\ Hi[z] \in Nat /\ Lo[z] % req.align = 0 /\ Hi[z] % req.align = 0
         /\ Hi[z] % Grain = 0 /\ Grain \in Nat \ {0}
         /\ Hi[z] < NoLen /\ req.len < WordLimit - 2 /\ NoLen \in Nat
<1>1. PICK size \in Sizes, align \in Aligns :
        req.len = Align2(size, Grain) /\ req.align = EffectiveAlign(align)
  BY DEF RequestKnown
<1>2. /\ req.len \in Nat \ {0} /\ req.align \in Nat \ {0} /\ Lo[z] \in Nat \ {0} /\ Hi[z] \in Nat
      /\ Lo[z] % req.align = 0 /\ Hi[z] % req.align = 0 /\ Lo[z] < Hi[z]
  BY AllocConstants DEF IInv, TypeOK, RequestOK
<1>3. Grain \in Nat \ {0} /\ WordLimit \in Nat \ {0} /\ align \in Nat
      /\ Align2(Hi[z], req.align) + req.len + Grain < WordLimit
  BY <1>1, AllocConstants
<1>4. Align2(Hi[z], req.align) \in Nat /\ Hi[z] <= Align2(Hi[z], req.align)
  BY <1>2, Align2NotBelow
<1>5. Hi[z] % Grain = 0
  BY <1>1, <1>2, <1>3, MultipleOfGrain
<1>. QED  BY <1>2, <1>3, <1>4, <1>5 DEF NoLen

(* The ends of the blocks of a zone, and where its gaps start.             *)
LEMMA BlockFacts ==
  ASSUME IInv, NEW z \in Zones, NEW b \in blocks[z]
  PROVE  /\ b \in Block /\ b.phys \in Nat /\ End(b) \in Nat /\ b.phys < End(b)
         /\ Lo[z] <= b.phys /\ End(b) <= Hi[z] /\ b.phys < Hi[z]
         /\ \A c \in blocks[z] : b = c \/ Apart(b, c)
<1>1. b \in Block /\ Inside(z, b) /\ \A c \in blocks[z] : b = c \/ Apart(b, c)
  BY DEF IInv, TypeOK, BlocksDisjoint
<1>2. Hi[z] \in Nat
  BY AllocConstants
<1>. QED  BY <1>1, <1>2 DEF Block, End, Inside

\* Where the bytes before a gap end.
GapLows(z) == {Lo[z]} \union {End(b) : b \in blocks[z]}

(* The starts and ends of gaps are addresses of the zone.                  *)
LEMMA GapTypes ==
  ASSUME IInv, RequestKnown, pc # "idle", NEW z \in Zones
  PROVE  /\ GapLows(z) \subseteq Nat
         /\ \A t \in GapStarts(z) : t \in Nat /\ \E x \in GapLows(z) : t = Align2(x, req.align) /\ x <= t
         /\ \A u \in GapEnds(z) : u \in Nat /\ u <= Hi[z] /\ (u = Hi[z] \/ \E b \in blocks[z] : u = b.phys)
<1>1. req.align \in Nat \ {0} /\ Lo[z] \in Nat /\ Hi[z] \in Nat
  BY RequestFacts
<1>2. GapLows(z) \subseteq Nat
  BY <1>1, BlockFacts DEF GapLows
<1>3. \A x \in GapLows(z) : Align2(x, req.align) \in Nat /\ x <= Align2(x, req.align)
  BY <1>1, <1>2, Align2NotBelow
<1>4. \A t \in GapStarts(z) : t \in Nat /\ \E x \in GapLows(z) : t = Align2(x, req.align) /\ x <= t
  BY <1>3 DEF GapStarts, GapLows
<1>5. \A u \in GapEnds(z) : u \in Nat /\ u <= Hi[z] /\ (u = Hi[z] \/ \E b \in blocks[z] : u = b.phys)
  BY <1>1, BlockFacts DEF GapEnds
<1>. QED  BY <1>2, <1>4, <1>5

(* The start of a gap is the aligned end of the last bytes before it.      *)
LEMMA StartOfGap ==
  ASSUME IInv, RequestKnown, pc # "idle", NEW z \in Zones, NEW t \in GapStarts(z),
         NEW low \in GapLows(z), low <= t, \A x \in GapLows(z) : x <= t => x <= low
  PROVE  t = Align2(low, req.align)
<1>1. req.align \in Nat \ {0} /\ low \in Nat /\ t \in Nat
  BY RequestFacts, GapTypes
<1>2. PICK x \in GapLows(z) : t = Align2(x, req.align) /\ x <= t
  BY GapTypes
<1>3. x \in Nat /\ x <= low
  BY <1>2, GapTypes
<1>4. t % req.align = 0
  BY <1>1, <1>2, <1>3, Align2Multiple
<1>5. Align2(low, req.align) <= t
  BY <1>1, <1>4, Align2NotBeyond
<1>6. t <= Align2(low, req.align)
  BY <1>1, <1>2, <1>3, Align2Monotone
<1>7. Align2(low, req.align) \in Nat
  BY <1>1, Align2NotBelow
<1>. QED  BY <1>1, <1>5, <1>6, <1>7

(* The length of a gap that the request fits into is no mark for "none".   *)
LEMMA GapLength ==
  ASSUME IInv, RequestKnown, pc # "idle", NEW z \in Zones,
         NEW t \in GapStarts(z), NEW u \in GapEnds(z), Fits(z, t, u)
  PROVE  /\ t \in Nat /\ u \in Nat /\ t < u /\ u <= Hi[z] /\ u - t < NoLen /\ u - t >= req.len
         /\ t + req.len <= u /\ \A b \in blocks[z] : End(b) <= t \/ u <= b.phys
<1>1. t \in Nat /\ u \in Nat /\ u <= Hi[z]
  BY GapTypes
<1>2. req.len \in Nat \ {0} /\ Hi[z] < NoLen /\ NoLen \in Nat /\ Hi[z] \in Nat
  BY RequestFacts
<1>. QED  BY <1>1, <1>2 DEF Fits, IsGap

(* Gaps do not change while the blocks and the request stay.               *)
LEMMA GapsStay ==
  ASSUME UNCHANGED <<blocks, req>>
  PROVE  /\ \A z : HasRoom(z)' <=> HasRoom(z)
         /\ \A z, t : Best(z, t)' <=> Best(z, t)
         /\ \A z, t, u : Fits(z, t, u)' <=> Fits(z, t, u)
         /\ \A z : GapStarts(z)' = GapStarts(z) /\ GapEnds(z)' = GapEnds(z)
BY DEF HasRoom, Best, Smallest, Fits, IsGap, GapStarts, GapEnds

-----------------------------------------------------------------------------
(* Before the first request nothing is to show.                            *)
LEMMA InitFit == Init => FitInv
BY DEF Init, FitInv, RequestKnown, ScanBest, TailBest, FoundBest, ChoiceBest

(* A request begins with the first zone and no choice.                     *)
LEMMA RequestFit ==
  ASSUME IInv, FitInv, NEW size \in Sizes, NEW align \in Aligns, Request(size, align)
  PROVE  FitInv'
<1>1. RequestKnown' /\ pc' = "zone" /\ zone' = 1 /\ choice' = NoChoice
  BY DEF Request, RequestKnown
<1>2. \A z \in Zones : ~(z < 1)
  BY AllocConstants DEF Zones
<1>. QED  BY <1>1, <1>2 DEF FitInv, ScanBest, TailBest, FoundBest, ChoiceBest, NoChoice

(* The loop looks at an empty list: the zone is the only gap.              *)
LEMMA ZoneEmptyFit == ASSUME IInv, FitInv, ZoneEmpty PROVE FitInv'
<1>. USE DEF ZoneEmpty
<1>1. /\ zone \in Zones /\ pc = "zone" /\ pc' = "tail" /\ blocks[zone] = {}
      /\ start' = Align2(Lo[zone], req.align) /\ UNCHANGED <<blocks, req, zone, choice>>
      /\ RequestKnown
  BY DEF FitInv
<1>2. Align2(Lo[zone], req.align) = Lo[zone] /\ Lo[zone] \in Nat /\ Hi[zone] \in Nat /\ req.len \in Nat \ {0}
  <2>1. /\ Lo[zone] \in Nat \ {0} /\ Hi[zone] \in Nat /\ req.align \in Nat \ {0} /\ req.len \in Nat \ {0}
        /\ Lo[zone] % req.align = 0
    BY <1>1, RequestFacts
  <2>2. Align2(Lo[zone], req.align) \in Nat /\ Lo[zone] <= Align2(Lo[zone], req.align)
    BY <2>1, Align2NotBelow
  <2>3. Lo[zone] <= Lo[zone]
    BY <2>1
  <2>4. Align2(Lo[zone], req.align) <= Lo[zone]
    BY <2>1, <2>3, Align2NotBeyond
  <2>. QED  BY <2>1, <2>2, <2>4
<1>3. GapStarts(zone) = {Lo[zone]} /\ GapEnds(zone) = {Hi[zone]}
  BY <1>1, <1>2 DEF GapStarts, GapEnds
<1>4. Fits(zone, Lo[zone], Hi[zone]) <=> Lo[zone] + req.len <= Hi[zone]
  BY <1>1, <1>2, <1>3 DEF Fits, IsGap
<1>5. IF start' + req.len <= Hi[zone] THEN Best(zone, start') ELSE ~HasRoom(zone)
  BY <1>1, <1>2, <1>3, <1>4 DEF Best, Smallest, HasRoom
<1>6. TailBest'
  BY <1>1, <1>5, GapsStay DEF TailBest
<1>7. RequestKnown' /\ ChoiceBest'
  BY <1>1, GapsStay DEF FitInv, RequestKnown, ChoiceBest
<1>. QED  BY <1>1, <1>6, <1>7 DEF FitInv, ScanBest, FoundBest

(* The loop begins: the gap in front of the first block.                   *)
LEMMA ZoneFirstFit == ASSUME IInv, FitInv, ZoneFirst PROVE FitInv'
<1>1. PICK p \in blocks[zone] :
        /\ IsFirst(zone, p) /\ cur' = p
        /\ start' = Align2(Lo[zone], req.align)
        /\ fixed' = Calculate(p.phys, start', NoGap, req.len)
  BY DEF ZoneFirst
<1>2. /\ zone \in Zones /\ pc = "zone" /\ pc' = "scan" /\ UNCHANGED <<blocks, req, zone, choice>>
      /\ RequestKnown
  BY DEF FitInv, ZoneFirst
<1>3. /\ Lo[zone] \in Nat \ {0} /\ Hi[zone] \in Nat /\ req.align \in Nat \ {0} /\ req.len \in Nat \ {0}
      /\ Lo[zone] % req.align = 0 /\ NoLen \in Nat
  BY <1>2, RequestFacts
<1>4. start' = Lo[zone]
  <2>1. Align2(Lo[zone], req.align) \in Nat /\ Lo[zone] <= Align2(Lo[zone], req.align)
    BY <1>3, Align2NotBelow
  <2>2. Lo[zone] <= Lo[zone]
    BY <1>3
  <2>3. Align2(Lo[zone], req.align) <= Lo[zone]
    BY <1>3, <2>2, Align2NotBeyond
  <2>. QED  BY <1>1, <1>3, <2>1, <2>3
<1>5. /\ p.phys \in Nat /\ Lo[zone] <= p.phys /\ p.phys < Hi[zone]
      /\ \A b \in blocks[zone] : p.phys <= b.phys /\ b.phys < End(b) /\ b.phys \in Nat /\ End(b) \in Nat
  BY <1>1, <1>2, BlockFacts DEF IsFirst
<1>6. start' \in GapStarts(zone) /\ p.phys \in GapEnds(zone)
  BY <1>1 DEF GapStarts, GapEnds
<1>7. ASSUME NEW t \in GapStarts(zone), NEW u \in GapEnds(zone), Fits(zone, t, u), u <= p.phys
      PROVE  t = start' /\ u = p.phys
  <2>1. u = p.phys
    <3>1. u = Hi[zone] \/ \E b \in blocks[zone] : u = b.phys
      BY <1>2, GapTypes
    <3>. QED  BY <1>3, <1>5, <1>7, <3>1
  <2>2. t \in Nat /\ t < u
    BY <1>2, <1>7, GapLength
  <2>3. Lo[zone] \in GapLows(zone) /\ Lo[zone] <= t
    <3>1. PICK x \in GapLows(zone) : x <= t
      BY <1>2, GapTypes
    <3>2. x = Lo[zone] \/ \E b \in blocks[zone] : x = End(b)
      BY DEF GapLows
    <3>. QED  BY <1>5, <2>1, <2>2, <3>1, <3>2 DEF GapLows
  <2>4. \A x \in GapLows(zone) : x <= t => x <= Lo[zone]
    <3>1. ASSUME NEW b \in blocks[zone], End(b) <= t PROVE FALSE
      BY <1>5, <2>1, <2>2, <3>1
    <3>. QED  BY <1>3, <3>1 DEF GapLows
  <2>5. t = Align2(Lo[zone], req.align)
    BY <1>2, <2>3, <2>4, StartOfGap
  <2>. QED  BY <1>1, <2>1, <2>5
<1>8. Fits(zone, start', p.phys) <=> p.phys - start' >= req.len
  BY <1>3, <1>4, <1>5, <1>6 DEF Fits, IsGap
<1>9. p.phys - start' >= req.len =>
        fixed'.start = start' /\ fixed'.len = p.phys - start' /\ start' # 0
  <2>1. p.phys - start' >= req.len => p.phys - start' < NoLen
    BY <1>2, <1>6, <1>8, GapLength
  <2>. QED  BY <1>1, <1>3, <1>4, <1>5, <2>1 DEF Calculate, Accepts, Minus, NoGap
<1>10. ~(p.phys - start' >= req.len) => fixed'.start = 0 /\ fixed'.len = NoLen
  BY <1>1, <1>3, <1>4, <1>5 DEF Calculate, Accepts, Minus, NoGap
<1>11. /\ fixed'.start = 0 => fixed'.len = NoLen
       /\ fixed'.start # 0 =>
            \E e \in GapEnds(zone) : Fits(zone, fixed'.start, e) /\ fixed'.len = e - fixed'.start
       /\ \A t \in GapStarts(zone), u \in GapEnds(zone) :
            Fits(zone, t, u) /\ u <= p.phys => fixed'.len <= u - t
  <2>1. CASE p.phys - start' >= req.len
    <3>1. fixed'.len <= p.phys - start'
      BY <1>3, <1>4, <1>5, <1>9, <2>1
    <3>. QED  BY <1>6, <1>7, <1>8, <1>9, <2>1, <3>1
  <2>2. CASE ~(p.phys - start' >= req.len)
    BY <1>7, <1>8, <1>10, <2>2
  <2>. QED  BY <2>1, <2>2
<1>12. ScanBest'
  BY <1>1, <1>2, <1>11, GapsStay DEF ScanBest
<1>13. RequestKnown' /\ ChoiceBest'
  BY <1>2, GapsStay DEF FitInv, RequestKnown, ChoiceBest
<1>. QED  BY <1>2, <1>12, <1>13 DEF FitInv, TailBest, FoundBest

(* A gap that ends behind p begins at the aligned end of p, if it is the   *)
(* gap in front of the next block, or of the end of the zone.              *)
LEMMA GapAfter ==
  ASSUME IInv, RequestKnown, pc = "scan",
         NEW t \in GapStarts(zone), NEW u \in GapEnds(zone), Fits(zone, t, u), cur.phys < u,
         \A b \in blocks[zone] : b.phys < u => b.phys <= cur.phys
  PROVE  t = Align2(End(cur), req.align)
<1>1. zone \in Zones /\ cur \in blocks[zone]
  BY DEF IInv, ZoneOK, ScanOK
<1>2. /\ cur.phys \in Nat /\ End(cur) \in Nat /\ cur.phys < End(cur) /\ Lo[zone] <= cur.phys
      /\ Lo[zone] \in Nat
  BY <1>1, BlockFacts, AllocConstants
<1>3. t \in Nat /\ u \in Nat /\ t < u /\ \A b \in blocks[zone] : End(b) <= t \/ u <= b.phys
  BY <1>1, GapLength
<1>4. End(cur) <= t /\ End(cur) \in GapLows(zone)
  BY <1>1, <1>2, <1>3 DEF GapLows
<1>5. ASSUME NEW b \in blocks[zone], End(b) <= t PROVE End(b) <= End(cur)
  <2>1. b.phys \in Nat /\ End(b) \in Nat /\ b.phys < End(b)
    BY <1>1, BlockFacts
  <2>2. b.phys <= cur.phys
    BY <1>3, <1>5, <2>1
  <2>. QED  BY <1>2, <2>1, <2>2, BelowOrAfter
<1>6. \A x \in GapLows(zone) : x <= t => x <= End(cur)
  BY <1>2, <1>5 DEF GapLows
<1>. QED  BY <1>1, <1>4, <1>6, StartOfGap

(* What the loop knows of p.                                               *)
LEMMA ScanFacts ==
  ASSUME IInv, FitInv, pc = "scan"
  PROVE  /\ zone \in Zones /\ RequestKnown /\ ScanBest
         /\ cur \in blocks[zone] /\ cur.phys \in Nat /\ End(cur) \in Nat /\ cur.phys < End(cur)
         /\ Lo[zone] \in Nat \ {0} /\ Hi[zone] \in Nat /\ Lo[zone] <= cur.phys /\ End(cur) <= Hi[zone]
         /\ req.len \in Nat \ {0} /\ req.align \in Nat \ {0} /\ NoLen \in Nat
         /\ Hi[zone] % req.align = 0 /\ Hi[zone] < NoLen
         /\ Align2(End(cur), req.align) \in Nat \ {0} /\ End(cur) <= Align2(End(cur), req.align)
         /\ Align2(End(cur), req.align) \in GapStarts(zone)
         /\ fixed \in [start : Nat, len : Nat]
<1>1. zone \in Zones /\ cur \in blocks[zone] /\ RequestKnown /\ ScanBest /\ fixed \in [start : Nat, len : Nat]
  BY DEF IInv, FitInv, TypeOK, ZoneOK, ScanOK
<1>2. /\ cur.phys \in Nat /\ End(cur) \in Nat /\ cur.phys < End(cur)
      /\ Lo[zone] <= cur.phys /\ End(cur) <= Hi[zone]
  BY <1>1, BlockFacts
<1>3. /\ Lo[zone] \in Nat \ {0} /\ Hi[zone] \in Nat /\ req.len \in Nat \ {0} /\ req.align \in Nat \ {0}
      /\ NoLen \in Nat /\ Hi[zone] % req.align = 0 /\ Hi[zone] < NoLen
  BY <1>1, RequestFacts
<1>4. Align2(End(cur), req.align) \in Nat /\ End(cur) <= Align2(End(cur), req.align)
  BY <1>2, <1>3, Align2NotBelow
<1>5. Align2(End(cur), req.align) \in GapStarts(zone)
  BY <1>1 DEF GapStarts
<1>. QED  BY <1>1, <1>2, <1>3, <1>4, <1>5

(* One iteration: the gap between two neighbours.                          *)
LEMMA ScanNextFit == ASSUME IInv, FitInv, ScanNext PROVE FitInv'
<1>0. pc = "scan" /\ pc' = "scan" /\ UNCHANGED <<blocks, req, zone, choice>>
  BY DEF ScanNext
<1>1. PICK n \in blocks[zone] :
        /\ IsNext(zone, cur, n) /\ cur' = n
        /\ start' = Align2(End(cur), req.align)
        /\ fixed' = IF start' + req.len > n.phys THEN fixed
                    ELSE Calculate(n.phys, start', fixed, req.len)
  BY DEF ScanNext
<1>2. /\ zone \in Zones /\ RequestKnown /\ ScanBest
      /\ cur \in blocks[zone] /\ cur.phys \in Nat /\ End(cur) \in Nat /\ cur.phys < End(cur)
      /\ req.len \in Nat \ {0} /\ NoLen \in Nat /\ Lo[zone] \in Nat \ {0} /\ Hi[zone] \in Nat
      /\ start' \in Nat \ {0} /\ End(cur) <= start' /\ start' \in GapStarts(zone)
      /\ fixed \in [start : Nat, len : Nat]
  BY <1>0, <1>1, ScanFacts
<1>3. /\ n.phys \in Nat /\ n.phys < Hi[zone] /\ cur.phys < n.phys /\ n.phys \in GapEnds(zone)
      /\ \A b \in blocks[zone] : b.phys \in Nat /\ (b.phys < n.phys => b.phys <= cur.phys)
  BY <1>1, <1>2, BlockFacts DEF IsNext, GapEnds
<1>4. ASSUME NEW t \in GapStarts(zone), NEW u \in GapEnds(zone), Fits(zone, t, u),
             u <= n.phys, ~(u <= cur.phys)
      PROVE  t = start' /\ u = n.phys
  <2>1. u = Hi[zone] \/ \E b \in blocks[zone] : u = b.phys
    BY <1>2, GapTypes, <1>0
  <2>2. u = n.phys
    BY <1>2, <1>3, <1>4, <2>1
  <2>3. t = Align2(End(cur), req.align)
    BY <1>0, <1>2, <1>3, <1>4, <2>2, GapAfter
  <2>. QED  BY <1>1, <2>2, <2>3
<1>5. start' + req.len <= n.phys => Fits(zone, start', n.phys)
  <2>1. ASSUME start' + req.len <= n.phys, NEW b \in blocks[zone]
        PROVE  End(b) <= start' \/ n.phys <= b.phys
    <3>1. End(b) <= End(cur) \/ cur.phys < b.phys
      BY <1>0, BelowOrAfter
    <3>2. End(b) \in Nat
      BY <1>2, BlockFacts
    <3>. QED  BY <1>2, <1>3, <3>1, <3>2
  <2>. QED  BY <1>2, <1>3, <2>1 DEF Fits, IsGap
<1>6. Fits(zone, start', n.phys) => start' + req.len <= n.phys
  BY <1>2, <1>3 DEF Fits
<1>7. CASE start' + req.len <= n.phys /\ n.phys - start' < fixed.len
  <2>1. fixed'.start = start' /\ fixed'.len = n.phys - start'
    BY <1>1, <1>2, <1>3, <1>7 DEF Calculate, Accepts, Minus
  <2>2. ASSUME NEW t \in GapStarts(zone), NEW u \in GapEnds(zone), Fits(zone, t, u), u <= n.phys
        PROVE  fixed'.len <= u - t
    <3>1. t \in Nat /\ u \in Nat
      BY <1>0, <1>2, <2>2, GapLength
    <3>2. CASE u <= cur.phys
      <4>1. fixed.len <= u - t
        BY <1>0, <1>2, <2>2, <3>2 DEF ScanBest
      <4>. QED  BY <1>2, <1>3, <1>7, <2>1, <3>1, <4>1
    <3>3. CASE ~(u <= cur.phys)
      BY <1>2, <1>3, <1>4, <2>1, <2>2, <3>3
    <3>. QED  BY <3>2, <3>3
  <2>3. ScanBest'
    BY <1>0, <1>1, <1>2, <1>3, <1>5, <1>7, <2>1, <2>2, GapsStay DEF ScanBest
  <2>. QED  BY <1>0, <2>3, GapsStay DEF FitInv, RequestKnown, ChoiceBest, TailBest, FoundBest
<1>8. CASE ~(start' + req.len <= n.phys /\ n.phys - start' < fixed.len)
  <2>1. fixed' = fixed
    BY <1>1, <1>2, <1>3, <1>8 DEF Calculate, Accepts, Minus
  <2>2. ASSUME NEW t \in GapStarts(zone), NEW u \in GapEnds(zone), Fits(zone, t, u), u <= n.phys
        PROVE  fixed.len <= u - t
    <3>1. CASE u <= cur.phys
      BY <1>0, <1>2, <2>2, <3>1 DEF ScanBest
    <3>2. CASE ~(u <= cur.phys)
      <4>1. t = start' /\ u = n.phys
        BY <1>4, <2>2, <3>2
      <4>2. start' + req.len <= n.phys
        BY <1>6, <2>2, <4>1
      <4>. QED  BY <1>2, <1>3, <1>8, <4>1, <4>2
    <3>. QED  BY <3>1, <3>2
  <2>3. ScanBest'
    BY <1>0, <1>1, <1>2, <2>1, <2>2, GapsStay DEF ScanBest
  <2>. QED  BY <1>0, <2>3, GapsStay DEF FitInv, RequestKnown, ChoiceBest, TailBest, FoundBest
<1>. QED  BY <1>7, <1>8

(* The last iteration: the gap behind the last block.                      *)
LEMMA ScanLastFit == ASSUME IInv, FitInv, ScanLast PROVE FitInv'
<1>0. pc = "scan" /\ UNCHANGED <<blocks, req, zone, choice>> /\ start' = Align2(End(cur), req.align)
      /\ IsLast(zone, cur)
  BY DEF ScanLast
<1>2. /\ zone \in Zones /\ RequestKnown /\ ScanBest
      /\ cur \in blocks[zone] /\ cur.phys \in Nat /\ End(cur) \in Nat /\ cur.phys < End(cur)
      /\ req.len \in Nat \ {0} /\ req.align \in Nat \ {0} /\ NoLen \in Nat /\ Lo[zone] \in Nat \ {0}
      /\ Hi[zone] \in Nat /\ Hi[zone] % req.align = 0 /\ Hi[zone] < NoLen /\ End(cur) <= Hi[zone]
      /\ start' \in Nat \ {0} /\ End(cur) <= start' /\ start' \in GapStarts(zone)
      /\ fixed \in [start : Nat, len : Nat]
  BY <1>0, ScanFacts
<1>3. start' <= Hi[zone] /\ Hi[zone] \in GapEnds(zone)
  BY <1>0, <1>2, Align2NotBeyond DEF GapEnds
<1>4. \A b \in blocks[zone] : b.phys \in Nat /\ b.phys <= cur.phys /\ End(b) <= start'
  <2>1. ASSUME NEW b \in blocks[zone] PROVE b.phys \in Nat /\ b.phys <= cur.phys /\ End(b) <= start'
    <3>1. End(b) <= End(cur) \/ cur.phys < b.phys
      BY <1>0, BelowOrAfter
    <3>2. End(b) \in Nat /\ b.phys \in Nat
      BY <1>2, BlockFacts
    <3>. QED  BY <1>0, <1>2, <3>1, <3>2 DEF IsLast
  <2>. QED  BY <2>1
<1>5. ASSUME NEW t \in GapStarts(zone), NEW u \in GapEnds(zone), Fits(zone, t, u), ~(u <= cur.phys)
      PROVE  t = start' /\ u = Hi[zone]
  <2>1. u = Hi[zone] \/ \E b \in blocks[zone] : u = b.phys
    BY <1>0, <1>2, GapTypes
  <2>2. u = Hi[zone]
    BY <1>4, <1>5, <2>1
  <2>3. cur.phys < u /\ \A b \in blocks[zone] : b.phys < u => b.phys <= cur.phys
    BY <1>2, <1>4, <2>2
  <2>4. t = Align2(End(cur), req.align)
    BY <1>0, <1>2, <1>5, <2>3, GapAfter
  <2>. QED  BY <1>0, <2>2, <2>4
<1>6. Fits(zone, start', Hi[zone]) <=> Hi[zone] - start' >= req.len
  BY <1>2, <1>3, <1>4 DEF Fits, IsGap
<1>7. ASSUME NEW t \in GapStarts(zone), NEW u \in GapEnds(zone), Fits(zone, t, u)
      PROVE  t \in Nat /\ u \in Nat /\ u - t < NoLen /\ (u <= cur.phys => fixed.len <= u - t)
  BY <1>0, <1>2, <1>7, GapLength DEF ScanBest
<1>8. Accepts(Hi[zone], start', fixed, req.len) <=>
        Hi[zone] - start' < fixed.len /\ Hi[zone] - start' >= req.len
  BY <1>2, <1>3 DEF Accepts, Minus
<1>9. RequestKnown' /\ (pc' # "commit" => ChoiceBest')
  BY <1>0, GapsStay DEF FitInv, RequestKnown, ChoiceBest
<1>10. CASE Accepts(Hi[zone], start', fixed, req.len)
  <2>1. pc' = "tail"
    BY <1>10 DEF ScanLast
  <2>2. Hi[zone] - start' < fixed.len /\ Hi[zone] - start' >= req.len
    BY <1>8, <1>10
  <2>3. ASSUME NEW t \in GapStarts(zone), NEW u \in GapEnds(zone), Fits(zone, t, u)
        PROVE  Hi[zone] - start' <= u - t
    <3>1. CASE u <= cur.phys
      <4>1. t \in Nat /\ u \in Nat /\ fixed.len <= u - t
        BY <1>7, <2>3, <3>1
      <4>. QED  BY <1>2, <2>2, <4>1
    <3>2. CASE ~(u <= cur.phys)
      <4>1. t = start' /\ u = Hi[zone]
        BY <1>5, <2>3, <3>2
      <4>. QED  BY <1>2, <4>1
    <3>. QED  BY <3>1, <3>2
  <2>4. Best(zone, start')
    BY <1>2, <1>3, <1>6, <2>2, <2>3 DEF Best, Smallest
  <2>5. start' + req.len <= Hi[zone]
    BY <1>2, <2>2
  <2>6. TailBest'
    BY <1>0, <2>4, <2>5, GapsStay DEF TailBest
  <2>. QED  BY <1>9, <2>1, <2>6 DEF FitInv, ScanBest, FoundBest
<1>11. CASE ~Accepts(Hi[zone], start', fixed, req.len)
  <2>1. pc' = "found" /\ fixed' = IF fixed.len = NoLen THEN [fixed EXCEPT !.start = 0] ELSE fixed
    BY <1>11 DEF ScanLast
  <2>2. ASSUME NEW t \in GapStarts(zone), NEW u \in GapEnds(zone), Fits(zone, t, u)
        PROVE  fixed.len <= u - t
    <3>1. CASE u <= cur.phys
      BY <1>7, <2>2, <3>1
    <3>2. CASE ~(u <= cur.phys)
      <4>1. t = start' /\ u = Hi[zone]
        BY <1>5, <2>2, <3>2
      <4>2. Hi[zone] - start' >= req.len
        BY <1>6, <2>2, <4>1
      <4>. QED  BY <1>2, <1>8, <1>11, <4>1, <4>2
    <3>. QED  BY <3>1, <3>2
  <2>3. CASE fixed.start = 0
    <3>1. fixed.len = NoLen
      BY <1>0, <1>2, <2>3 DEF ScanBest
    <3>2. fixed'.start = 0
      BY <1>2, <2>1, <2>3
    <3>3. ~HasRoom(zone)
      <4>1. ASSUME NEW t \in GapStarts(zone), NEW u \in GapEnds(zone), Fits(zone, t, u) PROVE FALSE
        <5>1. fixed.len <= u - t /\ u - t < NoLen /\ t \in Nat /\ u \in Nat
          BY <1>7, <2>2, <4>1
        <5>. QED  BY <1>2, <3>1, <5>1
      <4>. QED  BY <4>1 DEF HasRoom
    <3>4. FoundBest'
      BY <1>0, <3>2, <3>3, GapsStay DEF FoundBest
    <3>. QED  BY <1>9, <2>1, <3>4 DEF FitInv, ScanBest, TailBest
  <2>4. CASE fixed.start # 0
    <3>1. PICK e \in GapEnds(zone) : Fits(zone, fixed.start, e) /\ fixed.len = e - fixed.start
      BY <1>0, <1>2, <2>4 DEF ScanBest
    <3>2. fixed.start \in GapStarts(zone)
      BY <3>1 DEF Fits, IsGap
    <3>3. fixed.len < NoLen
      BY <1>7, <3>1, <3>2
    <3>4. fixed' = fixed
      BY <1>2, <2>1, <3>3
    <3>5. Best(zone, fixed.start)
      BY <2>2, <3>1, <3>2 DEF Best, Smallest
    <3>6. FoundBest'
      BY <1>0, <2>4, <3>4, <3>5, GapsStay DEF FoundBest
    <3>. QED  BY <1>9, <2>1, <3>6 DEF FitInv, ScanBest, TailBest
  <2>. QED  BY <2>3, <2>4
<1>. QED  BY <1>10, <1>11

(* The test after the loop accepts every start with room behind it: the    *)
(* end of the zone is a multiple of the grain.                             *)
LEMMA TailFit == ASSUME IInv, FitInv, Tail PROVE FitInv'
<1>0. pc = "tail" /\ pc' = "found" /\ UNCHANGED <<blocks, req, zone, choice>>
  BY DEF Tail
<1>1. /\ zone \in Zones /\ start \in Nat /\ Lo[zone] <= start /\ RequestKnown /\ TailBest
      /\ fixed \in [start : Nat, len : Nat]
  BY <1>0 DEF IInv, FitInv, TypeOK, ZoneOK, TailOK
<1>2. /\ req.len \in Nat \ {0} /\ Lo[zone] \in Nat \ {0} /\ Hi[zone] \in Nat
      /\ Hi[zone] % Grain = 0 /\ Grain \in Nat \ {0}
  BY <1>0, <1>1, RequestFacts
<1>3. start + req.len \in Nat
  BY <1>1, <1>2
<1>4. start + req.len <= Hi[zone] => fixed'.start = start
  <2>1. start + req.len <= Hi[zone] => Align2(start + req.len, Grain) <= Hi[zone]
    BY <1>2, <1>3, Align2NotBeyond
  <2>. QED  BY <1>1, <1>2, <2>1 DEF Tail
<1>5. ~(start + req.len <= Hi[zone]) => fixed'.start = 0
  <2>1. start + req.len <= Align2(start + req.len, Grain) /\ Align2(start + req.len, Grain) \in Nat
    BY <1>2, <1>3, Align2NotBelow
  <2>. QED  BY <1>1, <1>2, <1>3, <2>1 DEF Tail
<1>6. FoundBest'
  BY <1>0, <1>1, <1>2, <1>4, <1>5, GapsStay DEF TailBest, FoundBest
<1>. QED  BY <1>0, <1>6, GapsStay DEF FitInv, RequestKnown, ScanBest, TailBest, ChoiceBest

(* The outer loop: the first zone with room is chosen.                     *)
LEMMA NextZoneFit == ASSUME IInv, FitInv, NextZone PROVE FitInv'
<1>0. pc = "found" /\ pc' = "zone" /\ UNCHANGED <<blocks, req>> /\ zone' = zone + 1
      /\ choice' = IF choice.len > req.len /\ fixed.start # 0
                   THEN [zone |-> zone, start |-> fixed.start, len |-> req.len] ELSE choice
  BY DEF NextZone
<1>1. /\ zone \in Zones /\ zone \in Nat \ {0} /\ RequestKnown /\ ChoiceBest /\ FoundBest
      /\ Zones \subseteq Nat
  BY <1>0 DEF IInv, FitInv, ZoneOK, ChoiceBest, Zones
<1>2. req.len \in Nat /\ req.len < WordLimit - 2
  BY <1>0, <1>1, RequestFacts
<1>3. CASE choice.zone = NoZone /\ fixed.start # 0
  <2>1. choice.len > req.len /\ \A z \in Zones : z < zone => ~HasRoom(z)
    BY <1>0, <1>1, <1>2, <1>3, AllocConstants DEF ChoiceBest
  <2>2. choice'.zone = zone /\ choice'.start = fixed.start /\ choice'.len = req.len /\ zone # NoZone
    BY <1>0, <1>1, <1>3, <2>1 DEF NoZone
  <2>3. Best(zone, fixed.start)
    BY <1>0, <1>1, <1>3 DEF FoundBest
  <2>4. ChoiceBest'
    BY <1>0, <1>1, <2>1, <2>2, <2>3, GapsStay DEF ChoiceBest
  <2>. QED  BY <1>0, <1>1, <2>4 DEF FitInv, RequestKnown, ScanBest, TailBest, FoundBest
<1>4. CASE choice.zone = NoZone /\ fixed.start = 0
  <2>1. choice' = choice /\ choice.len = WordLimit - 2 /\ \A z \in Zones : z < zone => ~HasRoom(z)
    BY <1>0, <1>1, <1>4 DEF ChoiceBest
  <2>2. ~HasRoom(zone)
    BY <1>0, <1>1, <1>4 DEF FoundBest
  <2>3. \A z \in Zones : z < zone + 1 => ~HasRoom(z)
    BY <1>1, <2>1, <2>2
  <2>4. ChoiceBest'
    BY <1>0, <1>1, <1>4, <2>1, <2>3, GapsStay DEF ChoiceBest
  <2>. QED  BY <1>0, <1>1, <2>4 DEF FitInv, RequestKnown, ScanBest, TailBest, FoundBest
<1>5. CASE choice.zone # NoZone
  <2>1. choice' = choice /\ choice.zone \in Nat /\ choice.zone < zone
    BY <1>0, <1>1, <1>2, <1>5 DEF ChoiceBest, IInv, TypeOK
  <2>2. ChoiceBest'
    BY <1>0, <1>1, <1>5, <2>1, GapsStay DEF ChoiceBest
  <2>. QED  BY <1>0, <1>1, <2>2 DEF FitInv, RequestKnown, ScanBest, TailBest, FoundBest
<1>. QED  BY <1>3, <1>4, <1>5

(* The other steps end the request or come between two.                    *)
LEMMA OtherFit ==
  ASSUME IInv, FitInv,
         \/ ZonesDone \/ Fail \/ Insert \/ UNCHANGED vars
         \/ \E z \in Zones : \E b \in blocks[z] : Remove(z, b)
  PROVE  FitInv'
<1>1. CASE ZonesDone
  <2>1. /\ pc = "zone" /\ zone \notin Zones /\ pc' = "commit"
        /\ UNCHANGED <<blocks, req, zone, cur, start, fixed, choice>>
    BY <1>1 DEF ZonesDone
  <2>2. ChoiceBest'
    BY <2>1, GapsStay DEF FitInv, ChoiceBest
  <2>. QED  BY <2>1, <2>2 DEF FitInv, RequestKnown, ScanBest, TailBest, FoundBest
<1>2. CASE Fail \/ Insert \/ \E z \in Zones : \E b \in blocks[z] : Remove(z, b)
  <2>1. pc' = "idle"
    BY <1>2 DEF Fail, Insert, Finish, Remove
  <2>. QED  BY <2>1 DEF FitInv, RequestKnown, ScanBest, TailBest, FoundBest, ChoiceBest
<1>3. CASE UNCHANGED vars
  <2>1. UNCHANGED <<blocks, pc, req, zone, cur, start, fixed, choice>>
    BY <1>3 DEF vars
  <2>2. ScanBest'
    BY <2>1, GapsStay DEF FitInv, ScanBest
  <2>3. TailBest' /\ FoundBest'
    BY <2>1, GapsStay DEF FitInv, TailBest, FoundBest
  <2>4. ChoiceBest'
    BY <2>1, GapsStay DEF FitInv, ChoiceBest
  <2>. QED  BY <2>1, <2>2, <2>3, <2>4 DEF FitInv, RequestKnown
<1>. QED  BY <1>1, <1>2, <1>3

(* The invariant: in every loop the best gap so far.                       *)
THEOREM FitInvariance == Spec => []FitInv
<1>1. IInv /\ FitInv /\ [Next]_vars => FitInv'
  <2>. SUFFICES ASSUME IInv, FitInv, [Next]_vars PROVE FitInv'
    OBVIOUS
  <2>1. ASSUME NEW size \in Sizes, NEW align \in Aligns, Request(size, align) PROVE FitInv'
    BY <2>1, RequestFit
  <2>2. CASE ZoneEmpty
    BY <2>2, ZoneEmptyFit
  <2>3. CASE ZoneFirst
    BY <2>3, ZoneFirstFit
  <2>4. CASE ScanNext
    BY <2>4, ScanNextFit
  <2>5. CASE ScanLast
    BY <2>5, ScanLastFit
  <2>6. CASE Tail
    BY <2>6, TailFit
  <2>7. CASE NextZone
    BY <2>7, NextZoneFit
  <2>8. CASE \/ ZonesDone \/ Fail \/ Insert \/ UNCHANGED vars
             \/ \E z \in Zones : \E b \in blocks[z] : Remove(z, b)
    BY <2>8, OtherFit
  <2>. QED  BY <2>1, <2>2, <2>3, <2>4, <2>5, <2>6, <2>7, <2>8 DEF Next
<1>. QED  BY <1>1, InitFit, Invariance, PTL DEF Spec

(* A request gets the smallest gap it fits into, in the first zone that    *)
(* has one.                                                                *)
THEOREM SmallestGap == Spec => []BestFit
<1>1. IInv /\ FitInv => BestFit
  <2>. SUFFICES ASSUME IInv, FitInv, pc = "commit", choice.zone # NoZone PROVE BestFit
    BY DEF BestFit
  <2>1. /\ choice.zone \in Zones /\ Best(choice.zone, choice.start)
        /\ \A z \in Zones : z < choice.zone => ~HasRoom(z)
    BY DEF IInv, FitInv, ChoiceOK, ChoiceBest
  <2>2. \A z \in 1 .. choice.zone - 1 : z \in Zones /\ z < choice.zone
    BY <2>1, AllocConstants DEF Zones
  <2>3. PICK e \in GapEnds(choice.zone) : Smallest(choice.zone, choice.start, e)
    BY <2>1 DEF Best
  <2>4. /\ Fits(choice.zone, choice.start, e) /\ choice.start \in Nat /\ e \in Nat
        /\ \A t \in GapStarts(choice.zone), u \in GapEnds(choice.zone) :
             Fits(choice.zone, t, u) => u - t >= e - choice.start
    <3>1. RequestKnown /\ choice.start \in GapStarts(choice.zone) /\ Fits(choice.zone, choice.start, e)
      BY <2>3 DEF FitInv, Smallest
    <3>2. choice.start \in Nat /\ e \in Nat
      BY <2>1, <3>1, GapLength
    <3>3. ASSUME NEW t \in GapStarts(choice.zone), NEW u \in GapEnds(choice.zone),
                 Fits(choice.zone, t, u)
          PROVE  u - t >= e - choice.start
      <4>1. t \in Nat /\ u \in Nat
        BY <2>1, <3>1, <3>3, GapLength
      <4>2. e - choice.start <= u - t
        BY <2>3, <3>3 DEF Smallest
      <4>. QED  BY <3>2, <4>1, <4>2
    <3>. QED  BY <3>1, <3>2, <3>3
  <2>. QED  BY <2>1, <2>2, <2>4 DEF BestFit
<1>. QED  BY <1>1, Invariance, FitInvariance, PTL

(* A request fails only when no zone has a gap it fits into.               *)
THEOREM FailsOnlyWhenFull == Spec => []FailOnlyIfFull
<1>1. FitInv => FailOnlyIfFull
  <2>. SUFFICES ASSUME FitInv, pc = "commit", choice.zone = NoZone, NEW z \in Zones
                PROVE  ~HasRoom(z)
    BY DEF FailOnlyIfFull
  <2>1. zone \in Nat \ {0} /\ zone \notin Zones /\ (z < zone => ~HasRoom(z))
    BY DEF FitInv, ChoiceBest
  <2>. QED  BY <2>1, AllocConstants DEF Zones
<1>. QED  BY <1>1, FitInvariance, PTL
=============================================================================
