-------------------------- MODULE MotionBuf_proofs --------------------------
(* Theorems about the ring buffer of the motion sensor manager.            *)
EXTENDS MotionBuf, FiniteSetTheorems, WellFoundedInduction, TLAPS

-----------------------------------------------------------------------------
(* Smallest elements.                                                      *)

(* A nonempty set of natural numbers has a smallest element: the initial   *)
(* segments below its elements are well-founded under inclusion.           *)
LEMMA Smallest ==
  ASSUME NEW S, S \subseteq Nat, S # {}
  PROVE  \E m \in S : \A y \in S : m <= y
<1>. DEFINE Below(y) == 0 .. y - 1
            C == {Below(y) : y \in S}
<1>1. IsWellFoundedOn(StrictSubsetOrdering(Nat), FiniteSubsetsOf(Nat))
  BY FS_StrictSubsetOrderingWellFounded
<1>2. C \subseteq FiniteSubsetsOf(Nat) /\ C # {}
  <2>1. \A y \in S : IsFiniteSet(Below(y)) /\ Below(y) \subseteq Nat
    BY FS_Interval
  <2>. QED  BY <2>1 DEF FiniteSubsetsOf
<1>. HIDE DEF C
<1>3. PICK X \in C : \A Y \in C : <<Y, X>> \notin StrictSubsetOrdering(Nat)
  BY <1>1, <1>2, WFMin
<1>4. PICK m \in S : X = Below(m)
  BY <1>3 DEF C
<1>5. ASSUME NEW y \in S, ~(m <= y)
      PROVE  FALSE
  <2>1. Below(y) \in C
    BY DEF C
  <2>2. y \in Below(m) /\ y \notin Below(y) /\ Below(y) \subseteq Below(m)
    BY <1>5
  <2>3. Below(y) \subseteq Nat /\ Below(m) \subseteq Nat
    OBVIOUS
  <2>4. <<Below(y), Below(m)>> \in StrictSubsetOrdering(Nat)
    <3>. HIDE DEF Below
    <3>. QED  BY <2>2, <2>3 DEF StrictSubsetOrdering
  <2>. QED  BY <1>3, <1>4, <2>1, <2>4
<1>. QED  BY <1>5

(* Min of the community modules picks it.                                  *)
LEMMA MinIs ==
  ASSUME NEW S, S \subseteq Nat, S # {}
  PROVE  Min(S) \in S /\ \A y \in S : Min(S) <= y
BY Smallest DEF Min

-----------------------------------------------------------------------------
(* Arithmetic of the ring.                                                 *)

LEMMA Sizes ==
  /\ N \in Nat /\ N >= 3 /\ Gap \in 1 .. N - 2 /\ Gap \in Nat /\ MaxPts \in Nat
  /\ IsFiniteSet(Users)
  /\ \A w \in Windows : w[1] \in Nat \ {0} /\ w[2] \in Nat /\ w[1] < w[2]
BY MotionConstants

(* A pointer less than two rings ahead is taken back at most once.         *)
LEMMA Wrapped ==
  ASSUME NEW n \in Nat \ {0}, NEW a \in Nat, a < 2 * n
  PROVE  a % n = IF a < n THEN a ELSE a - n
OBVIOUS

(* A difference of two slots is taken forward at most once.                *)
LEMMA WrappedBack ==
  ASSUME NEW n \in Nat \ {0}, NEW a \in Int, -n <= a, a < n
  PROVE  a % n = IF a < 0 THEN a + n ELSE a
OBVIOUS

(* Where the walk is after k steps, from inside the ring ...               *)
LEMMA AfterInside ==
  ASSUME NEW p \in Slots, NEW k \in 0 .. N
  PROVE  After(p, k) = IF p + k < N THEN p + k ELSE p + k - N
<1>. DEFINE s == p + k
<1>1. N \in Nat \ {0} /\ p \in Nat /\ p < N /\ k \in Nat /\ s \in Nat /\ s < 2 * N
  BY Sizes DEF Slots
<1>2. s % N = IF s < N THEN s ELSE s - N
  <2>. HIDE DEF s
  <2>. QED  BY <1>1, Wrapped
<1>. QED  BY <1>1, <1>2 DEF After

(* ... and from behind it, where the first step leads to its start.        *)
LEMMA AfterOutside ==
  ASSUME NEW p \in Nat, p >= N, NEW k \in 1 .. N
  PROVE  After(p, k) = k - 1
<1>. DEFINE j == k - 1
<1>1. N \in Nat \ {0} /\ j \in Nat /\ j < N /\ j < 2 * N /\ k # 0 /\ ~(p < N)
  BY Sizes
<1>2. j % N = j
  <2>. HIDE DEF j
  <2>. QED  BY <1>1, Wrapped
<1>. QED  BY <1>1, <1>2 DEF After

-----------------------------------------------------------------------------
(* The inductive invariant.                                                *)

(* The ring holds the newest samples, the newest just before the writer.   *)
RingOK ==
  /\ last = write_x \/ last >= N + write_x
  /\ \A i \in Slots :
       buf[i] = IF i < write_x THEN last - (write_x - 1 - i)
                ELSE IF last >= N THEN last - (N + write_x - 1 - i) ELSE 0

(* The write pointer of PTS is a slot behind that of X during a write.     *)
CursorOK ==
  IF lock = "writer" THEN last > 0 /\ write_x = (IF write_p + 1 >= N THEN 0 ELSE write_p + 1)
                     ELSE write_x = write_p

(* No read pointer lies before a slot that was never written; torn         *)
(* pointers stay less than a ring apart and within two rings.              *)
PointerOK(c, l) ==
  /\ c.p \in 0 .. 2 * N - 2 /\ c.p <= l
  /\ c.x <= 2 * N - 2 /\ c.p - c.x < N

InStep(c) == c.x = c.p /\ c.p \in Slots

PointersOK == \A u \in Active : PointerOK(user_ctx[u], last) /\ (u \notin raced => InStep(user_ctx[u]))

Shows == [first : 0 .. 2 * N - 2, n0 : 0 .. N, n1 : 0 .. N - 1]

(* What a user was shown can be released, even in a later life of its id.  *)
ShownOK(d) ==
  /\ d \in Shows
  /\ ReleasedAt(d) \in Slots

DataOK == \A u \in Users : ShownOK(data[u]) /\ (~released[u] => ReleasedAt(data[u]) <= last)

(* Who is inside a call, and what it may rely on.                          *)
CallOK ==
  /\ \A u \in Users : call[u].at = "add" => u \notin Active
  /\ \A u \in Users : call[u].at = "scan" => u \in Active /\ lock = "reader" /\ call[u].w \in Windows
  /\ \A u, v \in Users : call[u].at = "scan" /\ call[v].at = "scan" => u = v

(* The way back ends at a sample not younger than the window.              *)
ScanOK ==
  \A u \in Users \ raced :
    call[u].at = "scan" => \/ user_ctx[u].p = write_p
                           \/ buf[user_ctx[u].p] <= call[u].w[1]

CountOK == user_cnt = Cardinality(Active)

IInv == TypeOK /\ RingOK /\ CursorOK /\ PointersOK /\ DataOK /\ CallOK /\ ScanOK /\ CountOK

-----------------------------------------------------------------------------
(* The two walks end.                                                      *)

RingTypes ==
  /\ write_x \in Slots /\ write_p = write_x /\ last \in Nat
  /\ buf \in [Slots -> Nat]

(* In the first lap of the writer the slots behind it are empty.           *)
LEMMA FirstLap ==
  ASSUME RingTypes, RingOK, last < N
  PROVE  /\ write_x = last
         /\ \A i \in Slots : buf[i] = IF i < last THEN i + 1 ELSE 0
BY Sizes DEF RingTypes, RingOK, Slots

(* The way back stops at a slot that was written, or at the writer.        *)
LEMMA BackStops ==
  ASSUME RingTypes, RingOK, NEW p \in 0 .. 2 * N - 2, p <= last,
         NEW w \in Windows, NEW g,
         NEW k, k = StepsBack(p, w, g)
  PROVE  /\ k \in 0 .. p + N
         /\ Before(p, k) \in 0 .. 2 * N - 2 /\ Before(p, k) <= last
         /\ k > p \/ p \in Slots => Before(p, k) \in Slots
         /\ Before(p, k) = write_p \/ Pts(Before(p, k), g) <= w[1]
<1>. DEFINE S == {j \in 0 .. p + N : Pts(Before(p, j), g) <= w[1] \/ Before(p, j) = write_p}
<1>0. /\ N \in Nat /\ N >= 3 /\ p \in Nat /\ last \in Nat /\ write_p \in 0 .. N - 1
      /\ w[1] \in Nat \ {0}
  BY Sizes DEF RingTypes, Slots
<1>1. PICK j \in 0 .. p + N : Before(p, j) = write_p
  <2>1. CASE write_p <= p
    <3>1. p - write_p \in 0 .. p + N /\ Before(p, p - write_p) = write_p
      BY <1>0, <2>1 DEF Before
    <3>. QED  BY <3>1
  <2>2. CASE ~(write_p <= p)
    <3>1. N + (p - write_p) \in 0 .. p + N /\ Before(p, N + (p - write_p)) = write_p
      BY <1>0, <2>2 DEF Before
    <3>. QED  BY <3>1
  <2>. QED  BY <2>1, <2>2
<1>2. S \subseteq Nat /\ S # {}
  BY <1>0, <1>1
<1>3. k = Min(S)
  BY DEF StepsBack
<1>. HIDE DEF S
<1>4. k \in S /\ \A y \in S : k <= y
  BY <1>2, <1>3, MinIs
<1>5. k \in 0 .. p + N /\ (Pts(Before(p, k), g) <= w[1] \/ Before(p, k) = write_p)
  BY <1>4 DEF S
<1>6. ASSUME last < N
      PROVE  k <= p
  <2>1. Before(p, p) = 0 /\ 0 \in Slots
    BY <1>0 DEF Before, Slots
  <2>2. write_x = last /\ buf[0] = IF 0 < last THEN 1 ELSE 0
    BY <1>0, <1>6, <2>1, FirstLap
  <2>3. p \in S
    BY <1>0, <2>1, <2>2 DEF S, Pts
  <2>. QED  BY <1>4, <2>3
<1>. QED  BY <1>0, <1>5, <1>6 DEF Before, Slots

(* Where the walk forward stops.                                           *)
Stops(p, k, w, g) ==
  \/ After(p, k) = write_p /\ (forward \/ k > 0)
  \/ Pts(After(p, k), g) > w[2]

(* The walk forward ends within one turn.                                  *)
LEMMA ScanStops ==
  ASSUME RingTypes, NEW p \in 0 .. 2 * N - 2, NEW w, NEW g,
         NEW n, n = Steps(p, w, g)
  PROVE  n \in 0 .. N /\ Stops(p, n, w, g) /\ \A k \in 0 .. n - 1 : ~Stops(p, k, w, g)
<1>. DEFINE S == {k \in 0 .. 2 * N : \/ After(p, k) = write_p /\ (forward \/ k > 0)
                                     \/ Pts(After(p, k), g) > w[2]}
<1>0. N \in Nat /\ N >= 3 /\ p \in Nat /\ write_p \in 0 .. N - 1 /\ Slots = 0 .. N - 1
  BY Sizes DEF RingTypes, Slots
<1>1. PICK k \in 1 .. N : After(p, k) = write_p
  <2>1. CASE p < N /\ p < write_p
    <3>1. write_p - p \in 1 .. N /\ After(p, write_p - p) = write_p
      BY <1>0, <2>1, AfterInside
    <3>. QED  BY <3>1
  <2>2. CASE p < N /\ ~(p < write_p)
    <3>1. N - p + write_p \in 1 .. N /\ After(p, N - p + write_p) = write_p
      BY <1>0, <2>2, AfterInside
    <3>. QED  BY <3>1
  <2>3. CASE p >= N
    <3>1. write_p + 1 \in 1 .. N /\ After(p, write_p + 1) = write_p
      BY <1>0, <2>3, AfterOutside
    <3>. QED  BY <3>1
  <2>. QED  BY <1>0, <2>1, <2>2, <2>3
<1>2. S \subseteq Nat /\ k \in S
  BY <1>0, <1>1
<1>3. n = Min(S)
  BY DEF Steps
<1>4. n \in S /\ \A y \in S : n <= y
  <2>. HIDE DEF S
  <2>. QED  BY <1>2, <1>3, MinIs
<1>5. n \in 0 .. 2 * N /\ n <= k /\ Stops(p, n, w, g)
  BY <1>2, <1>4 DEF Stops
<1>6. ASSUME NEW j \in 0 .. n - 1, Stops(p, j, w, g)
      PROVE  FALSE
  <2>1. j \in S
    BY <1>0, <1>5, <1>6 DEF Stops
  <2>. QED  BY <1>4, <1>5, <2>1
<1>. QED  BY <1>0, <1>1, <1>5, <1>6

-----------------------------------------------------------------------------
(* What a read shows.                                                      *)

(* A hit is a step of the first turn, on a sample of the window.           *)
LEMMA HitsInside ==
  ASSUME RingTypes, NEW p \in 0 .. 2 * N - 2, NEW w, NEW g, NEW k \in Hits(p, w, g)
  PROVE  /\ k \in 0 .. N - 1 /\ k < Steps(p, w, g) /\ Pts(After(p, k), g) \in w[1] .. w[2]
         /\ After(p, k) \in 0 .. 2 * N - 2 /\ (p \in Slots \/ k > 0 => After(p, k) \in Slots)
<1>0. N \in Nat /\ N >= 3 /\ p \in Nat /\ Slots = 0 .. N - 1
  BY Sizes DEF Slots
<1>1. Steps(p, w, g) \in 0 .. N
  BY ScanStops
<1>2. k \in 0 .. N - 1 /\ k < Steps(p, w, g) /\ Pts(After(p, k), g) \in w[1] .. w[2]
  BY <1>0, <1>1 DEF Hits
<1>3. CASE p \in Slots
  <2>1. After(p, k) = IF p + k < N THEN p + k ELSE p + k - N
    BY <1>0, <1>2, <1>3, AfterInside
  <2>2. After(p, k) \in Slots /\ After(p, k) \in 0 .. 2 * N - 2
    BY <1>0, <1>2, <1>3, <2>1
  <2>. QED  BY <1>2, <2>2
<1>4. CASE p >= N /\ k > 0
  BY <1>0, <1>2, <1>4, AfterOutside
<1>5. CASE p >= N /\ k = 0
  <2>1. After(p, k) = p
    BY <1>5 DEF After
  <2>. QED  BY <1>0, <1>2, <1>5, <2>1
<1>6. p \in Slots \/ (p >= N /\ k > 0) \/ (p >= N /\ k = 0)
  BY <1>0, <1>2
<1>. QED  BY <1>3, <1>4, <1>5, <1>6

(* Before the turn the slots of the walk follow one another, ...           *)
LEMMA HeadRun ==
  ASSUME NEW p \in Slots, NEW j \in 0 .. N - 1, NEW k \in j .. N - 1,
         \A i \in j + 1 .. k : After(p, i) # 0
  PROVE  After(p, k) = After(p, j) + (k - j)
<1>0. N \in Nat /\ N >= 3 /\ p \in 0 .. N - 1
  BY Sizes DEF Slots
<1>1. /\ After(p, k) = IF p + k < N THEN p + k ELSE p + k - N
      /\ After(p, j) = IF p + j < N THEN p + j ELSE p + j - N
  BY <1>0, AfterInside
<1>2. ASSUME p + j < N, ~(p + k < N)
      PROVE  FALSE
  <2>1. N - p \in j + 1 .. k /\ N - p \in 0 .. N
    BY <1>0, <1>2
  <2>2. After(p, N - p) = 0
    BY <1>0, <2>1, AfterInside
  <2>. QED  BY <2>1, <2>2
<1>. QED  BY <1>0, <1>1, <1>2

(* ... and behind it they start at the first slot of the ring.             *)
LEMMA TailRun ==
  ASSUME NEW p \in Slots, NEW j \in 1 .. N - 1, NEW k \in j .. N - 1, After(p, j) = 0
  PROVE  p + j = N /\ After(p, k) = k - j
<1>0. N \in Nat /\ N >= 3 /\ p \in 0 .. N - 1
  BY Sizes DEF Slots
<1>1. /\ After(p, k) = IF p + k < N THEN p + k ELSE p + k - N
      /\ After(p, j) = IF p + j < N THEN p + j ELSE p + j - N
  BY <1>0, AfterInside
<1>. QED  BY <1>0, <1>1

(* A set within an interval is no larger than it.                          *)
LEMMA Within ==
  ASSUME NEW a \in Int, NEW b \in Int, NEW S, S \subseteq a .. b
  PROVE  /\ IsFiniteSet(S) /\ Cardinality(S) \in Nat
         /\ a <= b => Cardinality(S) <= b - a + 1
<1>1. IsFiniteSet(a .. b) /\ Cardinality(a .. b) = IF a > b THEN 0 ELSE b - a + 1
  BY FS_Interval
<1>2. IsFiniteSet(S) /\ Cardinality(S) <= Cardinality(a .. b)
  BY <1>1, FS_Subset
<1>. QED  BY <1>1, <1>2, FS_CardinalityType

(* The shown runs lie in the ring, and releasing them leads to a slot of   *)
(* the ring that was written, or to the writer.                            *)
LEMMA RunsShown ==
  ASSUME RingTypes, RingOK, NEW p \in 0 .. 2 * N - 2, p <= last,
         NEW w \in Windows, NEW g,
         NEW hits, hits = Hits(p, w, g), hits # {}
  PROVE  /\ ShownOK(Runs(p, hits)) /\ ReleasedAt(Runs(p, hits)) <= last
         /\ p \in Slots => Runs(p, hits).first \in Slots
         /\ Runs(p, hits).first <= last
<1>0. /\ N \in Nat /\ N >= 3 /\ p \in Nat /\ last \in Nat /\ Slots = 0 .. N - 1
      /\ w[1] \in Nat \ {0} /\ w[2] \in Nat
  BY Sizes DEF RingTypes, Slots
<1>1. \A k \in hits : /\ k \in 0 .. N - 1 /\ Pts(After(p, k), g) \in w[1] .. w[2]
                      /\ After(p, k) \in 0 .. 2 * N - 2
                      /\ p \in Slots \/ k > 0 => After(p, k) \in Slots
  BY HitsInside
<1>. DEFINE k0 == Min(hits)
            head == {k \in hits : \A j \in k0 + 1 .. k : After(p, j) # 0}
            tail == hits \ head
            first == After(p, k0)
            n0 == Cardinality(head)
            n1 == Cardinality(tail)
<1>2. Runs(p, hits) = [first |-> first, n0 |-> n0, n1 |-> n1]
  BY DEF Runs
<1>3. k0 \in hits /\ \A k \in hits : k0 <= k
  <2>1. hits \subseteq Nat
    BY <1>0, <1>1
  <2>. QED  BY <2>1, MinIs
<1>4. k0 \in 0 .. N - 1 /\ first \in 0 .. 2 * N - 2
  BY <1>1, <1>3
<1>5. p \in Slots => first \in Slots
  BY <1>1, <1>3
<1>. HIDE DEF k0
<1>6. head \subseteq k0 .. N - 1 /\ k0 \in head /\ tail \subseteq k0 + 1 .. N - 1
  <2>1. k0 + 1 .. k0 = {}
    BY <1>4
  <2>2. k0 \in head
    BY <1>3, <2>1
  <2>3. \A k \in hits : k \in k0 .. N - 1
    BY <1>0, <1>1, <1>3, <1>4
  <2>4. \A k \in tail : k # k0 /\ k \in hits
    BY <2>2
  <2>5. \A k \in head : k \in hits
    OBVIOUS
  <2>. HIDE DEF head, tail
  <2>6. \A k \in tail : k \in k0 + 1 .. N - 1
    BY <1>0, <1>4, <2>3, <2>4
  <2>. QED  BY <2>2, <2>3, <2>5, <2>6
<1>7. \A k \in tail : \E j \in k0 + 1 .. k : After(p, j) = 0
  OBVIOUS
<1>8. head \subseteq hits /\ tail \subseteq hits /\ \A k \in head : \A j \in k0 + 1 .. k : After(p, j) # 0
  OBVIOUS
<1>. HIDE DEF head, tail, first
<1>9. /\ IsFiniteSet(head) /\ n0 \in 0 .. N
      /\ IsFiniteSet(tail) /\ n1 \in 0 .. N - 1
  <2>1. head \subseteq 0 .. N - 1 /\ tail \subseteq 1 .. N - 1
    BY <1>0, <1>4, <1>6
  <2>. DEFINE b == N - 1
  <2>2. b \in Int /\ 1 <= b
    BY <1>0
  <2>3. /\ IsFiniteSet(head) /\ n0 \in Nat /\ n0 <= b - 0 + 1
        /\ IsFiniteSet(tail) /\ n1 \in Nat /\ n1 <= b - 1 + 1
    <3>. HIDE DEF b
    <3>1. head \subseteq 0 .. b /\ tail \subseteq 1 .. b
      BY <2>1 DEF b
    <3>2. 0 \in Int /\ 1 \in Int /\ 0 <= b
      BY <2>2
    <3>. QED  BY <2>2, <3>1, <3>2, Within
  <2>. QED  BY <1>0, <2>3
<1>10. ASSUME last < N
       PROVE  /\ p \in Slots /\ first < last /\ n0 <= last - first /\ n1 <= last
  <2>1. p \in Slots
    BY <1>0, <1>10
  <2>2. \A k \in hits : After(p, k) \in Slots /\ After(p, k) < last
    <3>1. SUFFICES ASSUME NEW k \in hits
                   PROVE  After(p, k) \in Slots /\ After(p, k) < last
      OBVIOUS
    <3>2. After(p, k) \in Slots /\ buf[After(p, k)] > 0
      BY <1>0, <1>1, <2>1 DEF Pts
    <3>. QED  BY <1>0, <1>10, <3>2, FirstLap
  <2>3. first \in Slots /\ first < last
    BY <1>3, <2>2 DEF first
  <2>4. head \subseteq k0 .. k0 + (last - first) - 1
    <3>1. SUFFICES ASSUME NEW k \in head
                   PROVE  k \in k0 .. k0 + (last - first) - 1
      OBVIOUS
    <3>2. k \in k0 .. N - 1 /\ \A j \in k0 + 1 .. k : After(p, j) # 0
      BY <1>6, <1>8
    <3>3. After(p, k) = first + (k - k0)
      BY <1>4, <2>1, <3>2, HeadRun DEF first
    <3>4. After(p, k) < last
      BY <1>8, <2>2
    <3>. QED  BY <1>0, <1>4, <2>3, <3>2, <3>3, <3>4
  <2>5. n0 <= last - first
    <3>1. /\ k0 \in Int /\ k0 + (last - first) - 1 \in Int /\ k0 <= k0 + (last - first) - 1
          /\ (k0 + (last - first) - 1) - k0 + 1 = last - first
      BY <1>0, <1>4, <2>3
    <3>. QED  BY <2>4, <3>1, Within
  <2>6. n1 <= last
    <3>1. CASE tail = {}
      BY <1>0, <3>1, FS_EmptySet
    <3>2. CASE tail # {}
      <4>1. tail \subseteq N - p .. N - p + last - 1
        <5>1. SUFFICES ASSUME NEW k \in tail
                       PROVE  k \in N - p .. N - p + last - 1
          OBVIOUS
        <5>2. PICK j \in k0 + 1 .. k : After(p, j) = 0
          BY <1>7
        <5>3. k \in k0 + 1 .. N - 1 /\ j \in 1 .. N - 1 /\ k \in j .. N - 1
          BY <1>0, <1>4, <1>6, <5>2
        <5>4. p + j = N /\ After(p, k) = k - j
          BY <2>1, <5>2, <5>3, TailRun
        <5>5. After(p, k) < last
          BY <1>8, <2>2
        <5>. QED  BY <1>0, <5>3, <5>4, <5>5
      <4>2. /\ N - p \in Int /\ N - p + last - 1 \in Int /\ N - p <= N - p + last - 1
            /\ (N - p + last - 1) - (N - p) + 1 = last
        BY <1>0, <2>3
      <4>. QED  BY <4>1, <4>2, Within
    <3>. QED  BY <3>1, <3>2
  <2>. QED  BY <2>1, <2>3, <2>5, <2>6
<1>11. first <= last
  <2>1. CASE last < N
    BY <1>0, <1>4, <1>10, <2>1
  <2>2. CASE ~(last < N) /\ first \in Slots
    BY <1>0, <2>2
  <2>3. CASE first \notin Slots
    <3>1. p \notin Slots /\ k0 = 0
      BY <1>0, <1>1, <1>3, <1>4, <1>5, <2>3 DEF first
    <3>2. first = p
      BY <3>1 DEF first, After
    <3>. QED  BY <3>2
  <2>. QED  BY <2>1, <2>2, <2>3
<1>. DEFINE d == [first |-> first, n0 |-> n0, n1 |-> n1]
<1>12. ReleasedAt(d) = IF n1 > 0 THEN n1 ELSE IF first + n0 >= N THEN 0 ELSE first + n0
  BY DEF ReleasedAt
<1>13. ReleasedAt(d) \in Slots /\ ReleasedAt(d) <= last
  <2>. HIDE DEF n0, n1
  <2>. QED  BY <1>0, <1>4, <1>9, <1>10, <1>12
<1>14. ShownOK(d)
  BY <1>4, <1>9, <1>13 DEF Shows, ShownOK
<1>. QED  BY <1>2, <1>5, <1>11, <1>13, <1>14

-----------------------------------------------------------------------------
(* The invariant holds initially and is kept by every step.                *)

Pointers == [x : 1 - N .. 2 * N - 2, p : -1 .. 2 * N - 2]
Calls == [at : {"idle", "add", "scan", "release"}, x : Slots, w : Windows \union {<<0, 0>>}]

(* Pointers of an invariant state have their type and are not Null.        *)
LEMMA PointerTyped ==
  ASSUME NEW x \in Int, NEW p \in Int, NEW l \in Nat, PointerOK([x |-> x, p |-> p], l)
  PROVE  [x |-> x, p |-> p] \in Pointers /\ [x |-> x, p |-> p] # Null
<1>1. p \in 0 .. 2 * N - 2 /\ x <= 2 * N - 2 /\ p - x < N
  BY DEF PointerOK
<1>2. p \in -1 .. 2 * N - 2 /\ x \in 1 - N .. 2 * N - 2
  BY <1>1, Sizes
<1>3. [x |-> x, p |-> p].p = p /\ Null.p = -1
  BY DEF Null
<1>. QED  BY <1>1, <1>2, <1>3, Sizes DEF Pointers

(* What a change of one context does to the set of users.                  *)
LEMMA ActiveAfter ==
  ASSUME NEW P, user_ctx \in [Users -> P], NEW u \in Users, NEW c,
         user_ctx' = [user_ctx EXCEPT ![u] = c]
  PROVE  /\ c = Null => Active' = Active \ {u}
         /\ c # Null => Active' = Active \union {u}
         /\ \A v \in Users : user_ctx'[v] = IF v = u THEN c ELSE user_ctx[v]
BY DEF Active

LEMMA ActiveKept ==
  ASSUME NEW P, user_ctx \in [Users -> P], NEW u \in Active, NEW c, c # Null,
         user_ctx' = [user_ctx EXCEPT ![u] = c]
  PROVE  /\ Active' = Active
         /\ \A v \in Users : user_ctx'[v] = IF v = u THEN c ELSE user_ctx[v]
BY DEF Active

(* There are no more users than ids.                                       *)
LEMMA CountTyped ==
  /\ IsFiniteSet(Active) /\ Cardinality(Active) \in 0 .. Cardinality(Users)
  /\ Cardinality(Users) \in Nat
<1>1. IsFiniteSet(Users) /\ Active \in SUBSET Users
  BY Sizes DEF Active
<1>. QED  BY <1>1, FS_Subset, FS_CardinalityType

LEMMA InitInv == Init => IInv
<1>. SUFFICES ASSUME Init PROVE IInv
  OBVIOUS
<1>0. N \in Nat /\ N >= 3 /\ MaxPts \in Nat /\ Slots = 0 .. N - 1
  BY Sizes DEF Slots
<1>1. Active = {} /\ Cardinality(Active) = 0
  BY FS_EmptySet DEF Init, Active
<1>2. /\ RingOK /\ CursorOK /\ PointersOK /\ CallOK /\ ScanOK /\ CountOK
  BY <1>0, <1>1 DEF Init, RingOK, CursorOK, PointersOK, CallOK, ScanOK, CountOK, Idle
<1>3. DataOK
  BY <1>0 DEF Shows, Init, DataOK, ShownOK, ReleasedAt, Empty
<1>4. Cardinality(Users) \in Nat
  BY CountTyped
<1>5. TypeOK
  BY <1>0, <1>4 DEF Init, TypeOK, Null, Idle, Empty
<1>. QED  BY <1>2, <1>3, <1>5 DEF IInv

(* What the steps need of the types, written once.                         *)
LEMMA Types ==
  ASSUME TypeOK
  PROVE  /\ N \in Nat /\ N >= 3 /\ Slots = 0 .. N - 1 /\ Gap \in 1 .. N - 2
         /\ MaxPts \in Nat /\ last \in 0 .. MaxPts /\ write_x \in Slots /\ write_p \in Slots
         /\ buf \in [Slots -> 0 .. MaxPts] /\ user_ctx \in [Users -> Pointers]
         /\ call \in [Users -> Calls] /\ released \in [Users -> BOOLEAN]
         /\ forward \in BOOLEAN /\ raced \in SUBSET Users
         /\ data \in [Users -> Shows]
         /\ near \in SUBSET Users /\ mark \in [Users -> 0 .. MaxPts]
BY Sizes DEF TypeOK, Slots, Pointers, Calls, Shows

(* Outside a write both write pointers agree.                              *)
LEMMA Steady ==
  ASSUME TypeOK, CursorOK, lock # "writer"
  PROVE  RingTypes
BY Types DEF CursorOK, RingTypes

(* A nonempty bounded set of natural numbers has a largest element, which  *)
(* Max of the community modules picks.                                     *)
LEMMA Largest ==
  ASSUME NEW n \in Nat, NEW S, S \subseteq 0 .. n, S # {}
  PROVE  /\ \E m \in S : \A y \in S : y <= m
         /\ Max(S) \in S
<1>. DEFINE T == {n - y : y \in S}
<1>1. T \subseteq Nat /\ T # {}
  <2>1. \A y \in S : y \in 0 .. n
    OBVIOUS
  <2>2. \A y \in S : n - y \in Nat
    BY <2>1
  <2>. QED  BY <2>2
<1>2. PICK l \in T : \A z \in T : l <= z
  <2>. HIDE DEF T
  <2>. QED  BY <1>1, Smallest
<1>3. PICK m \in S : l = n - m
  OBVIOUS
<1>4. \A y \in S : n - m <= n - y
  BY <1>2, <1>3
<1>5. \E k \in S : \A y \in S : y <= k
  BY <1>3, <1>4
<1>6. Max(S) \in S
  BY <1>5 DEF Max
<1>. QED  BY <1>5, <1>6

(* What the user has seen is a PTS, and what it had seen if nothing hit.   *)
LEMMA SeenTyped ==
  ASSUME TypeOK, NEW u \in Users, NEW p, NEW hits
  PROVE  Seen(u, p, hits) \in 0 .. MaxPts /\ (hits = {} => Seen(u, p, hits) = mark[u])
<1>. DEFINE new == {buf[After(p, k)] : k \in {j \in hits : After(p, j) \in Slots}}
            S == {mark[u]} \union new
<1>1. MaxPts \in Nat /\ mark[u] \in 0 .. MaxPts /\ new \subseteq 0 .. MaxPts
  BY Types
<1>2. Seen(u, p, hits) = Max(S) /\ S \subseteq 0 .. MaxPts /\ S # {}
  BY <1>1 DEF Seen
<1>3. hits = {} => S = {mark[u]}
  OBVIOUS
<1>. HIDE DEF S, new
<1>4. Max(S) \in S
  BY <1>1, <1>2, Largest
<1>. QED  BY <1>2, <1>3, <1>4

(* A move concerns only the user that makes it; ...                        *)
LEMMA MovedTyped ==
  ASSUME TypeOK, NEW u \in Users, NEW at, NEW m, Moved(u, at, m)
  PROVE  near' \in SUBSET Users /\ \A v \in Users : v # u => (v \in near' <=> v \in near)
BY Types DEF Moved

(* ... it leaves the gap open, unless the user is then known to be near.   *)
LEMMA MovedKept ==
  ASSUME TypeOK, NEW u \in Users, NEW at \in Slots, NEW m, Moved(u, at, m), u \notin near'
  PROVE  ((at - write_x) % N = 0 /\ m = last) \/ (at - write_x) % N \in Gap .. N - 1
<1>. DEFINE a == (at - write_x) % N
<1>1. a \in 0 .. N - 1 /\ N \in Nat /\ Gap \in 1 .. N - 2 /\ Gap \in Nat
  BY Types, Sizes
<1>2. ~(a \in 1 .. Gap - 1 \/ (a = 0 /\ m # last))
  BY DEF Moved
<1>. HIDE DEF a
<1>. QED  BY <1>1, <1>2 DEF a

(* add_user takes the write pointer of X.                                  *)
LEMMA AddUserInv ==
  ASSUME IInv, NEW u \in Users, AddUser(u)
  PROVE  IInv'
<1>0. /\ TypeOK /\ RingOK /\ CursorOK /\ PointersOK /\ DataOK /\ CallOK /\ ScanOK /\ CountOK
      /\ UNCHANGED <<ring, user_ctx, user_cnt, forward, released, lock, data, history>>
      /\ user_ctx[u] = Null
      /\ call' = [call EXCEPT ![u] = [at |-> "add", x |-> write_x, w |-> <<0, 0>>]]
  BY DEF IInv, AddUser, Goto, GetUserId
<1>1. call \in [Users -> Calls] /\ write_x \in Slots
  BY <1>0, Types
<1>2. /\ call' \in [Users -> Calls]
      /\ \A v \in Users : v # u => call'[v] = call[v]
      /\ call'[u].at = "add"
  BY <1>0, <1>1 DEF Calls
<1>3. Active' = Active /\ u \notin Active
  BY <1>0 DEF Active
<1>4. TypeOK'
  BY <1>0, <1>2 DEF TypeOK, ring, Calls, Slots, history
<1>5. RingOK' /\ CursorOK' /\ PointersOK' /\ DataOK' /\ CountOK'
  BY <1>0, <1>3 DEF RingOK, CursorOK, PointersOK, DataOK, CountOK, ring, PointerOK, InStep, ShownOK,
                    ReleasedAt, Slots, history
<1>6. CallOK' /\ ScanOK'
  BY <1>0, <1>2, <1>3 DEF CallOK, ScanOK, ring, history
<1>. QED  BY <1>4, <1>5, <1>6 DEF IInv

(* It publishes the new user, whose pointers a writer may have torn.       *)
LEMMA AddUserPublishInv ==
  ASSUME IInv, NEW u \in Users, AddUserPublish(u)
  PROVE  IInv'
<1>. DEFINE c == [x |-> call[u].x, p |-> write_p]
<1>0. /\ TypeOK /\ RingOK /\ CursorOK /\ PointersOK /\ DataOK /\ CallOK /\ ScanOK /\ CountOK
      /\ UNCHANGED <<ring, released, lock, data>>
      /\ user_ctx' = [user_ctx EXCEPT ![u] = c]
      /\ user_cnt' = user_cnt + 1 /\ forward' = TRUE
      /\ call' = [call EXCEPT ![u] = [at |-> "idle", x |-> 0, w |-> <<0, 0>>]]
      /\ u \notin Active
      /\ raced' = (IF call[u].x = write_p THEN raced \ {u} ELSE raced \union {u})
                    \union {v \in Users : call[v].at = "scan"}
      /\ mark' = [mark EXCEPT ![u] = IF lock = "writer" THEN last - 1 ELSE last]
      /\ near' = near \ {u}
  BY DEF IInv, AddUserPublish, Goto, CallOK
<1>1. /\ call \in [Users -> Calls] /\ write_p \in Slots /\ call[u].x \in Slots /\ 0 \in Slots
      /\ user_ctx \in [Users -> Pointers] /\ last \in Nat /\ raced \in SUBSET Users
      /\ N \in Nat /\ N >= 3 /\ Slots = 0 .. N - 1 /\ MaxPts \in Nat
  <2>1. call[u] \in Calls
    BY <1>0, Types
  <2>. QED  BY <1>0, <2>1, Types, SMTT(30) DEF Calls
<1>2. write_p <= last
  BY <1>0, <1>1, SMTT(30) DEF CursorOK, RingOK
<1>3. PointerOK(c, last) /\ (call[u].x = write_p => InStep(c))
  BY <1>1, <1>2 DEF PointerOK, InStep
<1>4. c \in Pointers /\ c # Null
  <2>1. call[u].x \in Int /\ write_p \in Int
    BY <1>1
  <2>. QED  BY <1>1, <1>3, <2>1, PointerTyped
<1>5. /\ Active' = Active \union {u}
      /\ \A v \in Users : user_ctx'[v] = IF v = u THEN c ELSE user_ctx[v]
  BY <1>0, <1>1, <1>4, ActiveAfter
<1>6. /\ call' \in [Users -> Calls]
      /\ \A v \in Users : v # u => call'[v] = call[v]
      /\ call'[u].at = "idle"
  BY <1>0, <1>1 DEF Calls
<1>7. CountOK' /\ user_cnt' \in 0 .. Cardinality(Users)
  <2>1. Cardinality(Active \union {u}) = Cardinality(Active) + 1
    BY <1>0, CountTyped, FS_AddElement
  <2>2. CountOK'
    BY <1>0, <1>5, <2>1 DEF CountOK
  <2>3. Cardinality(Active)' \in 0 .. Cardinality(Users)
    <3>1. IsFiniteSet(Users) /\ Active' \in SUBSET Users
      BY Sizes DEF Active
    <3>. QED  BY <3>1, FS_Subset, FS_CardinalityType
  <2>. QED  BY <2>2, <2>3 DEF CountOK
<1>8. TypeOK'
  <2>1. user_ctx' \in [Users -> Pointers]
    BY <1>0, <1>1, <1>4
  <2>2. raced' \in SUBSET Users /\ near' \in SUBSET Users
    BY <1>0, <1>1, Types
  <2>3. mark' \in [Users -> 0 .. MaxPts]
    <3>1. last \in 0 .. MaxPts /\ (lock = "writer" => last > 0)
      BY <1>0, Types DEF CursorOK
    <3>2. (IF lock = "writer" THEN last - 1 ELSE last) \in 0 .. MaxPts
      BY <1>1, <3>1
    <3>. QED  BY <1>0, <3>2, Types
  <2>. QED  BY <1>0, <1>6, <1>7, <2>1, <2>2, <2>3 DEF TypeOK, ring, Calls, Slots, Pointers
<1>9. RingOK' /\ CursorOK' /\ DataOK'
  BY <1>0 DEF RingOK, CursorOK, DataOK, ring, ShownOK, ReleasedAt, Slots
<1>10. PointersOK'
  <2>1. \A v \in Active \union {u} :
          PointerOK(user_ctx'[v], last) /\ (v \notin raced' => InStep(user_ctx'[v]))
    <3>. HIDE DEF c
    <3>. QED  BY <1>0, <1>3, <1>5 DEF PointersOK, Active
  <2>2. last' = last /\ Slots' = Slots
    BY <1>0 DEF ring, Slots
  <2>. QED  BY <1>5, <2>1, <2>2 DEF PointersOK, PointerOK, InStep
<1>11. CallOK'
  BY <1>0, <1>5, <1>6 DEF CallOK
<1>12. ScanOK'
  BY <1>0, <1>6 DEF ScanOK
<1>. QED  BY <1>7, <1>8, <1>9, <1>10, <1>11, <1>12 DEF IInv

(* delete_user.                                                            *)
LEMMA DeleteUserInv ==
  ASSUME IInv, NEW u \in Users, DeleteUser(u)
  PROVE  IInv'
<1>0. /\ TypeOK /\ RingOK /\ CursorOK /\ PointersOK /\ DataOK /\ CallOK /\ ScanOK /\ CountOK
      /\ UNCHANGED <<ring, forward, released, lock, call, data>>
      /\ raced' = raced \ {u} /\ mark' = [mark EXCEPT ![u] = 0] /\ near' = near \ {u}
      /\ user_ctx' = [user_ctx EXCEPT ![u] = Null]
      /\ user_cnt' = user_cnt - 1 /\ u \in Active /\ lock = "free"
  BY DEF IInv, DeleteUser, Forgotten
<1>1. user_ctx \in [Users -> Pointers] /\ N \in Nat /\ N >= 3
  BY <1>0, Types
<1>2. /\ Active' = Active \ {u}
      /\ \A v \in Users : v # u => user_ctx'[v] = user_ctx[v]
  BY <1>0, <1>1, ActiveAfter
<1>3. user_ctx' \in [Users -> Pointers]
  BY <1>0, <1>1 DEF Null, Pointers
<1>4. CountOK' /\ user_cnt' \in 0 .. Cardinality(Users)
  <2>1. Cardinality(Active \ {u}) = Cardinality(Active) - 1
    BY <1>0, CountTyped, FS_RemoveElement
  <2>2. CountOK'
    BY <1>0, <1>2, <2>1 DEF CountOK
  <2>3. Cardinality(Active)' \in 0 .. Cardinality(Users)
    <3>1. IsFiniteSet(Users) /\ Active' \in SUBSET Users
      BY Sizes DEF Active
    <3>. QED  BY <3>1, FS_Subset, FS_CardinalityType
  <2>. QED  BY <2>2, <2>3 DEF CountOK
<1>5. TypeOK'
  <2>1. raced' \in SUBSET Users /\ near' \in SUBSET Users /\ mark' \in [Users -> 0 .. MaxPts]
    BY <1>0, Types
  <2>. QED  BY <1>0, <1>3, <1>4, <2>1 DEF TypeOK, ring, Slots, Pointers
<1>6. RingOK' /\ CursorOK' /\ DataOK'
  BY <1>0 DEF RingOK, CursorOK, DataOK, ring, ShownOK, ReleasedAt, Slots
<1>7. PointersOK'
  BY <1>0, <1>2 DEF PointersOK, PointerOK, InStep, ring, Slots, Active
<1>8. CallOK' /\ ScanOK'
  BY <1>0, <1>2 DEF CallOK, ScanOK
<1>. QED  BY <1>4, <1>5, <1>6, <1>7, <1>8 DEF IInv

(* The slot that is looked at for slow readers is in the ring.             *)
LEMMA GapSlotIs ==
  ASSUME write_x \in Slots
  PROVE  GapSlot \in Slots /\ GapSlot = IF write_x + Gap < N THEN write_x + Gap ELSE write_x + Gap - N
BY Sizes DEF GapSlot, Slots

(* A push keeps the columns as far apart as they are, or together.         *)
LEMMA Pushed ==
  ASSUME NEW c \in Pointers, write_x \in Slots, Overflows(c), last \in Nat, PointerOK(c, last)
  PROVE  /\ PointerOK(Bump(c), last + 1) /\ Bump(c) \in Pointers /\ Bump(c) # Null
         /\ InStep(c) => InStep(Bump(c))
         /\ Bump(c).x = IF GapSlot + 1 >= N THEN 0 ELSE GapSlot + 1
<1>0. /\ N \in Nat /\ N >= 3 /\ Slots = 0 .. N - 1 /\ GapSlot \in 0 .. N - 1
      /\ c.x = GapSlot /\ c.x \in Int /\ c.p \in Int
  BY Sizes, GapSlotIs DEF Slots, Overflows, Pointers
<1>1. c.p \in 0 .. 2 * N - 2 /\ c.p <= last /\ c.p - c.x < N
  BY DEF PointerOK
<1>2. CASE c.x + 1 >= N
  <2>1. Bump(c) = [x |-> 0, p |-> 0]
    BY <1>2 DEF Bump
  <2>. QED  BY <1>0, <1>2, <2>1 DEF PointerOK, InStep, Pointers, Null
<1>3. CASE ~(c.x + 1 >= N)
  <2>1. Bump(c) = [x |-> c.x + 1, p |-> c.p + 1]
    BY <1>3 DEF Bump
  <2>2. c.p + 1 \in 0 .. 2 * N - 2 /\ c.p + 1 <= last + 1 /\ c.x + 1 \in 0 .. N - 1
    BY <1>0, <1>1, <1>3
  <2>. QED  BY <1>0, <1>1, <1>3, <2>1, <2>2, SMTT(30) DEF PointerOK, InStep, Pointers, Null
<1>. QED  BY <1>0, <1>2, <1>3

(* Slow readers are pushed and the sample is stored.                       *)
LEMMA WriteInv ==
  ASSUME IInv, Write
  PROVE  IInv'
<1>0. /\ TypeOK /\ RingOK /\ CursorOK /\ PointersOK /\ DataOK /\ CallOK /\ ScanOK /\ CountOK
      /\ UNCHANGED <<write_p, user_cnt, forward, released, call, data, raced, mark, near>>
      /\ user_ctx' = [v \in Users |-> IF Overflows(user_ctx[v]) THEN Bump(user_ctx[v]) ELSE user_ctx[v]]
      /\ buf' = [buf EXCEPT ![write_p] = last + 1]
      /\ last' = last + 1 /\ last < MaxPts
      /\ write_x' = IF write_x + 1 >= N THEN 0 ELSE write_x + 1
      /\ lock = "free" /\ lock' = "writer"
  BY DEF IInv, Write, history
<1>1. /\ N \in Nat /\ N >= 3 /\ Slots = 0 .. N - 1 /\ MaxPts \in Nat /\ last \in Nat
      /\ write_x \in Slots /\ write_p \in Slots /\ buf \in [Slots -> 0 .. MaxPts]
      /\ user_ctx \in [Users -> Pointers] /\ write_p = write_x
  BY <1>0, Types DEF CursorOK
<1>2. \A v \in Active : /\ PointerOK(user_ctx'[v], last') /\ user_ctx'[v] \in Pointers /\ user_ctx'[v] # Null
                        /\ v \notin raced => InStep(user_ctx'[v])
  <2>1. SUFFICES ASSUME NEW v \in Active
                 PROVE  /\ PointerOK(user_ctx'[v], last') /\ user_ctx'[v] \in Pointers /\ user_ctx'[v] # Null
                        /\ v \notin raced => InStep(user_ctx'[v])
    OBVIOUS
  <2>. DEFINE c == user_ctx[v]
  <2>2. c \in Pointers /\ PointerOK(c, last) /\ c # Null /\ (v \notin raced => InStep(c)) /\ v \in Users
    BY <1>0, <1>1 DEF PointersOK, Active
  <2>3. CASE Overflows(c)
    <3>1. user_ctx'[v] = Bump(c)
      BY <1>0, <2>2, <2>3
    <3>. HIDE DEF c
    <3>2. PointerOK(Bump(c), last + 1) /\ Bump(c) \in Pointers /\ Bump(c) # Null /\ (InStep(c) => InStep(Bump(c)))
      BY <1>1, <2>2, <2>3, Pushed
    <3>. QED  BY <1>0, <2>2, <3>1, <3>2
  <2>4. CASE ~Overflows(c)
    <3>1. user_ctx'[v] = c
      BY <1>0, <2>2, <2>4
    <3>. QED  BY <1>0, <1>1, <2>2, <3>1 DEF PointerOK
  <2>. QED  BY <2>3, <2>4
<1>3. \A v \in Users \ Active : user_ctx'[v] = Null /\ user_ctx[v] = Null
  BY <1>0 DEF Overflows, Active
<1>4. Active' = Active
  BY <1>2, <1>3 DEF Active
<1>5. user_ctx' \in [Users -> Pointers]
  BY <1>0, <1>1, <1>2, <1>3
<1>6. buf' \in [Slots -> 0 .. MaxPts]
  BY <1>0, <1>1
<1>7. TypeOK'
  BY <1>0, <1>1, <1>5, <1>6 DEF TypeOK, Pointers, Slots
<1>8. RingOK'
  <2>1. last' = write_x' \/ last' >= N + write_x'
    BY <1>0, <1>1 DEF RingOK
  <2>2. ASSUME NEW i \in Slots
        PROVE  buf'[i] = IF i < write_x' THEN last' - (write_x' - 1 - i)
                         ELSE IF last' >= N THEN last' - (N + write_x' - 1 - i) ELSE 0
    <3>1. buf'[i] = IF i = write_x THEN last + 1 ELSE buf[i]
      BY <1>0, <1>1
    <3>2. buf[i] = IF i < write_x THEN last - (write_x - 1 - i)
                   ELSE IF last >= N THEN last - (N + write_x - 1 - i) ELSE 0
      BY <1>0 DEF RingOK
    <3>3. last = write_x \/ last >= N + write_x
      BY <1>0 DEF RingOK
    <3>4. CASE write_x + 1 >= N
      BY <1>0, <1>1, <3>1, <3>2, <3>3, <3>4
    <3>5. CASE ~(write_x + 1 >= N)
      BY <1>0, <1>1, <3>1, <3>2, <3>3, <3>5
    <3>. QED  BY <3>4, <3>5
  <2>. QED  BY <2>1, <2>2 DEF RingOK, Slots
<1>9. CursorOK'
  BY <1>0, <1>1 DEF CursorOK
<1>10. PointersOK'
  BY <1>0, <1>2, <1>4 DEF PointersOK, PointerOK, InStep, Slots
<1>11. DataOK'
  <2>1. \A v \in Users : released[v] \in BOOLEAN /\ (~released[v] => ReleasedAt(data[v]) <= last + 1)
    <3>1. \A v \in Users : ReleasedAt(data[v]) \in 0 .. N - 1
      BY <1>0, <1>1 DEF DataOK, ShownOK
    <3>. QED  BY <1>0, <1>1, <3>1, Types DEF DataOK
  <2>. QED  BY <1>0, <2>1 DEF DataOK, ShownOK, ReleasedAt, Slots
<1>12. CallOK' /\ ScanOK' /\ CountOK'
  BY <1>0, <1>4 DEF CallOK, ScanOK, CountOK
<1>. QED  BY <1>7, <1>8, <1>9, <1>10, <1>11, <1>12 DEF IInv

(* The write pointer of PTS follows.                                       *)
LEMMA WriteEndInv ==
  ASSUME IInv, WriteEnd
  PROVE  IInv'
<1>0. /\ TypeOK /\ RingOK /\ CursorOK /\ PointersOK /\ DataOK /\ CallOK /\ ScanOK /\ CountOK
      /\ UNCHANGED <<buf, last, write_x, user_ctx, user_cnt, forward, released, call, data, raced, mark, near>>
      /\ write_p' = write_x /\ lock = "writer" /\ lock' = "free"
  BY DEF IInv, WriteEnd, history
<1>1. TypeOK'
  BY <1>0 DEF TypeOK, Slots
<1>2. RingOK' /\ CursorOK' /\ PointersOK' /\ DataOK' /\ CountOK'
  BY <1>0 DEF RingOK, CursorOK, PointersOK, DataOK, CountOK, PointerOK, InStep, ShownOK,
              ReleasedAt, Slots, Active
<1>3. CallOK' /\ ScanOK'
  BY <1>0 DEF CallOK, ScanOK, Active
<1>. QED  BY <1>1, <1>2, <1>3 DEF IInv

(* Going back moves the pointers together, unless the start of the ring    *)
(* is passed: then they meet.                                              *)
LEMMA MovedBack ==
  ASSUME NEW c \in Pointers, PointerOK(c, last), last \in Nat, NEW k \in 0 .. c.p + N,
         Before(c.p, k) \in 0 .. 2 * N - 2, Before(c.p, k) <= last,
         k > c.p \/ c.p \in Slots => Before(c.p, k) \in Slots
  PROVE  /\ ArriveBack(c, k) \in Pointers /\ PointerOK(ArriveBack(c, k), last) /\ ArriveBack(c, k) # Null
         /\ ArriveBack(c, k).p = Before(c.p, k)
         /\ InStep(c) => InStep(ArriveBack(c, k))
<1>. DEFINE q == Before(c.p, k)
            x == IF k > c.p THEN q ELSE c.x - k
<1>0. N \in Nat /\ N >= 3 /\ Slots = 0 .. N - 1 /\ c.x \in Int /\ c.p \in Int
  BY Sizes DEF Slots, Pointers
<1>1. c.p \in 0 .. 2 * N - 2 /\ c.p <= last /\ c.x <= 2 * N - 2 /\ c.p - c.x < N
  BY DEF PointerOK
<1>2. ArriveBack(c, k) = [x |-> x, p |-> q]
  BY DEF ArriveBack
<1>3. k <= c.p => q = c.p - k
  BY DEF Before
<1>4. q \in 0 .. 2 * N - 2 /\ q <= last /\ (k > c.p \/ c.p \in Slots => q \in Slots)
  OBVIOUS
<1>. HIDE DEF q
<1>5. x \in Int /\ x <= 2 * N - 2 /\ q - x < N /\ (c.x = c.p => x = q)
  <2>1. CASE k > c.p
    BY <1>0, <1>4, <2>1
  <2>2. CASE ~(k > c.p)
    BY <1>0, <1>1, <1>3, <1>4, <2>2, SMTT(30)
  <2>. QED  BY <2>1, <2>2
<1>. HIDE DEF x
<1>6. PointerOK([x |-> x, p |-> q], last)
  BY <1>4, <1>5 DEF PointerOK
<1>7. [x |-> x, p |-> q] \in Pointers /\ [x |-> x, p |-> q] # Null
  <2>1. q \in Int
    BY <1>0, <1>4
  <2>. QED  BY <1>5, <1>6, <2>1, PointerTyped
<1>8. InStep(c) => InStep([x |-> x, p |-> q])
  BY <1>4, <1>5 DEF InStep
<1>. QED  BY <1>2, <1>6, <1>7, <1>8 DEF q

(* get_data takes the pointers back to the start of the window.            *)
LEMMA GetDataInv ==
  ASSUME IInv, NEW u \in Users, NEW w \in Windows, GetData(u, w)
  PROVE  IInv'
<1>0. /\ TypeOK /\ RingOK /\ CursorOK /\ PointersOK /\ DataOK /\ CallOK /\ ScanOK /\ CountOK
      /\ UNCHANGED <<ring, user_cnt, released, data, raced, mark>>
      /\ call' = [call EXCEPT ![u] = [at |-> "scan", x |-> 0, w |-> w]]
      /\ u \in Active /\ lock = "free" /\ lock' = "reader"
  BY DEF IInv, GetData, Goto
<1>1. PICK g : LET k == StepsBack(user_ctx[u].p, w, g) IN
                 /\ user_ctx' = [user_ctx EXCEPT ![u] = ArriveBack(user_ctx[u], k)]
                 /\ forward' = (forward /\ k = 0)
                 /\ near' = near \/ \E at, m : Moved(u, at, m)
  BY DEF GetData
<1>2. /\ N \in Nat /\ N >= 3 /\ Slots = 0 .. N - 1 /\ last \in Nat /\ forward \in BOOLEAN
      /\ user_ctx \in [Users -> Pointers] /\ call \in [Users -> Calls] /\ 0 \in Slots
  BY <1>0, Types
<1>3. RingTypes
  BY <1>0, Steady
<1>. DEFINE c == user_ctx[u]
            k == StepsBack(c.p, w, g)
            b == ArriveBack(c, k)
<1>4. c \in Pointers /\ PointerOK(c, last) /\ (u \notin raced => InStep(c))
  BY <1>0, <1>2 DEF PointersOK
<1>5. user_ctx' = [user_ctx EXCEPT ![u] = b] /\ forward' \in BOOLEAN
  BY <1>1, <1>2
<1>. HIDE DEF c
<1>6. c.p \in 0 .. 2 * N - 2 /\ c.p <= last
  BY <1>4 DEF PointerOK
<1>7. /\ k \in 0 .. c.p + N
      /\ Before(c.p, k) \in 0 .. 2 * N - 2 /\ Before(c.p, k) <= last
      /\ k > c.p \/ c.p \in Slots => Before(c.p, k) \in Slots
      /\ Before(c.p, k) = write_p \/ Pts(Before(c.p, k), g) <= w[1]
  BY <1>0, <1>3, <1>6, BackStops
<1>. HIDE DEF k
<1>8. /\ b \in Pointers /\ PointerOK(b, last) /\ b # Null /\ b.p = Before(c.p, k)
      /\ InStep(c) => InStep(b)
  BY <1>2, <1>4, <1>7, MovedBack
<1>. HIDE DEF b
<1>9. /\ Active' = Active
      /\ \A v \in Users : user_ctx'[v] = IF v = u THEN b ELSE user_ctx[v]
  BY <1>0, <1>2, <1>5, <1>8, ActiveKept
<1>10. /\ call' \in [Users -> Calls]
       /\ \A v \in Users : v # u => call'[v] = call[v]
       /\ call'[u].at = "scan" /\ call'[u].w = w
  BY <1>0, <1>2 DEF Calls
<1>11. TypeOK'
  <2>1. user_ctx' \in [Users -> Pointers]
    BY <1>2, <1>5, <1>8
  <2>2. near' \in SUBSET Users
    BY <1>0, <1>1, MovedTyped, Types DEF Active
  <2>. QED  BY <1>0, <1>5, <1>10, <2>1, <2>2 DEF TypeOK, ring, Calls, Slots, Pointers
<1>12. RingOK' /\ CursorOK' /\ DataOK' /\ CountOK'
  BY <1>0, <1>9 DEF RingOK, CursorOK, DataOK, CountOK, ring, ShownOK, ReleasedAt, Slots
<1>13. PointersOK'
  <2>1. \A v \in Active :
          PointerOK(user_ctx'[v], last) /\ (v \notin raced => InStep(user_ctx'[v]))
    BY <1>0, <1>4, <1>8, <1>9 DEF PointersOK, Active
  <2>2. last' = last /\ Slots' = Slots /\ raced' = raced
    BY <1>0 DEF ring, Slots
  <2>. QED  BY <1>9, <2>1, <2>2 DEF PointersOK, PointerOK, InStep
<1>14. CallOK'
  BY <1>0, <1>9, <1>10 DEF CallOK
<1>15. ScanOK'
  <2>1. ASSUME u \notin raced
        PROVE  b.p = write_p \/ buf[b.p] <= w[1]
    <3>1. b.p \in Slots
      BY <1>4, <1>8, <2>1 DEF InStep
    <3>. QED  BY <1>7, <1>8, <3>1 DEF Pts
  <2>2. \A v \in Users : v # u => call[v].at # "scan"
    BY <1>0 DEF CallOK
  <2>. QED  BY <1>0, <1>9, <1>10, <2>1, <2>2 DEF ScanOK, ring
<1>. QED  BY <1>11, <1>12, <1>13, <1>14, <1>15 DEF IInv

(* Pointers that were set to one slot.                                     *)
LEMMA Together ==
  ASSUME NEW at \in 0 .. 2 * N - 2, NEW l \in Nat, at <= l
  PROVE  /\ PointerOK([x |-> at, p |-> at], l)
         /\ [x |-> at, p |-> at] \in Pointers /\ [x |-> at, p |-> at] # Null
         /\ at \in Slots => InStep([x |-> at, p |-> at])
<1>0. N \in Nat /\ N >= 3 /\ at \in Int /\ at \in 0 .. 2 * N - 2
  BY Sizes
<1>1. PointerOK([x |-> at, p |-> at], l)
  BY <1>0 DEF PointerOK
<1>2. [x |-> at, p |-> at] \in Pointers /\ [x |-> at, p |-> at] # Null
  BY <1>0, <1>1, PointerTyped
<1>. QED  BY <1>1, <1>2 DEF InStep

(* The walk through the window.                                            *)
LEMMA GetDataScanInv ==
  ASSUME IInv, NEW u \in Users, GetDataScan(u)
  PROVE  IInv'
<1>0. /\ TypeOK /\ RingOK /\ CursorOK /\ PointersOK /\ DataOK /\ CallOK /\ ScanOK /\ CountOK
      /\ UNCHANGED <<ring, user_cnt>>
      /\ call' = [call EXCEPT ![u] = [at |-> "release", x |-> 0, w |-> <<0, 0>>]]
      /\ u \in Active /\ lock = "reader" /\ lock' = "free" /\ call[u].at = "scan"
      /\ call[u].w \in Windows
  BY DEF IInv, GetDataScan, Goto, CallOK
<1>. DEFINE p == user_ctx[u].p
            w == call[u].w
<1>1. PICK g : LET hits == Hits(p, w, g)
                   d == IF hits = {} THEN Empty ELSE Runs(p, hits)
                   at == IF hits = {} THEN p ELSE d.first
               IN  /\ data' = [data EXCEPT ![u] = d]
                   /\ released' = [released EXCEPT ![u] = hits = {}]
                   /\ forward' = (forward \/ Steps(p, w, g) > 0)
                   /\ user_ctx' = [user_ctx EXCEPT ![u] = [x |-> at, p |-> at]]
                   /\ raced' = IF at \in Slots THEN raced \ {u} ELSE raced
                   /\ mark' = [mark EXCEPT ![u] = Seen(u, p, hits)]
                   /\ near' = near \union (raced \intersect {u}) \/ \E b, m : Moved(u, b, m)
  BY DEF GetDataScan
<1>. DEFINE hits == Hits(p, w, g)
            d == IF hits = {} THEN Empty ELSE Runs(p, hits)
            at == IF hits = {} THEN p ELSE d.first
            c == [x |-> at, p |-> at]
<1>2. /\ data' = [data EXCEPT ![u] = d]
      /\ released' = [released EXCEPT ![u] = hits = {}]
      /\ forward' \in BOOLEAN
      /\ user_ctx' = [user_ctx EXCEPT ![u] = c]
      /\ raced' = IF at \in Slots THEN raced \ {u} ELSE raced
      /\ mark' = [mark EXCEPT ![u] = Seen(u, p, hits)]
      /\ near' = near \union (raced \intersect {u}) \/ \E b, m : Moved(u, b, m)
  BY <1>1
<1>3. /\ N \in Nat /\ N >= 3 /\ Slots = 0 .. N - 1 /\ last \in Nat
      /\ user_ctx \in [Users -> Pointers] /\ call \in [Users -> Calls] /\ 0 \in Slots
      /\ released \in [Users -> BOOLEAN] /\ raced \in SUBSET Users
      /\ data \in [Users -> Shows]
  BY <1>0, Types
<1>4. RingTypes
  BY <1>0, Steady
<1>5. p \in 0 .. 2 * N - 2 /\ p <= last /\ (u \notin raced => p \in Slots)
  BY <1>0 DEF PointersOK, PointerOK, InStep
<1>6. /\ ShownOK(d) /\ (hits # {} => ReleasedAt(d) <= last)
      /\ at \in 0 .. 2 * N - 2 /\ at <= last /\ (p \in Slots => at \in Slots)
  <2>. HIDE DEF p, w, hits
  <2>1. CASE hits = {}
    <3>1. d = Empty /\ at = p
      BY <2>1
    <3>2. ShownOK(Empty)
      BY <1>3 DEF Shows, ShownOK, ReleasedAt, Empty
    <3>. QED  BY <1>5, <2>1, <3>1, <3>2
  <2>2. CASE hits # {}
    <3>1. d = Runs(p, hits) /\ at = Runs(p, hits).first
      BY <2>2
    <3>2. /\ ShownOK(Runs(p, hits)) /\ ReleasedAt(Runs(p, hits)) <= last
          /\ p \in Slots => Runs(p, hits).first \in Slots
          /\ Runs(p, hits).first <= last
      <4>1. w \in Windows
        BY <1>0 DEF w
      <4>. QED  BY <1>0, <1>4, <1>5, <2>2, <4>1, RunsShown DEF hits
    <3>3. Runs(p, hits).first \in 0 .. 2 * N - 2
      BY <3>2 DEF Shows, ShownOK
    <3>. QED  BY <3>1, <3>2, <3>3
  <2>. QED  BY <2>1, <2>2
<1>. HIDE DEF d, at, hits, p, w
<1>7. /\ PointerOK(c, last) /\ c \in Pointers /\ c # Null
      /\ at \in Slots => InStep(c)
  BY <1>3, <1>6, Together
<1>. HIDE DEF c
<1>8. /\ Active' = Active
      /\ \A v \in Users : user_ctx'[v] = IF v = u THEN c ELSE user_ctx[v]
  BY <1>0, <1>2, <1>3, <1>7, ActiveKept
<1>9. /\ call' \in [Users -> Calls]
      /\ \A v \in Users : v # u => call'[v] = call[v]
      /\ call'[u].at = "release"
  BY <1>0, <1>3 DEF Calls
<1>10. TypeOK'
  <2>1. user_ctx' \in [Users -> Pointers] /\ raced' \in SUBSET Users
        /\ released' \in [Users -> BOOLEAN]
    BY <1>2, <1>3, <1>7
  <2>2. data' \in [Users -> Shows]
    BY <1>2, <1>3, <1>6 DEF ShownOK
  <2>3. near' \in SUBSET Users
    BY <1>0, <1>2, <1>3, MovedTyped, Types
  <2>4. mark' \in [Users -> 0 .. MaxPts]
    <3>1. Seen(u, p, hits) \in 0 .. MaxPts
      BY <1>0, SeenTyped
    <3>. QED  BY <1>0, <1>2, <3>1, Types
  <2>. QED  BY <1>0, <1>2, <1>9, <2>1, <2>2, <2>3, <2>4 DEF Shows, TypeOK, ring, Calls, Slots, Pointers
<1>11. RingOK' /\ CursorOK' /\ CountOK'
  BY <1>0, <1>8 DEF RingOK, CursorOK, CountOK, ring, Slots
<1>12. DataOK'
  <2>1. \A v \in Users : ShownOK(data'[v]) /\ (~released'[v] => ReleasedAt(data'[v]) <= last)
    BY <1>0, <1>2, <1>3, <1>6 DEF DataOK
  <2>. QED  BY <1>0, <2>1 DEF DataOK, ShownOK, ReleasedAt, ring, Slots
<1>13. PointersOK'
  <2>1. \A v \in Active :
          PointerOK(user_ctx'[v], last) /\ (v \notin raced' => InStep(user_ctx'[v]))
    <3>1. u \notin raced' => at \in Slots
      BY <1>2, <1>5, <1>6
    <3>2. \A v \in Active : v # u /\ v \notin raced' => v \notin raced
      BY <1>2
    <3>. QED  BY <1>0, <1>7, <1>8, <3>1, <3>2 DEF PointersOK, Active
  <2>2. last' = last /\ Slots' = Slots
    BY <1>0 DEF ring, Slots
  <2>. QED  BY <1>8, <2>1, <2>2 DEF PointersOK, PointerOK, InStep
<1>14. \A v \in Users : call'[v].at # "scan"
  BY <1>0, <1>9 DEF CallOK
<1>15. CallOK' /\ ScanOK'
  BY <1>0, <1>8, <1>9, <1>14 DEF CallOK, ScanOK
<1>. QED  BY <1>10, <1>11, <1>12, <1>13, <1>15 DEF IInv

(* release_data.                                                           *)
LEMMA ReleaseDataInv ==
  ASSUME IInv, NEW u \in Users, ReleaseData(u)
  PROVE  IInv'
<1>0. /\ TypeOK /\ RingOK /\ CursorOK /\ PointersOK /\ DataOK /\ CallOK /\ ScanOK /\ CountOK
      /\ UNCHANGED <<ring, user_cnt, forward, lock, raced, mark>>
      /\ call' = [call EXCEPT ![u] = [at |-> "idle", x |-> 0, w |-> <<0, 0>>]]
      /\ lock = "free"
  BY DEF IInv, ReleaseData, Goto
<1>1. /\ N \in Nat /\ N >= 3 /\ Slots = 0 .. N - 1 /\ last \in Nat
      /\ user_ctx \in [Users -> Pointers] /\ call \in [Users -> Calls] /\ 0 \in Slots
      /\ released \in [Users -> BOOLEAN]
      /\ data \in [Users -> Shows]
  BY <1>0, Types
<1>2. /\ call' \in [Users -> Calls]
      /\ \A v \in Users : v # u => call'[v] = call[v]
      /\ call'[u].at = "idle"
  BY <1>0, <1>1 DEF Calls
<1>3. /\ Active' = Active /\ user_ctx' \in [Users -> Pointers]
      /\ released' \in [Users -> BOOLEAN]
      /\ \A v \in Active : PointerOK(user_ctx'[v], last) /\ (v \notin raced => InStep(user_ctx'[v]))
      /\ \A v \in Users : ShownOK(data'[v]) /\ (~released'[v] => ReleasedAt(data'[v]) <= last)
  <2>1. CASE u \in Active /\ ~released[u]
    <3>. DEFINE at == ReleasedAt(data[u])
                c == [x |-> at, p |-> at]
    <3>1. /\ user_ctx' = [user_ctx EXCEPT ![u] = c]
          /\ released' = [released EXCEPT ![u] = TRUE]
          /\ data' = [data EXCEPT ![u] = Empty]
      BY <2>1 DEF ReleaseData
    <3>2. at \in Slots /\ at <= last
      BY <1>0, <2>1 DEF DataOK, ShownOK
    <3>. HIDE DEF at
    <3>3. at \in 0 .. 2 * N - 2
      BY <1>1, <3>2
    <3>4. PointerOK(c, last) /\ c \in Pointers /\ c # Null /\ InStep(c)
      BY <1>1, <3>2, <3>3, Together
    <3>. HIDE DEF c
    <3>5. /\ Active' = Active
          /\ \A v \in Users : user_ctx'[v] = IF v = u THEN c ELSE user_ctx[v]
      BY <1>1, <2>1, <3>1, <3>4, ActiveKept
    <3>6. ShownOK(Empty)
      BY <1>1 DEF Shows, ShownOK, ReleasedAt, Empty
    <3>7. user_ctx' \in [Users -> Pointers] /\ released' \in [Users -> BOOLEAN]
      BY <1>1, <3>1, <3>4
    <3>8. \A v \in Users : ShownOK(data'[v]) /\ (~released'[v] => ReleasedAt(data'[v]) <= last)
      BY <1>0, <1>1, <3>1, <3>6 DEF DataOK
    <3>9. \A v \in Active : PointerOK(user_ctx'[v], last) /\ (v \notin raced => InStep(user_ctx'[v]))
      BY <1>0, <3>4, <3>5 DEF PointersOK, Active
    <3>. QED  BY <3>5, <3>7, <3>8, <3>9
  <2>2. CASE ~(u \in Active /\ ~released[u])
    <3>1. UNCHANGED <<user_ctx, released, data>>
      BY <2>2 DEF ReleaseData
    <3>. QED  BY <1>0, <1>1, <3>1 DEF Active, PointersOK, DataOK
  <2>. QED  BY <2>1, <2>2
<1>4. TypeOK'
  <2>1. data' \in [Users -> Shows]
    <3>1. data' = data \/ data' = [data EXCEPT ![u] = Empty]
      BY DEF ReleaseData
    <3>2. Empty \in Shows
      BY <1>1 DEF Empty, Shows
    <3>. QED  BY <1>1, <3>1, <3>2
  <2>2. near' \in SUBSET Users
    <3>1. near' = near \/ \E at, m : Moved(u, at, m)
      BY DEF ReleaseData
    <3>. QED  BY <1>0, <3>1, MovedTyped, Types
  <2>. QED  BY <1>0, <1>2, <1>3, <2>1, <2>2 DEF Shows, TypeOK, ring, Calls, Slots, Pointers
<1>5. RingOK' /\ CursorOK' /\ CountOK'
  BY <1>0, <1>3 DEF RingOK, CursorOK, CountOK, ring, Slots
<1>6. PointersOK' /\ DataOK'
  BY <1>0, <1>3 DEF PointersOK, DataOK, PointerOK, InStep, ShownOK, ReleasedAt, ring, Slots
<1>7. CallOK' /\ ScanOK'
  BY <1>0, <1>2, <1>3 DEF CallOK, ScanOK
<1>. QED  BY <1>4, <1>5, <1>6, <1>7 DEF IInv

LEMMA NextInv == IInv /\ [Next]_vars => IInv'
<1>. SUFFICES ASSUME IInv, [Next]_vars PROVE IInv'
  OBVIOUS
<1>1. CASE Write
  BY <1>1, WriteInv
<1>2. CASE WriteEnd
  BY <1>2, WriteEndInv
<1>3. ASSUME NEW u \in Users,
             \/ AddUser(u) \/ AddUserPublish(u) \/ DeleteUser(u)
             \/ \E w \in Windows : GetData(u, w)
             \/ GetDataScan(u) \/ ReleaseData(u)
      PROVE  IInv'
  BY <1>3, AddUserInv, AddUserPublishInv, DeleteUserInv, GetDataInv, GetDataScanInv, ReleaseDataInv
<1>4. CASE UNCHANGED vars
  BY <1>4 DEF vars, history, IInv, TypeOK, RingOK, CursorOK, PointersOK, DataOK, CallOK, ScanOK, CountOK, Slots,
              Active, PointerOK, InStep, ShownOK, ReleasedAt
<1>. QED  BY <1>1, <1>2, <1>3, <1>4 DEF Next

(* The ring, the pointers and the calls of its users, for any number of    *)
(* users and slots.                                                        *)
THEOREM Invariance == Spec => []IInv
BY InitInv, NextInv, PTL DEF Spec

(* Every variable has its type: no pointer leaves the memory of two rings, *)
(* not even one that an add_user tore.                                     *)
THEOREM TypeCorrect == Spec => []TypeOK
<1>1. IInv => TypeOK
  BY DEF IInv
<1>. QED  BY <1>1, Invariance, PTL

(* The columns of a sample are read from the same slot.                    *)
THEOREM InStepAlways == Spec => []ColumnsInStep
<1>1. IInv => ColumnsInStep
  BY DEF IInv, PointersOK, InStep, ColumnsInStep
<1>. QED  BY <1>1, Invariance, PTL

(* The distance of two slots, without the remainder.                       *)
LEMMA Distance ==
  ASSUME NEW r \in Slots, NEW s \in Slots
  PROVE  (r - s) % N = IF r < s THEN r - s + N ELSE r - s
<1>. DEFINE a == r - s
<1>1. N \in Nat \ {0} /\ a \in Int /\ -N <= a /\ a < N
  BY Sizes DEF Slots
<1>2. a % N = IF a < 0 THEN a + N ELSE a
  <2>. HIDE DEF a
  <2>. QED  BY <1>1, WrappedBack
<1>. QED  BY <1>2, Sizes DEF Slots

(* A write leaves a reader at least WR_GAP slots ahead that it found that  *)
(* far ahead, or at the write pointer.                                     *)
LEMMA WriteKeepsGap ==
  ASSUME IInv, Write, NEW u \in Active \ raced, Ahead(u) = 0 \/ Ahead(u) \in Gap .. N - 1
  PROVE  Ahead(u)' \in Gap .. N - 1
<1>. DEFINE c == user_ctx[u]
<1>1. /\ TypeOK /\ u \in Users /\ c \in Pointers /\ c # Null /\ PointerOK(c, last) /\ InStep(c)
      /\ user_ctx'[u] = IF Overflows(c) THEN Bump(c) ELSE c
      /\ write_x' = IF write_x + 1 >= N THEN 0 ELSE write_x + 1
  BY Types DEF IInv, PointersOK, Active, Write
<1>2. /\ N \in Nat /\ N >= 3 /\ Slots = 0 .. N - 1 /\ Gap \in 1 .. N - 2 /\ last \in Nat
      /\ write_x \in Slots /\ c.x \in Slots /\ write_x' \in Slots /\ Gap \in Nat
  BY <1>1, Types, Sizes, SMTT(30) DEF InStep
<1>3. user_ctx'[u].x = IF GapSlot = c.x THEN (IF GapSlot + 1 >= N THEN 0 ELSE GapSlot + 1) ELSE c.x
  <2>1. Overflows(c) <=> GapSlot = c.x
    BY <1>1, <1>2, GapSlotIs DEF Overflows
  <2>2. Overflows(c) => Bump(c).x = IF GapSlot + 1 >= N THEN 0 ELSE GapSlot + 1
    <3>. HIDE DEF c
    <3>. QED  BY <1>1, <1>2, Pushed
  <2>. QED  BY <1>1, <2>1, <2>2
<1>4. GapSlot = IF write_x + Gap < N THEN write_x + Gap ELSE write_x + Gap - N
  BY <1>2, GapSlotIs
<1>5. user_ctx'[u].x \in Slots
  BY <1>2, <1>3, GapSlotIs
<1>6. Ahead(u) = IF c.x < write_x THEN c.x - write_x + N ELSE c.x - write_x
  BY <1>2, Distance DEF Ahead
<1>7. Ahead(u)' = IF user_ctx'[u].x < write_x' THEN user_ctx'[u].x - write_x' + N
                                               ELSE user_ctx'[u].x - write_x'
  BY <1>2, <1>5, Distance DEF Ahead
<1>. HIDE DEF c
<1>8. PICK r, s, t, r2, s2, a, b :
        /\ r = c.x /\ s = write_x /\ t = GapSlot /\ r2 = user_ctx'[u].x /\ s2 = write_x'
        /\ a = Ahead(u) /\ b = Ahead(u)'
  OBVIOUS
<1>9. /\ N \in Nat /\ N >= 3 /\ Gap \in 1 .. N - 2 /\ Gap \in Nat
      /\ r \in 0 .. N - 1 /\ s \in 0 .. N - 1
      /\ t = IF s + Gap < N THEN s + Gap ELSE s + Gap - N
      /\ s2 = IF s + 1 >= N THEN 0 ELSE s + 1
      /\ r2 = IF t = r THEN (IF t + 1 >= N THEN 0 ELSE t + 1) ELSE r
      /\ a = IF r < s THEN r - s + N ELSE r - s
      /\ b = IF r2 < s2 THEN r2 - s2 + N ELSE r2 - s2
  BY <1>1, <1>2, <1>3, <1>4, <1>6, <1>7, <1>8
<1>10. a = 0 \/ a \in Gap .. N - 1 => b \in Gap .. N - 1
  <2>1. CASE t = r
    <3>1. CASE s + Gap < N
      BY ONLY <1>9, <2>1, <3>1
    <3>2. CASE ~(s + Gap < N)
      BY ONLY <1>9, <2>1, <3>2
    <3>. QED  BY <3>1, <3>2
  <2>2. CASE t # r
    <3>1. CASE r < s
      BY ONLY <1>9, <2>2, <3>1
    <3>2. CASE ~(r < s)
      BY ONLY <1>9, <2>2, <3>2
    <3>. QED  BY <3>1, <3>2
  <2>. QED  BY <2>1, <2>2
<1>. QED  BY <1>8, <1>10

(* What a user is that kept its distance.                                  *)
Distant(u) == (Ahead(u) = 0 /\ mark[u] = last) \/ Ahead(u) \in Gap .. N - 1

(* The step of another user, or one that moves nobody, keeps the distance. *)
LEMMA OthersKeepGap ==
  ASSUME NEW u \in Active, GapKept, u \notin raced \union near,
         user_ctx'[u].x = user_ctx[u].x, write_x' = write_x, last' = last, mark'[u] = mark[u]
  PROVE  Distant(u)'
BY DEF GapKept, Distant, Ahead

(* After its own move a user kept its distance, or is known to be near.    *)
LEMMA MoverKeepsGap ==
  ASSUME TypeOK, NEW u \in Users, NEW at \in Slots, NEW m, Moved(u, at, m), u \notin near',
         user_ctx'[u].x = at, write_x' = write_x, last' = last, mark'[u] = m
  PROVE  Distant(u)'
BY MovedKept DEF Distant, Ahead

(* Every step keeps the distance of those that are not known to be near.   *)
LEMMA GapNext ==
  ASSUME IInv, GapKept, [Next]_vars
  PROVE  GapKept'
<1>. SUFFICES ASSUME NEW u \in Active', u \notin raced' \union near'
              PROVE  Distant(u)'
  BY DEF GapKept, Distant
<1>0. /\ TypeOK /\ CursorOK /\ PointersOK /\ CallOK /\ TypeOK' /\ PointersOK'
      /\ u \in Users /\ user_ctx \in [Users -> Pointers] /\ mark \in [Users -> 0 .. MaxPts]
      /\ raced \in SUBSET Users /\ near \in SUBSET Users
      /\ N \in Nat /\ N >= 3 /\ Gap \in 1 .. N - 2 /\ Slots = 0 .. N - 1
      /\ user_ctx'[u].x = user_ctx'[u].p /\ user_ctx'[u].x \in Slots
  <2>1. IInv'
    BY NextInv
  <2>2. TypeOK /\ TypeOK' /\ PointersOK' /\ u \in Users
    BY <2>1 DEF IInv, Active
  <2>3. user_ctx'[u].x = user_ctx'[u].p /\ user_ctx'[u].p \in Slots
    BY <2>2 DEF PointersOK, InStep, Slots
  <2>. QED  BY <2>2, <2>3, Types DEF IInv
<1>. DEFINE same == /\ user_ctx'[u].x = user_ctx[u].x /\ write_x' = write_x
                    /\ last' = last /\ mark'[u] = mark[u]
<1>1. ASSUME u \in Active, u \notin raced \union near, same
      PROVE  Distant(u)'
  BY <1>1, OthersKeepGap
<1>2. CASE Write
  <2>1. UNCHANGED <<raced, near>> /\ Active' = Active
    <3>1. \A v \in Users : user_ctx'[v] = IF Overflows(user_ctx[v]) THEN Bump(user_ctx[v]) ELSE user_ctx[v]
      BY <1>2 DEF Write
    <3>2. \A v \in Active : user_ctx'[v] # Null
      <4>1. SUFFICES ASSUME NEW v \in Active, Overflows(user_ctx[v])
                     PROVE  Bump(user_ctx[v]) # Null
        BY <3>1 DEF Active
      <4>2. PointerOK(user_ctx[v], last) /\ user_ctx[v] \in Pointers /\ write_x \in Slots /\ last \in Nat
        BY <1>0, Types DEF PointersOK, Active
      <4>. QED  BY <4>1, <4>2, Pushed
    <3>3. \A v \in Users \ Active : user_ctx'[v] = Null
      BY <3>1 DEF Active, Overflows
    <3>4. UNCHANGED <<raced, near>>
      BY <1>2 DEF Write, history
    <3>. QED  BY <3>2, <3>3, <3>4 DEF Active
  <2>2. u \in Active \ raced /\ Distant(u)
    BY <2>1 DEF GapKept, Distant
  <2>3. Ahead(u)' \in Gap .. N - 1
    BY <1>2, <2>2, WriteKeepsGap DEF Distant
  <2>. QED  BY <2>3 DEF Distant
<1>3. CASE WriteEnd \/ UNCHANGED vars
  <2>1. UNCHANGED <<user_ctx, write_x, last, mark, raced, near>>
    BY <1>3 DEF WriteEnd, vars, ring, history
  <2>. QED  BY <1>1, <2>1 DEF Active
<1>4. ASSUME NEW v \in Users, AddUser(v)
      PROVE  Distant(u)'
  <2>1. UNCHANGED <<user_ctx, write_x, last, mark, raced, near>>
    BY <1>4 DEF AddUser, ring, history
  <2>. QED  BY <1>1, <2>1 DEF Active
<1>5. ASSUME NEW v \in Users, AddUserPublish(v)
      PROVE  Distant(u)'
  <2>1. /\ user_ctx' = [user_ctx EXCEPT ![v] = [x |-> call[v].x, p |-> write_p]]
        /\ UNCHANGED <<write_x, last, write_p>>
        /\ mark' = [mark EXCEPT ![v] = IF lock = "writer" THEN last - 1 ELSE last]
        /\ near' = near \ {v}
        /\ raced \ {v} \subseteq raced' /\ (v \notin raced' => call[v].x = write_p)
    BY <1>5 DEF AddUserPublish, ring
  <2>2. CASE u # v
    <3>1. user_ctx'[u] = user_ctx[u] /\ mark'[u] = mark[u] /\ u \notin raced \union near
      BY <1>0, <2>1, <2>2
    <3>. QED  BY <1>1, <2>1, <3>1 DEF Active
  <2>3. CASE u = v
    <3>1. user_ctx'[u].x = write_p /\ write_x' = write_x /\ last' = last
      BY <1>0, <2>1, <2>3
    <3>2. write_x \in Slots /\ write_p \in Slots
      BY <1>0, Types
    <3>3. Ahead(u)' = IF write_p < write_x THEN write_p - write_x + N ELSE write_p - write_x
      BY <3>1, <3>2, Distance DEF Ahead
    <3>4. CASE lock = "writer"
      <4>1. write_x = IF write_p + 1 >= N THEN 0 ELSE write_p + 1
        BY <1>0, <3>4 DEF CursorOK
      <4>2. Ahead(u)' = N - 1
        BY <1>0, <3>2, <3>3, <4>1
      <4>. QED  BY <1>0, <4>2, Sizes DEF Distant
    <3>5. CASE lock # "writer"
      <4>1. write_x = write_p /\ mark'[u] = last
        BY <1>0, <2>1, <2>3, <3>5 DEF CursorOK
      <4>2. Ahead(u)' = 0
        BY <1>0, <3>2, <3>3, <4>1
      <4>. QED  BY <2>1, <4>1, <4>2 DEF Distant
    <3>. QED  BY <3>4, <3>5
  <2>. QED  BY <2>2, <2>3
<1>6. ASSUME NEW v \in Users, DeleteUser(v)
      PROVE  Distant(u)'
  <2>1. /\ user_ctx' = [user_ctx EXCEPT ![v] = Null] /\ UNCHANGED <<write_x, last>>
        /\ raced' = raced \ {v} /\ near' = near \ {v} /\ mark' = [mark EXCEPT ![v] = 0]
    BY <1>6 DEF DeleteUser, Forgotten, ring
  <2>2. u # v
    BY <1>0, <2>1 DEF Active
  <2>3. user_ctx'[u] = user_ctx[u] /\ mark'[u] = mark[u] /\ u \notin raced \union near
    BY <1>0, <2>1, <2>2
  <2>. QED  BY <1>1, <2>1, <2>3 DEF Active
<1>7. ASSUME NEW v \in Users, NEW w \in Windows, GetData(v, w)
      PROVE  Distant(u)'
  <2>1. PICK k : /\ user_ctx' = [user_ctx EXCEPT ![v] = ArriveBack(user_ctx[v], k)]
                 /\ IF k = 0 THEN near' = near
                             ELSE Moved(v, ArriveBack(user_ctx[v], k).x, mark[v])
    BY <1>7 DEF GetData
  <2>2. UNCHANGED <<write_x, last, mark, raced>> /\ v \in Active
    BY <1>7 DEF GetData, ring
  <2>3. CASE u # v
    <3>1. user_ctx'[u] = user_ctx[u] /\ (u \in near' <=> u \in near)
      BY <1>0, <2>1, <2>3, MovedTyped
    <3>. QED  BY <1>1, <2>2, <3>1 DEF Active
  <2>4. CASE u = v /\ k = 0
    <3>1. PointerOK(user_ctx[u], last)
      BY <1>0, <2>2, <2>4 DEF PointersOK
    <3>2. ArriveBack(user_ctx[u], k).x = user_ctx[u].x
      BY <1>0, <2>4, <3>1 DEF ArriveBack, PointerOK, Pointers
    <3>3. user_ctx'[u].x = user_ctx[u].x /\ near' = near
      BY <1>0, <2>1, <2>4, <3>2
    <3>. QED  BY <1>1, <2>2, <2>4, <3>3
  <2>5. CASE u = v /\ k # 0
    <3>. DEFINE at == ArriveBack(user_ctx[u], k).x
    <3>1. user_ctx'[u].x = at /\ Moved(u, at, mark[u])
      BY <1>0, <2>1, <2>5
    <3>2. at \in Slots
      BY <1>0, <3>1
    <3>. HIDE DEF at
    <3>. QED  BY <1>0, <2>2, <3>1, <3>2, MoverKeepsGap
  <2>. QED  BY <2>3, <2>4, <2>5
<1>8. ASSUME NEW v \in Users, GetDataScan(v)
      PROVE  Distant(u)'
  <2>. DEFINE p == user_ctx[v].p
  <2>1. PICK hits, at : /\ user_ctx' = [user_ctx EXCEPT ![v] = [x |-> at, p |-> at]]
                        /\ hits = {} => at = p
                        /\ raced' = IF at \in Slots THEN raced \ {v} ELSE raced
                        /\ mark' = [mark EXCEPT ![v] = Seen(v, p, hits)]
                        /\ IF hits = {} THEN near' = near \union (raced \intersect {v})
                                         ELSE Moved(v, at, Seen(v, p, hits))
    BY <1>8 DEF GetDataScan
  <2>2. UNCHANGED <<write_x, last>> /\ v \in Active
    BY <1>0, <1>8 DEF GetDataScan, ring, CallOK
  <2>3. CASE u # v
    <3>1. /\ user_ctx'[u] = user_ctx[u] /\ mark'[u] = mark[u]
          /\ u \in near' <=> u \in near
          /\ u \in raced' <=> u \in raced
      BY <1>0, <2>1, <2>3, MovedTyped
    <3>. QED  BY <1>1, <2>2, <3>1 DEF Active
  <2>4. CASE u = v /\ hits = {}
    <3>1. u \notin near \union raced
      BY <2>1, <2>4
    <3>2. user_ctx[u].x = user_ctx[u].p
      BY <1>0, <2>2, <2>4, <3>1 DEF PointersOK, InStep
    <3>3. user_ctx'[u].x = user_ctx[u].x /\ mark'[u] = mark[u]
      BY <1>0, <2>1, <2>4, <3>2, SeenTyped
    <3>. QED  BY <1>1, <2>2, <2>4, <3>1, <3>3
  <2>5. CASE u = v /\ hits # {}
    <3>. DEFINE m == Seen(u, p, hits)
    <3>1. user_ctx'[u].x = at /\ mark'[u] = m /\ Moved(u, at, m)
      BY <1>0, <2>1, <2>5
    <3>2. at \in Slots
      BY <1>0, <3>1
    <3>. HIDE DEF m
    <3>. QED  BY <1>0, <2>2, <3>1, <3>2, MoverKeepsGap
  <2>. QED  BY <2>3, <2>4, <2>5
<1>9. ASSUME NEW v \in Users, ReleaseData(v)
      PROVE  Distant(u)'
  <2>1. UNCHANGED <<write_x, last, mark, raced>>
    BY <1>9 DEF ReleaseData, ring
  <2>2. CASE UNCHANGED <<user_ctx, near>>
    BY <1>1, <2>1, <2>2 DEF Active
  <2>3. CASE ~UNCHANGED <<user_ctx, near>>
    <3>1. PICK at : /\ user_ctx' = [user_ctx EXCEPT ![v] = [x |-> at, p |-> at]]
                    /\ Moved(v, at, mark[v]) /\ v \in Active
      BY <1>9, <2>3 DEF ReleaseData
    <3>2. CASE u # v
      <4>1. user_ctx'[u] = user_ctx[u] /\ (u \in near' <=> u \in near)
        BY <1>0, <3>1, <3>2, MovedTyped
      <4>. QED  BY <1>1, <2>1, <4>1 DEF Active
    <3>3. CASE u = v
      <4>1. user_ctx'[u].x = at
        BY <1>0, <3>1, <3>3
      <4>2. at \in Slots
        BY <1>0, <4>1
      <4>. QED  BY <1>0, <2>1, <3>1, <3>3, <4>1, <4>2, MoverKeepsGap
    <3>. QED  BY <3>2, <3>3
  <2>. QED  BY <2>2, <2>3
<1>. QED  BY <1>2, <1>3, <1>4, <1>5, <1>6, <1>7, <1>8, <1>9 DEF Next

(* The overflow test misses no reader that keeps its distance: for rings   *)
(* and gaps of any size and any number of users, a reader is at least      *)
(* WR_GAP slots ahead of the writer, or at it with nothing unread, unless  *)
(* its own last move took it nearer.                                       *)
THEOREM GapIsKept == Spec => []GapKept
<1>1. Init => GapKept
  BY DEF Init, GapKept, Active
<1>2. IInv /\ GapKept /\ [Next]_vars => GapKept'
  BY GapNext
<1>. QED  BY <1>1, <1>2, Invariance, PTL DEF Spec

-----------------------------------------------------------------------------
(* A read is exact.                                                        *)

(* How many steps lie between slot p and the writer, a full turn if none.  *)
Turn(p) == IF p < write_p THEN write_p - p ELSE N - p + write_p

(* A walk from slot p that a full turn would take past unread samples.     *)
Reader(p, w) ==
  /\ RingTypes /\ RingOK /\ p \in Slots /\ p <= last /\ w \in Windows
  /\ p = write_p \/ buf[p] <= w[1]
  /\ ~(p = write_p /\ forward)

LEMMA TurnIs ==
  ASSUME RingTypes, NEW p \in Slots
  PROVE  /\ Turn(p) \in 1 .. N /\ After(p, Turn(p)) = write_p
         /\ \A k \in 1 .. Turn(p) - 1 : After(p, k) # write_p
         /\ \A k \in 0 .. Turn(p) - 1 : After(p, k) \in Slots
<1>0. /\ N \in Nat /\ N >= 3 /\ Slots = 0 .. N - 1 /\ p \in 0 .. N - 1 /\ write_p \in 0 .. N - 1
  BY Sizes DEF RingTypes, Slots
<1>1. Turn(p) \in 1 .. N
  BY <1>0 DEF Turn
<1>2. \A k \in 0 .. N : After(p, k) = IF p + k < N THEN p + k ELSE p + k - N
  BY <1>0, AfterInside
<1>. QED  BY <1>0, <1>1, <1>2 DEF Turn

(* The samples of the walk come in the order of their PTS, after slots     *)
(* that hold none yet.                                                     *)
LEMMA WalkOrder ==
  ASSUME RingTypes, RingOK, NEW p \in Slots,
         NEW j \in 0 .. Turn(p) - 1, NEW k \in 0 .. Turn(p) - 1, j < k, buf[After(p, j)] # 0
  PROVE  buf[After(p, j)] < buf[After(p, k)]
<1>0. /\ N \in Nat /\ N >= 3 /\ Slots = 0 .. N - 1 /\ p \in 0 .. N - 1 /\ write_p \in 0 .. N - 1
      /\ last \in Nat /\ write_p = write_x
  BY Sizes DEF RingTypes, Slots
<1>1. Turn(p) \in 1 .. N /\ After(p, j) \in Slots /\ After(p, k) \in Slots
  BY TurnIs
<1>2. /\ After(p, j) = IF p + j < N THEN p + j ELSE p + j - N
      /\ After(p, k) = IF p + k < N THEN p + k ELSE p + k - N
  BY <1>0, <1>1, AfterInside
<1>3. PICK a, b : a = After(p, j) /\ b = After(p, k)
  OBVIOUS
<1>4. /\ buf[a] = IF a < write_p THEN last - (write_p - 1 - a)
                  ELSE IF last >= N THEN last - (N + write_p - 1 - a) ELSE 0
      /\ buf[b] = IF b < write_p THEN last - (write_p - 1 - b)
                  ELSE IF last >= N THEN last - (N + write_p - 1 - b) ELSE 0
  BY <1>0, <1>1, <1>3 DEF RingOK
<1>5. CASE p < write_p
  <2>1. a = p + j /\ b = p + k /\ b < write_p
    BY <1>0, <1>2, <1>3, <1>5 DEF Turn
  <2>. QED  BY <1>0, <1>3, <1>4, <2>1
<1>6. CASE ~(p < write_p)
  <2>1. p + j < N + write_p /\ p + k < N + write_p
    BY <1>0, <1>6 DEF Turn
  <2>2. CASE p + j < N
    <3>1. a >= write_p /\ last >= N
      BY <1>0, <1>1, <1>2, <1>3, <1>4, <1>6, <2>2
    <3>. QED  BY <1>0, <1>1, <1>2, <1>3, <1>4, <1>6, <2>1, <2>2, <3>1
  <2>3. CASE ~(p + j < N)
    <3>1. a = p + j - N /\ b = p + k - N /\ b < write_p
      BY <1>0, <1>1, <1>2, <1>3, <2>1, <2>3
    <3>. QED  BY <1>0, <1>1, <1>3, <1>4, <3>1
  <2>. QED  BY <2>2, <2>3
<1>. QED  BY <1>5, <1>6

(* The walk passes every sample of the window: those behind the reader are *)
(* older than it.                                                          *)
LEMMA AllWalked ==
  ASSUME NEW p, NEW w, Reader(p, w), NEW i \in InWindow(w)
  PROVE  \E k \in 0 .. Turn(p) - 1 : After(p, k) = i
<1>0. /\ N \in Nat /\ N >= 3 /\ Slots = 0 .. N - 1 /\ p \in 0 .. N - 1 /\ write_p \in 0 .. N - 1
      /\ last \in Nat /\ write_p = write_x /\ p \in Slots /\ i \in 0 .. N - 1 /\ p <= last
      /\ w[1] \in Nat \ {0} /\ w[2] \in Nat /\ buf[i] >= w[1] /\ buf[i] \in Nat /\ buf[p] \in Nat
  BY Sizes DEF RingTypes, Slots, Reader, InWindow
<1>1. \A k \in 0 .. N : After(p, k) = IF p + k < N THEN p + k ELSE p + k - N
  BY <1>0, AfterInside
<1>. DEFINE k == IF p <= i THEN i - p ELSE N - p + i
<1>2. k \in 0 .. N - 1 /\ After(p, k) = i
  BY <1>0, <1>1
<1>3. /\ buf[i] = IF i < write_p THEN last - (write_p - 1 - i)
                  ELSE IF last >= N THEN last - (N + write_p - 1 - i) ELSE 0
      /\ buf[p] = IF p < write_p THEN last - (write_p - 1 - p)
                  ELSE IF last >= N THEN last - (N + write_p - 1 - p) ELSE 0
      /\ last = write_p \/ last >= N + write_p
  BY <1>0 DEF RingOK, Reader
<1>4. p = write_p \/ buf[p] <= w[1]
  BY DEF Reader
<1>5. k < Turn(p)
  <2>1. CASE p = write_p
    BY <1>0, <1>2, <2>1 DEF Turn
  <2>2. CASE p < write_p
    BY <1>0, <1>3, <1>4, <2>2 DEF Turn
  <2>3. CASE p > write_p
    BY <1>0, <1>3, <1>4, <2>3 DEF Turn
  <2>. QED  BY <1>0, <2>1, <2>2, <2>3
<1>6. Turn(p) \in 1 .. N
  BY TurnIs DEF Reader
<1>. HIDE DEF k
<1>7. k \in 0 .. Turn(p) - 1
  BY <1>0, <1>2, <1>5, <1>6
<1>. QED  BY <1>2, <1>7

(* The hits are the steps of one turn that lead to samples of the window.  *)
LEMMA HitsAre ==
  ASSUME NEW p, NEW w, Reader(p, w), NEW g
  PROVE  /\ \A k \in Hits(p, w, g) : k \in 0 .. Turn(p) - 1 /\ buf[After(p, k)] \in w[1] .. w[2]
         /\ \A k \in 0 .. Turn(p) - 1 : buf[After(p, k)] \in w[1] .. w[2] => k \in Hits(p, w, g)
<1>. DEFINE n == Steps(p, w, g)
<1>0. /\ N \in Nat /\ N >= 3 /\ Slots = 0 .. N - 1 /\ p \in Slots /\ p \in 0 .. 2 * N - 2
      /\ RingTypes /\ RingOK /\ w \in Windows
      /\ w[1] \in Nat \ {0} /\ w[2] \in Nat
  BY Sizes DEF Slots, Reader
<1>1. n \in 0 .. N /\ Stops(p, n, w, g) /\ \A k \in 0 .. n - 1 : ~Stops(p, k, w, g)
  BY <1>0, ScanStops
<1>. HIDE DEF n
<1>2. Turn(p) \in 1 .. N /\ Stops(p, Turn(p), w, g)
  <2>1. Turn(p) \in 1 .. N /\ After(p, Turn(p)) = write_p
    BY <1>0, TurnIs
  <2>. QED  BY <1>0, <2>1 DEF Stops
<1>3. n <= Turn(p)
  BY <1>0, <1>1, <1>2
<1>4. \A k \in 0 .. Turn(p) - 1 : After(p, k) \in Slots /\ buf[After(p, k)] \in Nat
  <2>1. \A k \in 0 .. Turn(p) - 1 : After(p, k) \in Slots
    BY <1>0, TurnIs
  <2>. QED  BY <1>0, <2>1 DEF RingTypes
<1>5. Hits(p, w, g) = {k \in 0 .. n - 1 : Pts(After(p, k), g) \in w[1] .. w[2]}
  BY DEF Hits, n
<1>6. \A k \in 0 .. n - 1 : k \in 0 .. Turn(p) - 1
  BY <1>0, <1>1, <1>2, <1>3
<1>7. \A k \in Hits(p, w, g) : k \in 0 .. Turn(p) - 1 /\ buf[After(p, k)] \in w[1] .. w[2]
  BY <1>4, <1>5, <1>6 DEF Pts
<1>8. ASSUME NEW k \in 0 .. Turn(p) - 1, buf[After(p, k)] \in w[1] .. w[2]
      PROVE  k \in Hits(p, w, g)
  <2>1. ASSUME n <= k
        PROVE  FALSE
    <3>1. n \in 0 .. Turn(p) - 1
      BY <1>0, <1>1, <1>2, <2>1
    <3>2. ~(After(p, n) = write_p /\ (forward \/ n > 0))
      <4>1. CASE n > 0
        <5>1. n \in 1 .. Turn(p) - 1
          BY <1>0, <1>2, <3>1, <4>1
        <5>. QED  BY <1>0, <5>1, TurnIs
      <4>2. CASE n = 0
        <5>1. After(p, n) = p
          BY <4>2 DEF After
        <5>. QED  BY <4>2, <5>1 DEF Reader
      <4>. QED  BY <1>0, <1>1, <4>1, <4>2
    <3>3. After(p, n) \in Slots /\ buf[After(p, n)] > w[2]
      BY <1>1, <1>4, <3>1, <3>2 DEF Stops, Pts
    <3>4. n < k
      BY <1>0, <1>1, <1>2, <1>8, <2>1, <3>3
    <3>5. buf[After(p, n)] # 0
      BY <1>0, <1>4, <3>1, <3>3
    <3>6. buf[After(p, n)] < buf[After(p, k)]
      BY <1>0, <3>1, <3>4, <3>5, WalkOrder
    <3>. QED  BY <1>0, <1>4, <1>8, <3>1, <3>3, <3>6
  <2>2. k \in 0 .. n - 1
    BY <1>0, <1>1, <1>2, <2>1
  <2>. QED  BY <1>4, <1>5, <1>8, <2>2 DEF Pts
<1>. QED  BY <1>7, <1>8

(* The hits follow one another without a gap.                              *)
LEMMA HitsInterval ==
  ASSUME NEW p, NEW w, Reader(p, w), NEW g, Hits(p, w, g) # {},
         NEW k0, k0 = Min(Hits(p, w, g))
  PROVE  k0 \in Nat /\ \E k1 \in k0 .. Turn(p) - 1 : Hits(p, w, g) = k0 .. k1
<1>. DEFINE hits == Hits(p, w, g)
<1>0. /\ N \in Nat /\ N >= 3 /\ Slots = 0 .. N - 1 /\ p \in Slots /\ RingTypes /\ RingOK /\ w \in Windows
      /\ w[1] \in Nat \ {0} /\ w[2] \in Nat
  BY Sizes DEF Slots, Reader
<1>1. Turn(p) \in 1 .. N /\ \A k \in 0 .. Turn(p) - 1 : After(p, k) \in Slots /\ buf[After(p, k)] \in Nat
  <2>1. Turn(p) \in 1 .. N /\ \A k \in 0 .. Turn(p) - 1 : After(p, k) \in Slots
    BY <1>0, TurnIs
  <2>. QED  BY <1>0, <2>1 DEF RingTypes
<1>2. /\ \A k \in hits : k \in 0 .. Turn(p) - 1 /\ buf[After(p, k)] \in w[1] .. w[2]
      /\ \A k \in 0 .. Turn(p) - 1 : buf[After(p, k)] \in w[1] .. w[2] => k \in hits
  BY HitsAre
<1>. HIDE DEF hits
<1>3. hits # {} /\ k0 = Min(hits)
  BY DEF hits
<1>4. hits \subseteq Nat /\ hits \subseteq 0 .. Turn(p) - 1 /\ Turn(p) - 1 \in Nat
  BY <1>0, <1>1, <1>2
<1>5. k0 \in hits /\ \A k \in hits : k0 <= k
  BY <1>3, <1>4, MinIs
<1>6. PICK k1 \in hits : \A k \in hits : k <= k1
  BY <1>3, <1>4, Largest
<1>7. k0 \in Nat /\ k1 \in k0 .. Turn(p) - 1
  BY <1>4, <1>5, <1>6
<1>8. ASSUME NEW k \in k0 .. k1
      PROVE  k \in hits
  <2>1. k \in 0 .. Turn(p) - 1 /\ k0 \in 0 .. Turn(p) - 1 /\ k1 \in 0 .. Turn(p) - 1
    BY <1>0, <1>1, <1>7
  <2>2. buf[After(p, k0)] \in w[1] .. w[2] /\ buf[After(p, k1)] \in w[1] .. w[2]
    BY <1>2, <1>5, <1>6
  <2>3. CASE k = k0 \/ k = k1
    BY <1>5, <1>6, <2>3
  <2>4. CASE k0 < k /\ k < k1
    <3>1. buf[After(p, k0)] < buf[After(p, k)]
      BY <1>0, <2>1, <2>2, <2>4, WalkOrder
    <3>2. buf[After(p, k)] # 0
      BY <1>0, <1>1, <2>1, <2>2, <3>1, SMTT(30)
    <3>3. buf[After(p, k)] < buf[After(p, k1)]
      BY <1>0, <2>1, <2>4, <3>2, WalkOrder
    <3>4. buf[After(p, k0)] \in Nat /\ buf[After(p, k)] \in Nat /\ buf[After(p, k1)] \in Nat
      BY <1>1, <2>1
    <3>5. buf[After(p, k)] \in w[1] .. w[2]
      BY <1>0, <2>2, <3>1, <3>3, <3>4
    <3>. QED  BY <1>2, <2>1, <3>5
  <2>5. (k = k0 \/ k = k1) \/ (k0 < k /\ k < k1)
    BY <1>0, <1>1, <2>1
  <2>. QED  BY <2>3, <2>4, <2>5
<1>9. \A k \in hits : k \in k0 .. k1
  BY <1>4, <1>5, <1>6, <1>7
<1>10. hits = k0 .. k1
  BY <1>8, <1>9
<1>. QED  BY <1>7, <1>10 DEF hits

(* The two runs are the walk before and after the end of the ring.         *)
LEMMA RunsAre ==
  ASSUME RingTypes, NEW p \in Slots, NEW k0 \in Nat, NEW k1 \in k0 .. Turn(p) - 1,
         NEW hits, hits = k0 .. k1, k0 = Min(hits),
         NEW d, d = Runs(p, hits)
  PROVE  /\ d.n0 \in Nat /\ d.n1 \in Nat /\ d.n0 + d.n1 = k1 - k0 + 1
         /\ \A i \in 1 .. d.n0 + d.n1 : Shown(d)[i] = After(p, k0 + i - 1)
<1>0. /\ N \in Nat /\ N >= 3 /\ Slots = 0 .. N - 1 /\ p \in 0 .. N - 1 /\ write_p \in 0 .. N - 1
      /\ k0 \in Nat /\ k1 \in Nat /\ k0 <= k1
  BY Sizes DEF RingTypes, Slots
<1>1. k1 <= N - 1
  <2>1. Turn(p) \in 1 .. N
    BY TurnIs
  <2>. QED  BY <1>0, <2>1
<1>2. \A k \in 0 .. N : After(p, k) = IF p + k < N THEN p + k ELSE p + k - N
  BY <1>0, AfterInside
<1>. DEFINE f == After(p, k0)
            h == IF k1 - k0 < N - f THEN k1 ELSE k0 + N - f - 1
            head == {k \in hits : \A j \in k0 + 1 .. k : After(p, j) # 0}
            tail == hits \ head
<1>3. d.first = f /\ d.n0 = Cardinality(head) /\ d.n1 = Cardinality(tail)
  BY DEF Runs
<1>4. f = IF p + k0 < N THEN p + k0 ELSE p + k0 - N
  BY <1>0, <1>1, <1>2
<1>. HIDE DEF f
<1>5. f \in 0 .. N - 1 /\ h \in k0 .. k1
  <2>1. f \in 0 .. N - 1
    BY ONLY <1>0, <1>1, <1>4
  <2>2. CASE k1 - k0 < N - f
    BY ONLY <1>0, <1>1, <2>1, <2>2
  <2>3. CASE ~(k1 - k0 < N - f)
    BY ONLY <1>0, <1>1, <2>1, <2>3
  <2>. QED  BY <2>1, <2>2, <2>3
<1>6. \A j \in k0 + 1 .. k1 : After(p, j) = 0 <=> j = k0 + N - f
  <2>1. SUFFICES ASSUME NEW j \in k0 + 1 .. k1
                 PROVE  After(p, j) = 0 <=> j = k0 + N - f
    OBVIOUS
  <2>2. After(p, j) = IF p + j < N THEN p + j ELSE p + j - N
    BY <1>0, <1>1, <1>2
  <2>5. j \in Nat /\ k0 < j /\ j <= k1
    BY <1>0
  <2>3. CASE p + k0 < N
    <3>1. f = p + k0
      BY <1>4, <2>3
    <3>. QED  BY ONLY <1>0, <1>1, <3>1, <2>2, <2>3, <2>5
  <2>4. CASE ~(p + k0 < N)
    <3>1. f = p + k0 - N
      BY <1>4, <2>4
    <3>. QED  BY ONLY <1>0, <1>1, <3>1, <2>2, <2>4, <2>5
  <2>. QED  BY <2>3, <2>4
<1>7. head = k0 .. h /\ tail = h + 1 .. k1
  <2>1. CASE k1 - k0 < N - f
    <3>1. \A j \in k0 + 1 .. k1 : After(p, j) # 0
      BY <1>0, <1>5, <1>6, <2>1
    <3>2. \A k \in hits : k0 + 1 .. k \subseteq k0 + 1 .. k1
      BY <1>0
    <3>3. head = hits
      BY <3>1, <3>2
    <3>4. h = k1 /\ h + 1 .. k1 = {}
      BY <1>0, <2>1
    <3>. QED  BY <3>3, <3>4
  <2>2. CASE ~(k1 - k0 < N - f)
    <3>1. h = k0 + N - f - 1 /\ h + 1 \in k0 + 1 .. k1 /\ After(p, h + 1) = 0
      BY <1>0, <1>5, <1>6, <2>2
    <3>. HIDE DEF h
    <3>2. \A k \in k0 .. h : k \in head
      <4>1. SUFFICES ASSUME NEW k \in k0 .. h, NEW j \in k0 + 1 .. k
                     PROVE  k \in hits /\ After(p, j) # 0
        <5>1. \A k \in k0 .. h : k \in hits
          BY <1>0, <1>5
        <5>. QED  BY <5>1
      <4>2. k \in k0 .. k1 /\ j \in k0 + 1 .. k1 /\ j # h + 1
        BY <1>0, <1>5
      <4>. QED  BY <1>0, <1>5, <1>6, <3>1, <4>2
    <3>3. \A k \in h + 1 .. k1 : k \in tail
      <4>1. SUFFICES ASSUME NEW k \in h + 1 .. k1
                     PROVE  k \in hits /\ \E j \in k0 + 1 .. k : After(p, j) = 0
        OBVIOUS
      <4>2. h + 1 \in k0 + 1 .. k /\ k \in k0 .. k1
        BY <1>0, <1>5
      <4>. QED  BY <3>1, <4>2
    <3>4. \A k \in hits : k \in k0 .. h \/ k \in h + 1 .. k1
      BY <1>0, <1>5
    <3>5. head \subseteq hits /\ tail \subseteq hits /\ head \intersect tail = {}
      OBVIOUS
    <3>. HIDE DEF head, tail
    <3>. QED  BY <3>2, <3>3, <3>4, <3>5
  <2>. QED  BY <2>1, <2>2
<1>8. Cardinality(head) = h - k0 + 1 /\ Cardinality(tail) = k1 - h
  <2>1. h \in Int /\ k0 \in Int /\ k1 \in Int /\ k0 <= h /\ h <= k1 /\ h + 1 \in Int
    BY <1>0, <1>5
  <2>. HIDE DEF head, tail, h
  <2>2. Cardinality(k0 .. h) = h - k0 + 1
    BY <2>1, FS_Interval
  <2>3. Cardinality(h + 1 .. k1) = IF h + 1 > k1 THEN 0 ELSE k1 - (h + 1) + 1
    BY <2>1, FS_Interval
  <2>. QED  BY <1>7, <2>1, <2>2, <2>3
<1>. HIDE DEF head, tail
<1>9. d.first = f /\ d.n0 = h - k0 + 1 /\ d.n1 = k1 - h
  BY ONLY <1>3, <1>8
<1>10. ASSUME NEW i \in 1 .. k1 - k0 + 1
       PROVE  After(p, k0 + i - 1) = IF i <= h - k0 + 1 THEN f + i - 1 ELSE i - (h - k0 + 1) - 1
  <2>1. k0 + i - 1 \in k0 .. k1 /\ k0 + i - 1 \in 0 .. N
    BY <1>0, <1>1
  <2>2. After(p, k0 + i - 1) = IF p + (k0 + i - 1) < N THEN p + (k0 + i - 1) ELSE p + (k0 + i - 1) - N
    BY <1>2, <2>1
  <2>3. i \in Nat /\ 1 <= i /\ i <= k1 - k0 + 1
    BY <1>0
  <2>4. CASE p + k0 < N
    <3>1. f = p + k0
      BY <1>4, <2>4
    <3>2. CASE k1 - k0 < N - f
      BY ONLY <1>0, <1>1, <2>2, <2>3, <2>4, <3>1, <3>2
    <3>3. CASE ~(k1 - k0 < N - f)
      BY ONLY <1>0, <1>1, <2>2, <2>3, <2>4, <3>1, <3>3
    <3>. QED  BY <3>2, <3>3
  <2>5. CASE ~(p + k0 < N)
    <3>1. f = p + k0 - N
      BY <1>4, <2>5
    <3>. QED  BY ONLY <1>0, <1>1, <2>2, <2>3, <2>5, <3>1
  <2>. QED  BY <2>4, <2>5
<1>11. d.n0 + d.n1 = k1 - k0 + 1 /\ d.n0 \in Nat /\ d.n1 \in Nat
  <2>. HIDE DEF h
  <2>. QED  BY <1>0, <1>5, <1>9, SMTT(30)
<1>12. \A i \in 1 .. k1 - k0 + 1 :
         Shown(d)[i] = IF i <= d.n0 THEN d.first + i - 1 ELSE i - d.n0 - 1
  BY <1>11 DEF Shown
<1>. QED  BY <1>9, <1>10, <1>11, <1>12

(* What the walk shows of a window, in order, is what the ring holds.      *)
LEMMA ShownExactly ==
  ASSUME NEW p, NEW w, Reader(p, w), NEW g,
         NEW hits, hits = Hits(p, w, g),
         NEW d, d = IF hits = {} THEN Empty ELSE Runs(p, hits),
         NEW s, s = Shown(d)
  PROVE  /\ {s[i] : i \in DOMAIN s} = InWindow(w)
         /\ \A i, j \in DOMAIN s : i < j => buf[s[i]] < buf[s[j]]
<1>0. /\ N \in Nat /\ N >= 3 /\ Slots = 0 .. N - 1 /\ p \in Slots /\ RingTypes /\ RingOK /\ w \in Windows
      /\ w[1] \in Nat \ {0} /\ w[2] \in Nat
  BY Sizes DEF Slots, Reader
<1>1. /\ \A k \in hits : k \in 0 .. Turn(p) - 1 /\ buf[After(p, k)] \in w[1] .. w[2]
      /\ \A k \in 0 .. Turn(p) - 1 : buf[After(p, k)] \in w[1] .. w[2] => k \in hits
  BY HitsAre
<1>2. Turn(p) \in 1 .. N /\ \A k \in 0 .. Turn(p) - 1 : After(p, k) \in Slots
  BY <1>0, TurnIs
<1>3. InWindow(w) = {After(p, k) : k \in hits}
  <2>1. ASSUME NEW i \in InWindow(w)
        PROVE  \E k \in hits : i = After(p, k)
    <3>1. PICK k \in 0 .. Turn(p) - 1 : After(p, k) = i
      BY AllWalked
    <3>2. buf[After(p, k)] \in w[1] .. w[2]
      BY <3>1 DEF InWindow
    <3>. QED  BY <1>1, <3>1, <3>2
  <2>2. \A k \in hits : After(p, k) \in InWindow(w)
    BY <1>1, <1>2 DEF InWindow
  <2>. QED  BY <2>1, <2>2
<1>4. CASE hits = {}
  <2>1. DOMAIN s = {}
    <3>1. d = Empty
      BY <1>4
    <3>2. DOMAIN s = 1 .. d.n0 + d.n1 /\ d.n0 = 0 /\ d.n1 = 0
      BY <3>1 DEF Shown, Empty
    <3>. QED  BY <3>2
  <2>. QED  BY <1>3, <1>4, <2>1
<1>5. CASE hits # {}
  <2>. DEFINE k0 == Min(hits)
  <2>1. k0 \in Nat /\ \E k \in k0 .. Turn(p) - 1 : hits = k0 .. k
    BY <1>5, HitsInterval
  <2>2. PICK k1 \in k0 .. Turn(p) - 1 : hits = k0 .. k1
    BY <2>1
  <2>3. d = Runs(p, hits)
    BY <1>5
  <2>9. k0 = Min(hits)
    OBVIOUS
  <2>. HIDE DEF k0
  <2>4. /\ d.n0 \in Nat /\ d.n1 \in Nat /\ d.n0 + d.n1 = k1 - k0 + 1
        /\ \A i \in 1 .. d.n0 + d.n1 : Shown(d)[i] = After(p, k0 + i - 1)
    <3>1. RingTypes /\ p \in Slots /\ k0 \in Nat /\ k1 \in k0 .. Turn(p) - 1 /\ hits = k0 .. k1
      BY <1>0, <2>1, <2>2
    <3>. QED  BY ONLY <2>3, <2>9, <3>1, RunsAre
  <2>5. DOMAIN s = 1 .. k1 - k0 + 1 /\ \A i \in DOMAIN s : s[i] = After(p, k0 + i - 1)
    <3>1. DOMAIN s = 1 .. d.n0 + d.n1
      BY DEF Shown
    <3>. QED  BY <2>4, <3>1
  <2>6. /\ \A i \in DOMAIN s : k0 + i - 1 \in hits
        /\ \A k \in hits : k - k0 + 1 \in DOMAIN s /\ k0 + (k - k0 + 1) - 1 = k
    <3>1. k0 \in Int /\ k1 \in Int
      BY <1>2, <2>1, <2>2
    <3>2. DOMAIN s = 1 .. k1 - k0 + 1
      BY <2>5
    <3>. QED  BY ONLY <2>2, <3>1, <3>2
  <2>7. {s[i] : i \in DOMAIN s} = {After(p, k) : k \in hits}
    <3>1. \A i \in DOMAIN s : \E k \in hits : s[i] = After(p, k)
      BY <2>5, <2>6
    <3>2. \A k \in hits : \E i \in DOMAIN s : s[i] = After(p, k)
      BY <2>5, <2>6
    <3>. QED  BY <3>1, <3>2
  <2>8. ASSUME NEW i \in DOMAIN s, NEW j \in DOMAIN s, i < j
        PROVE  buf[s[i]] < buf[s[j]]
    <3>1. PICK k, l : k = k0 + i - 1 /\ l = k0 + j - 1
      OBVIOUS
    <3>2. k \in hits /\ l \in hits /\ s[i] = After(p, k) /\ s[j] = After(p, l)
      BY <2>5, <2>6, <3>1
    <3>3. k < l
      <4>0. DOMAIN s = 1 .. k1 - k0 + 1 /\ k0 \in Int
        BY ONLY <2>1, <2>5
      <4>1. DOMAIN s \subseteq Int /\ k0 \in Int
        BY ONLY <4>0
      <4>. QED  BY ONLY <2>8, <3>1, <4>1
    <3>4. k \in 0 .. Turn(p) - 1 /\ l \in 0 .. Turn(p) - 1 /\ buf[After(p, k)] # 0
      BY <1>0, <1>1, <3>2
    <3>. QED  BY <1>0, <3>2, <3>3, <3>4, WalkOrder
  <2>. QED  BY <1>3, <2>7, <2>8
<1>. QED  BY <1>4, <1>5

(* A read returns exactly the samples of its window that the ring still    *)
(* holds, in their order, for rings of any size and any number of users;   *)
(* or nothing, and then the user was shown the newest sample already or    *)
(* had gone within WR_GAP of the writer by its own last move.              *)
THEOREM ReadsExactly == Spec => WindowExact
<1>1. ASSUME IInv, GapKept, [Next]_vars, NEW u \in Users \ raced, call[u].at = "scan", call'[u].at = "release"
      PROVE  LET s == Shown(data'[u])
                 w == call[u].w
             IN  \/ /\ {s[i] : i \in DOMAIN s} = InWindow(w)
                    /\ \A i, j \in DOMAIN s : i < j => buf[s[i]] < buf[s[j]]
                 \/ /\ DOMAIN s = {} /\ user_ctx[u].p = write_p /\ forward
                    /\ mark[u] = last \/ u \in near
  <2>. DEFINE p == user_ctx[u].p
              w == call[u].w
              s == Shown(data'[u])
  <2>0. /\ TypeOK /\ RingOK /\ CursorOK /\ PointersOK /\ ScanOK
        /\ u \in Active /\ lock = "reader" /\ w \in Windows
        /\ call \in [Users -> Calls] /\ forward \in BOOLEAN
        /\ data \in [Users -> Shows]
    BY <1>1, Types DEF IInv, CallOK
  <2>1. GetDataScan(u)
    <3>1. call'[u] # call[u]
      BY <1>1
    <3>2. call' # call
      BY <3>1
    <3>3. \A v \in Users : v = u => ~(AddUserPublish(v) \/ DeleteUser(v) \/ ReleaseData(v) \/ AddUser(v))
      BY <1>1, <2>0 DEF AddUserPublish, DeleteUser, ReleaseData, AddUser
    <3>4. \A v \in Users : v # u => \A x, y, z : Goto(v, x, y, z) => call'[u] = call[u]
      BY <2>0 DEF Goto
    <3>5. \A v \in Users : \A y \in Windows : ~GetData(v, y)
      BY <2>0 DEF GetData
    <3>6. ~Write /\ ~WriteEnd
      BY <3>2 DEF Write, WriteEnd
    <3>7. \A v \in Users : AddUser(v) \/ AddUserPublish(v) \/ GetDataScan(v) \/ ReleaseData(v)
                           => \E x, y, z : Goto(v, x, y, z)
      BY DEF AddUser, AddUserPublish, GetDataScan, ReleaseData
    <3>8. \A v \in Users : ~DeleteUser(v)
      BY <3>2 DEF DeleteUser
    <3>9. PICK v \in Users : \/ AddUser(v) \/ AddUserPublish(v) \/ GetDataScan(v) \/ ReleaseData(v)
      BY <1>1, <3>2, <3>5, <3>6, <3>8 DEF Next, vars
    <3>10. v = u
      BY <3>1, <3>4, <3>7, <3>9
    <3>. QED  BY <3>3, <3>9, <3>10
  <2>2. PICK g : data' = [data EXCEPT ![u] = IF Hits(p, w, g) = {} THEN Empty ELSE Runs(p, Hits(p, w, g))]
                 /\ released' = [released EXCEPT ![u] = Hits(p, w, g) = {}]
    BY <2>1 DEF GetDataScan
  <2>. DEFINE hits == Hits(p, w, g)
  <2>3. data'[u] = IF hits = {} THEN Empty ELSE Runs(p, hits)
    BY <2>0, <2>2
  <2>4. /\ RingTypes /\ p \in Slots /\ p <= last /\ (p = write_p \/ buf[p] <= w[1])
    BY <1>1, <2>0, Steady DEF PointersOK, PointerOK, InStep, ScanOK
  <2>5. CASE p = write_p /\ forward
    <3>1. Steps(p, w, g) = 0
      <4>. DEFINE S == {k \in 0 .. 2 * N : \/ After(p, k) = write_p /\ (forward \/ k > 0)
                                           \/ Pts(After(p, k), g) > w[2]}
      <4>1. 0 \in S /\ S \subseteq Nat
        BY <2>5, Sizes DEF After
      <4>2. Steps(p, w, g) = Min(S)
        BY DEF Steps
      <4>. HIDE DEF S
      <4>3. Min(S) \in S /\ Min(S) <= 0
        BY <4>1, MinIs
      <4>4. Min(S) \in Nat
        BY <4>1, <4>3
      <4>5. Min(S) = 0
        BY ONLY <4>3, <4>4
      <4>. QED  BY <4>2, <4>5
    <3>2. hits = {}
      BY <3>1 DEF Hits
    <3>3. data'[u] = Empty
      BY <2>3, <3>2
    <3>4. DOMAIN s = 1 .. 0 + 0
      BY <3>3 DEF Shown, Empty
    <3>5. DOMAIN s = {}
      BY <3>4
    <3>6. user_ctx[u].x = write_x /\ write_x \in Slots
      BY <2>0, <2>4, <2>5, Types DEF PointersOK, InStep, CursorOK
    <3>7. Ahead(u) = 0
      BY <2>0, <3>6, Distance, Types DEF Ahead
    <3>8. mark[u] = last \/ u \in near
      <4>1. Gap \in 1 .. N - 2 /\ N \in Nat
        BY <2>0, Types
      <4>2. u \in Active \ raced
        BY <1>1, <2>0
      <4>. QED  BY <1>1, <3>7, <4>1, <4>2 DEF GapKept
    <3>. QED  BY <2>5, <3>5, <3>8
  <2>6. CASE ~(p = write_p /\ forward)
    <3>1. Reader(p, w)
      BY <2>0, <2>4, <2>6 DEF Reader
    <3>. HIDE DEF p, w, hits
    <3>2. /\ {s[i] : i \in DOMAIN s} = InWindow(w)
          /\ \A i, j \in DOMAIN s : i < j => buf[s[i]] < buf[s[j]]
      BY <2>3, <3>1, ShownExactly DEF hits
    <3>. QED  BY <3>2 DEF w
  <2>. QED  BY <2>5, <2>6
<1>2. IInv /\ GapKept /\ [Next]_vars =>
        \A u \in Users \ raced :
          call[u].at = "scan" /\ call'[u].at = "release" =>
            LET s == Shown(data'[u])
                w == call[u].w
            IN  \/ /\ {s[i] : i \in DOMAIN s} = InWindow(w)
                   /\ \A i, j \in DOMAIN s : i < j => buf[s[i]] < buf[s[j]]
                \/ /\ DOMAIN s = {} /\ user_ctx[u].p = write_p /\ forward
                   /\ mark[u] = last \/ u \in near
  BY <1>1
<1>. QED  BY <1>2, Invariance, GapIsKept, PTL DEF WindowExact, Spec
=============================================================================
