--------------------------- MODULE IspPipe_proofs ---------------------------
(***************************************************************************)
(* Theorems about one ISP pipe: its queue of configuration buffers, its    *)
(* statistics buffers and the order of time.                               *)
(***************************************************************************)
EXTENDS IspPipe, FiniteSetTheorems, SequenceTheorems, TLAPS

-----------------------------------------------------------------------------
(* Lists.                                                                  *)

On(n, s) == \E i \in 1 .. Len(s) : s[i] = n

(* No buffer is twice on the list.                                         *)
Once(s) == \A i, j \in 1 .. Len(s) : s[i] = s[j] => i = j

(* Appending puts one more buffer on the list.                             *)
LEMMA AppendIs ==
  ASSUME NEW S, NEW s \in Seq(S), NEW e \in S, NEW t, t = Append(s, e)
  PROVE  /\ t \in Seq(S) /\ t # <<>> /\ Len(t) = Len(s) + 1
         /\ \A i \in 1 .. Len(s) : t[i] = s[i]
         /\ t[Len(s) + 1] = e
         /\ \A n : On(n, t) <=> On(n, s) \/ n = e
         /\ Once(s) /\ ~On(e, s) => Once(t)
<1>1. /\ t \in Seq(S) /\ t # <<>> /\ Len(t) = Len(s) + 1
      /\ \A i \in 1 .. Len(s) : t[i] = s[i]
      /\ t[Len(s) + 1] = e
      /\ Len(s) \in Nat
  BY AppendProperties, LenProperties
<1>2. \A i \in 1 .. Len(t) : i \in 1 .. Len(s) \/ i = Len(s) + 1
  BY <1>1
<1>3. \A i \in 1 .. Len(s) : i \in 1 .. Len(t) /\ i # Len(s) + 1
  BY <1>1
<1>4. Len(s) + 1 \in 1 .. Len(t)
  BY <1>1
<1>5. \A n : On(n, t) <=> On(n, s) \/ n = e
  BY <1>1, <1>2, <1>3, <1>4 DEF On
<1>6. ASSUME Once(s), ~On(e, s), NEW i \in 1 .. Len(t), NEW j \in 1 .. Len(t), t[i] = t[j]
      PROVE  i = j
  BY <1>1, <1>2, <1>6 DEF On, Once
<1>7. Once(s) /\ ~On(e, s) => Once(t)
  BY <1>6 DEF Once
<1>. QED  BY <1>1, <1>5, <1>7

(* The tail is the list without its first buffer.                          *)
LEMMA TailIs ==
  ASSUME NEW S, NEW s \in Seq(S), s # <<>>, NEW t, t = Tail(s)
  PROVE  /\ t \in Seq(S) /\ Len(s) = Len(t) + 1 /\ Len(t) \in Nat
         /\ \A i \in 1 .. Len(t) : t[i] = s[i + 1]
         /\ Head(s) = s[1] /\ s[1] \in S
         /\ \A n : On(n, s) <=> On(n, t) \/ n = s[1]
         /\ Once(s) => Once(t) /\ ~On(s[1], t)
<1>1. /\ t \in Seq(S) /\ Len(s) = Len(t) + 1 /\ Len(t) \in Nat
      /\ \A i \in 1 .. Len(t) : t[i] = s[i + 1]
      /\ Head(s) = s[1] /\ s[1] \in S
  BY HeadTailProperties, LenProperties, EmptySeq
<1>2. /\ 1 \in 1 .. Len(s)
      /\ \A i \in 1 .. Len(t) : i + 1 \in 1 .. Len(s) /\ i + 1 # 1
      /\ \A i \in 1 .. Len(s) : i = 1 \/ (i - 1 \in 1 .. Len(t) /\ i = (i - 1) + 1)
  BY <1>1
<1>3. \A i \in 1 .. Len(s) : i = 1 \/ \E k \in 1 .. Len(t) : i = k + 1
  BY <1>2
<1>4. ASSUME NEW n
      PROVE  On(n, s) <=> On(n, t) \/ n = s[1]
  <2>1. On(n, s) => On(n, t) \/ n = s[1]
    BY <1>1, <1>3 DEF On
  <2>2. On(n, t) => On(n, s)
    BY <1>1, <1>2 DEF On
  <2>3. n = s[1] => On(n, s)
    BY <1>2 DEF On
  <2>. QED  BY <2>1, <2>2, <2>3
<1>5. ASSUME Once(s)
      PROVE  Once(t) /\ ~On(s[1], t)
  <2>1. ASSUME NEW i \in 1 .. Len(t), NEW j \in 1 .. Len(t), t[i] = t[j]
        PROVE  i = j
    <3>1. i + 1 = j + 1
      BY <1>1, <1>2, <1>5, <2>1 DEF Once
    <3>. QED  BY <3>1
  <2>2. \A i \in 1 .. Len(t) : t[i] # s[1]
    BY <1>1, <1>2, <1>5 DEF Once
  <2>. QED  BY <2>1, <2>2 DEF Once, On
<1>. QED  BY <1>1, <1>4, <1>5

(* A list put behind another one.                                          *)
LEMMA ConcatIs ==
  ASSUME NEW S, NEW s \in Seq(S), NEW t \in Seq(S), NEW c, c = s \o t
  PROVE  /\ c \in Seq(S) /\ Len(c) = Len(s) + Len(t)
         /\ s # <<>> => c # <<>> /\ c[1] = s[1]
         /\ s = <<>> /\ t = <<>> => c = <<>>
         /\ \A n : On(n, c) <=> On(n, s) \/ On(n, t)
         /\ Once(s) /\ Once(t) /\ (\A n \in S : ~(On(n, s) /\ On(n, t))) => Once(c)
<1>1. /\ c \in Seq(S) /\ Len(c) = Len(s) + Len(t) /\ Len(s) \in Nat /\ Len(t) \in Nat
      /\ \A i \in 1 .. Len(c) : c[i] = IF i <= Len(s) THEN s[i] ELSE t[i - Len(s)]
  BY ConcatProperties, LenProperties
<1>2. /\ \A i \in 1 .. Len(s) : i \in 1 .. Len(c) /\ c[i] = s[i]
      /\ \A i \in 1 .. Len(t) : Len(s) + i \in 1 .. Len(c) /\ c[Len(s) + i] = t[i]
  <2>1. ASSUME NEW i \in 1 .. Len(t)
        PROVE  Len(s) + i \in 1 .. Len(c) /\ c[Len(s) + i] = t[i]
    <3>1. Len(s) + i \in 1 .. Len(c) /\ ~(Len(s) + i <= Len(s)) /\ (Len(s) + i) - Len(s) = i
      BY <1>1
    <3>. QED  BY <1>1, <3>1
  <2>. QED  BY <1>1, <2>1
<1>3. \A i \in 1 .. Len(c) : i \in 1 .. Len(s) \/ \E k \in 1 .. Len(t) : i = Len(s) + k
  <2>1. SUFFICES ASSUME NEW i \in 1 .. Len(c), ~(i \in 1 .. Len(s))
                 PROVE  \E k \in 1 .. Len(t) : i = Len(s) + k
    OBVIOUS
  <2>2. i - Len(s) \in 1 .. Len(t) /\ i = Len(s) + (i - Len(s))
    BY <1>1, <2>1
  <2>. QED  BY <2>2
<1>4. \A n : On(n, c) <=> On(n, s) \/ On(n, t)
  BY <1>2, <1>3 DEF On
<1>5. ASSUME Once(s), Once(t), \A n \in S : ~(On(n, s) /\ On(n, t)),
             NEW i \in 1 .. Len(c), NEW j \in 1 .. Len(c), c[i] = c[j]
      PROVE  i = j
  <2>1. \A k \in 1 .. Len(s) : s[k] \in S
    BY ElementOfSeq
  <2>2. \A k \in 1 .. Len(s), l \in 1 .. Len(t) : s[k] # t[l]
    BY <1>5, <2>1 DEF On
  <2>3. CASE i \in 1 .. Len(s) /\ j \in 1 .. Len(s)
    BY <1>2, <1>5, <2>3 DEF Once
  <2>4. CASE ~(i \in 1 .. Len(s)) /\ ~(j \in 1 .. Len(s))
    <3>1. PICK k \in 1 .. Len(t), l \in 1 .. Len(t) : i = Len(s) + k /\ j = Len(s) + l
      BY <1>3, <2>4
    <3>2. t[k] = t[l]
      BY <1>2, <1>5, <3>1
    <3>. QED  BY <1>5, <3>1, <3>2 DEF Once
  <2>. QED  BY <1>2, <1>3, <1>5, <2>2, <2>3, <2>4
<1>6. s # <<>> => c # <<>> /\ c[1] = s[1]
  <2>1. s # <<>> => 1 \in 1 .. Len(s)
    BY <1>1, EmptySeq
  <2>2. c = <<>> => Len(c) = 0
    BY EmptySeq
  <2>. QED  BY <1>1, <1>2, <2>1, <2>2
<1>7. s = <<>> /\ t = <<>> => c = <<>>
  BY EmptySeq, ConcatEmptySeq
<1>8. Once(s) /\ Once(t) /\ (\A n \in S : ~(On(n, s) /\ On(n, t))) => Once(c)
  BY <1>5 DEF Once
<1>. QED  BY <1>1, <1>4, <1>6, <1>7, <1>8

(* The front is the list without its last buffer.                          *)
LEMMA FrontIs ==
  ASSUME NEW S, NEW s \in Seq(S), s # <<>>, NEW t, t = Front(s)
  PROVE  /\ t \in Seq(S) /\ Last(s) = s[Len(s)] /\ Last(s) \in S
         /\ \A n : On(n, s) <=> On(n, t) \/ n = Last(s)
         /\ Once(s) => Once(t) /\ ~On(Last(s), t)
<1>1. Len(s) \in Nat /\ Len(s) >= 1 /\ \A i \in 1 .. Len(s) : s[i] \in S
  BY LenProperties, EmptySeq, ElementOfSeq
<1>2. /\ t \in Seq(S) /\ Len(t) = Len(s) - 1
      /\ \A i \in 1 .. Len(s) - 1 : t[i] = s[i]
  <2>1. t = SubSeq(s, 1, Len(s) - 1)
    BY DEF Front
  <2>2. \A i \in 1 .. Len(s) - 1 : s[i] \in S
    BY <1>1
  <2>3. /\ t \in Seq(S) /\ Len(t) = IF 1 <= Len(s) - 1 THEN Len(s) - 1 - 1 + 1 ELSE 0
        /\ \A i \in 1 .. Len(s) - 1 - 1 + 1 : t[i] = s[1 + i - 1]
    BY <1>1, <2>1, <2>2, SubSeqProperties
  <2>4. Len(t) = Len(s) - 1
    <3>1. PICK l : l = Len(s)
      OBVIOUS
    <3>2. l \in Nat /\ l >= 1 /\ Len(t) = IF 1 <= l - 1 THEN l - 1 - 1 + 1 ELSE 0
      BY <1>1, <2>3, <3>1
    <3>3. Len(t) = l - 1
      BY ONLY <3>2
    <3>. QED  BY <3>1, <3>3
  <2>5. \A i \in 1 .. Len(s) - 1 : i \in 1 .. Len(s) - 1 - 1 + 1 /\ 1 + i - 1 = i
    BY ONLY <1>1
  <2>. QED  BY ONLY <2>3, <2>4, <2>5
<1>3. Last(s) = s[Len(s)] /\ Last(s) \in S
  BY <1>1 DEF Last
<1>4. \A i \in 1 .. Len(s) : i \in 1 .. Len(t) \/ i = Len(s)
  BY <1>1, <1>2
<1>5. Len(s) \in 1 .. Len(s) /\ \A i \in 1 .. Len(t) : i \in 1 .. Len(s) /\ i # Len(s) /\ t[i] = s[i]
  BY <1>1, <1>2
<1>6. \A n : On(n, s) <=> On(n, t) \/ n = Last(s)
  BY <1>3, <1>4, <1>5 DEF On
<1>7. Once(s) => Once(t) /\ ~On(Last(s), t)
  BY <1>3, <1>5 DEF Once, On
<1>. QED  BY <1>2, <1>3, <1>6, <1>7

(* The places of a list that are kept are numbered without a gap, in their *)
(* order.                                                                  *)
LEMMA RankIs ==
  ASSUME NEW I, I \subseteq Nat, IsFiniteSet(I),
         NEW Rank, Rank = [i \in I |-> Cardinality({j \in I : j <= i})]
  PROVE  /\ Cardinality(I) \in Nat
         /\ \A i \in I : Rank[i] \in 1 .. Cardinality(I)
         /\ \A i, j \in I : i < j => Rank[i] < Rank[j]
         /\ \A k \in 1 .. Cardinality(I) : \E i \in I : Rank[i] = k
<1>. DEFINE Low(i) == {j \in I : j <= i}
<1>1. Cardinality(I) \in Nat
  BY FS_CardinalityType
<1>2. \A i \in I : /\ Low(i) \subseteq I /\ i \in Low(i)
                   /\ Rank[i] = Cardinality(Low(i))
  OBVIOUS
<1>3. \A i, j \in I : i < j => Low(i) \subseteq Low(j) /\ j \notin Low(i)
  <2>1. SUFFICES ASSUME NEW i \in I, NEW j \in I, i < j
                 PROVE  (\A k \in I : k <= i => k <= j) /\ ~(j <= i)
    OBVIOUS
  <2>2. \A k \in I : k \in Nat
    OBVIOUS
  <2>. QED  BY <2>1, <2>2
<1>. HIDE DEF Low
<1>4. \A i \in I : IsFiniteSet(Low(i)) /\ Rank[i] \in Nat /\ Rank[i] <= Cardinality(I) /\ Rank[i] # 0
  <2>1. SUFFICES ASSUME NEW i \in I
                 PROVE  IsFiniteSet(Low(i)) /\ Rank[i] \in Nat /\ Rank[i] <= Cardinality(I) /\ Rank[i] # 0
    OBVIOUS
  <2>2. IsFiniteSet(Low(i)) /\ Cardinality(Low(i)) <= Cardinality(I)
    BY <1>2, FS_Subset
  <2>3. Cardinality(Low(i)) \in Nat /\ Cardinality(Low(i)) # 0
    BY <1>2, <2>2, FS_CardinalityType, FS_EmptySet
  <2>. QED  BY <1>2, <2>2, <2>3
<1>5. \A i \in I : Rank[i] \in 1 .. Cardinality(I)
  BY <1>1, <1>4
<1>6. \A i, j \in I : i < j => Rank[i] < Rank[j]
  <2>1. SUFFICES ASSUME NEW i \in I, NEW j \in I, i < j
                 PROVE  Rank[i] < Rank[j]
    OBVIOUS
  <2>2. Low(i) \subseteq Low(j) /\ Low(i) # Low(j) /\ IsFiniteSet(Low(j))
    BY <1>2, <1>3, <1>4, <2>1
  <2>3. Cardinality(Low(i)) <= Cardinality(Low(j)) /\ Cardinality(Low(i)) # Cardinality(Low(j))
    BY <2>2, FS_Subset
  <2>. QED  BY <1>2, <1>4, <2>3
<1>7. Rank \in Injection(I, 1 .. Cardinality(I))
  <2>1. \A i, j \in I : Rank[i] = Rank[j] => i = j
    <3>1. \A i \in I : i \in Nat
      OBVIOUS
    <3>. QED  BY <1>4, <1>6, <3>1
  <2>2. Rank \in [I -> 1 .. Cardinality(I)]
    BY <1>5
  <2>. QED  BY <2>1, <2>2 DEF Injection, IsInjective
<1>8. Rank \in Surjection(I, 1 .. Cardinality(I))
  <2>1. IsFiniteSet(1 .. Cardinality(I)) /\ Cardinality(1 .. Cardinality(I)) = Cardinality(I)
    BY <1>1, FS_Interval
  <2>. QED  BY <1>7, <2>1, FS_Injection
<1>9. \A k \in 1 .. Cardinality(I) : \E i \in I : Rank[i] = k
  BY <1>8 DEF Surjection
<1>. QED  BY <1>1, <1>5, <1>6, <1>9

(* What is kept of a list, and that it stays in order.                     *)
LEMMA KeptIs ==
  ASSUME NEW S, NEW s \in Seq(S), NEW T, NEW k, k = Kept(s, T)
  PROVE  /\ k \in Seq(S)
         /\ \A n : On(n, k) <=> On(n, s) /\ n \in T
         /\ \A a, b \in 1 .. Len(k) : a < b =>
              \E i, j \in 1 .. Len(s) : i < j /\ k[a] = s[i] /\ k[b] = s[j]
<1>. DEFINE I == {i \in DOMAIN s : s[i] \in T}
            Rank == [i \in I |-> Cardinality({j \in I : j <= i})]
            At(a) == CHOOSE i \in I : Cardinality({j \in I : j <= i}) = a
<1>1. /\ Len(s) \in Nat /\ DOMAIN s = 1 .. Len(s)
      /\ \A i \in I : i \in 1 .. Len(s) /\ s[i] \in S /\ s[i] \in T
      /\ \A i \in 1 .. Len(s) : s[i] \in T => i \in I
  BY LenProperties, ElementOfSeq
<1>2. I \subseteq Nat /\ IsFiniteSet(I)
  <2>1. I \in SUBSET (1 .. Len(s)) /\ IsFiniteSet(1 .. Len(s))
    BY <1>1, FS_Interval
  <2>. HIDE DEF I
  <2>2. IsFiniteSet(I)
    BY <2>1, FS_Subset
  <2>. QED  BY <2>1, <2>2
<1>3. k = [a \in 1 .. Cardinality(I) |-> s[At(a)]]
  BY DEF Kept
<1>. HIDE DEF I
<1>4. /\ Cardinality(I) \in Nat
      /\ \A i \in I : Rank[i] \in 1 .. Cardinality(I)
      /\ \A i, j \in I : i < j => Rank[i] < Rank[j]
      /\ \A a \in 1 .. Cardinality(I) : \E i \in I : Rank[i] = a
  BY <1>2, RankIs
<1>5. \A i \in I : Rank[i] = Cardinality({j \in I : j <= i})
  OBVIOUS
<1>0. \A i \in I : i \in Nat /\ Rank[i] \in Nat
  BY <1>2, <1>4
<1>6. \A a \in 1 .. Cardinality(I) : At(a) \in I /\ Rank[At(a)] = a
  <2>1. SUFFICES ASSUME NEW a \in 1 .. Cardinality(I)
                 PROVE  At(a) \in I /\ Rank[At(a)] = a
    OBVIOUS
  <2>2. \E i \in I : Cardinality({j \in I : j <= i}) = a
    BY <1>4, <1>5
  <2>. QED  BY <2>2
<1>. HIDE DEF At, Rank
<1>7. Len(k) = Cardinality(I) /\ k \in Seq(S) /\ \A a \in 1 .. Len(k) : k[a] = s[At(a)]
  <2>1. \A a \in 1 .. Cardinality(I) : s[At(a)] \in S
    BY <1>1, <1>6
  <2>. QED  BY <1>3, <1>4, <2>1
<1>8. \A i \in I : \E a \in 1 .. Len(k) : At(a) = i
  <2>1. SUFFICES ASSUME NEW i \in I
                 PROVE  At(Rank[i]) = i
    BY <1>4, <1>7
  <2>2. At(Rank[i]) \in I /\ Rank[At(Rank[i])] = Rank[i]
    BY <1>4, <1>6
  <2>3. At(Rank[i]) \in Nat /\ i \in Nat /\ Rank[i] \in Nat
    BY <1>0, <2>2
  <2>. QED  BY <1>4, <2>2, <2>3
<1>9. \A n : On(n, k) <=> On(n, s) /\ n \in T
  BY <1>1, <1>6, <1>7, <1>8 DEF On
<1>10. ASSUME NEW a \in 1 .. Len(k), NEW b \in 1 .. Len(k), a < b
       PROVE  \E i, j \in 1 .. Len(s) : i < j /\ k[a] = s[i] /\ k[b] = s[j]
  <2>1. At(a) \in I /\ At(b) \in I /\ Rank[At(a)] < Rank[At(b)]
    BY <1>6, <1>7, <1>10
  <2>2. At(a) \in Nat /\ At(b) \in Nat /\ Rank[At(a)] \in Nat /\ Rank[At(b)] \in Nat
    BY <1>0, <2>1
  <2>3. At(a) < At(b)
    BY <1>4, <2>1, <2>2
  <2>. QED  BY <1>1, <1>7, <2>1, <2>3
<1>. QED  BY <1>7, <1>9, <1>10

(* What is kept stays in order.                                            *)
LEMMA KeptOrder ==
  ASSUME NEW S, NEW s \in Seq(S), NEW T, NEW k, k = Kept(s, T)
  PROVE  \A a, b \in 1 .. Len(k) : a < b =>
           \E i, j \in 1 .. Len(s) : i < j /\ k[a] = s[i] /\ k[b] = s[j]
BY KeptIs

(* Keeping does not double a buffer, and keeps the last one last.          *)
LEMMA KeptOnce ==
  ASSUME NEW S, NEW s \in Seq(S), NEW T, NEW k, k = Kept(s, T), Once(s)
  PROVE  /\ Once(k)
         /\ s # <<>> /\ s[Len(s)] \in T => k # <<>> /\ k[Len(k)] = s[Len(s)]
         /\ \A a \in 1 .. Len(k) - 1 : \E i \in 1 .. Len(s) - 1 : k[a] = s[i]
<1>1. /\ k \in Seq(S)
      /\ \A n : On(n, k) <=> On(n, s) /\ n \in T
      /\ \A a, b \in 1 .. Len(k) : a < b =>
              \E i, j \in 1 .. Len(s) : i < j /\ k[a] = s[i] /\ k[b] = s[j]
  <2>. HIDE DEF Once
  <2>1. k \in Seq(S)
    BY KeptIs
  <2>2. \A n : On(n, k) <=> On(n, s) /\ n \in T
    BY KeptIs
  <2>3. \A a, b \in 1 .. Len(k) : a < b =>
              \E i, j \in 1 .. Len(s) : i < j /\ k[a] = s[i] /\ k[b] = s[j]
    BY KeptIs
  <2>. QED  BY <2>1, <2>2, <2>3
<1>2. Len(s) \in Nat /\ Len(k) \in Nat
  BY <1>1, LenProperties
<1>3. Once(k)
  <2>1. ASSUME NEW a \in 1 .. Len(k), NEW b \in 1 .. Len(k), a < b, k[a] = k[b]
        PROVE  FALSE
    <3>1. PICK i \in 1 .. Len(s), j \in 1 .. Len(s) : i < j /\ k[a] = s[i] /\ k[b] = s[j]
      BY <1>1, <2>1
    <3>2. i = j
      BY <2>1, <3>1 DEF Once
    <3>. QED  BY <1>2, <3>1, <3>2
  <2>2. \A a, b \in 1 .. Len(k) : a = b \/ a < b \/ b < a
    BY <1>2
  <2>. QED  BY <2>1, <2>2 DEF Once
<1>4. ASSUME s # <<>>, s[Len(s)] \in T
      PROVE  k # <<>> /\ k[Len(k)] = s[Len(s)]
  <2>1. Len(s) \in 1 .. Len(s)
    BY <1>2, <1>4, EmptySeq
  <2>2. PICK a \in 1 .. Len(k) : k[a] = s[Len(s)]
    BY <1>1, <1>4, <2>1 DEF On
  <2>3. Len(k) \in 1 .. Len(k)
    BY <1>2
  <2>4. ~(a < Len(k))
    <3>1. SUFFICES ASSUME a < Len(k)
                   PROVE  FALSE
      OBVIOUS
    <3>2. PICK i \in 1 .. Len(s), j \in 1 .. Len(s) : i < j /\ k[a] = s[i]
      BY <1>1, <2>3, <3>1
    <3>3. i = Len(s)
      BY <2>1, <2>2, <3>2 DEF Once
    <3>. QED  BY <1>2, <3>2, <3>3
  <2>5. a = Len(k)
    BY <1>2, <2>4
  <2>6. k # <<>>
    BY <2>3, EmptySeq
  <2>. QED  BY <2>2, <2>5, <2>6
<1>5. ASSUME NEW a \in 1 .. Len(k) - 1
      PROVE  \E i \in 1 .. Len(s) - 1 : k[a] = s[i]
  <2>1. a \in 1 .. Len(k) /\ Len(k) \in 1 .. Len(k) /\ a < Len(k)
    BY <1>2
  <2>2. PICK i \in 1 .. Len(s), j \in 1 .. Len(s) : i < j /\ k[a] = s[i]
    BY <1>1, <2>1
  <2>3. i \in 1 .. Len(s) - 1
    BY <1>2, <2>2
  <2>. QED  BY <2>2, <2>3
<1>. QED  BY <1>3, <1>4, <1>5

(* What is kept before the last one was not last.                          *)
LEMMA KeptFront ==
  ASSUME NEW S, NEW s \in Seq(S), NEW T, Once(s), NEW a \in 1 .. Len(Kept(s, T)) - 1
  PROVE  \E i \in 1 .. Len(s) - 1 : Kept(s, T)[a] = s[i]
<1>1. PICK k : k = Kept(s, T)
  OBVIOUS
<1>2. \A b \in 1 .. Len(k) - 1 : \E i \in 1 .. Len(s) - 1 : k[b] = s[i]
  <2>1. s \in Seq(S) /\ Once(s) /\ k = Kept(s, T)
    BY <1>1
  <2>. QED  BY ONLY <2>1, KeptOnce
<1>. QED  BY <1>1, <1>2

(* The length of a list without doubles is the number of its buffers.      *)
LEMMA OnceLength ==
  ASSUME NEW S, NEW s \in Seq(S), Once(s), NEW R, R = {n \in S : On(n, s)}
  PROVE  IsFiniteSet(R) /\ Cardinality(R) = Len(s)
<1>1. Len(s) \in Nat /\ DOMAIN s = 1 .. Len(s) /\ s \in [1 .. Len(s) -> S]
  BY LenProperties
<1>2. \A i \in 1 .. Len(s) : s[i] \in R
  BY <1>1 DEF On
<1>3. \A n \in R : \E i \in 1 .. Len(s) : s[i] = n
  BY DEF On
<1>4. s \in [1 .. Len(s) -> R]
  BY <1>1, <1>2
<1>5. s \in Bijection(1 .. Len(s), R)
  <2>1. s \in Injection(1 .. Len(s), R)
    BY <1>1, <1>4 DEF Once, Injection, IsInjective
  <2>2. s \in Surjection(1 .. Len(s), R)
    BY <1>3, <1>4 DEF Surjection
  <2>. QED  BY <2>1, <2>2 DEF Bijection
<1>6. ExistsBijection(1 .. Len(s), R)
  BY <1>5 DEF ExistsBijection
<1>7. IsFiniteSet(1 .. Len(s)) /\ Cardinality(1 .. Len(s)) = Len(s)
  BY <1>1, FS_Interval, SMTT(30)
<1>. QED  BY <1>6, <1>7, FS_Bijection

(* The same facts, one at a time.                                          *)
LEMMA AppendOn ==
  ASSUME NEW S, NEW s \in Seq(S), NEW e \in S
  PROVE  \A n : On(n, Append(s, e)) <=> On(n, s) \/ n = e
<1>1. PICK t : t = Append(s, e)
  OBVIOUS
<1>2. /\ \A i \in 1 .. Len(s) : t[i] = s[i]
      /\ t[Len(s) + 1] = e
      /\ Len(t) = Len(s) + 1 /\ Len(s) \in Nat
  BY <1>1, AppendProperties, LenProperties
<1>3. /\ \A i \in 1 .. Len(t) : i \in 1 .. Len(s) \/ i = Len(s) + 1
      /\ \A i \in 1 .. Len(s) : i \in 1 .. Len(t) /\ i # Len(s) + 1
      /\ Len(s) + 1 \in 1 .. Len(t)
  BY <1>2
<1>4. \A n : On(n, t) <=> On(n, s) \/ n = e
  BY <1>2, <1>3 DEF On
<1>. QED  BY <1>1, <1>4

LEMMA AppendOnce ==
  ASSUME NEW S, NEW s \in Seq(S), NEW e \in S, Once(s), ~On(e, s)
  PROVE  Once(Append(s, e))
BY AppendIs

LEMMA TailOn ==
  ASSUME NEW S, NEW s \in Seq(S), s # <<>>
  PROVE  \A n : On(n, s) <=> On(n, Tail(s)) \/ n = s[1]
BY TailIs

LEMMA TailOnce ==
  ASSUME NEW S, NEW s \in Seq(S), s # <<>>, Once(s)
  PROVE  Once(Tail(s)) /\ ~On(s[1], Tail(s))
BY TailIs

LEMMA ConcatOn ==
  ASSUME NEW S, NEW s \in Seq(S), NEW t \in Seq(S)
  PROVE  \A n : On(n, s \o t) <=> On(n, s) \/ On(n, t)
BY ConcatIs

LEMMA ConcatOnce ==
  ASSUME NEW S, NEW s \in Seq(S), NEW t \in Seq(S), Once(s), Once(t),
         \A n \in S : ~(On(n, s) /\ On(n, t))
  PROVE  Once(s \o t)
BY ConcatIs

LEMMA FrontOn ==
  ASSUME NEW S, NEW s \in Seq(S), s # <<>>
  PROVE  \A n : On(n, s) <=> On(n, Front(s)) \/ n = Last(s)
BY FrontIs

LEMMA FrontOnce ==
  ASSUME NEW S, NEW s \in Seq(S), s # <<>>, Once(s)
  PROVE  Once(Front(s)) /\ ~On(Last(s), Front(s))
BY FrontIs

LEMMA EmptyList ==
  ASSUME NEW S
  PROVE  <<>> \in Seq(S) /\ Len(<<>>) = 0 /\ Once(<<>>) /\ \A n : ~On(n, <<>>)
BY DEF Once, On

-----------------------------------------------------------------------------
(* References of VI.                                                       *)

Jobs == [node : Nodes, pts : Nat, ended : BOOLEAN]

Refs(v, n) == Cardinality({i \in 1 .. Len(v) : v[i].node = n})

(* The references to a buffer are counted by the places that name it.      *)
LEMMA RefsAre ==
  ASSUME NEW v \in Seq(Jobs), NEW n
  PROVE  /\ Refs(v, n) \in 0 .. Len(v)
         /\ Refs(v, n) = 0 <=> \A i \in 1 .. Len(v) : v[i].node # n
<1>. DEFINE I == {i \in 1 .. Len(v) : v[i].node = n}
<1>1. Len(v) \in Nat
  BY LenProperties
<1>2. I \in SUBSET (1 .. Len(v)) /\ IsFiniteSet(1 .. Len(v)) /\ Cardinality(1 .. Len(v)) = Len(v)
  BY <1>1, FS_Interval, SMTT(30)
<1>3. I = {} <=> \A i \in 1 .. Len(v) : v[i].node # n
  OBVIOUS
<1>4. Refs(v, n) = Cardinality(I)
  BY DEF Refs
<1>. HIDE DEF I
<1>5. IsFiniteSet(I) /\ Cardinality(I) <= Len(v)
  BY <1>2, FS_Subset
<1>6. Cardinality(I) \in Nat /\ (Cardinality(I) = 0 <=> I = {})
  BY <1>5, FS_CardinalityType, FS_EmptySet
<1>. QED  BY <1>1, <1>3, <1>4, <1>5, <1>6

(* One more reference, put last.                                           *)
LEMMA RefsLast ==
  ASSUME NEW v \in Seq(Jobs), NEW w \in Seq(Jobs), NEW n, Len(w) = Len(v) + 1,
         \A i \in 1 .. Len(v) : w[i].node = v[i].node
  PROVE  Refs(w, n) = IF w[Len(w)].node = n THEN Refs(v, n) + 1 ELSE Refs(v, n)
<1>. DEFINE I == {i \in 1 .. Len(v) : v[i].node = n}
            J == {i \in 1 .. Len(w) : w[i].node = n}
<1>1. Len(v) \in Nat /\ Len(w) \in Nat
  BY LenProperties
<1>2. IsFiniteSet(I)
  <2>1. I \in SUBSET (1 .. Len(v)) /\ IsFiniteSet(1 .. Len(v))
    BY <1>1, FS_Interval
  <2>. HIDE DEF I
  <2>. QED  BY <2>1, FS_Subset
<1>3. Len(w) \notin I
  BY <1>1
<1>4. J = IF w[Len(w)].node = n THEN I \union {Len(w)} ELSE I
  <2>1. \A i \in 1 .. Len(w) : i \in 1 .. Len(v) \/ i = Len(w)
    BY <1>1
  <2>2. \A i \in 1 .. Len(v) : i \in 1 .. Len(w)
    BY <1>1
  <2>3. Len(w) \in 1 .. Len(w)
    BY <1>1
  <2>. QED  BY <2>1, <2>2, <2>3
<1>5. Refs(v, n) = Cardinality(I) /\ Refs(w, n) = Cardinality(J)
  BY DEF Refs
<1>. HIDE DEF I, J
<1>6. Cardinality(I \union {Len(w)}) = Cardinality(I) + 1
  BY <1>2, <1>3, FS_AddElement
<1>. QED  BY <1>4, <1>5, <1>6

(* One more reference, put first.                                          *)
LEMMA RefsFirst ==
  ASSUME NEW v \in Seq(Jobs), NEW w \in Seq(Jobs), NEW n, Len(w) = Len(v) + 1,
         \A i \in 1 .. Len(v) : w[i + 1].node = v[i].node
  PROVE  Refs(w, n) = IF w[1].node = n THEN Refs(v, n) + 1 ELSE Refs(v, n)
<1>. DEFINE I == {i \in 1 .. Len(v) : v[i].node = n}
            K == {i \in 2 .. Len(w) : w[i].node = n}
            J == {i \in 1 .. Len(w) : w[i].node = n}
            f == [i \in I |-> i + 1]
<1>1. Len(v) \in Nat /\ Len(w) \in Nat
  BY LenProperties
<1>2. IsFiniteSet(I)
  <2>1. I \in SUBSET (1 .. Len(v)) /\ IsFiniteSet(1 .. Len(v))
    BY <1>1, FS_Interval
  <2>. HIDE DEF I
  <2>. QED  BY <2>1, FS_Subset
<1>3. \A i \in I : i \in Nat /\ i + 1 \in K
  BY <1>1
<1>4. \A j \in K : j - 1 \in I /\ j = (j - 1) + 1
  <2>1. SUFFICES ASSUME NEW j \in K
                 PROVE  j - 1 \in I /\ j = (j - 1) + 1
    OBVIOUS
  <2>2. j - 1 \in 1 .. Len(v) /\ j = (j - 1) + 1
    BY <1>1
  <2>3. w[j].node = v[j - 1].node
    BY <2>2
  <2>. QED  BY <2>2, <2>3
<1>5. J = IF w[1].node = n THEN K \union {1} ELSE K
  <2>1. \A i \in 1 .. Len(w) : i \in 2 .. Len(w) \/ i = 1
    BY <1>1
  <2>2. \A i \in 2 .. Len(w) : i \in 1 .. Len(w)
    BY <1>1
  <2>3. 1 \in 1 .. Len(w)
    BY <1>1
  <2>. QED  BY <2>1, <2>2, <2>3
<1>6. 1 \notin K
  OBVIOUS
<1>7. Refs(v, n) = Cardinality(I) /\ Refs(w, n) = Cardinality(J)
  BY DEF Refs
<1>. HIDE DEF I, J, K
<1>8. f \in [I -> K] /\ \A i \in I : f[i] = i + 1
  BY <1>3
<1>9. f \in Bijection(I, K)
  <2>1. \A i, j \in I : f[i] = f[j] => i = j
    BY <1>3, <1>8
  <2>2. \A j \in K : \E i \in I : f[i] = j
    BY <1>4, <1>8
  <2>3. f \in Injection(I, K)
    BY <1>8, <2>1 DEF Injection, IsInjective
  <2>4. f \in Surjection(I, K)
    BY <1>8, <2>2 DEF Surjection
  <2>. QED  BY <2>3, <2>4 DEF Bijection
<1>10. IsFiniteSet(K) /\ Cardinality(K) = Cardinality(I)
  <2>1. ExistsBijection(I, K)
    BY <1>9 DEF ExistsBijection
  <2>. QED  BY <1>2, <2>1, FS_Bijection
<1>11. Cardinality(K \union {1}) = Cardinality(K) + 1
  BY <1>6, <1>10, FS_AddElement
<1>. QED  BY <1>5, <1>7, <1>10, <1>11

(* References do not depend on what else is known of a job.                *)
LEMMA RefsSame ==
  ASSUME NEW v, NEW w, NEW n, Len(w) = Len(v),
         \A i \in 1 .. Len(v) : w[i].node = v[i].node
  PROVE  Refs(w, n) = Refs(v, n)
<1>1. {i \in 1 .. Len(w) : w[i].node = n} = {i \in 1 .. Len(v) : v[i].node = n}
  OBVIOUS
<1>. QED  BY <1>1 DEF Refs

(* VI has its buffers in the order of the busy list.                       *)
Ordered(v, b) ==
  \A i, j \in 1 .. Len(v) : i < j =>
    \A a, c \in 1 .. Len(b) : b[a] = v[i].node /\ b[c] = v[j].node => a <= c

(* A job on the last busy buffer joins at the end.                         *)
LEMMA OrderedGet ==
  ASSUME NEW v \in Seq(Jobs), NEW b \in Seq(Nodes), Ordered(v, b), Once(b),
         NEW w \in Seq(Jobs), Len(w) = Len(v) + 1, \A i \in 1 .. Len(v) : w[i].node = v[i].node,
         w[Len(w)].node = b[Len(b)]
  PROVE  Ordered(w, b)
<1>1. Len(v) \in Nat /\ Len(w) \in Nat /\ Len(b) \in Nat /\ Len(w) = Len(v) + 1
  BY LenProperties
<1>2. SUFFICES ASSUME NEW i \in 1 .. Len(w), NEW j \in 1 .. Len(w), i < j,
                      NEW a \in 1 .. Len(b), NEW c \in 1 .. Len(b),
                      b[a] = w[i].node, b[c] = w[j].node
               PROVE  a <= c
  BY DEF Ordered
<1>3. i \in 1 .. Len(v) /\ (j \in 1 .. Len(v) \/ j = Len(w))
  BY ONLY <1>1, <1>2
<1>4. CASE j = Len(w)
  <2>1. Len(b) \in 1 .. Len(b)
    BY <1>1
  <2>2. c = Len(b)
    BY <1>2, <1>4, <2>1 DEF Once
  <2>. QED  BY <1>1, <2>2
<1>5. CASE j \in 1 .. Len(v)
  BY <1>2, <1>3, <1>5 DEF Ordered
<1>. QED  BY <1>3, <1>4, <1>5

(* The first reference is put, or doubled.                                 *)
LEMMA OrderedPut ==
  ASSUME NEW v \in Seq(Jobs), NEW b, NEW w \in Seq(Jobs), Ordered(w, b), Len(w) = Len(v) + 1,
         \A i \in 1 .. Len(v) : v[i].node = w[i + 1].node
  PROVE  Ordered(v, b)
<1>1. Len(v) \in Nat /\ Len(w) \in Nat
  BY LenProperties
<1>2. SUFFICES ASSUME NEW i \in 1 .. Len(v), NEW j \in 1 .. Len(v), i < j,
                      NEW a \in 1 .. Len(b), NEW c \in 1 .. Len(b),
                      b[a] = v[i].node, b[c] = v[j].node
               PROVE  a <= c
  BY DEF Ordered
<1>3. i + 1 \in 1 .. Len(w) /\ j + 1 \in 1 .. Len(w) /\ i + 1 < j + 1
  BY <1>1, <1>2
<1>4. b[a] = w[i + 1].node /\ b[c] = w[j + 1].node
  BY <1>2
<1>. QED  BY <1>2, <1>3, <1>4 DEF Ordered

(* The first reference is doubled, at the head.                            *)
LEMMA OrderedHold ==
  ASSUME NEW v \in Seq(Jobs), v # <<>>, NEW b \in Seq(Nodes), Ordered(v, b), Once(b),
         NEW w \in Seq(Jobs), Len(w) = Len(v) + 1, w[1].node = v[1].node,
         \A i \in 1 .. Len(v) : w[i + 1].node = v[i].node
  PROVE  Ordered(w, b)
<1>1. Len(v) \in Nat /\ Len(w) \in Nat /\ Len(b) \in Nat /\ 1 \in 1 .. Len(v)
  BY LenProperties, EmptySeq
<1>2. SUFFICES ASSUME NEW i \in 1 .. Len(w), NEW j \in 1 .. Len(w), i < j,
                      NEW a \in 1 .. Len(b), NEW c \in 1 .. Len(b),
                      b[a] = w[i].node, b[c] = w[j].node
               PROVE  a <= c
  BY DEF Ordered
<1>3. PICK k : k = j - 1
  OBVIOUS
<1>4. k \in 1 .. Len(v) /\ w[j].node = v[k].node
  <2>1. k \in 1 .. Len(v) /\ k + 1 = j
    BY <1>1, <1>2, <1>3
  <2>. QED  BY <2>1
<1>5. CASE i = 1
  <2>1. CASE k = 1
    <3>1. a = c
      BY <1>2, <1>4, <1>5, <2>1 DEF Once
    <3>. QED  BY <1>1, <3>1
  <2>2. CASE k # 1
    <3>1. 1 < k
      BY <1>4, <2>2
    <3>. QED  BY <1>1, <1>2, <1>4, <1>5, <3>1 DEF Ordered
  <2>. QED  BY <2>1, <2>2
<1>6. CASE i # 1
  <2>1. PICK l : l = i - 1
    OBVIOUS
  <2>2. l \in 1 .. Len(v) /\ l + 1 = i /\ l < k
    BY <1>1, <1>2, <1>3, <1>6, <2>1, SMTT(30)
  <2>3. w[i].node = v[l].node
    BY <2>2
  <2>. QED  BY <1>2, <1>4, <2>2, <2>3 DEF Ordered
<1>. QED  BY <1>5, <1>6

(* Buffers are taken off the list, or one is published that VI has not.    *)
LEMMA OrderedKept ==
  ASSUME NEW v \in Seq(Jobs), NEW b \in Seq(Nodes), Ordered(v, b), Once(b), NEW T,
         NEW k, k = Kept(b, T)
  PROVE  Ordered(v, k)
<1>1. k \in Seq(Nodes)
  BY KeptIs
<1>2. \A a, c \in 1 .. Len(k) : a < c =>
        \E i, j \in 1 .. Len(b) : i < j /\ k[a] = b[i] /\ k[c] = b[j]
  <2>1. PICK s : s = b
    OBVIOUS
  <2>2. s \in Seq(Nodes) /\ k = Kept(s, T)
    BY <2>1
  <2>3. \A x, y \in 1 .. Len(k) : x < y =>
          \E i, j \in 1 .. Len(s) : i < j /\ k[x] = s[i] /\ k[y] = s[j]
    BY ONLY <2>2, KeptOrder
  <2>. QED  BY <2>1, <2>3
<1>3. SUFFICES ASSUME NEW i \in 1 .. Len(v), NEW j \in 1 .. Len(v), i < j,
                      NEW a \in 1 .. Len(k), NEW c \in 1 .. Len(k),
                      k[a] = v[i].node, k[c] = v[j].node, c < a
               PROVE  FALSE
  <2>1. \A a, c \in 1 .. Len(k) : ~(c < a) => a <= c
    BY <1>1, LenProperties
  <2>. QED  BY <2>1 DEF Ordered
<1>4. PICK e \in 1 .. Len(b), f \in 1 .. Len(b) : e < f /\ k[c] = b[e] /\ k[a] = b[f]
  BY <1>2, <1>3
<1>5. f <= e
  BY <1>3, <1>4 DEF Ordered
<1>. QED  BY <1>4, <1>5, LenProperties

(* A buffer is published that VI does not have.                            *)
LEMMA OrderedPublish ==
  ASSUME NEW v \in Seq(Jobs), NEW b \in Seq(Nodes), Ordered(v, b), NEW e \in Nodes,
         \A i \in 1 .. Len(v) : v[i].node # e, NEW c, c = Append(b, e)
  PROVE  Ordered(v, c)
<1>1. /\ Len(b) \in Nat /\ Len(c) = Len(b) + 1 /\ c[Len(b) + 1] = e
      /\ \A i \in 1 .. Len(b) : c[i] = b[i]
  BY AppendProperties, LenProperties
<1>2. SUFFICES ASSUME NEW i \in 1 .. Len(v), NEW j \in 1 .. Len(v), i < j,
                      NEW x \in 1 .. Len(c), NEW y \in 1 .. Len(c),
                      c[x] = v[i].node, c[y] = v[j].node
               PROVE  x <= y
  BY DEF Ordered
<1>3. x # Len(b) + 1 /\ y # Len(b) + 1
  BY <1>1, <1>2
<1>4. x \in 1 .. Len(b) /\ y \in 1 .. Len(b)
  BY <1>1, <1>3
<1>. QED  BY <1>1, <1>2, <1>4 DEF Ordered

(* The frame in process is doubled, the second time as ended.              *)
Doubled(v) == <<Head(v), [Head(v) EXCEPT !.ended = TRUE]>> \o Tail(v)

(* An entry of two lists put together.                                     *)
LEMMA ConcatAt ==
  ASSUME NEW S, NEW s \in Seq(S), NEW t \in Seq(S), NEW j \in 1 .. Len(s) + Len(t)
  PROVE  (s \o t)[j] = IF j <= Len(s) THEN s[j] ELSE t[j - Len(s)]
BY ConcatProperties

(* It is the first two entries, and the others follow.                     *)
LEMMA DoubledHead ==
  ASSUME NEW v \in Seq(Jobs), v # <<>>, NEW w, w = Doubled(v)
  PROVE  /\ w \in Seq(Jobs) /\ Len(w) = Len(v) + 1 /\ Len(v) \in Nat \ {0}
         /\ w[1] = v[1] /\ w[2] = [v[1] EXCEPT !.ended = TRUE]
         /\ v[1] \in Jobs
<1>1. /\ Tail(v) \in Seq(Jobs) /\ Len(v) = Len(Tail(v)) + 1 /\ Len(Tail(v)) \in Nat
      /\ Head(v) = v[1] /\ v[1] \in Jobs
  BY TailIs
<1>2. PICK t : t = Tail(v)
  OBVIOUS
<1>3. PICK e : e = [Head(v) EXCEPT !.ended = TRUE]
  OBVIOUS
<1>4. e \in Jobs
  BY <1>1, <1>3 DEF Jobs
<1>5. PICK d : d = <<Head(v), e>>
  OBVIOUS
<1>6. d \in Seq(Jobs) /\ Len(d) = 2
  BY <1>1, <1>4, <1>5
<1>12. d[1] = v[1] /\ d[2] = e
  BY <1>1, <1>5
<1>7. w = d \o t
  BY <1>2, <1>3, <1>5 DEF Doubled
<1>8. w \in Seq(Jobs) /\ Len(w) = Len(d) + Len(t)
  BY <1>1, <1>2, <1>6, <1>7, ConcatProperties, ZenonT(60)
<1>9. Len(t) \in Nat /\ Len(v) = Len(t) + 1 /\ Len(d) = 2
  BY <1>1, <1>2, <1>6
<1>10. w[1] = d[1] /\ w[2] = d[2]
  <2>1. t \in Seq(Jobs) /\ 1 \in 1 .. Len(d) + Len(t) /\ 2 \in 1 .. Len(d) + Len(t)
    BY <1>1, <1>2, <1>9
  <2>2. (d \o t)[1] = d[1]
    BY <1>6, <2>1, ConcatAt
  <2>3. (d \o t)[2] = d[2]
    <3>1. PICK j : j = 2
      OBVIOUS
    <3>2. j \in 1 .. Len(d) + Len(t) /\ j <= Len(d) /\ d \in Seq(Jobs)
      BY <1>6, <2>1, <3>1
    <3>3. (d \o t)[j] = d[j]
      BY <2>1, <3>2, ConcatAt
    <3>. QED  BY <3>1, <3>3
  <2>. QED  BY <1>7, <2>2, <2>3
<1>. QED  BY <1>1, <1>3, <1>8, <1>9, <1>10, <1>12

(* What is behind the head is found one place further.                     *)
LEMMA DoubledTail ==
  ASSUME NEW v \in Seq(Jobs), v # <<>>, NEW i \in 2 .. Len(v)
  PROVE  Doubled(v)[i + 1] = v[i]
<1>1. /\ Tail(v) \in Seq(Jobs) /\ Len(v) = Len(Tail(v)) + 1 /\ Len(Tail(v)) \in Nat
      /\ \A k \in 1 .. Len(Tail(v)) : Tail(v)[k] = v[k + 1]
      /\ Head(v) = v[1] /\ v[1] \in Jobs
  BY TailIs
<1>2. PICK t : t = Tail(v)
  OBVIOUS
<1>3. PICK e : e = [Head(v) EXCEPT !.ended = TRUE]
  OBVIOUS
<1>4. e \in Jobs
  BY <1>1, <1>3 DEF Jobs
<1>5. PICK d : d = <<Head(v), e>>
  OBVIOUS
<1>6. d \in Seq(Jobs) /\ Len(d) = 2
  BY <1>1, <1>4, <1>5
<1>7. PICK w : w = Doubled(v)
  OBVIOUS
<1>8. w = d \o t
  BY <1>2, <1>3, <1>5, <1>7 DEF Doubled
<1>9. \A j \in 1 .. Len(d) + Len(t) : w[j] = IF j <= Len(d) THEN d[j] ELSE t[j - Len(d)]
  BY <1>1, <1>2, <1>6, <1>8, ConcatProperties
<1>10. PICK k : k = i - 1
  OBVIOUS
<1>11. Len(t) \in Nat /\ Len(v) = Len(t) + 1 /\ Len(d) = 2
  BY <1>1, <1>2, <1>6
<1>12. /\ k \in 1 .. Len(t) /\ k + 1 = i
       /\ i + 1 \in 1 .. Len(d) + Len(t) /\ ~(i + 1 <= Len(d)) /\ (i + 1) - Len(d) = k
  BY <1>10, <1>11
<1>13. w[i + 1] = t[k]
  BY <1>9, <1>12
<1>. QED  BY <1>1, <1>2, <1>7, <1>12, <1>13

(* Each reference is found one place further.                              *)
LEMMA DoubledNext ==
  ASSUME NEW v \in Seq(Jobs), v # <<>>, NEW i \in 1 .. Len(v)
  PROVE  Doubled(v)[i + 1].node = v[i].node /\ Doubled(v)[i + 1].pts = v[i].pts
<1>1. CASE i = 1
  <2>1. PICK w : w = Doubled(v)
    OBVIOUS
  <2>2. w[2] = [v[1] EXCEPT !.ended = TRUE] /\ v[1] \in Jobs
    BY <2>1, DoubledHead
  <2>3. w[2].node = v[1].node /\ w[2].pts = v[1].pts
    BY <2>2 DEF Jobs
  <2>. QED  BY <1>1, <2>1, <2>3
<1>2. CASE i # 1
  <2>1. i \in 2 .. Len(v)
    BY <1>2, LenProperties
  <2>. QED  BY <2>1, DoubledTail
<1>. QED  BY <1>1, <1>2

(* Ending the frame in process changes only its flag.                      *)
LEMMA EndedIs ==
  ASSUME NEW v \in Seq(Jobs), v # <<>>, NEW w, w = [v EXCEPT ![1].ended = TRUE]
  PROVE  /\ w \in Seq(Jobs) /\ Len(w) = Len(v) /\ Len(v) \in Nat \ {0}
         /\ w[1] = [v[1] EXCEPT !.ended = TRUE]
         /\ \A i \in 2 .. Len(v) : w[i] = v[i]
         /\ \A i \in 1 .. Len(v) : w[i].node = v[i].node /\ w[i].pts = v[i].pts
<1>1. Len(v) \in Nat \ {0} /\ 1 \in 1 .. Len(v) /\ v[1] \in Jobs
  BY LenProperties, EmptySeq, ElementOfSeq
<1>2. PICK e : e = [v[1] EXCEPT !.ended = TRUE]
  OBVIOUS
<1>3. e \in Jobs /\ e.node = v[1].node /\ e.pts = v[1].pts
  BY <1>1, <1>2 DEF Jobs
<1>4. w = [v EXCEPT ![1] = e]
  BY <1>2
<1>5. /\ w \in Seq(Jobs) /\ Len(w) = Len(v)
      /\ \A j \in 1 .. Len(v) : w[j] = IF j = 1 THEN e ELSE v[j]
  <2>. DEFINE x == [v EXCEPT ![1] = e]
  <2>1. x \in Seq(Jobs) /\ Len(x) = Len(v)
    BY <1>1, <1>3, ExceptSeq
  <2>2. \A j \in 1 .. Len(v) : x[j] = IF j = 1 THEN e ELSE v[j]
    BY <1>1, <1>3, ExceptSeq
  <2>. QED  BY <1>4, <2>1, <2>2
<1>6. \A i \in 2 .. Len(v) : i \in 1 .. Len(v) /\ i # 1
  BY <1>1
<1>. QED  BY <1>1, <1>2, <1>3, <1>5, <1>6

(* Ending keeps the time stamps.                                           *)
LEMMA EndedPts ==
  ASSUME NEW v \in Seq(Jobs), v # <<>>, NEW w, w = [v EXCEPT ![1].ended = TRUE]
  PROVE  \A i \in 1 .. Len(v) : w[i].pts = v[i].pts
<1>1. \A i \in 1 .. Len(v) : w[i].node = v[i].node /\ w[i].pts = v[i].pts
  BY EndedIs
<1>. QED  BY <1>1

(* Ending changes nothing behind the head.                                 *)
LEMMA EndedTail ==
  ASSUME NEW v \in Seq(Jobs), v # <<>>, NEW w, w = [v EXCEPT ![1].ended = TRUE]
  PROVE  \A i \in 1 .. Len(v) : i # 1 => w[i] = v[i]
<1>1. \A i \in 2 .. Len(v) : w[i] = v[i]
  BY EndedIs
<1>2. \A i \in 1 .. Len(v) : i # 1 => i \in 2 .. Len(v)
  BY LenProperties
<1>. QED  BY <1>1, <1>2

(* Membership in a list is being on it.                                    *)
LEMMA SetOf ==
  ASSUME NEW S, NEW s \in Seq(S), NEW n
  PROVE  n \in ToSet(s) <=> On(n, s)
<1>1. DOMAIN s = 1 .. Len(s)
  BY LenProperties
<1>. QED  BY <1>1 DEF ToSet, On

(* What the constants of the queue are.                                    *)
LEMMA NodesAre ==
  /\ Cardinality(Nodes) \in Nat /\ Cardinality(Nodes) >= 2
  /\ Nodes = 1 .. Cardinality(Nodes) /\ NoNode \notin Nodes
  /\ MaxJobs \in Nat
BY BeBufConstants, FS_CardinalityType DEF BeBufConstants

-----------------------------------------------------------------------------
(* The inductive invariant: the queue of configuration buffers.            *)

BeTypes ==
  /\ be_init \in BOOLEAN /\ exit_state \in {"READY", "WAITING", "EXIT"}
  /\ free_list \in Seq(Nodes) /\ busy_list \in Seq(Nodes)
  /\ use_node \in Nodes \union {NoNode} /\ newest \in Nodes \union {NoNode}
  /\ hold_cnt \in [Nodes -> 0 .. MaxJobs] /\ use_cnt \in 0 .. MaxJobs
  /\ vi \in Seq(Jobs) /\ Len(vi) <= MaxJobs
  /\ recalled \in BOOLEAN /\ leaked \in BOOLEAN

(* A buffer is in one place at most; if none was lost, in one exactly.     *)
Placed ==
  /\ Once(free_list) /\ Once(busy_list)
  /\ \A n \in Nodes : /\ ~(On(n, free_list) /\ On(n, busy_list))
                      /\ n = use_node => ~On(n, free_list) /\ ~On(n, busy_list)

Accounted ==
  be_init /\ ~leaked =>
    \A n \in Nodes : On(n, free_list) \/ On(n, busy_list) \/ n = use_node

(* The counters never exceed the references; a buffer off the busy list is *)
(* not held.                                                               *)
Counts ==
  /\ be_init <=> exit_state # "EXIT"
  /\ use_cnt <= Len(vi)
  /\ ~be_init => use_cnt = 0
  /\ be_init => \A n \in Nodes : /\ hold_cnt[n] <= Refs(vi, n)
                                 /\ ~On(n, busy_list) => hold_cnt[n] = 0

(* Without a recall the counters are the references, VI works only with    *)
(* busy buffers and has them in the order of the list, and every busy      *)
(* buffer but the last is held.                                            *)
Trusted ==
  ~recalled =>
    /\ use_cnt = Len(vi)
    /\ ~be_init => vi = <<>>
    /\ be_init => \A n \in Nodes : hold_cnt[n] = Refs(vi, n)
    /\ \A i \in 1 .. Len(vi) : On(vi[i].node, busy_list)
    /\ Ordered(vi, busy_list)
    /\ be_init => \A a \in 1 .. Len(busy_list) - 1 : Held(busy_list[a])

Queue == BeTypes /\ Placed /\ Accounted /\ Counts /\ Trusted

-----------------------------------------------------------------------------
(* The operations of the queue preserve it.                                *)

(* An uninitialised pipe has an empty queue.                               *)
LEMMA QueueInit ==
  ASSUME BeInit
  PROVE  Queue
<1>1. <<>> \in Seq(Nodes) /\ <<>> \in Seq(Jobs) /\ Len(<<>>) = 0
  BY EmptySeq
<1>2. \A n : ~On(n, <<>>)
  BY <1>1 DEF On
<1>3. Once(<<>>)
  BY <1>1 DEF Once
<1>4. BeTypes
  <2>1. hold_cnt \in [Nodes -> 0 .. MaxJobs] /\ use_cnt \in 0 .. MaxJobs
    BY NodesAre DEF BeInit, NoHold
  <2>2. free_list \in Seq(Nodes) /\ busy_list \in Seq(Nodes) /\ vi \in Seq(Jobs) /\ Len(vi) = 0
    BY <1>1 DEF BeInit
  <2>3. use_node \in Nodes \union {NoNode} /\ newest \in Nodes \union {NoNode} /\ Len(vi) <= MaxJobs
    BY <2>2, NodesAre DEF BeInit
  <2>4. /\ be_init \in BOOLEAN /\ exit_state \in {"READY", "WAITING", "EXIT"}
        /\ recalled \in BOOLEAN /\ leaked \in BOOLEAN
    BY DEF BeInit
  <2>. QED  BY <2>1, <2>2, <2>3, <2>4 DEF BeTypes
<1>5. Placed /\ Accounted
  BY <1>2, <1>3 DEF BeInit, Placed, Accounted
<1>6. Counts
  BY <1>1 DEF BeInit, Counts
<1>7. Trusted
  BY <1>1 DEF BeInit, Trusted, Ordered
<1>. QED  BY <1>4, <1>5, <1>6, <1>7 DEF Queue

(* A step that leaves the queue alone preserves it.                        *)
LEMMA QueueSame ==
  ASSUME Queue, UNCHANGED beVars
  PROVE  Queue'
BY DEF Queue, BeTypes, Placed, Accounted, Counts, Trusted, Held, beVars

(* Initialisation: buffer 1 is published, the others are free.             *)
LEMMA QueueBufInit ==
  ASSUME Queue, BeBufInit
  PROVE  Queue'
<1>. DEFINE C == Cardinality(Nodes)
<1>1. C \in Nat /\ C >= 2 /\ Nodes = 1 .. C
  BY NodesAre
<1>2. /\ ~be_init /\ be_init' /\ busy_list' = <<1>>
      /\ free_list' = [i \in 1 .. C - 1 |-> i + 1]
      /\ use_node' = NoNode /\ newest' = 1 /\ exit_state' = "READY"
      /\ hold_cnt' = [n \in Nodes |-> 0]
      /\ UNCHANGED <<use_cnt, vi, recalled, leaked>>
  BY DEF BeBufInit, NoHold
<1>. HIDE DEF C
<1>3. /\ free_list' \in Seq(Nodes) /\ Len(free_list') = C - 1
      /\ \A i \in 1 .. C - 1 : free_list'[i] = i + 1
  <2>1. C - 1 \in Nat /\ \A i \in 1 .. C - 1 : i + 1 \in Nodes
    BY <1>1
  <2>. QED  BY <1>2, <2>1
<1>4. busy_list' \in Seq(Nodes) /\ Len(busy_list') = 1 /\ busy_list'[1] = 1
  BY <1>1, <1>2
<1>5. \A n : On(n, busy_list') <=> n = 1
  BY <1>4 DEF On
<1>6. \A n \in Nodes : On(n, free_list') <=> n # 1
  <2>1. ASSUME NEW n \in Nodes, n # 1
        PROVE  On(n, free_list')
    <3>1. n - 1 \in 1 .. C - 1 /\ (n - 1) + 1 = n
      BY <1>1, <2>1
    <3>. QED  BY <1>3, <3>1 DEF On
  <2>2. ~On(1, free_list')
    BY <1>1, <1>3 DEF On
  <2>. QED  BY <2>1, <2>2
<1>7. BeTypes'
  BY <1>1, <1>2, <1>3, <1>4, NodesAre DEF Queue, BeTypes
<1>8. Placed'
  <2>1. Once(free_list')
    BY <1>1, <1>3 DEF Once
  <2>2. Once(busy_list')
    BY <1>4 DEF Once
  <2>. QED  BY <1>2, <1>5, <1>6, <2>1, <2>2, NodesAre DEF Placed
<1>9. Accounted'
  BY <1>5, <1>6 DEF Accounted
<1>10. \A n \in Nodes : Refs(vi, n) \in Nat
  BY RefsAre DEF Queue, BeTypes
<1>11. Counts'
  BY <1>2, <1>10, NodesAre DEF Queue, Counts, BeTypes
<1>12. Trusted'
  <2>1. SUFFICES ASSUME ~recalled'
                 PROVE  Trusted'
    BY DEF Trusted
  <2>2. vi = <<>> /\ use_cnt = Len(vi) /\ vi' = <<>> /\ Len(vi) = 0
    BY <1>2, <2>1, EmptySeq DEF Queue, Trusted
  <2>3. \A n \in Nodes : Refs(vi', n) = 0
    <3>1. vi \in Seq(Jobs) /\ Len(vi) = 0
      BY <2>2 DEF Queue, BeTypes
    <3>2. ASSUME NEW n \in Nodes
          PROVE  Refs(vi, n) = 0
      <4>1. Refs(vi, n) = 0 <=> \A i \in 1 .. Len(vi) : vi[i].node # n
        BY <3>1, RefsAre
      <4>. QED  BY <3>1, <4>1
    <3>. QED  BY <2>2, <3>2
  <2>. QED  BY <1>2, <1>4, <2>2, <2>3 DEF Trusted, Ordered
<1>. QED  BY <1>7, <1>8, <1>9, <1>11, <1>12 DEF Queue

(* Publishing: what nobody holds is free again, and the list stays in      *)
(* order.                                                                  *)
LEMMA QueueCtl ==
  ASSUME Queue, BeBufCtl
  PROVE  Queue'
<1>1. CASE use_node = NoNode
  <2>1. UNCHANGED beVars
    BY <1>1 DEF BeBufCtl, beVars
  <2>. QED  BY <2>1, QueueSame
<1>2. CASE use_node # NoNode
  <2>. DEFINE kh == Kept(busy_list, HeldNodes)
              kf == Kept(busy_list, Nodes \ HeldNodes)
  <2>1. /\ be_init /\ free_list' = free_list \o kf /\ busy_list' = Append(kh, use_node)
        /\ newest' = use_node /\ use_node' = NoNode /\ use_node \in Nodes
        /\ UNCHANGED <<be_init, hold_cnt, use_cnt, exit_state, vi, recalled, leaked>>
    BY <1>2 DEF BeBufCtl, Queue, BeTypes
  <2>2. free_list \in Seq(Nodes) /\ busy_list \in Seq(Nodes) /\ Once(free_list) /\ Once(busy_list)
    BY DEF Queue, BeTypes, Placed
  <2>3. /\ kh \in Seq(Nodes) /\ kf \in Seq(Nodes)
        /\ \A n : On(n, kh) <=> On(n, busy_list) /\ n \in HeldNodes
        /\ \A n : On(n, kf) <=> On(n, busy_list) /\ n \in Nodes \ HeldNodes
    <3>1. kh \in Seq(Nodes) /\ \A n : On(n, kh) <=> On(n, busy_list) /\ n \in HeldNodes
      BY <2>2, KeptIs
    <3>2. kf \in Seq(Nodes) /\ \A n : On(n, kf) <=> On(n, busy_list) /\ n \in Nodes \ HeldNodes
      BY <2>2, KeptIs
    <3>. QED  BY <3>1, <3>2
  <2>4. Once(kh) /\ Once(kf) /\ (~recalled => Ordered(vi, kh))
    <3>1. Once(kh)
      BY <2>2, KeptOnce
    <3>2. Once(kf)
      BY <2>2, KeptOnce
    <3>3. ~recalled => Ordered(vi, kh)
      BY <2>2, OrderedKept DEF Queue, BeTypes, Trusted
    <3>. QED  BY <3>1, <3>2, <3>3 DEF Queue, BeTypes
  <2>. HIDE DEF kh, kf
  <2>5. \A n \in Nodes : hold_cnt[n] \in Nat /\ (n \in HeldNodes <=> Held(n)) /\ (Held(n) <=> hold_cnt[n] > 0)
    BY DEF Queue, BeTypes, HeldNodes, Held
  <2>6. /\ \A n \in Nodes : ~(On(n, free_list) /\ On(n, busy_list))
        /\ ~On(use_node, free_list) /\ ~On(use_node, busy_list) /\ ~On(use_node, kh)
    BY <2>1, <2>3 DEF Queue, Placed
  <2>7. /\ free_list' \in Seq(Nodes)
        /\ \A n : On(n, free_list') <=> On(n, free_list) \/ On(n, kf)
        /\ Once(free_list')
    <3>1. \A n \in Nodes : ~(On(n, free_list) /\ On(n, kf))
      BY <2>3, <2>6
    <3>2. /\ free_list' \in Seq(Nodes)
          /\ \A n : On(n, free_list') <=> On(n, free_list) \/ On(n, kf)
      BY <2>1, <2>2, <2>3, ConcatProperties, ConcatOn
    <3>3. Once(free_list')
      BY <2>1, <2>2, <2>3, <2>4, <3>1, ConcatOnce
    <3>. QED  BY <3>2, <3>3
  <2>8. /\ busy_list' \in Seq(Nodes) /\ Len(busy_list') = Len(kh) + 1
        /\ \A i \in 1 .. Len(kh) : busy_list'[i] = kh[i]
        /\ \A n : On(n, busy_list') <=> On(n, kh) \/ n = use_node
        /\ Once(busy_list')
    <3>1. /\ busy_list' \in Seq(Nodes) /\ Len(busy_list') = Len(kh) + 1
          /\ \A i \in 1 .. Len(kh) : busy_list'[i] = kh[i]
      BY <2>1, <2>3, AppendIs
    <3>2. \A n : On(n, busy_list') <=> On(n, kh) \/ n = use_node
      BY <2>1, <2>3, AppendOn
    <3>3. Once(busy_list')
      BY <2>1, <2>3, <2>4, <2>6, AppendOnce
    <3>. QED  BY <3>1, <3>2, <3>3
  <2>9. BeTypes'
    BY <2>1, <2>7, <2>8 DEF Queue, BeTypes
  <2>10. Placed'
    BY <2>1, <2>3, <2>6, <2>7, <2>8, NodesAre DEF Placed
  <2>11. Accounted'
    BY <2>1, <2>3, <2>7, <2>8 DEF Accounted, Queue
  <2>12. Counts'
    <3>1. \A n \in Nodes : ~On(n, busy_list') => hold_cnt[n] = 0
      BY <2>1, <2>3, <2>5, <2>8 DEF Queue, Counts
    <3>. QED  BY <2>1, <3>1 DEF Queue, Counts
  <2>13. ASSUME ~recalled
         PROVE  Trusted'
    <3>1. /\ \A n \in Nodes : hold_cnt[n] = Refs(vi, n)
          /\ \A i \in 1 .. Len(vi) : On(vi[i].node, busy_list)
      BY <2>1, <2>13 DEF Queue, Trusted
    <3>2. \A i \in 1 .. Len(vi) : vi[i].node \in Nodes /\ Held(vi[i].node)
      <4>1. SUFFICES ASSUME NEW i \in 1 .. Len(vi)
                     PROVE  vi[i].node \in Nodes /\ Held(vi[i].node)
        OBVIOUS
      <4>2. vi \in Seq(Jobs)
        BY DEF Queue, BeTypes
      <4>4. vi[i] \in Jobs
        BY <4>2, ElementOfSeq
      <4>5. vi[i].node \in Nodes
        BY <4>4 DEF Jobs
      <4>3. Refs(vi, vi[i].node) # 0
        BY <4>2, RefsAre
      <4>. QED  BY <2>5, <3>1, <4>3, <4>5
    <3>3. \A i \in 1 .. Len(vi) : On(vi[i].node, busy_list') /\ vi[i].node # use_node
      BY <2>3, <2>5, <2>6, <2>8, <3>1, <3>2
    <3>4. Ordered(vi, busy_list')
      BY <2>1, <2>3, <2>4, <2>13, <3>3, OrderedPublish DEF Queue, BeTypes
    <3>5. \A a \in 1 .. Len(busy_list') - 1 : Held(busy_list'[a])
      <4>1. SUFFICES ASSUME NEW a \in 1 .. Len(kh)
                     PROVE  Held(kh[a])
        BY <2>3, <2>8, LenProperties
      <4>2. kh[a] \in Nodes /\ On(kh[a], kh)
        BY <2>3, ElementOfSeq DEF On
      <4>. QED  BY <2>3, <2>5, <4>2
    <3>6. \A a \in 1 .. Len(busy_list') - 1 : Held(busy_list[a])'
      BY <2>1, <3>5 DEF Held
    <3>. QED  BY <2>1, <2>13, <3>1, <3>3, <3>4, <3>6 DEF Queue, Trusted
  <2>14. Trusted'
    BY <2>1, <2>13 DEF Trusted
  <2>. QED  BY <2>9, <2>10, <2>11, <2>12, <2>14 DEF Queue
<1>. QED  BY <1>1, <1>2

(* A mode switch takes every buffer back and fills the last one again.     *)
LEMMA QueueGetLast ==
  ASSUME Queue, GetBeLastBuf
  PROVE  Queue'
<1>1. /\ free_list \in Seq(Nodes) /\ busy_list \in Seq(Nodes) /\ vi \in Seq(Jobs)
      /\ Once(free_list) /\ Once(busy_list) /\ be_init
      /\ \A n \in Nodes : ~(On(n, free_list) /\ On(n, busy_list))
      /\ use_node \in Nodes \union {NoNode}
      /\ hold_cnt \in [Nodes -> 0 .. MaxJobs]
  BY DEF Queue, BeTypes, Placed, GetBeLastBuf
<1>2. PICK all : all = free_list \o busy_list
  OBVIOUS
<1>3. all \in Seq(Nodes)
  BY <1>1, <1>2, ConcatProperties
<1>4. \A n : On(n, all) <=> On(n, free_list) \/ On(n, busy_list)
  BY <1>1, <1>2, ConcatOn
<1>5. Once(all)
  BY <1>1, <1>2, ConcatOnce
<1>6. /\ free_list' \in Seq(Nodes) /\ Once(free_list') /\ use_node' \in Nodes
      /\ ~On(use_node', free_list')
      /\ \A n \in Nodes : On(n, free_list') \/ n = use_node' <=>
                            On(n, free_list) \/ On(n, busy_list) \/ n = use_node
  <2>1. CASE use_node = NoNode
    <3>1. all # <<>> /\ use_node' = Last(all) /\ free_list' = Front(all)
      BY <1>2, <2>1 DEF GetBeLastBuf
    <3>2. free_list' \in Seq(Nodes) /\ Last(all) \in Nodes
      BY <1>3, <3>1, FrontIs
    <3>3. \A n : On(n, all) <=> On(n, free_list') \/ n = Last(all)
      BY <1>3, <3>1, FrontOn
    <3>4. Once(free_list') /\ ~On(Last(all), free_list')
      BY <1>3, <1>5, <3>1, FrontOnce
    <3>. QED  BY <1>4, <2>1, <3>1, <3>2, <3>3, <3>4, NodesAre
  <2>2. CASE use_node # NoNode
    <3>1. use_node' = use_node /\ free_list' = all
      BY <1>2, <2>2 DEF GetBeLastBuf
    <3>2. ~On(use_node, free_list) /\ ~On(use_node, busy_list)
      BY <1>1, <2>2 DEF Queue, Placed
    <3>. QED  BY <1>1, <1>3, <1>4, <1>5, <2>2, <3>1, <3>2
  <2>. QED  BY <2>1, <2>2
<1>7. busy_list' \in Seq(Nodes) /\ Len(busy_list') = 0 /\ Once(busy_list') /\ \A n : ~On(n, busy_list')
  BY EmptyList DEF GetBeLastBuf
<1>8. hold_cnt' \in [Nodes -> 0 .. MaxJobs] /\ \A n \in Nodes : hold_cnt'[n] = 0
  <2>1. \A n \in Nodes : n \in ToSet(busy_list) \/ hold_cnt[n] = 0
    BY <1>1, SetOf DEF Queue, Counts
  <2>2. hold_cnt' = [n \in Nodes |-> 0]
    BY <2>1 DEF GetBeLastBuf
  <2>. QED  BY <2>2, NodesAre
<1>9. ASSUME ~recalled'
      PROVE  Len(vi) = 0 /\ ~recalled
  <2>1. ~recalled /\ \A n \in ToSet(busy_list) : ~Held(n)
    BY <1>9 DEF GetBeLastBuf
  <2>2. Len(vi) \in Nat
    BY <1>1, LenProperties
  <2>3. ASSUME Len(vi) # 0
        PROVE  FALSE
    <3>1. 1 \in 1 .. Len(vi)
      BY <2>2, <2>3
    <3>2. vi[1] \in Jobs
      BY <1>1, <3>1, ElementOfSeq
    <3>3. vi[1].node \in Nodes
      BY <3>2 DEF Jobs
    <3>4. On(vi[1].node, busy_list) /\ hold_cnt[vi[1].node] = Refs(vi, vi[1].node)
      BY <1>1, <2>1, <3>1, <3>3 DEF Queue, Trusted
    <3>5. Refs(vi, vi[1].node) \in 0 .. Len(vi) /\ Refs(vi, vi[1].node) # 0
      BY <1>1, <3>1, RefsAre
    <3>6. Held(vi[1].node)
      BY <3>4, <3>5 DEF Held
    <3>7. vi[1].node \in ToSet(busy_list)
      BY <1>1, <3>4, SetOf
    <3>. QED  BY <2>1, <3>6, <3>7
  <2>. QED  BY <2>1, <2>3
<1>10. UNCHANGED <<be_init, use_cnt, exit_state, vi, newest, leaked>> /\ recalled' \in BOOLEAN
  BY DEF GetBeLastBuf
<1>11. BeTypes'
  BY <1>6, <1>7, <1>8, <1>10 DEF Queue, BeTypes
<1>12. Placed'
  BY <1>6, <1>7 DEF Placed
<1>13. Accounted'
  BY <1>6, <1>10 DEF Accounted, Queue
<1>14. Counts'
  <2>1. \A n \in Nodes : Refs(vi, n) \in Nat
    BY <1>1, RefsAre
  <2>. QED  BY <1>8, <1>10, <2>1 DEF Queue, Counts
<1>15. Trusted'
  <2>1. SUFFICES ASSUME ~recalled'
                 PROVE  Trusted'
    BY DEF Trusted
  <2>2. Len(vi) = 0 /\ vi = <<>> /\ use_cnt = 0
    BY <1>1, <1>9, <2>1, EmptySeq DEF Queue, Trusted
  <2>3. ASSUME NEW n \in Nodes
        PROVE  Refs(vi, n) = 0
    <3>1. Refs(vi, n) = 0 <=> \A i \in 1 .. Len(vi) : vi[i].node # n
      BY <1>1, RefsAre
    <3>. QED  BY <2>2, <3>1
  <2>. QED  BY <1>7, <1>8, <1>10, <2>2, <2>3 DEF Trusted, Ordered
<1>. QED  BY <1>11, <1>12, <1>13, <1>14, <1>15 DEF Queue

(* The end of a mode switch publishes its buffer alone.                    *)
LEMMA QueueAllInit ==
  ASSUME Queue, AllBeBufInit, busy_list = <<>>
  PROVE  Queue'
<1>1. /\ free_list \in Seq(Nodes) /\ vi \in Seq(Jobs) /\ use_node \in Nodes /\ be_init
      /\ ~On(use_node, free_list)
  BY DEF Queue, BeTypes, Placed, AllBeBufInit
<1>2. \A n : ~On(n, busy_list)
  BY EmptyList
<1>3. /\ busy_list' = <<use_node>> /\ newest' = use_node /\ use_node' = NoNode
      /\ UNCHANGED <<be_init, free_list, hold_cnt, use_cnt, exit_state, vi, recalled, leaked>>
  <2>1. Append(<<>>, use_node) = <<use_node>>
    OBVIOUS
  <2>. QED  BY <2>1 DEF AllBeBufInit
<1>4. busy_list' \in Seq(Nodes) /\ Len(busy_list') = 1 /\ busy_list'[1] = use_node
  BY <1>1, <1>3
<1>5. Once(busy_list') /\ \A n : On(n, busy_list') <=> n = use_node
  BY <1>4 DEF Once, On
<1>6. BeTypes'
  BY <1>1, <1>3, <1>4 DEF Queue, BeTypes
<1>7. Placed'
  BY <1>1, <1>3, <1>5, NodesAre DEF Queue, Placed
<1>8. Accounted'
  BY <1>2, <1>3, <1>5 DEF Queue, Accounted
<1>9. Counts'
  BY <1>2, <1>3 DEF Queue, Counts
<1>10. Trusted'
  <2>1. SUFFICES ASSUME ~recalled'
                 PROVE  Trusted'
    BY DEF Trusted
  <2>2. \A i \in 1 .. Len(vi) : FALSE
    BY <1>2, <1>3, <2>1 DEF Queue, Trusted
  <2>3. use_cnt = Len(vi) /\ \A n \in Nodes : hold_cnt[n] = Refs(vi, n)
    BY <1>1, <1>3, <2>1 DEF Queue, Trusted
  <2>4. 1 .. Len(busy_list') - 1 = {}
    BY <1>4
  <2>. QED  BY <1>1, <1>3, <2>2, <2>3, <2>4 DEF Trusted, Ordered
<1>. QED  BY <1>6, <1>7, <1>8, <1>9, <1>10 DEF Queue

(* An exit begins, and ends when nobody holds a buffer.                    *)
LEMMA QueueExit ==
  ASSUME Queue, BeExitBegin \/ BeExitEnd
  PROVE  Queue'
<1>1. CASE BeExitBegin
  BY <1>1 DEF BeExitBegin, history, Queue, BeTypes, Placed, Accounted, Counts, Trusted, Held
<1>2. CASE BeExitEnd
  <2>1. /\ use_cnt = 0 /\ ~be_init' /\ free_list' = <<>> /\ busy_list' = <<>> /\ exit_state' = "EXIT"
        /\ UNCHANGED <<use_node, hold_cnt, use_cnt, vi, newest, recalled, leaked>> /\ be_init' \in BOOLEAN
    BY <1>2 DEF BeExitEnd, history
  <2>2. /\ free_list' \in Seq(Nodes) /\ busy_list' \in Seq(Nodes) /\ Once(free_list') /\ Once(busy_list')
        /\ Len(busy_list') = 0 /\ \A n : ~On(n, free_list') /\ ~On(n, busy_list')
    BY <2>1, EmptyList
  <2>3. BeTypes'
    BY <2>1, <2>2 DEF Queue, BeTypes
  <2>4. Placed' /\ Accounted'
    BY <2>1, <2>2 DEF Placed, Accounted
  <2>5. Counts'
    BY <2>1 DEF Queue, Counts
  <2>6. Trusted'
    <3>1. SUFFICES ASSUME ~recalled'
                   PROVE  Trusted'
      BY DEF Trusted
    <3>2. Len(vi) = 0 /\ vi = <<>>
      BY <2>1, <3>1, EmptySeq DEF Queue, Trusted, BeTypes
    <3>. QED  BY <2>1, <3>2 DEF Trusted, Ordered
  <2>. QED  BY <2>3, <2>4, <2>5, <2>6 DEF Queue
<1>. QED  BY <1>1, <1>2

(* The interrupt takes the first free buffer.                              *)
LEMMA QueueTake ==
  ASSUME Queue, TakeFree
  PROVE  Queue'
<1>1. /\ free_list \in Seq(Nodes) /\ Once(free_list)
      /\ \A n \in Nodes : ~(On(n, free_list) /\ On(n, busy_list))
  BY DEF Queue, BeTypes, Placed
<1>2. /\ UNCHANGED <<be_init, busy_list, hold_cnt, use_cnt, exit_state, vi, newest, recalled>>
      /\ leaked' = (leaked \/ use_node # NoNode) /\ leaked' \in BOOLEAN
  BY DEF TakeFree
<1>3. /\ free_list' \in Seq(Nodes) /\ Once(free_list') /\ use_node' \in Nodes \union {NoNode}
      /\ use_node' \in Nodes => ~On(use_node', free_list') /\ On(use_node', free_list)
      /\ \A n \in Nodes : On(n, free_list) <=> On(n, free_list') \/ n = use_node'
  <2>1. CASE free_list = <<>>
    <3>1. use_node' = NoNode /\ free_list' = <<>>
      BY <2>1 DEF TakeFree
    <3>. QED  BY <1>1, <2>1, <3>1, EmptyList, NodesAre
  <2>2. CASE free_list # <<>>
    <3>1. use_node' = Head(free_list) /\ free_list' = Tail(free_list)
      BY <2>2 DEF TakeFree
    <3>2. free_list' \in Seq(Nodes) /\ Head(free_list) = free_list[1] /\ free_list[1] \in Nodes
      BY <1>1, <2>2, <3>1, TailIs
    <3>3. \A n : On(n, free_list) <=> On(n, free_list') \/ n = free_list[1]
      BY <1>1, <2>2, <3>1, TailOn
    <3>4. Once(free_list') /\ ~On(free_list[1], free_list')
      BY <1>1, <2>2, <3>1, TailOnce
    <3>. QED  BY <3>1, <3>2, <3>3, <3>4
  <2>. QED  BY <2>1, <2>2
<1>4. BeTypes'
  BY <1>2, <1>3 DEF Queue, BeTypes
<1>5. Placed'
  BY <1>1, <1>2, <1>3 DEF Queue, Placed
<1>6. Accounted'
  BY <1>2, <1>3, NodesAre DEF Queue, Accounted
<1>7. Counts' /\ Trusted'
  BY <1>2 DEF Queue, Counts, Trusted, Held
<1>. QED  BY <1>4, <1>5, <1>6, <1>7 DEF Queue

(* VI takes the last busy buffer.                                          *)
LEMMA QueueGetReady ==
  ASSUME Queue, NEW p \in Nat, GetReadyBeBuf(p)
  PROVE  Queue'
<1>. DEFINE e == [node |-> Last(busy_list), pts |-> p, ended |-> FALSE]
<1>1. /\ busy_list \in Seq(Nodes) /\ Once(busy_list) /\ vi \in Seq(Jobs) /\ Len(vi) \in Nat
      /\ busy_list # <<>> /\ Len(vi) < MaxJobs /\ MaxJobs \in Nat
      /\ hold_cnt \in [Nodes -> 0 .. MaxJobs] /\ use_cnt \in 0 .. MaxJobs /\ use_cnt <= Len(vi)
  BY NodesAre, LenProperties DEF Queue, BeTypes, Placed, Counts, GetReadyBeBuf
<1>2. PICK n : n = Last(busy_list)
  OBVIOUS
<1>3. n \in Nodes /\ n = busy_list[Len(busy_list)] /\ Len(busy_list) \in 1 .. Len(busy_list)
  BY <1>1, <1>2, FrontIs, LenProperties, EmptySeq
<1>4. e \in Jobs /\ e.node = n
  BY <1>2, <1>3 DEF Jobs
<1>5. /\ vi' = Append(vi, e) /\ hold_cnt' = [hold_cnt EXCEPT ![n] = @ + 1]
      /\ use_cnt' = use_cnt + 1 /\ exit_state' = "READY" /\ exit_state \notin {"EXIT", "WAITING"}
      /\ UNCHANGED <<be_init, free_list, busy_list, use_node, newest, recalled, leaked>>
  BY <1>2 DEF GetReadyBeBuf, history
<1>. HIDE DEF e
<1>6. /\ vi' \in Seq(Jobs) /\ Len(vi') = Len(vi) + 1
      /\ \A i \in 1 .. Len(vi) : vi'[i] = vi[i]
      /\ vi'[Len(vi')] = e
  BY <1>1, <1>4, <1>5, AppendProperties
<1>7. \A i \in 1 .. Len(vi) : vi'[i].node = vi[i].node
  BY <1>6
<1>8. \A m \in Nodes : Refs(vi', m) = IF m = n THEN Refs(vi, m) + 1 ELSE Refs(vi, m)
  BY <1>1, <1>4, <1>6, <1>7, RefsLast, ZenonT(60)
<1>9. \A m \in Nodes : Refs(vi, m) \in 0 .. Len(vi) /\ hold_cnt[m] \in 0 .. MaxJobs
  BY <1>1, RefsAre
<1>10. be_init /\ On(n, busy_list)
  BY <1>3, <1>5 DEF Queue, Counts, On
<1>11. \A m \in Nodes : hold_cnt[m] <= Refs(vi, m) /\ (~On(m, busy_list) => hold_cnt[m] = 0)
  BY <1>10 DEF Queue, Counts
<1>12. \A m \in Nodes : hold_cnt'[m] = IF m = n THEN hold_cnt[m] + 1 ELSE hold_cnt[m]
  BY <1>1, <1>3, <1>5
<1>13. hold_cnt' \in [Nodes -> 0 .. MaxJobs]
  <2>1. hold_cnt[n] + 1 \in 0 .. MaxJobs
    BY <1>1, <1>3, <1>9, <1>11
  <2>. QED  BY <1>1, <1>5, <2>1
<1>14. BeTypes'
  <2>1. use_cnt' \in 0 .. MaxJobs /\ Len(vi') <= MaxJobs
    BY <1>1, <1>5, <1>6
  <2>. QED  BY <1>5, <1>6, <1>13, <2>1 DEF Queue, BeTypes
<1>15. Placed' /\ Accounted'
  BY <1>5 DEF Queue, Placed, Accounted
<1>16. Counts'
  <2>1. use_cnt' <= Len(vi')
    BY <1>1, <1>5, <1>6
  <2>2. \A m \in Nodes : hold_cnt'[m] <= Refs(vi', m) /\ (~On(m, busy_list) => hold_cnt'[m] = 0)
    BY <1>8, <1>9, <1>10, <1>11, <1>12
  <2>. QED  BY <1>5, <1>10, <2>1, <2>2 DEF Counts
<1>17. Trusted'
  <2>1. SUFFICES ASSUME ~recalled'
                 PROVE  Trusted'
    BY DEF Trusted
  <2>2. /\ use_cnt = Len(vi) /\ \A m \in Nodes : hold_cnt[m] = Refs(vi, m)
        /\ \A i \in 1 .. Len(vi) : On(vi[i].node, busy_list)
        /\ Ordered(vi, busy_list)
        /\ \A a \in 1 .. Len(busy_list) - 1 : Held(busy_list[a])
    BY <1>5, <1>10, <2>1 DEF Queue, Trusted
  <2>3. use_cnt' = Len(vi') /\ \A m \in Nodes : hold_cnt'[m] = Refs(vi', m)
    BY <1>5, <1>6, <1>8, <1>12, <2>2
  <2>4. \A i \in 1 .. Len(vi') : On(vi'[i].node, busy_list)
    <3>1. \A i \in 1 .. Len(vi') : i \in 1 .. Len(vi) \/ i = Len(vi')
      BY <1>1, <1>6
    <3>. QED  BY <1>4, <1>6, <1>7, <1>10, <2>2, <3>1
  <2>5. Ordered(vi', busy_list)
    BY <1>1, <1>3, <1>4, <1>6, <1>7, <2>2, OrderedGet
  <2>6. ASSUME NEW a \in 1 .. Len(busy_list) - 1
        PROVE  hold_cnt'[busy_list[a]] > 0
    <3>1. busy_list[a] \in Nodes
      BY <1>1, LenProperties, ElementOfSeq
    <3>. QED  BY <1>9, <1>12, <2>2, <2>6, <3>1 DEF Held
  <2>. QED  BY <1>5, <1>10, <2>3, <2>4, <2>5, <2>6 DEF Trusted, Held
<1>. QED  BY <1>14, <1>15, <1>16, <1>17 DEF Queue

(* The frame in process takes a second reference.                          *)
LEMMA QueueHold ==
  ASSUME Queue, HoldBusyBeBuf
  PROVE  Queue'
<1>1. /\ busy_list \in Seq(Nodes) /\ Once(busy_list) /\ vi \in Seq(Jobs) /\ Len(vi) \in Nat
      /\ vi # <<>> /\ Len(vi) < MaxJobs /\ MaxJobs \in Nat
      /\ hold_cnt \in [Nodes -> 0 .. MaxJobs] /\ use_cnt \in 0 .. MaxJobs /\ use_cnt <= Len(vi)
  BY NodesAre, LenProperties DEF Queue, BeTypes, Placed, Counts, HoldBusyBeBuf
<1>2. PICK n : n = Head(vi).node
  OBVIOUS
<1>3. Head(vi) = vi[1] /\ vi[1] \in Jobs
  BY <1>1, TailIs
<1>4. n \in Nodes /\ n = vi[1].node
  BY <1>2, <1>3 DEF Jobs
<1>5. /\ vi' = <<Head(vi), [Head(vi) EXCEPT !.ended = TRUE]>> \o Tail(vi)
      /\ exit_state' \in {"READY", "WAITING"} /\ exit_state # "EXIT"
      /\ UNCHANGED <<be_init, free_list, busy_list, use_node, newest, recalled, leaked>>
  BY DEF HoldBusyBeBuf, history, Queue, BeTypes
<1>6. /\ vi' \in Seq(Jobs) /\ Len(vi') = Len(vi) + 1 /\ vi'[1] = vi[1]
      /\ \A i \in 1 .. Len(vi) : vi'[i + 1].node = vi[i].node
  <2>1. vi' = Doubled(vi)
    BY <1>5 DEF Doubled
  <2>2. vi' \in Seq(Jobs) /\ Len(vi') = Len(vi) + 1 /\ vi'[1] = vi[1]
    BY <1>1, <2>1, DoubledHead
  <2>3. \A i \in 1 .. Len(vi) : vi'[i + 1].node = vi[i].node
    BY <1>1, <2>1, DoubledNext
  <2>. QED  BY <2>2, <2>3
<1>7. \A m \in Nodes : Refs(vi', m) = IF m = n THEN Refs(vi, m) + 1 ELSE Refs(vi, m)
  <2>1. vi'[1].node = n
    BY <1>4, <1>6
  <2>2. SUFFICES ASSUME NEW m \in Nodes
                 PROVE  Refs(vi', m) = IF vi'[1].node = m THEN Refs(vi, m) + 1 ELSE Refs(vi, m)
    BY <2>1
  <2>. QED  BY <1>1, <1>6, RefsFirst
<1>8. \A m \in Nodes : Refs(vi, m) \in 0 .. Len(vi) /\ hold_cnt[m] \in 0 .. MaxJobs
  BY <1>1, RefsAre
<1>9. be_init
  BY <1>5 DEF Queue, Counts
<1>10. \A m \in Nodes : hold_cnt[m] <= Refs(vi, m) /\ (~On(m, busy_list) => hold_cnt[m] = 0)
  BY <1>9 DEF Queue, Counts
<1>11. \/ /\ On(n, busy_list) /\ use_cnt' = use_cnt + 1
          /\ hold_cnt' = [hold_cnt EXCEPT ![n] = @ + 1]
       \/ ~On(n, busy_list) /\ UNCHANGED <<hold_cnt, use_cnt>>
  <2>1. n \in ToSet(busy_list) <=> On(n, busy_list)
    BY <1>1, SetOf
  <2>. QED  BY <1>2, <2>1 DEF HoldBusyBeBuf
<1>12. \A m \in Nodes : hold_cnt'[m] = IF m = n /\ On(n, busy_list) THEN hold_cnt[m] + 1 ELSE hold_cnt[m]
  BY <1>1, <1>4, <1>11
<1>13. hold_cnt' \in [Nodes -> 0 .. MaxJobs]
  <2>1. hold_cnt[n] + 1 \in 0 .. MaxJobs
    BY <1>1, <1>4, <1>8, <1>10
  <2>. QED  BY <1>1, <1>11, <2>1
<1>14. BeTypes'
  <2>1. use_cnt' \in 0 .. MaxJobs /\ Len(vi') <= MaxJobs
    BY <1>1, <1>6, <1>11
  <2>. QED  BY <1>5, <1>6, <1>13, <2>1 DEF Queue, BeTypes
<1>15. Placed' /\ Accounted'
  BY <1>5 DEF Queue, Placed, Accounted
<1>16. Counts'
  <2>1. use_cnt' <= Len(vi')
    BY <1>1, <1>6, <1>11
  <2>2. \A m \in Nodes : hold_cnt'[m] <= Refs(vi', m) /\ (~On(m, busy_list) => hold_cnt'[m] = 0)
    BY <1>7, <1>8, <1>10, <1>12
  <2>. QED  BY <1>5, <1>9, <2>1, <2>2 DEF Counts
<1>17. Trusted'
  <2>1. SUFFICES ASSUME ~recalled'
                 PROVE  Trusted'
    BY DEF Trusted
  <2>2. /\ use_cnt = Len(vi) /\ \A m \in Nodes : hold_cnt[m] = Refs(vi, m)
        /\ \A i \in 1 .. Len(vi) : On(vi[i].node, busy_list)
        /\ Ordered(vi, busy_list)
        /\ \A a \in 1 .. Len(busy_list) - 1 : Held(busy_list[a])
    BY <1>5, <1>9, <2>1 DEF Queue, Trusted
  <2>7. On(n, busy_list)
    <3>1. 1 \in 1 .. Len(vi)
      BY <1>1, EmptySeq
    <3>. QED  BY <1>4, <2>2, <3>1
  <2>3. use_cnt' = Len(vi') /\ \A m \in Nodes : hold_cnt'[m] = Refs(vi', m)
    BY <1>6, <1>7, <1>11, <1>12, <2>2, <2>7
  <2>4. \A i \in 1 .. Len(vi') : On(vi'[i].node, busy_list)
    <3>1. \A i \in 1 .. Len(vi') : i = 1 \/ \E j \in 1 .. Len(vi) : i = j + 1
      <4>1. SUFFICES ASSUME NEW i \in 1 .. Len(vi'), i # 1
                     PROVE  \E j \in 1 .. Len(vi) : i = j + 1
        OBVIOUS
      <4>2. i - 1 \in 1 .. Len(vi) /\ i = (i - 1) + 1
        BY <1>1, <1>6, <4>1
      <4>. QED  BY <4>2
    <3>. QED  BY <1>4, <1>6, <2>2, <2>7, <3>1
  <2>5. Ordered(vi', busy_list)
    BY <1>1, <1>6, <2>2, OrderedHold
  <2>6. ASSUME NEW a \in 1 .. Len(busy_list) - 1
        PROVE  hold_cnt'[busy_list[a]] > 0
    <3>1. busy_list[a] \in Nodes
      BY <1>1, LenProperties, ElementOfSeq
    <3>. QED  BY <1>8, <1>12, <2>2, <2>6, <3>1 DEF Held
  <2>. QED  BY <1>5, <1>9, <2>3, <2>4, <2>5, <2>6 DEF Trusted, Held
<1>. QED  BY <1>14, <1>15, <1>16, <1>17 DEF Queue

(* The frame in process ends.                                              *)
LEMMA QueueEnd ==
  ASSUME Queue, EndJob
  PROVE  Queue'
<1>1. vi \in Seq(Jobs) /\ vi # <<>>
  BY DEF Queue, BeTypes, EndJob
<1>2. /\ vi' = [vi EXCEPT ![1].ended = TRUE]
      /\ UNCHANGED <<be_init, free_list, busy_list, use_node, hold_cnt, use_cnt, exit_state,
                     newest, recalled, leaked>>
  BY DEF EndJob, history
<1>3. /\ vi' \in Seq(Jobs) /\ Len(vi') = Len(vi) /\ Len(vi) \in Nat \ {0}
      /\ \A i \in 1 .. Len(vi) : vi'[i].node = vi[i].node
  BY <1>1, <1>2, EndedIs
<1>4. \A m : Refs(vi', m) = Refs(vi, m)
  BY <1>3, RefsSame
<1>5. BeTypes'
  BY <1>2, <1>3 DEF Queue, BeTypes
<1>6. Placed' /\ Accounted'
  BY <1>2 DEF Queue, Placed, Accounted
<1>7. Counts'
  BY <1>2, <1>3, <1>4 DEF Queue, Counts
<1>8. Trusted'
  <2>1. SUFFICES ASSUME ~recalled'
                 PROVE  Trusted'
    BY DEF Trusted
  <2>2. Ordered(vi', busy_list)
    BY <1>2, <1>3, <2>1 DEF Queue, Trusted, Ordered
  <2>3. be_init /\ \A i \in 1 .. Len(vi') : On(vi'[i].node, busy_list)
    BY <1>1, <1>2, <1>3, <2>1 DEF Queue, Trusted
  <2>. QED  BY <1>2, <1>3, <1>4, <2>1, <2>2, <2>3 DEF Queue, Trusted, Held
<1>. QED  BY <1>5, <1>6, <1>7, <1>8 DEF Queue

(* Whether VI's buffer is freed: nobody else holds it, and it is not the   *)
(* last busy one.                                                          *)
Left(n) == IF Held(n) THEN hold_cnt[n] - 1 ELSE 0
Freed(n) == On(n, busy_list) /\ Left(n) = 0 /\ Len(busy_list) > 1

(* Without a recall the last busy buffer is never freed: the buffer before *)
(* it is held by a frame that VI ends earlier.                             *)
LEMMA LastNotFreed ==
  ASSUME Queue, vi # <<>>, be_init, ~recalled, Freed(vi[1].node)
  PROVE  vi[1].node # busy_list[Len(busy_list)]
<1>1. /\ vi \in Seq(Jobs) /\ busy_list \in Seq(Nodes) /\ Once(busy_list)
      /\ Len(vi) \in Nat /\ Len(busy_list) \in Nat
      /\ \A n \in Nodes : hold_cnt[n] = Refs(vi, n)
      /\ Ordered(vi, busy_list)
      /\ \A a \in 1 .. Len(busy_list) - 1 : Held(busy_list[a])
  BY LenProperties DEF Queue, BeTypes, Placed, Trusted
<1>2. /\ 1 \in 1 .. Len(vi) /\ Len(busy_list) > 1
      /\ 1 \in 1 .. Len(busy_list) /\ 1 \in 1 .. Len(busy_list) - 1
      /\ Len(busy_list) \in 1 .. Len(busy_list)
  BY <1>1, EmptySeq DEF Freed
<1>3. busy_list[1] \in Nodes /\ Held(busy_list[1])
  BY <1>1, <1>2, ElementOfSeq
<1>4. Refs(vi, busy_list[1]) # 0
  BY <1>1, <1>3 DEF Held
<1>5. PICK j \in 1 .. Len(vi) : vi[j].node = busy_list[1]
  BY <1>1, <1>4, RefsAre
<1>6. SUFFICES ASSUME vi[1].node = busy_list[Len(busy_list)]
               PROVE  FALSE
  OBVIOUS
<1>7. j # 1
  BY <1>1, <1>2, <1>5, <1>6 DEF Once
<1>8. 1 < j
  BY <1>1, <1>7
<1>9. Len(busy_list) <= 1
  BY <1>1, <1>2, <1>5, <1>6, <1>8 DEF Ordered
<1>. QED  BY <1>2, <1>9

(* VI puts the buffer of the first frame that has ended.                   *)
LEMMA QueuePut ==
  ASSUME Queue, PutFreeBeBuf
  PROVE  Queue'
<1>1. /\ free_list \in Seq(Nodes) /\ busy_list \in Seq(Nodes)
      /\ Once(free_list) /\ Once(busy_list)
      /\ \A m \in Nodes : ~(On(m, free_list) /\ On(m, busy_list))
      /\ vi \in Seq(Jobs) /\ vi # <<>>
      /\ hold_cnt \in [Nodes -> 0 .. MaxJobs] /\ use_cnt \in 0 .. MaxJobs /\ use_cnt <= Len(vi)
      /\ MaxJobs \in Nat
  BY NodesAre DEF Queue, BeTypes, Placed, Counts, PutFreeBeBuf
<1>2. /\ vi' = Tail(vi)
      /\ UNCHANGED <<be_init, use_node, exit_state, newest, recalled, leaked>>
  BY DEF PutFreeBeBuf, history
<1>3. /\ vi' \in Seq(Jobs) /\ Len(vi) = Len(vi') + 1 /\ Len(vi') \in Nat
      /\ \A i \in 1 .. Len(vi') : vi'[i] = vi[i + 1]
      /\ Head(vi) = vi[1] /\ vi[1] \in Jobs
  BY <1>1, <1>2, TailIs
<1>4. PICK n : n = vi[1].node
  OBVIOUS
<1>5. n \in Nodes
  BY <1>3, <1>4 DEF Jobs
<1>6. \A i \in 1 .. Len(vi') : i + 1 \in 1 .. Len(vi) /\ vi'[i].node = vi[i + 1].node
  BY <1>3
<1>7. \A m \in Nodes : Refs(vi, m) = IF m = n THEN Refs(vi', m) + 1 ELSE Refs(vi', m)
  <2>1. SUFFICES ASSUME NEW m \in Nodes
                 PROVE  Refs(vi, m) = IF vi[1].node = m THEN Refs(vi', m) + 1 ELSE Refs(vi', m)
    BY <1>4
  <2>. QED  BY <1>1, <1>3, <1>6, RefsFirst, SMTT(30)
<1>8. \A m \in Nodes : Refs(vi, m) \in 0 .. Len(vi) /\ Refs(vi', m) \in 0 .. Len(vi')
                       /\ hold_cnt[m] \in 0 .. MaxJobs
  BY <1>1, <1>3, RefsAre
<1>9. CASE exit_state = "EXIT"
  <2>1. UNCHANGED <<free_list, busy_list, hold_cnt, use_cnt>>
    BY <1>9 DEF PutFreeBeBuf
  <2>2. ~be_init /\ use_cnt = 0 /\ recalled
    BY <1>1, <1>9 DEF Queue, Counts, Trusted
  <2>3. Len(vi') <= MaxJobs
    BY <1>1, <1>3 DEF Queue, BeTypes
  <2>4. BeTypes'
    BY <1>2, <1>3, <2>1, <2>3 DEF Queue, BeTypes
  <2>5. Placed' /\ Accounted'
    BY <1>2, <2>1 DEF Queue, Placed, Accounted
  <2>6. Counts' /\ Trusted'
    BY <1>2, <1>3, <2>1, <2>2 DEF Queue, Counts, Trusted
  <2>. QED  BY <2>4, <2>5, <2>6 DEF Queue
<1>10. CASE exit_state # "EXIT"
  <2>1. be_init /\ PutBusyToFree(n) /\ use_cnt' = IF use_cnt > 0 THEN use_cnt - 1 ELSE 0
    BY <1>3, <1>4, <1>10 DEF PutFreeBeBuf, Queue, Counts
  <2>2. \A m \in Nodes : hold_cnt[m] <= Refs(vi, m) /\ (~On(m, busy_list) => hold_cnt[m] = 0)
    BY <2>1 DEF Queue, Counts
  <2>3. n \in ToSet(busy_list) <=> On(n, busy_list)
    BY <1>1, SetOf
  <2>4. \A m \in Nodes : hold_cnt'[m] = IF m = n THEN Left(n) ELSE hold_cnt[m]
    <3>1. ~On(n, busy_list) => hold_cnt[n] = Left(n)
      BY <1>5, <2>2 DEF Left, Held
    <3>2. ~On(n, busy_list) => hold_cnt' = hold_cnt
      BY <2>1, <2>3 DEF PutBusyToFree
    <3>3. On(n, busy_list) => hold_cnt' = [hold_cnt EXCEPT ![n] = Left(n)]
      BY <2>1, <2>3 DEF PutBusyToFree, Left
    <3>. QED  BY <1>1, <3>1, <3>2, <3>3
  <2>5. Left(n) \in 0 .. MaxJobs /\ Left(n) <= hold_cnt[n] /\ (Held(n) => Left(n) = hold_cnt[n] - 1)
        /\ (~Held(n) => Left(n) = 0) /\ (Held(n) <=> hold_cnt[n] # 0)
    <3>1. PICK h : h = hold_cnt[n]
      OBVIOUS
    <3>2. /\ h \in 0 .. MaxJobs /\ MaxJobs \in Nat /\ (Held(n) <=> h > 0)
          /\ Left(n) = IF h > 0 THEN h - 1 ELSE 0
      BY <1>1, <1>5, <1>8, <3>1 DEF Left, Held
    <3>3. /\ Left(n) \in 0 .. MaxJobs /\ Left(n) <= h
          /\ (Held(n) => Left(n) = h - 1) /\ (~Held(n) => Left(n) = 0) /\ (Held(n) <=> h # 0)
      BY ONLY <3>2
    <3>. QED  BY <3>1, <3>3
  <2>6. hold_cnt' \in [Nodes -> 0 .. MaxJobs]
    <3>1. hold_cnt' = hold_cnt \/ hold_cnt' = [hold_cnt EXCEPT ![n] = Left(n)]
      BY <2>1 DEF PutBusyToFree, Left
    <3>. QED  BY <1>1, <2>5, <3>1
  <2>7. \/ ~Freed(n) /\ UNCHANGED <<free_list, busy_list>>
        \/ /\ Freed(n) /\ free_list' = Append(free_list, n)
           /\ busy_list' = Kept(busy_list, Nodes \ {n})
    BY <2>1, <2>3 DEF PutBusyToFree, Freed, Left
  <2>8. /\ free_list' \in Seq(Nodes) /\ busy_list' \in Seq(Nodes)
        /\ Once(free_list') /\ Once(busy_list')
        /\ \A m \in Nodes : On(m, free_list') <=> On(m, free_list) \/ (Freed(n) /\ m = n)
        /\ \A m \in Nodes : On(m, busy_list') <=> On(m, busy_list) /\ ~(Freed(n) /\ m = n)
        /\ Ordered(vi', busy_list) => Ordered(vi', busy_list')
    <3>1. CASE ~Freed(n)
      BY <1>1, <2>7, <3>1
    <3>2. CASE Freed(n)
      <4>1. free_list' = Append(free_list, n) /\ busy_list' = Kept(busy_list, Nodes \ {n})
        BY <2>7, <3>2
      <4>2. On(n, busy_list) /\ ~On(n, free_list)
        BY <1>1, <1>5, <3>2 DEF Freed
      <4>3. free_list' \in Seq(Nodes)
        BY <1>1, <1>5, <4>1, AppendProperties
      <4>4. Once(free_list')
        BY <1>1, <1>5, <4>1, <4>2, AppendOnce
      <4>5. \A m : On(m, free_list') <=> On(m, free_list) \/ m = n
        BY <1>1, <1>5, <4>1, AppendOn
      <4>6. busy_list' \in Seq(Nodes)
        BY <1>1, <4>1, KeptIs
      <4>7. \A m : On(m, busy_list') <=> On(m, busy_list) /\ m \in Nodes \ {n}
        BY <1>1, <4>1, KeptIs
      <4>8. Once(busy_list')
        BY <1>1, <4>1, KeptOnce
      <4>9. Ordered(vi', busy_list) => Ordered(vi', busy_list')
        BY <1>1, <1>3, <4>1, OrderedKept
      <4>. QED  BY <3>2, <4>3, <4>4, <4>5, <4>6, <4>7, <4>8, <4>9
    <3>. QED  BY <3>1, <3>2
  <2>9. use_cnt' \in 0 .. MaxJobs /\ use_cnt' <= Len(vi') /\ (use_cnt = Len(vi) => use_cnt' = Len(vi'))
    BY <1>1, <1>3, <2>1
  <2>10. BeTypes'
    <3>1. Len(vi') <= MaxJobs
      BY <1>1, <1>3 DEF Queue, BeTypes
    <3>. QED  BY <1>2, <1>3, <2>6, <2>8, <2>9, <3>1 DEF Queue, BeTypes
  <2>11. Placed'
    <3>1. Freed(n) => On(n, busy_list)
      BY DEF Freed
    <3>. QED  BY <1>1, <1>2, <2>8, <3>1 DEF Queue, Placed
  <2>12. Accounted'
    BY <1>2, <2>8 DEF Queue, Accounted
  <2>13. Counts'
    <3>1. \A m \in Nodes : hold_cnt'[m] <= Refs(vi', m)
      BY <1>5, <1>7, <1>8, <2>2, <2>4, <2>5
    <3>2. ASSUME NEW m \in Nodes, ~On(m, busy_list')
          PROVE  hold_cnt'[m] = 0
      <4>1. CASE m = n /\ Freed(n)
        BY <2>4, <4>1 DEF Freed
      <4>2. CASE ~(m = n /\ Freed(n))
        <5>1. hold_cnt[m] = 0 /\ ~On(m, busy_list)
          BY <2>2, <2>8, <3>2, <4>2
        <5>. QED  BY <1>8, <2>4, <2>5, <5>1
      <4>. QED  BY <4>1, <4>2
    <3>. QED  BY <1>2, <1>10, <2>1, <2>9, <3>1, <3>2 DEF Queue, Counts
  <2>14. Trusted'
    <3>1. SUFFICES ASSUME ~recalled'
                   PROVE  Trusted'
      BY DEF Trusted
    <3>2. /\ use_cnt = Len(vi) /\ \A m \in Nodes : hold_cnt[m] = Refs(vi, m)
          /\ \A i \in 1 .. Len(vi) : On(vi[i].node, busy_list)
          /\ Ordered(vi, busy_list)
          /\ \A a \in 1 .. Len(busy_list) - 1 : Held(busy_list[a])
      BY <1>2, <2>1, <3>1 DEF Queue, Trusted
    <3>3. \A m \in Nodes : hold_cnt'[m] = Refs(vi', m)
      BY <1>5, <1>7, <1>8, <2>4, <2>5, <3>2
    <3>4. ASSUME NEW i \in 1 .. Len(vi')
          PROVE  On(vi'[i].node, busy_list')
      <4>1. vi'[i] \in Jobs
        BY <1>3, ElementOfSeq
      <4>2. vi'[i].node \in Nodes
        BY <4>1 DEF Jobs
      <4>3. On(vi'[i].node, busy_list)
        BY <1>6, <3>2
      <4>4. Refs(vi', vi'[i].node) # 0
        BY <1>3, RefsAre
      <4>5. ~(Freed(n) /\ vi'[i].node = n)
        BY <1>5, <2>4, <3>3, <4>4 DEF Freed
      <4>. QED  BY <2>8, <4>2, <4>3, <4>5
    <3>5. Ordered(vi', busy_list)
      BY <1>1, <1>3, <1>6, <3>2, OrderedPut
    <3>6. ASSUME NEW a \in 1 .. Len(busy_list') - 1
          PROVE  hold_cnt'[busy_list'[a]] > 0
      <4>1. CASE ~Freed(n)
        <5>1. busy_list' = busy_list
          BY <2>7, <4>1
        <5>2. a \in 1 .. Len(busy_list) - 1 /\ a \in 1 .. Len(busy_list) /\ Len(busy_list) > 1
          BY <1>1, <3>6, <5>1, LenProperties
        <5>3. busy_list[a] \in Nodes /\ Held(busy_list[a])
          BY <1>1, <3>2, <5>2, ElementOfSeq
        <5>4. CASE busy_list[a] = n
          <6>1. Left(n) # 0
            BY <4>1, <5>2, <5>4 DEF Freed, On
          <6>. QED  BY <1>5, <2>4, <2>5, <5>1, <5>4, <6>1
        <5>5. CASE busy_list[a] # n
          BY <2>4, <5>1, <5>3, <5>5 DEF Held
        <5>. QED  BY <5>4, <5>5
      <4>2. CASE Freed(n)
        <5>1. busy_list' = Kept(busy_list, Nodes \ {n})
          BY <2>7, <4>2
        <5>2. PICK i \in 1 .. Len(busy_list) - 1 : busy_list'[a] = busy_list[i]
          BY <1>1, <3>6, <5>1, KeptFront, SMTT(30)
        <5>3. a \in 1 .. Len(busy_list')
          BY <2>8, <3>6, LenProperties
        <5>4. On(busy_list'[a], busy_list') /\ busy_list'[a] \in Nodes
          BY <2>8, <5>3, ElementOfSeq DEF On
        <5>5. busy_list'[a] # n
          BY <2>8, <4>2, <5>4
        <5>. QED  BY <2>4, <3>2, <5>2, <5>4, <5>5 DEF Held
      <4>. QED  BY <4>1, <4>2
    <3>. QED  BY <1>2, <2>1, <2>8, <2>9, <3>2, <3>3, <3>4, <3>5, <3>6 DEF Trusted, Held
  <2>. QED  BY <2>10, <2>11, <2>12, <2>13, <2>14 DEF Queue
<1>. QED  BY <1>9, <1>10

-----------------------------------------------------------------------------
(* The inductive invariant: the statistics buffers, the life of the pipe   *)
(* and the order of time.                                                  *)

Stats == [pts : Nat, be : Nat, fe : Nat, af : Nat]

StatTypes ==
  /\ run_wakeup_sel \in {"FE_START", "BE_END"} /\ stat_init \in BOOLEAN
  /\ st_free \in Seq(Bufs) /\ st_busy \in Seq(Bufs) /\ st_user \in Seq(Bufs)
  /\ act_stat \in Bufs \union {NoBuf}
  /\ stat \in [Bufs -> Stats]
  /\ fe_busy \in Seq(Nat) /\ Len(fe_busy) <= NumFe
  /\ frame \in 0 .. MaxFrame /\ frame_pts \in Nat /\ ready_stt \in Nat
  /\ be_broken \in BOOLEAN

PipeTypes ==
  /\ split \in BOOLEAN /\ edge \in BOOLEAN
  /\ irq \in {"idle", "take", "fe", "trigger", "sum"}
  /\ pc \in {"wait", "switch", "run", "stat", "algs", "cfg"}
  /\ life \in {"down", "up", "stopping", "exit", "waiting", "ended"}
  /\ read \in Bufs \union {NoBuf}
  /\ seen \in Nat /\ vi_last \in Nat /\ starts \in Nat /\ switches \in Nat

(* A statistics buffer is on one of the three lists, and the one that the  *)
(* firmware reads is alone on the user list.                               *)
StatPlaced ==
  /\ Once(st_free) /\ Once(st_busy) /\ Once(st_user)
  /\ \A b \in Bufs : /\ ~(On(b, st_free) /\ On(b, st_busy))
                     /\ ~(On(b, st_free) /\ On(b, st_user))
                     /\ ~(On(b, st_busy) /\ On(b, st_user))
  /\ stat_init => /\ \A b \in Bufs : On(b, st_free) \/ On(b, st_busy) \/ On(b, st_user)
                  /\ \A b \in Bufs : On(b, st_user) <=> b = read
  /\ ~stat_init => st_free = <<>> /\ st_busy = <<>> /\ st_user = <<>> /\ act_stat = NoBuf

LifeOK ==
  /\ stat_init <=> life \in {"up", "stopping"}
  /\ ~stat_init => pc \in {"wait", "run"} /\ read = NoBuf
  /\ pc = "switch" => busy_list = <<>>
  /\ starts = 0 => ~be_init /\ ~recalled
  /\ irq \in {"take", "fe"} => FeStartMode

(* VI always finds the configuration published last.                       *)
LastIsNewest ==
  be_init /\ ~recalled /\ pc # "switch" => busy_list # <<>> /\ busy_list[Len(busy_list)] = newest

(* VI's frames are in their order, behind the one that it ended last.      *)
ViInTime ==
  /\ frame_pts <= vi_last /\ vi_last <= frame
  /\ \A i \in 1 .. Len(vi) : frame_pts <= vi[i].pts /\ vi[i].pts <= vi_last
  /\ \A i, j \in 1 .. Len(vi) : i < j => vi[i].pts <= vi[j].pts

(* What is not ended is younger than what was ended last.                  *)
Younger ==
  \A i \in 1 .. Len(vi) : ~vi[i].ended =>
    /\ frame_pts < vi[i].pts
    /\ \A j \in 1 .. Len(vi) : i < j /\ ~vi[j].ended => vi[i].pts < vi[j].pts

(* The statistics that the firmware may take are not older than those that *)
(* it used.                                                                *)
StatInTime ==
  /\ seen <= frame_pts
  /\ act_stat # NoBuf => seen <= stat[act_stat].pts /\ stat[act_stat].pts <= frame_pts
  /\ \A i \in 1 .. Len(st_busy) :
       /\ seen <= stat[st_busy[i]].pts
       /\ act_stat # NoBuf /\ stat[st_busy[i]].pts <= stat[act_stat].pts
  /\ \A i, j \in 1 .. Len(st_busy) : i < j => stat[st_busy[i]].pts <= stat[st_busy[j]].pts

(* No buffer has AF windows of a younger frame than VI's hardware.         *)
AfInTime ==
  /\ ready_stt <= vi_last
  /\ \A i \in 1 .. Len(vi) : ~vi[i].ended => ready_stt <= vi[i].pts
  /\ \A b \in Bufs : stat[b].af <= ready_stt

(* BE_END: between the end of a frame and its summary, the BE statistics   *)
(* are those of the frame, in hardware or in the first free buffer.        *)
BeReady ==
  ~FeStartMode /\ irq \in {"trigger", "sum"} =>
    /\ frame_pts > 0
    /\ stat_init => IF be_broken THEN st_free # <<>> /\ stat[st_free[1]].be = frame_pts
                    ELSE ready_stt = frame_pts

(* The frames that VI works with; and those whose FE statistics are still  *)
(* to be summed up.                                                        *)
InProcess(q) == \E i \in 1 .. Len(vi) : ~vi[i].ended /\ vi[i].pts = q
Awaited(q) ==
  InProcess(q) \/ (irq \in {"trigger", "sum"} /\ q = frame_pts) \/ q \in vi_last + 1 .. frame

(* The list holds the last frames up to f.                                 *)
LastFrames(s, f) == s \in Seq(Nat) /\ \A i \in 1 .. Len(s) : s[i] = f - Len(s) + i

(* BE_END: the FE list holds the last frames without a gap, and the        *)
(* awaited ones among the last NumFe frames are there.                     *)
FeWaits ==
  ~FeStartMode /\ stat_init =>
    /\ LastFrames(fe_busy, frame)
    /\ ~(recalled /\ starts > 1) =>
         \A q \in 1 .. frame : Awaited(q) /\ frame - q < NumFe => frame - Len(fe_busy) < q

IInv ==
  /\ Queue /\ StatTypes /\ PipeTypes /\ StatPlaced /\ LifeOK /\ LastIsNewest
  /\ ViInTime /\ Younger /\ StatInTime /\ AfInTime /\ BeReady /\ FeWaits

(* What the constants of the statistics and of the pipe are.               *)
LEMMA BufsAre ==
  /\ IsFiniteSet(Bufs) /\ Cardinality(Bufs) \in Nat /\ Cardinality(Bufs) >= 2 /\ NoBuf \notin Bufs
  /\ NumFe \in Nat \ {0} /\ MaxFrame \in Nat
BY StatConstants, PipeConstants, FS_CardinalityType DEF StatConstants, PipeConstants

(* What a step does to the queue.                                          *)
LEMMA QueueSteps ==
  ASSUME [Next]_vars
  PROVE  \/ UNCHANGED beVars
         \/ BeBufInit \/ BeBufCtl
         \/ (GetBeLastBuf /\ pc' = "switch") \/ (AllBeBufInit /\ pc = "switch")
         \/ BeExitBegin \/ BeExitEnd \/ TakeFree
         \/ (\E p \in 1 .. MaxFrame : GetReadyBeBuf(p)) \/ HoldBusyBeBuf \/ EndJob \/ PutFreeBeBuf
<1>1. CASE UNCHANGED vars
  BY <1>1 DEF vars
<1>2. CASE \/ Start \/ StopInterrupt \/ ExitStatistics \/ ExitBegin \/ ExitEnd \/ ExitTimeout
           \/ ResetCtx \/ SetCtrlParam
  BY <1>2 DEF Start, StopInterrupt, ExitStatistics, ExitBegin, ExitEnd, ExitTimeout, ResetCtx, SetCtrlParam,
         SelectWakeup, statLists, pipeVars
<1>3. CASE FrameStart \/ FrameTake \/ FrameFe \/ FrameStartPlus \/ TriggerPrepare \/ SumUp
  BY <1>3 DEF FrameStart, FrameTake, FrameFe, FrameStartPlus, TriggerPrepare, SumUp, PrepareBeBuf
<1>4. CASE (\E p \in 1 .. MaxFrame : ViStart(p)) \/ ViHold \/ ViPart \/ ViEnd \/ ViPut
  BY <1>4 DEF ViStart, ViHold, ViPart, ViEnd, ViPut
<1>5. CASE SwitchBegin \/ SwitchEnd
  BY <1>5 DEF SwitchBegin, SwitchEnd
<1>6. CASE FrameEdge \/ RunGetBuf \/ RunGetStat \/ RunPutStat \/ RunCfg \/ RunFail
  BY <1>6 DEF FrameEdge, RunGetBuf, RunGetStat, RunPutStat, RunCfg, RunFail
<1>. QED  BY <1>1, <1>2, <1>3, <1>4, <1>5, <1>6 DEF Next

(* Every step preserves the part of the queue.                             *)
LEMMA QueueNext ==
  ASSUME Queue, LifeOK, [Next]_vars
  PROVE  Queue'
<1>1. CASE UNCHANGED beVars
  BY <1>1, QueueSame
<1>2. CASE BeBufInit
  BY <1>2, QueueBufInit
<1>3. CASE BeBufCtl
  BY <1>3, QueueCtl
<1>4. CASE GetBeLastBuf
  BY <1>4, QueueGetLast
<1>5. CASE AllBeBufInit /\ pc = "switch"
  BY <1>5, QueueAllInit DEF LifeOK
<1>6. CASE BeExitBegin \/ BeExitEnd
  BY <1>6, QueueExit
<1>7. CASE TakeFree
  BY <1>7, QueueTake
<1>8. CASE \E p \in 1 .. MaxFrame : GetReadyBeBuf(p)
  <2>1. PICK p \in 1 .. MaxFrame : GetReadyBeBuf(p)
    BY <1>8
  <2>2. p \in Nat
    BY BufsAre
  <2>. QED  BY <2>1, <2>2, QueueGetReady
<1>9. CASE HoldBusyBeBuf
  BY <1>9, QueueHold
<1>10. CASE EndJob
  BY <1>10, QueueEnd
<1>11. CASE PutFreeBeBuf
  BY <1>11, QueuePut
<1>. QED  BY <1>1, <1>2, <1>3, <1>4, <1>5, <1>6, <1>7, <1>8, <1>9, <1>10, <1>11, QueueSteps

-----------------------------------------------------------------------------
(* The life of the pipe.                                                   *)

(* Where the pipe, the interrupt and the firmware are is preserved.        *)
LEMMA PipeTypesNext ==
  ASSUME PipeTypes, StatTypes, [Next]_vars
  PROVE  PipeTypes'
<1>1. CASE UNCHANGED vars
  BY <1>1 DEF vars, pipeVars, PipeTypes
<1>2. CASE Start
  BY <1>2, BufsAre DEF Start, PipeTypes, StatTypes
<1>3. CASE StopInterrupt \/ ExitStatistics \/ ExitBegin \/ ExitEnd \/ ExitTimeout \/ ResetCtx \/ SetCtrlParam
  BY <1>3 DEF StopInterrupt, ExitStatistics, ExitBegin, ExitEnd, ExitTimeout, ResetCtx, SetCtrlParam,
              pipeVars, PipeTypes
<1>4. CASE FrameStart \/ FrameTake \/ FrameFe \/ FrameStartPlus \/ TriggerPrepare \/ SumUp
  BY <1>4, ZenonT(60) DEF FrameStart, FrameTake, FrameFe, FrameStartPlus, TriggerPrepare, SumUp, pipeVars, PipeTypes
<1>5. ASSUME NEW p \in 1 .. MaxFrame, ViStart(p)
      PROVE  PipeTypes'
  BY <1>5, BufsAre DEF ViStart, PipeTypes
<1>6. CASE ViHold \/ ViPart \/ ViEnd \/ ViPut
  BY <1>6, ZenonT(60) DEF ViHold, ViPart, ViEnd, ViPut, pipeVars, PipeTypes
<1>7. CASE SwitchBegin \/ SwitchEnd
  BY <1>7 DEF SwitchBegin, SwitchEnd, PipeTypes
<1>9. CASE FrameEdge \/ RunGetBuf \/ RunPutStat
  BY <1>9 DEF FrameEdge, RunGetBuf, RunPutStat, PipeTypes
<1>10. CASE RunCfg \/ RunFail
  BY <1>10 DEF RunCfg, RunFail, PipeTypes
<1>8. CASE RunGetStat
  <2>1. read' \in Bufs \union {NoBuf} /\ seen' \in Nat
    <3>1. CASE read # NoBuf /\ UNCHANGED <<statVars, read, seen>>
      BY <3>1 DEF PipeTypes
    <3>2. CASE read = NoBuf /\ StatBufUserGet /\ read' = Head(st_busy) /\ seen' = stat[Head(st_busy)].pts
      <4>1. st_busy \in Seq(Bufs) /\ st_busy # <<>> /\ stat \in [Bufs -> Stats]
        BY <3>2 DEF StatTypes, StatBufUserGet
      <4>2. Head(st_busy) \in Bufs
        BY <4>1, TailIs
      <4>3. stat[Head(st_busy)] \in Stats
        BY <4>1, <4>2
      <4>. QED  BY <3>2, <4>2, <4>3 DEF Stats
    <3>3. CASE /\ seen' = IF act_stat = NoBuf THEN seen ELSE stat[act_stat].pts
               /\ UNCHANGED <<statVars, read>>
      <4>1. act_stat # NoBuf => stat[act_stat] \in Stats
        BY DEF StatTypes
      <4>. QED  BY <3>3, <4>1 DEF Stats, PipeTypes
    <3>. QED  BY <1>8, <3>1, <3>2, <3>3 DEF RunGetStat
  <2>. QED  BY <1>8, <2>1 DEF RunGetStat, PipeTypes
<1>. QED  BY <1>1, <1>2, <1>3, <1>4, <1>5, <1>6, <1>7, <1>8, <1>9, <1>10 DEF Next

(* Initialisation and exit, the mode switch and the interrupt keep in step *)
(* with the buffers.                                                       *)
LEMMA LifeNext ==
  ASSUME LifeOK, PipeTypes, Queue, [Next]_vars
  PROVE  LifeOK'
<1>. USE DEF LifeOK, FeStartMode
<1>1. CASE UNCHANGED vars
  BY <1>1 DEF vars, pipeVars, beVars, statVars
<1>2. CASE Start
  BY <1>2 DEF Start, BeBufInit, StatBufInit, PipeTypes
<1>3. CASE StopInterrupt \/ ExitTimeout \/ ResetCtx \/ SetCtrlParam
  BY <1>3 DEF StopInterrupt, ExitTimeout, ResetCtx, SetCtrlParam, SelectWakeup, beVars, statVars, pipeVars
<1>4. CASE ExitStatistics
  BY <1>4 DEF ExitStatistics, StatBufExit, beVars
<1>5. CASE ExitBegin \/ ExitEnd
  BY <1>5 DEF ExitBegin, ExitEnd, BeExitBegin, BeExitEnd, statVars, history
<1>6. CASE FrameStart \/ FrameStartPlus \/ FrameFe
  BY <1>6 DEF FrameStart, FrameStartPlus, FrameFe, UpdateFePts, FeInsert, beVars, pipeVars
<1>7. CASE FrameTake
  BY <1>7 DEF FrameTake, TakeFree, statVars
<1>8. CASE TriggerPrepare
  BY <1>8 DEF TriggerPrepare, PrepareBeBuf, TakeFree, statVars, beVars
<1>9. CASE SumUp
  BY <1>9 DEF SumUp, SummaryInsert, beVars
<1>10. ASSUME NEW p \in 1 .. MaxFrame, ViStart(p)
       PROVE  LifeOK'
  BY <1>10 DEF ViStart, GetReadyBeBuf, statVars, history
<1>11. CASE ViHold
  BY <1>11 DEF ViHold, HoldBusyBeBuf, statVars, pipeVars, history
<1>12. CASE ViPart
  BY <1>12 DEF ViPart, SwitchBeOfflineStt, pipeVars, beVars
<1>13. CASE ViEnd
  BY <1>13 DEF ViEnd, EndJob, SwitchBeOfflineStt, history
<1>14. CASE ViPut
  <2>1. busy_list = <<>> => busy_list' = <<>>
    <3>1. SUFFICES ASSUME busy_list = <<>>
                   PROVE  busy_list' = <<>>
      OBVIOUS
    <3>2. \A n : n \notin ToSet(busy_list)
      <4>1. \A n : ~On(n, busy_list) /\ busy_list \in Seq(Nodes)
        BY <3>1, EmptyList
      <4>. QED  BY <4>1, SetOf
    <3>. QED  BY <1>14, <3>1, <3>2 DEF ViPut, PutFreeBeBuf, PutBusyToFree
  <2>. QED  BY <1>14, <2>1 DEF ViPut, PutFreeBeBuf, statVars, pipeVars, history
<1>15. CASE SwitchBegin
  BY <1>15 DEF SwitchBegin, GetBeLastBuf, statVars
<1>16. CASE SwitchEnd
  BY <1>16 DEF SwitchEnd, AllBeBufInit, statVars
<1>17. CASE FrameEdge \/ RunGetBuf \/ RunFail
  BY <1>17 DEF FrameEdge, RunGetBuf, RunFail, beVars, statVars
<1>18. CASE RunGetStat
  BY <1>18 DEF RunGetStat, StatBufUserGet, beVars, statVars
<1>19. CASE RunPutStat
  BY <1>19 DEF RunPutStat, StatBufUserPut, beVars, statVars
<1>20. CASE RunCfg
  BY <1>20 DEF RunCfg, BeBufCtl, statVars
<1>. QED  BY <1>1, <1>2, <1>3, <1>4, <1>5, <1>6, <1>7, <1>8, <1>9, <1>10, <1>11, <1>12, <1>13, <1>14,
             <1>15, <1>16, <1>17, <1>18, <1>19, <1>20 DEF Next

(* Only its end leaves a mode switch.                                      *)
LEMMA SwitchStays ==
  ASSUME [Next]_vars, pc = "switch"
  PROVE  pc' = "switch" \/ SwitchEnd
<1>1. CASE UNCHANGED vars
  BY <1>1 DEF vars, pipeVars
<1>2. CASE \/ Start \/ StopInterrupt \/ ExitStatistics \/ ExitBegin \/ ExitEnd \/ ExitTimeout
           \/ ResetCtx \/ SetCtrlParam
  BY <1>2 DEF Start, StopInterrupt, ExitStatistics, ExitBegin, ExitEnd, ExitTimeout, ResetCtx, SetCtrlParam,
         SelectWakeup, statLists, pipeVars
<1>3. CASE FrameStart \/ FrameTake \/ FrameFe \/ FrameStartPlus \/ TriggerPrepare \/ SumUp
  BY <1>3 DEF FrameStart, FrameTake, FrameFe, FrameStartPlus, TriggerPrepare, SumUp, pipeVars
<1>4. CASE (\E p \in 1 .. MaxFrame : ViStart(p)) \/ ViHold \/ ViPart \/ ViEnd \/ ViPut
  BY <1>4 DEF ViStart, ViHold, ViPart, ViEnd, ViPut, pipeVars
<1>5. CASE SwitchBegin
  BY <1>5 DEF SwitchBegin
<1>6. CASE FrameEdge \/ RunGetBuf \/ RunGetStat \/ RunPutStat \/ RunCfg \/ RunFail
  BY <1>6 DEF FrameEdge, RunGetBuf, RunGetStat, RunPutStat, RunCfg, RunFail
<1>. QED  BY <1>1, <1>2, <1>3, <1>4, <1>5, <1>6 DEF Next

(* A list of which one buffer was appended ends with it.                   *)
LEMMA AppendLast ==
  ASSUME NEW S, NEW s \in Seq(S), NEW e \in S
  PROVE  Append(s, e) # <<>> /\ Append(s, e)[Len(Append(s, e))] = e
<1>1. PICK t : t = Append(s, e)
  OBVIOUS
<1>2. t # <<>> /\ Len(t) = Len(s) + 1 /\ t[Len(s) + 1] = e
  BY <1>1, AppendProperties
<1>. QED  BY <1>1, <1>2

(* VI finds the configuration published last after every step.             *)
LEMMA NewestNext ==
  ASSUME LastIsNewest, Queue, LifeOK, PipeTypes, [Next]_vars
  PROVE  LastIsNewest'
<1>. SUFFICES ASSUME be_init', ~recalled', pc' # "switch"
              PROVE  busy_list' # <<>> /\ busy_list'[Len(busy_list')] = newest'
  BY DEF LastIsNewest
<1>0. free_list \in Seq(Nodes) /\ busy_list \in Seq(Nodes)
  BY DEF Queue, BeTypes
<1>1. pc # "switch" \/ SwitchEnd
  BY SwitchStays
<1>2. CASE SwitchEnd
  <2>1. AllBeBufInit /\ busy_list = <<>>
    BY <1>2 DEF SwitchEnd, LifeOK
  <2>2. busy_list' = Append(busy_list, use_node) /\ newest' = use_node /\ use_node \in Nodes
    BY <2>1 DEF AllBeBufInit, Queue, BeTypes
  <2>. QED  BY <1>0, <2>2, AppendLast
<1>3. CASE pc # "switch" /\ UNCHANGED <<be_init, recalled, busy_list, newest>>
  BY <1>3 DEF LastIsNewest
<1>4. CASE BeBufInit
  BY <1>4 DEF BeBufInit
<1>5. CASE pc # "switch" /\ BeBufCtl
  <2>1. CASE use_node = NoNode
    BY <1>5, <2>1 DEF BeBufCtl, LastIsNewest
  <2>2. CASE use_node # NoNode
    <3>1. PICK k : k = Kept(busy_list, HeldNodes)
      OBVIOUS
    <3>2. k \in Seq(Nodes)
      BY <1>0, <3>1, KeptIs
    <3>3. busy_list' = Append(k, use_node) /\ newest' = use_node /\ use_node \in Nodes
      BY <1>5, <2>2, <3>1 DEF BeBufCtl, Queue, BeTypes
    <3>. QED  BY <3>2, <3>3, AppendLast
  <2>. QED  BY <2>1, <2>2
<1>6. CASE GetBeLastBuf /\ pc' = "switch"
  BY <1>6
<1>7. CASE BeExitEnd
  BY <1>7 DEF BeExitEnd
<1>8. CASE pc # "switch" /\ PutFreeBeBuf
  <2>1. /\ vi # <<>> /\ ~recalled /\ be_init /\ newest' = newest
        /\ busy_list # <<>> /\ busy_list[Len(busy_list)] = newest
    BY <1>8 DEF PutFreeBeBuf, history, LastIsNewest
  <2>2. vi \in Seq(Jobs) /\ Head(vi) = vi[1]
    BY <2>1, TailIs DEF Queue, BeTypes
  <2>3. PICK n : n = vi[1].node
    OBVIOUS
  <2>4. n \in ToSet(busy_list) <=> On(n, busy_list)
    BY <1>0, SetOf
  <2>5. busy_list' = busy_list \/ (Freed(n) /\ busy_list' = Kept(busy_list, Nodes \ {n}))
    BY <1>8, <2>2, <2>3, <2>4 DEF PutFreeBeBuf, PutBusyToFree, Freed, Left
  <2>6. CASE Freed(n) /\ busy_list' = Kept(busy_list, Nodes \ {n})
    <3>1. n # busy_list[Len(busy_list)]
      BY <2>1, <2>3, <2>6, LastNotFreed
    <3>2. busy_list[Len(busy_list)] \in Nodes \ {n}
      BY <1>0, <2>1, <3>1, FrontIs
    <3>3. Once(busy_list)
      BY DEF Queue, Placed
    <3>. QED  BY <1>0, <2>1, <2>6, <3>2, <3>3, KeptOnce
  <2>. QED  BY <2>1, <2>5, <2>6
<1>9. CASE UNCHANGED beVars \/ BeExitBegin \/ TakeFree \/ HoldBusyBeBuf \/ EndJob
           \/ \E p \in 1 .. MaxFrame : GetReadyBeBuf(p)
  BY <1>1, <1>2, <1>3, <1>9 DEF beVars, history, BeExitBegin, TakeFree, HoldBusyBeBuf, EndJob, GetReadyBeBuf
<1>10. CASE AllBeBufInit /\ pc = "switch"
  BY <1>1, <1>2, <1>10
<1>. QED  BY <1>1, <1>2, <1>4, <1>5, <1>6, <1>7, <1>8, <1>9, <1>10, QueueSteps

-----------------------------------------------------------------------------
(* The statistics buffers.                                                 *)

(* Keeping does not make a list longer.                                    *)
LEMMA KeptLen ==
  ASSUME NEW S, NEW s \in Seq(S), NEW T
  PROVE  Len(Kept(s, T)) <= Len(s)
<1>. DEFINE I == {i \in DOMAIN s : s[i] \in T}
<1>1. Len(s) \in Nat /\ DOMAIN s = 1 .. Len(s)
  BY LenProperties
<1>2. I \in SUBSET (1 .. Len(s)) /\ IsFiniteSet(1 .. Len(s)) /\ Cardinality(1 .. Len(s)) = Len(s)
  BY <1>1, FS_Interval, SMTT(30)
<1>3. PICK f : f = [k \in 1 .. Cardinality(I) |->
                      s[CHOOSE i \in I : Cardinality({j \in I : j <= i}) = k]]
  OBVIOUS
<1>4. Kept(s, T) = f
  BY <1>3 DEF Kept
<1>. HIDE DEF I
<1>5. IsFiniteSet(I) /\ Cardinality(I) <= Len(s)
  BY <1>2, FS_Subset
<1>6. Cardinality(I) \in Nat
  BY <1>5, FS_CardinalityType
<1>7. Len(f) = Cardinality(I)
  BY <1>3, <1>6
<1>. QED  BY <1>4, <1>5, <1>7

(* What is kept is the rest of the list, if it is kept from one place on.  *)
LEMMA KeptSuffix ==
  ASSUME NEW S, NEW s \in Seq(S), NEW T, NEW lo \in 1 .. Len(s) + 1,
         \A i \in 1 .. Len(s) : s[i] \in T <=> lo <= i
  PROVE  /\ Len(Kept(s, T)) = Len(s) + 1 - lo
         /\ \A a \in 1 .. Len(s) + 1 - lo : Kept(s, T)[a] = s[lo + a - 1]
<1>. DEFINE I == {i \in DOMAIN s : s[i] \in T}
<1>1. Len(s) \in Nat /\ DOMAIN s = 1 .. Len(s) /\ lo \in Nat
  BY LenProperties
<1>2. I = lo .. Len(s)
  BY <1>1
<1>3. PICK f : f = [k \in 1 .. Cardinality(I) |->
                      s[CHOOSE i \in I : Cardinality({j \in I : j <= i}) = k]]
  OBVIOUS
<1>4. Kept(s, T) = f
  BY <1>3 DEF Kept
<1>. HIDE DEF I
<1>5. Cardinality(I) = Len(s) + 1 - lo
  <2>1. lo \in Int /\ Len(s) \in Int
    BY <1>1
  <2>2. Cardinality(lo .. Len(s)) = IF lo > Len(s) THEN 0 ELSE Len(s) - lo + 1
    BY <2>1, FS_Interval
  <2>. QED  BY <1>1, <1>2, <2>2
<1>6. \A i \in I : Cardinality({j \in I : j <= i}) = i - lo + 1
  <2>1. SUFFICES ASSUME NEW i \in I
                 PROVE  Cardinality({j \in I : j <= i}) = i - lo + 1
    OBVIOUS
  <2>2. i \in Nat /\ lo <= i /\ i <= Len(s)
    BY <1>1, <1>2
  <2>3. {j \in I : j <= i} = lo .. i
    BY <1>1, <1>2, <2>2
  <2>4. Cardinality(lo .. i) = i - lo + 1
    BY <1>1, <2>2, FS_Interval
  <2>. QED  BY <2>3, <2>4
<1>7. Len(f) = Len(s) + 1 - lo
  <2>1. Len(s) + 1 - lo \in Nat
    BY <1>1
  <2>. QED  BY <1>3, <1>5, <2>1
<1>8. ASSUME NEW a \in 1 .. Len(s) + 1 - lo
      PROVE  f[a] = s[lo + a - 1]
  <2>1. PICK i : i = lo + a - 1
    OBVIOUS
  <2>2. i \in I /\ i - lo + 1 = a
    BY <1>1, <1>2, <2>1
  <2>3. \A j \in I : j - lo + 1 = a => j = i
    BY <1>1, <1>2, <2>1
  <2>4. PICK c : c = CHOOSE j \in I : Cardinality({l \in I : l <= j}) = a
    OBVIOUS
  <2>5. c \in I /\ Cardinality({l \in I : l <= c}) = a
    BY <1>6, <2>2, <2>4
  <2>6. c = i
    BY <1>6, <2>3, <2>5
  <2>7. f[a] = s[c]
    BY <1>3, <1>5, <2>4
  <2>. QED  BY <2>1, <2>6, <2>7
<1>. QED  BY <1>4, <1>7, <1>8

(* An entry of what is kept from one place on.                             *)
LEMMA KeptSuffixAt ==
  ASSUME NEW S, NEW s \in Seq(S), NEW T, NEW lo \in 1 .. Len(s) + 1,
         \A i \in 1 .. Len(s) : s[i] \in T <=> lo <= i,
         NEW a \in 1 .. Len(s) + 1 - lo
  PROVE  Kept(s, T)[a] = s[lo + a - 1]
BY KeptSuffix

(* What a step does to the statistics.                                     *)
LEMMA StatSteps ==
  ASSUME PipeTypes, [Next]_vars
  PROVE  \/ UNCHANGED statVars /\ read' = read
         \/ StatBufInit /\ read' = read
         \/ StatBufExit /\ read' = NoBuf
         \/ /\ StatBufUserGet /\ read = NoBuf /\ read' = Head(st_busy)
            /\ seen' = stat[Head(st_busy)].pts
         \/ StatBufUserPut(read) /\ read # NoBuf /\ read' = NoBuf
         \/ (FeInsert(frame) \/ (frame < MaxFrame /\ FeInsert(frame + 1))) /\ read' = read
         \/ SummaryInsert /\ read' = read
         \/ /\ \E broken, running, last \in BOOLEAN :
                 SwitchBeOfflineStt(Head(vi).pts, broken, running, last)
            /\ vi # <<>> /\ read' = read
         \/ UpdateFePts /\ frame < MaxFrame /\ read' = read
         \/ \E sel \in {"FE_START", "BE_END"} : SelectWakeup(sel) /\ read' = read
<1>1. CASE UNCHANGED vars
  BY <1>1 DEF vars, pipeVars
<1>2. CASE Start \/ StopInterrupt \/ ExitStatistics \/ ExitBegin \/ ExitEnd \/ ExitTimeout
  BY <1>2 DEF Start, StopInterrupt, ExitStatistics, ExitBegin, ExitEnd, ExitTimeout
<1>8. CASE ResetCtx \/ SetCtrlParam
  BY <1>8 DEF ResetCtx, SetCtrlParam, pipeVars
<1>3. CASE FrameStart \/ FrameTake \/ FrameFe \/ FrameStartPlus \/ TriggerPrepare \/ SumUp
  BY <1>3 DEF FrameStart, FrameTake, FrameFe, FrameStartPlus, TriggerPrepare, SumUp, pipeVars
<1>4. CASE (\E p \in 1 .. MaxFrame : ViStart(p)) \/ ViHold \/ ViPut
  BY <1>4 DEF ViStart, ViHold, ViPut, pipeVars
<1>5. CASE ViPart
  <2>1. PICK running : running = (life \in {"up", "stopping"})
    OBVIOUS
  <2>3. running \in BOOLEAN
    BY <2>1
  <2>2. SwitchBeOfflineStt(Head(vi).pts, TRUE, running, FALSE) /\ vi # <<>> /\ read' = read
    BY <1>5, <2>1 DEF ViPart, pipeVars
  <2>. QED  BY <2>2, <2>3
<1>6. CASE ViEnd
  <2>1. PICK running : running = (life \in {"up", "stopping"})
    OBVIOUS
  <2>3. running \in BOOLEAN
    BY <2>1
  <2>2. SwitchBeOfflineStt(Head(vi).pts, split, running, TRUE) /\ vi # <<>> /\ read' = read
    BY <1>6, <2>1 DEF ViEnd, EndJob
  <2>4. split \in BOOLEAN
    BY DEF PipeTypes
  <2>. QED  BY <2>2, <2>3, <2>4
<1>7. CASE SwitchBegin \/ SwitchEnd \/ FrameEdge \/ RunGetBuf \/ RunGetStat \/ RunPutStat \/ RunCfg \/ RunFail
  BY <1>7 DEF SwitchBegin, SwitchEnd, FrameEdge, RunGetBuf, RunGetStat, RunPutStat, RunCfg, RunFail
<1>. QED  BY <1>1, <1>2, <1>3, <1>4, <1>5, <1>6, <1>7, <1>8 DEF Next

(* Where a summary takes its buffer, and what it leaves on the busy list.  *)
Source == IF be_broken THEN st_free ELSE Recycled
Rest == IF be_broken THEN st_busy ELSE <<>>

(* Recycling moves the busy buffers behind the free ones.                  *)
LEMMA RecycledIs ==
  ASSUME StatTypes, StatPlaced
  PROVE  /\ Recycled \in Seq(Bufs) /\ Once(Recycled)
         /\ \A b \in Bufs : On(b, Recycled) <=> On(b, st_free) \/ On(b, st_busy)
<1>1. /\ st_free \in Seq(Bufs) /\ st_busy \in Seq(Bufs) /\ Once(st_free) /\ Once(st_busy)
      /\ \A b \in Bufs : ~(On(b, st_free) /\ On(b, st_busy))
  BY DEF StatTypes, StatPlaced
<1>2. Recycled = st_free \o st_busy
  BY DEF Recycled
<1>3. Recycled \in Seq(Bufs)
  BY <1>1, <1>2, ConcatProperties
<1>4. Once(Recycled)
  BY <1>1, <1>2, ConcatOnce
<1>5. \A b : On(b, Recycled) <=> On(b, st_free) \/ On(b, st_busy)
  BY <1>1, <1>2, ConcatOn
<1>. QED  BY <1>3, <1>4, <1>5

(* Source and rest are together the free and the busy buffers.             *)
LEMMA SourceIs ==
  ASSUME StatTypes, StatPlaced
  PROVE  /\ Source \in Seq(Bufs) /\ Rest \in Seq(Bufs) /\ Once(Source) /\ Once(Rest)
         /\ \A b \in Bufs : /\ ~(On(b, Source) /\ On(b, Rest))
                            /\ On(b, Source) \/ On(b, Rest) <=> On(b, st_free) \/ On(b, st_busy)
<1>1. /\ st_free \in Seq(Bufs) /\ st_busy \in Seq(Bufs) /\ Once(st_free) /\ Once(st_busy)
      /\ \A b \in Bufs : ~(On(b, st_free) /\ On(b, st_busy))
  BY DEF StatTypes, StatPlaced
<1>2. /\ <<>> \in Seq(Bufs) /\ Once(<<>>) /\ \A b : ~On(b, <<>>)
  BY EmptyList
<1>3. CASE be_broken
  BY <1>1, <1>3 DEF Source, Rest
<1>4. CASE ~be_broken
  BY <1>2, <1>4, RecycledIs DEF Source, Rest
<1>. QED  BY <1>3, <1>4

(* A buffer that is not read is there to take statistics.                  *)
LEMMA SomeSource ==
  ASSUME StatTypes, StatPlaced, stat_init
  PROVE  Recycled # <<>>
<1>1. PICK b \in Bufs : b # read
  <2>1. SUFFICES ASSUME \A b \in Bufs : b = read
                 PROVE  FALSE
    OBVIOUS
  <2>2. Bufs \subseteq {read}
    BY <2>1
  <2>3. IsFiniteSet({read}) /\ Cardinality({read}) = 1
    BY FS_Singleton
  <2>4. Cardinality(Bufs) <= 1
    BY <2>2, <2>3, FS_Subset
  <2>. QED  BY <2>4, BufsAre
<1>2. On(b, Recycled)
  BY <1>1, RecycledIs DEF StatPlaced
<1>. QED  BY <1>2, EmptyList

(* What a summary does.                                                    *)
Entry(b) ==
  [pts |-> frame_pts,
   be |-> IF be_broken THEN stat[b].be ELSE ready_stt,
   fe |-> IF FeFound(frame_pts) THEN Head(FeFrom(frame_pts)) ELSE stat[b].fe,
   af |-> IF be_broken THEN stat[b].af ELSE ready_stt]
Summed(b) ==
  /\ stat_init /\ Source # <<>> /\ b = Source[1]
  /\ st_free' = Tail(Source) /\ st_busy' = Append(Rest, b) /\ act_stat' = b
  /\ stat' = [stat EXCEPT ![b] = Entry(b)]
  /\ fe_busy' = IF FeFound(frame_pts) THEN Tail(FeFrom(frame_pts)) ELSE FeFrom(frame_pts)

(* It takes the first buffer of its source, or there is none.              *)
LEMMA SummedIs ==
  ASSUME StatTypes, StatPlaced, SummaryInsert
  PROVE  /\ UNCHANGED <<run_wakeup_sel, stat_init, st_user, frame, frame_pts, ready_stt, be_broken>>
         /\ \/ /\ ~stat_init \/ Source = <<>>
               /\ UNCHANGED <<st_free, st_busy, act_stat, stat, fe_busy>>
            \/ \E b \in Bufs : Summed(b)
<1>1. UNCHANGED <<run_wakeup_sel, stat_init, st_user, frame, frame_pts, ready_stt, be_broken>>
  BY DEF SummaryInsert
<1>2. CASE ~stat_init \/ Source = <<>>
  BY <1>1, <1>2 DEF SummaryInsert, StatBufBusyPut, Source
<1>3. CASE stat_init /\ Source # <<>>
  <2>1. PICK b : b = Head(Source)
    OBVIOUS
  <2>2. Head(Source) = Source[1] /\ Source[1] \in Bufs
    BY <1>3, SourceIs, TailIs
  <2>3. /\ st_free' = Tail(Source) /\ st_busy' = Append(Rest, b) /\ act_stat' = b
        /\ stat' = [stat EXCEPT ![b] = Entry(b)]
        /\ fe_busy' = IF FeFound(frame_pts) THEN Tail(FeFrom(frame_pts)) ELSE FeFrom(frame_pts)
    BY <1>3, <2>1 DEF SummaryInsert, StatBufBusyPut, Source, Rest, Entry
  <2>6. Summed(b)
    BY <1>3, <2>1, <2>2, <2>3 DEF Summed
  <2>. QED  BY <1>1, <2>1, <2>2, <2>6
<1>. QED  BY <1>2, <1>3

(* All buffers are put on the free list, each of them once.                *)
LEMMA AllBufs ==
  /\ SetToSeq(Bufs) \in Seq(Bufs) /\ Once(SetToSeq(Bufs))
  /\ \A b \in Bufs : On(b, SetToSeq(Bufs))
<1>. DEFINE N == Cardinality(Bufs)
            P(f) == f \in [1 .. N -> Bufs] /\ IsInjective(f)
<1>1. N \in Nat /\ IsFiniteSet(Bufs) /\ ExistsBijection(1 .. N, Bufs)
  BY BufsAre, FS_CardinalityType
<1>2. \E f \in [1 .. N -> Bufs] : IsInjective(f)
  BY <1>1 DEF ExistsBijection, Bijection, Injection
<1>3. PICK s : s = SetToSeq(Bufs)
  OBVIOUS
<1>4. s \in [1 .. N -> Bufs] /\ IsInjective(s)
  BY <1>2, <1>3 DEF SetToSeq
<1>. HIDE DEF N
<1>5. s \in Seq(Bufs) /\ Len(s) = N
  BY <1>1, <1>4
<1>6. Once(s)
  BY <1>4, <1>5 DEF Once, IsInjective
<1>7. s \in Surjection(1 .. N, Bufs)
  <2>1. s \in Injection(1 .. N, Bufs)
    BY <1>4 DEF Injection
  <2>2. Cardinality(1 .. N) = N
    BY <1>1, FS_Interval
  <2>. QED  BY <1>1, <2>1, <2>2, FS_Injection DEF N
<1>8. \A b \in Bufs : On(b, s)
  BY <1>5, <1>7 DEF Surjection, On
<1>. QED  BY <1>3, <1>5, <1>6, <1>8

(* What is left on the FE list on the way to a frame.                      *)
LEMMA FeFromIs ==
  ASSUME StatTypes, NEW p
  PROVE  FeFrom(p) \in Seq(Nat) /\ Len(FeFrom(p)) <= Len(fe_busy)
<1>1. fe_busy \in Seq(Nat)
  BY DEF StatTypes
<1>2. CASE run_wakeup_sel = "FE_START"
  <2>1. FeFrom(p) = fe_busy
    BY <1>2 DEF FeFrom
  <2>. QED  BY <1>1, <2>1, LenProperties
<1>3. CASE run_wakeup_sel # "FE_START"
  <2>1. PICK T : T = {q \in ToSet(fe_busy) : q >= p}
    OBVIOUS
  <2>2. FeFrom(p) = Kept(fe_busy, T)
    BY <1>3, <2>1 DEF FeFrom
  <2>. QED  BY <1>1, <2>2, KeptIs, KeptLen
<1>. QED  BY <1>2, <1>3

(* What the end of a frame or of a part of it does to the statistics: only *)
(* a buffer that is free or busy gets BE statistics, any may get AF        *)
(* windows.                                                                *)
LEMMA SwitchIs ==
  ASSUME StatTypes, StatPlaced, NEW p \in Nat, NEW broken \in BOOLEAN, NEW running \in BOOLEAN,
         NEW last \in BOOLEAN, SwitchBeOfflineStt(p, broken, running, last)
  PROVE  /\ UNCHANGED <<run_wakeup_sel, stat_init, st_user, act_stat, fe_busy, frame>>
         /\ ready_stt' = p /\ (last => frame_pts' = p) /\ (~last => frame_pts' = frame_pts)
         /\ (running => be_broken' = broken) /\ (~running => be_broken' = be_broken)
         /\ IF running /\ broken /\ stat_init
            THEN /\ st_free' = Recycled /\ st_busy' = <<>>
                 /\ Recycled # <<>> => Recycled[1] \in Bufs /\ stat'[Recycled[1]].be = p
            ELSE UNCHANGED <<st_free, st_busy>>
         /\ stat' \in [Bufs -> Stats]
         /\ \A b \in Bufs : /\ stat'[b].pts = stat[b].pts /\ stat'[b].fe = stat[b].fe
                            /\ (stat'[b].af = stat[b].af \/ stat'[b].af = p)
                            /\ stat'[b].be # stat[b].be => On(b, st_free) \/ On(b, st_busy)
<1>1. /\ UNCHANGED <<run_wakeup_sel, stat_init, st_user, act_stat, fe_busy, frame>>
      /\ ready_stt' = p /\ (last => frame_pts' = p) /\ (~last => frame_pts' = frame_pts)
      /\ (running => be_broken' = broken) /\ (~running => be_broken' = be_broken)
  BY DEF SwitchBeOfflineStt
<1>2. stat \in [Bufs -> Stats] /\ act_stat \in Bufs \union {NoBuf}
  BY DEF StatTypes
<1>3. ASSUME NEW s \in [Bufs -> Stats]
      PROVE  /\ AfIntoAct(s, p) \in [Bufs -> Stats]
             /\ \A b \in Bufs : /\ AfIntoAct(s, p)[b].pts = s[b].pts /\ AfIntoAct(s, p)[b].fe = s[b].fe
                                /\ AfIntoAct(s, p)[b].be = s[b].be
                                /\ (AfIntoAct(s, p)[b].af = s[b].af \/ AfIntoAct(s, p)[b].af = p)
  <2>1. PICK t : t = AfIntoAct(s, p)
    OBVIOUS
  <2>2. CASE act_stat = NoBuf
    BY <2>1, <2>2 DEF AfIntoAct
  <2>3. CASE act_stat # NoBuf
    <3>1. act_stat \in Bufs /\ t = [s EXCEPT ![act_stat].af = p]
      BY <1>2, <2>1, <2>3 DEF AfIntoAct
    <3>. QED  BY <2>1, <3>1 DEF Stats
  <2>. QED  BY <2>2, <2>3
<1>4. CASE running /\ broken /\ stat_init
  <2>1. /\ st_free' = Recycled /\ st_busy' = <<>>
        /\ stat' = IF Recycled = <<>> THEN stat
                   ELSE AfIntoAct([stat EXCEPT ![Head(Recycled)].be = p, ![Head(Recycled)].af = p], p)
    BY <1>4 DEF SwitchBeOfflineStt, BeStatBufRead
  <2>2. CASE Recycled = <<>>
    BY <1>1, <1>2, <1>4, <2>1, <2>2
  <2>3. CASE Recycled # <<>>
    <3>1. PICK c : c = Recycled[1]
      OBVIOUS
    <3>2. Recycled \in Seq(Bufs) /\ \A b \in Bufs : On(b, Recycled) <=> On(b, st_free) \/ On(b, st_busy)
      BY RecycledIs
    <3>3. c = Head(Recycled) /\ c \in Bufs
      BY <2>3, <3>1, <3>2, TailIs
    <3>4. On(c, st_free) \/ On(c, st_busy)
      BY <2>3, <3>1, <3>2, <3>3, TailOn
    <3>5. PICK s : s = [stat EXCEPT ![c].be = p, ![c].af = p]
      OBVIOUS
    <3>6. /\ s \in [Bufs -> Stats] /\ s[c].be = p
          /\ \A b \in Bufs : /\ s[b].pts = stat[b].pts /\ s[b].fe = stat[b].fe
                             /\ (s[b].af = stat[b].af \/ s[b].af = p)
                             /\ b # c => s[b].be = stat[b].be
      BY <1>2, <3>3, <3>5 DEF Stats
    <3>7. stat' = AfIntoAct(s, p)
      BY <2>1, <2>3, <3>3, <3>5
    <3>8. /\ stat' \in [Bufs -> Stats] /\ stat'[c].be = p
          /\ \A b \in Bufs : /\ stat'[b].pts = stat[b].pts /\ stat'[b].fe = stat[b].fe
                             /\ (stat'[b].af = stat[b].af \/ stat'[b].af = p)
                             /\ b # c => stat'[b].be = stat[b].be
      <4>1. PICK t : t = AfIntoAct(s, p)
        OBVIOUS
      <4>2. /\ t \in [Bufs -> Stats]
            /\ \A b \in Bufs : /\ t[b].pts = s[b].pts /\ t[b].fe = s[b].fe
                               /\ t[b].be = s[b].be /\ (t[b].af = s[b].af \/ t[b].af = p)
        BY <1>3, <3>6, <4>1
      <4>3. stat' = t
        BY <3>7, <4>1
      <4>4. stat' \in [Bufs -> Stats] /\ stat'[c].be = p
        BY <3>3, <3>6, <4>2, <4>3
      <4>5. ASSUME NEW b \in Bufs
            PROVE  /\ stat'[b].pts = stat[b].pts /\ stat'[b].fe = stat[b].fe
                   /\ b # c => stat'[b].be = stat[b].be
        BY <3>6, <4>2, <4>3
      <4>6. ASSUME NEW b \in Bufs
            PROVE  stat'[b].af = stat[b].af \/ stat'[b].af = p
        BY <3>6, <4>2, <4>3
      <4>. QED  BY <4>4, <4>5, <4>6
    <3>. QED  BY <1>1, <1>4, <2>1, <3>1, <3>3, <3>4, <3>8
  <2>. QED  BY <2>2, <2>3
<1>5. CASE ~(running /\ broken /\ stat_init)
  <2>1. /\ UNCHANGED <<st_free, st_busy>>
        /\ stat' = stat \/ stat' = AfIntoAct(stat, p)
    BY <1>5 DEF SwitchBeOfflineStt, AfStatRead
  <2>. QED  BY <1>1, <1>2, <1>3, <1>5, <2>1
<1>. QED  BY <1>4, <1>5

(* VI's first frame.                                                       *)
LEMMA HeadPts ==
  ASSUME Queue, vi # <<>>
  PROVE  Head(vi) = vi[1] /\ 1 \in 1 .. Len(vi) /\ Head(vi).pts \in Nat
<1>1. vi \in Seq(Jobs)
  BY DEF Queue, BeTypes
<1>2. Head(vi) = vi[1] /\ vi[1] \in Jobs /\ Len(vi) \in Nat
  BY <1>1, TailIs, LenProperties
<1>. QED  BY <1>1, <1>2, EmptySeq DEF Jobs

(* The statistics keep their types.                                        *)
LEMMA StatTypesNext ==
  ASSUME StatTypes, StatPlaced, PipeTypes, Queue, [Next]_vars
  PROVE  StatTypes'
<1>1. CASE UNCHANGED statVars
  BY <1>1 DEF statVars, statLists, StatTypes
<1>2. CASE StatBufInit
  <2>1. st_free' \in Seq(Bufs) /\ <<>> \in Seq(Bufs) /\ <<>> \in Seq(Nat) /\ Len(<<>>) = 0
    BY <1>2, AllBufs DEF StatBufInit
  <2>2. stat' \in [Bufs -> Stats]
    BY <1>2 DEF StatBufInit, Blank, Stats
  <2>. QED  BY <1>2, <2>1, <2>2, BufsAre DEF StatBufInit, StatTypes
<1>3. CASE StatBufExit
  <2>1. <<>> \in Seq(Bufs) /\ <<>> \in Seq(Nat) /\ Len(<<>>) = 0
    OBVIOUS
  <2>2. Len(<<>>) <= NumFe
    BY <2>1, BufsAre
  <2>. QED  BY <1>3, <2>1, <2>2 DEF StatBufExit, StatTypes
<1>4. CASE StatBufUserGet
  <2>1. st_busy \in Seq(Bufs) /\ st_busy # <<>> /\ st_user \in Seq(Bufs)
    BY <1>4 DEF StatBufUserGet, StatTypes
  <2>2. Tail(st_busy) \in Seq(Bufs) /\ Head(st_busy) \in Bufs
    BY <2>1, TailIs
  <2>3. Append(st_user, Head(st_busy)) \in Seq(Bufs)
    BY <2>1, <2>2, AppendProperties
  <2>. QED  BY <1>4, <2>2, <2>3 DEF StatBufUserGet, StatTypes
<1>5. CASE StatBufUserPut(read) /\ read # NoBuf
  <2>1. st_user \in Seq(Bufs) /\ st_free \in Seq(Bufs) /\ read \in Bufs
    BY <1>5 DEF StatTypes, PipeTypes
  <2>2. Append(st_free, read) \in Seq(Bufs)
    BY <2>1, AppendProperties
  <2>3. Kept(st_user, Bufs \ {read}) \in Seq(Bufs)
    BY <2>1, KeptIs
  <2>. QED  BY <1>5, <2>2, <2>3 DEF StatBufUserPut, StatTypes
<1>6. ASSUME NEW p \in 0 .. MaxFrame, FeInsert(p)
      PROVE  StatTypes'
  <2>1. fe_busy \in Seq(Nat) /\ Len(fe_busy) \in Nat /\ Len(fe_busy) <= NumFe /\ NumFe \in Nat \ {0}
    BY BufsAre, LenProperties DEF StatTypes
  <2>2. FeKept \in Seq(Nat) /\ Len(FeKept) < NumFe
    <3>1. CASE run_wakeup_sel = "FE_START"
      BY <2>1, <3>1 DEF FeKept
    <3>2. CASE run_wakeup_sel # "FE_START" /\ Len(fe_busy) = NumFe
      <4>1. FeKept = Tail(fe_busy) /\ fe_busy # <<>>
        BY <2>1, <3>2, EmptySeq DEF FeKept
      <4>2. FeKept \in Seq(Nat) /\ Len(fe_busy) = Len(FeKept) + 1 /\ Len(FeKept) \in Nat
        BY <2>1, <4>1, TailIs
      <4>. QED  BY <2>1, <4>2
    <3>3. CASE run_wakeup_sel # "FE_START" /\ Len(fe_busy) # NumFe
      BY <2>1, <3>3 DEF FeKept
    <3>. QED  BY <3>1, <3>2, <3>3
  <2>3. p \in Nat
    BY BufsAre
  <2>4. Append(FeKept, p) \in Seq(Nat) /\ Len(Append(FeKept, p)) = Len(FeKept) + 1
    BY <2>2, <2>3, AppendProperties
  <2>5. fe_busy' \in Seq(Nat) /\ Len(fe_busy') <= NumFe
    <3>1. Len(FeKept) \in Nat
      BY <2>2, LenProperties
    <3>2. Len(FeKept) + 1 <= NumFe
      BY <2>1, <2>2, <3>1
    <3>. QED  BY <1>6, <2>1, <2>4, <3>2 DEF FeInsert
  <2>. QED  BY <1>6, <2>5 DEF FeInsert, statLists, StatTypes
<1>7. CASE SummaryInsert
  <2>1. CASE UNCHANGED <<st_free, st_busy, act_stat, stat, fe_busy>>
    BY <1>7, <2>1, SummedIs DEF StatTypes
  <2>2. ASSUME NEW b \in Bufs, Summed(b)
        PROVE  StatTypes'
    <3>1. Source \in Seq(Bufs) /\ Rest \in Seq(Bufs) /\ Source # <<>>
      BY <2>2, SourceIs DEF Summed
    <3>2. st_free' \in Seq(Bufs)
      BY <2>2, <3>1, TailIs DEF Summed
    <3>3. st_busy' \in Seq(Bufs)
      BY <2>2, <3>1, AppendProperties DEF Summed
    <3>4. PICK f : f = FeFrom(frame_pts)
      OBVIOUS
    <3>5. f \in Seq(Nat) /\ Len(f) \in Nat /\ Len(f) <= NumFe
      <4>1. f \in Seq(Nat) /\ Len(f) <= Len(fe_busy) /\ Len(fe_busy) <= NumFe /\ Len(fe_busy) \in Nat
        BY <3>4, FeFromIs, LenProperties DEF StatTypes
      <4>. QED  BY <4>1, BufsAre, LenProperties
    <3>6. /\ fe_busy' \in Seq(Nat) /\ Len(fe_busy') <= NumFe
          /\ FeFound(frame_pts) => Head(f) \in Nat
      <4>1. CASE FeFound(frame_pts)
        <5>1. f # <<>> /\ fe_busy' = Tail(f)
          BY <2>2, <3>4, <4>1 DEF FeFound, Summed
        <5>2. Head(f) \in Nat /\ fe_busy' \in Seq(Nat) /\ Len(f) = Len(fe_busy') + 1 /\ Len(fe_busy') \in Nat
          BY <3>5, <5>1, TailIs
        <5>. QED  BY <3>5, <5>2, BufsAre
      <4>2. CASE ~FeFound(frame_pts)
        BY <2>2, <3>4, <3>5, <4>2 DEF Summed
      <4>. QED  BY <4>1, <4>2
    <3>7. stat' \in [Bufs -> Stats]
      <4>1. stat[b] \in Stats /\ frame_pts \in Nat /\ ready_stt \in Nat
        BY DEF StatTypes
      <4>2. stat[b].be \in Nat /\ stat[b].fe \in Nat /\ stat[b].af \in Nat
        BY <4>1 DEF Stats
      <4>3. PICK q : q = IF FeFound(frame_pts) THEN Head(f) ELSE stat[b].fe
        OBVIOUS
      <4>4. q \in Nat
        BY <3>6, <4>2, <4>3
      <4>5. Entry(b) \in Stats
        BY <3>4, <4>1, <4>2, <4>3, <4>4 DEF Entry, Stats
      <4>. QED  BY <2>2, <4>5 DEF Summed, StatTypes
    <3>. QED  BY <1>7, <2>2, <3>2, <3>3, <3>6, <3>7, SummedIs DEF Summed, StatTypes
  <2>. QED  BY <1>7, <2>1, <2>2, SummedIs
<1>8. ASSUME NEW broken \in BOOLEAN, NEW running \in BOOLEAN, NEW last \in BOOLEAN, vi # <<>>,
             SwitchBeOfflineStt(Head(vi).pts, broken, running, last)
      PROVE  StatTypes'
  <2>1. Head(vi).pts \in Nat
    BY <1>8, HeadPts
  <2>2. PICK p \in Nat : p = Head(vi).pts /\ SwitchBeOfflineStt(p, broken, running, last)
    BY <1>8, <2>1
  <2>3. /\ UNCHANGED <<run_wakeup_sel, stat_init, st_user, act_stat, fe_busy, frame>>
        /\ ready_stt' = p /\ (last => frame_pts' = p) /\ (~last => frame_pts' = frame_pts)
        /\ (running => be_broken' = broken) /\ (~running => be_broken' = be_broken)
        /\ (st_free' = st_free \/ st_free' = Recycled) /\ (st_busy' = st_busy \/ st_busy' = <<>>)
        /\ stat' \in [Bufs -> Stats]
    BY <1>8, <2>2, SwitchIs
  <2>4. st_free' \in Seq(Bufs) /\ st_busy' \in Seq(Bufs)
    <3>1. <<>> \in Seq(Bufs)
      OBVIOUS
    <3>. QED  BY <2>3, <3>1, RecycledIs DEF StatTypes
  <2>5. frame_pts' \in Nat /\ ready_stt' \in Nat /\ be_broken' \in BOOLEAN
    BY <2>3 DEF StatTypes
  <2>. QED  BY <2>3, <2>4, <2>5 DEF StatTypes
<1>9. CASE UpdateFePts /\ frame < MaxFrame
  BY <1>9, BufsAre DEF UpdateFePts, statLists, StatTypes
<1>10. frame \in 0 .. MaxFrame /\ (frame < MaxFrame => frame + 1 \in 0 .. MaxFrame)
  BY BufsAre DEF StatTypes
<1>11. ASSUME NEW sel \in {"FE_START", "BE_END"}, SelectWakeup(sel)
       PROVE  StatTypes'
  BY <1>11 DEF SelectWakeup, statLists, StatTypes
<1>. QED  BY <1>1, <1>2, <1>3, <1>4, <1>5, <1>6, <1>7, <1>8, <1>9, <1>10, <1>11, StatSteps

(* The statistics buffers stay in their places, and the firmware reads the *)
(* one on the user list.                                                   *)
LEMMA StatPlacedNext ==
  ASSUME StatPlaced, StatTypes, PipeTypes, LifeOK, [Next]_vars
  PROVE  StatPlaced'
<1>0. /\ st_free \in Seq(Bufs) /\ st_busy \in Seq(Bufs) /\ st_user \in Seq(Bufs)
      /\ Once(st_free) /\ Once(st_busy) /\ Once(st_user)
      /\ \A b \in Bufs : /\ ~(On(b, st_free) /\ On(b, st_busy))
                         /\ ~(On(b, st_free) /\ On(b, st_user))
                         /\ ~(On(b, st_busy) /\ On(b, st_user))
  BY DEF StatTypes, StatPlaced
<1>1. CASE UNCHANGED <<stat_init, st_free, st_busy, st_user, act_stat, read>>
  BY <1>1 DEF StatPlaced
<1>2. CASE StatBufInit /\ read' = read
  <2>1. /\ ~stat_init /\ stat_init' /\ st_free' = SetToSeq(Bufs) /\ st_busy' = <<>> /\ st_user' = <<>>
        /\ read' = NoBuf
    BY <1>2 DEF StatBufInit, LifeOK
  <2>2. Once(<<>>) /\ \A b : ~On(b, <<>>)
    BY EmptyList
  <2>. QED  BY <2>1, <2>2, AllBufs, BufsAre DEF StatPlaced
<1>3. CASE StatBufExit
  <2>1. Once(<<>>) /\ \A b : ~On(b, <<>>)
    BY EmptyList
  <2>. QED  BY <1>3, <2>1 DEF StatBufExit, StatPlaced
<1>4. CASE StatBufUserGet /\ read = NoBuf /\ read' = Head(st_busy)
  <2>1. PICK h : h = st_busy[1]
    OBVIOUS
  <2>2. /\ stat_init /\ st_busy # <<>> /\ st_busy' = Tail(st_busy)
        /\ UNCHANGED <<stat_init, st_free, act_stat>>
    BY <1>4 DEF StatBufUserGet
  <2>3. Head(st_busy) = h /\ h \in Bufs
    BY <1>0, <2>1, <2>2, TailIs
  <2>4. st_user' = Append(st_user, h) /\ read' = h
    BY <1>4, <2>3 DEF StatBufUserGet
  <2>5. \A b : On(b, st_busy) <=> On(b, st_busy') \/ b = h
    BY <1>0, <2>1, <2>2, TailOn
  <2>6. Once(st_busy') /\ ~On(h, st_busy')
    BY <1>0, <2>1, <2>2, TailOnce
  <2>7. \A b : On(b, st_user') <=> On(b, st_user) \/ b = h
    BY <1>0, <2>3, <2>4, AppendOn
  <2>8. ~On(h, st_user) /\ ~On(h, st_free)
    BY <1>0, <2>3, <2>5
  <2>9. Once(st_user')
    BY <1>0, <2>3, <2>4, <2>8, AppendOnce
  <2>10. \A b \in Bufs : ~On(b, st_user)
    BY <1>4, <2>2, BufsAre DEF StatPlaced
  <2>11. stat_init' /\ Once(st_free')
    BY <1>0, <2>2
  <2>12. \A b \in Bufs : /\ ~(On(b, st_free') /\ On(b, st_busy'))
                         /\ ~(On(b, st_free') /\ On(b, st_user'))
                         /\ ~(On(b, st_busy') /\ On(b, st_user'))
    BY <1>0, <2>2, <2>5, <2>6, <2>7, <2>8
  <2>13. \A b \in Bufs : On(b, st_free') \/ On(b, st_busy') \/ On(b, st_user')
    BY <2>2, <2>5, <2>7 DEF StatPlaced
  <2>14. \A b \in Bufs : On(b, st_user') <=> b = read'
    BY <2>4, <2>7, <2>10
  <2>. QED  BY <2>6, <2>9, <2>11, <2>12, <2>13, <2>14 DEF StatPlaced
<1>5. CASE StatBufUserPut(read) /\ read # NoBuf /\ read' = NoBuf
  <2>1. /\ stat_init /\ read \in Bufs
        /\ st_user' = Kept(st_user, Bufs \ {read}) /\ st_free' = Append(st_free, read)
        /\ UNCHANGED <<stat_init, st_busy, act_stat>>
    BY <1>5 DEF StatBufUserPut, PipeTypes
  <2>2. \A b : On(b, st_user') <=> On(b, st_user) /\ b \in Bufs \ {read}
    BY <1>0, <2>1, KeptIs
  <2>3. Once(st_user')
    BY <1>0, <2>1, KeptOnce
  <2>4. \A b : On(b, st_free') <=> On(b, st_free) \/ b = read
    BY <1>0, <2>1, AppendOn
  <2>5. On(read, st_user) /\ \A b \in Bufs : On(b, st_user) <=> b = read
    BY <2>1 DEF StatPlaced
  <2>6. Once(st_free')
    BY <1>0, <2>1, <2>5, AppendOnce
  <2>7. stat_init' /\ Once(st_busy')
    BY <1>0, <2>1
  <2>8. \A b \in Bufs : /\ ~(On(b, st_free') /\ On(b, st_busy'))
                        /\ ~(On(b, st_free') /\ On(b, st_user'))
                        /\ ~(On(b, st_busy') /\ On(b, st_user'))
    BY <1>0, <2>1, <2>2, <2>4, <2>5
  <2>9. \A b \in Bufs : On(b, st_free') \/ On(b, st_busy') \/ On(b, st_user')
    BY <2>1, <2>2, <2>4 DEF StatPlaced
  <2>10. \A b \in Bufs : On(b, st_user') <=> b = read'
    BY <1>5, <2>2, <2>5, BufsAre
  <2>. QED  BY <2>3, <2>6, <2>7, <2>8, <2>9, <2>10 DEF StatPlaced
<1>6. ASSUME NEW b \in Bufs, Summed(b), UNCHANGED <<stat_init, st_user, read>>
      PROVE  StatPlaced'
  <2>1. /\ Source \in Seq(Bufs) /\ Rest \in Seq(Bufs) /\ Once(Source) /\ Once(Rest)
        /\ \A c \in Bufs : /\ ~(On(c, Source) /\ On(c, Rest))
                           /\ On(c, Source) \/ On(c, Rest) <=> On(c, st_free) \/ On(c, st_busy)
    BY SourceIs
  <2>2. /\ stat_init /\ stat_init' /\ Source # <<>> /\ b = Source[1]
        /\ st_free' = Tail(Source) /\ st_busy' = Append(Rest, b)
    BY <1>6 DEF Summed
  <2>3. \A c : On(c, Source) <=> On(c, st_free') \/ c = b
    BY <2>1, <2>2, TailOn
  <2>4. Once(st_free') /\ ~On(b, st_free')
    BY <2>1, <2>2, TailOnce
  <2>5. \A c : On(c, st_busy') <=> On(c, Rest) \/ c = b
    BY <2>1, <2>2, AppendOn
  <2>6. Once(st_busy')
    BY <2>1, <2>2, <2>3, AppendOnce
  <2>7. \A c \in Bufs : /\ ~(On(c, st_free') /\ On(c, st_busy'))
                        /\ On(c, st_free') \/ On(c, st_busy') <=> On(c, st_free) \/ On(c, st_busy)
    BY <2>1, <2>3, <2>4, <2>5
  <2>. QED  BY <1>0, <1>6, <2>2, <2>4, <2>6, <2>7 DEF StatPlaced
<1>7. CASE SummaryInsert /\ read' = read
  BY <1>1, <1>6, <1>7, SummedIs
<1>8. ASSUME NEW p, NEW broken, NEW running, NEW last, SwitchBeOfflineStt(p, broken, running, last), read' = read
      PROVE  StatPlaced'
  <2>1. CASE running /\ broken /\ stat_init
    <3>1. st_free' = Recycled /\ st_busy' = <<>> /\ UNCHANGED <<stat_init, st_user, act_stat>>
      BY <1>8, <2>1 DEF SwitchBeOfflineStt, BeStatBufRead
    <3>2. Once(<<>>) /\ \A c : ~On(c, <<>>)
      BY EmptyList
    <3>. QED  BY <1>0, <1>8, <2>1, <3>1, <3>2, RecycledIs DEF StatPlaced
  <2>2. CASE ~(running /\ broken /\ stat_init)
    BY <1>1, <1>8, <2>2 DEF SwitchBeOfflineStt, AfStatRead
  <2>. QED  BY <2>1, <2>2
<1>9. CASE (UNCHANGED statVars \/ UpdateFePts \/ FeInsert(frame) \/ FeInsert(frame + 1)) /\ read' = read
  BY <1>1, <1>9 DEF statVars, statLists, UpdateFePts, FeInsert
<1>10. ASSUME NEW sel, SelectWakeup(sel), read' = read
       PROVE  StatPlaced'
  BY <1>1, <1>10 DEF SelectWakeup, statLists
<1>. QED  BY <1>2, <1>3, <1>4, <1>5, <1>7, <1>8, <1>9, <1>10, StatSteps

-----------------------------------------------------------------------------
(* The order of time.                                                      *)

(* What a step does to VI's frames.                                        *)
LEMMA ViSteps ==
  ASSUME [Next]_vars
  PROVE  \/ UNCHANGED <<vi, frame, frame_pts, vi_last>>
         \/ vi_last' = frame /\ UNCHANGED <<vi, frame, frame_pts>>
         \/ frame' = frame + 1 /\ UNCHANGED <<vi, frame_pts, vi_last>>
         \/ \E p \in 1 .. MaxFrame :
              /\ p \in vi_last + 1 .. frame /\ vi_last' = p
              /\ GetReadyBeBuf(p) /\ UNCHANGED <<frame, frame_pts>>
         \/ HoldBusyBeBuf /\ UNCHANGED <<frame, frame_pts, vi_last>>
         \/ EndJob /\ frame_pts' = Head(vi).pts /\ UNCHANGED <<frame, vi_last>>
         \/ PutFreeBeBuf /\ UNCHANGED <<frame, frame_pts, vi_last>>
<1>1. CASE UNCHANGED vars
  BY <1>1 DEF vars, beVars, statVars, pipeVars
<1>2. CASE Start
  BY <1>2 DEF Start, BeBufInit, StatBufInit
<1>3. CASE StopInterrupt \/ ExitStatistics \/ ExitBegin \/ ExitEnd \/ ExitTimeout \/ ResetCtx \/ SetCtrlParam
  BY <1>3 DEF StopInterrupt, ExitStatistics, ExitBegin, ExitEnd, ExitTimeout, ResetCtx, SetCtrlParam,
              SelectWakeup, BeExitBegin, BeExitEnd, StatBufExit, beVars, statVars, pipeVars
<1>4. CASE FrameStart \/ FrameTake \/ FrameFe \/ FrameStartPlus
  BY <1>4 DEF FrameStart, FrameTake, FrameFe, FrameStartPlus, UpdateFePts, FeInsert, TakeFree,
              beVars, statVars, pipeVars
<1>5. CASE TriggerPrepare \/ SumUp
  BY <1>5 DEF TriggerPrepare, SumUp, PrepareBeBuf, TakeFree, SummaryInsert, beVars, statVars
<1>6. CASE \E p \in 1 .. MaxFrame : ViStart(p)
  BY <1>6 DEF ViStart, statVars
<1>7. CASE ViHold \/ ViPut
  BY <1>7 DEF ViHold, ViPut, statVars, pipeVars
<1>8. CASE ViPart
  BY <1>8 DEF ViPart, SwitchBeOfflineStt, beVars, pipeVars
<1>9. CASE ViEnd
  BY <1>9 DEF ViEnd, SwitchBeOfflineStt
<1>10. CASE SwitchBegin \/ SwitchEnd \/ RunCfg
  BY <1>10 DEF SwitchBegin, SwitchEnd, RunCfg, GetBeLastBuf, AllBeBufInit, BeBufCtl, statVars
<1>11. CASE FrameEdge \/ RunGetBuf \/ RunGetStat \/ RunPutStat \/ RunFail
  BY <1>11 DEF FrameEdge, RunGetBuf, RunGetStat, RunPutStat, RunFail, StatBufUserGet, StatBufUserPut,
               beVars, statVars
<1>. QED  BY <1>1, <1>2, <1>3, <1>4, <1>5, <1>6, <1>7, <1>8, <1>9, <1>10, <1>11 DEF Next

(* A frame joins behind the others.                                        *)
LEMMA ViJoins ==
  ASSUME Queue, NEW p \in Nat, GetReadyBeBuf(p)
  PROVE  /\ Len(vi') = Len(vi) + 1 /\ Len(vi) \in Nat
         /\ \A i \in 1 .. Len(vi) : vi'[i] = vi[i]
         /\ vi'[Len(vi) + 1].pts = p /\ ~vi'[Len(vi) + 1].ended
<1>1. PICK e : e = [node |-> Last(busy_list), pts |-> p, ended |-> FALSE]
  OBVIOUS
<1>2. vi' = Append(vi, e) /\ busy_list # <<>>
  BY <1>1 DEF GetReadyBeBuf
<1>3. vi \in Seq(Jobs) /\ busy_list \in Seq(Nodes)
  BY DEF Queue, BeTypes
<1>4. Last(busy_list) \in Nodes
  BY <1>2, <1>3, FrontIs
<1>5. e \in Jobs /\ e.pts = p /\ ~e.ended
  BY <1>1, <1>4 DEF Jobs
<1>6. /\ Len(vi') = Len(vi) + 1 /\ Len(vi) \in Nat
      /\ \A i \in 1 .. Len(vi) : vi'[i] = vi[i]
      /\ vi'[Len(vi) + 1] = e
  BY <1>2, <1>3, <1>5, AppendProperties, LenProperties
<1>. QED  BY <1>5, <1>6

(* VI's frames stay in their order.                                        *)
LEMMA ViInTimeNext ==
  ASSUME ViInTime, Queue, StatTypes, PipeTypes, [Next]_vars
  PROVE  ViInTime'
<1>1. /\ vi \in Seq(Jobs) /\ Len(vi) \in Nat
      /\ frame \in Nat /\ frame_pts \in Nat /\ vi_last \in Nat
  BY BufsAre, LenProperties DEF Queue, BeTypes, StatTypes, PipeTypes
<1>2. \A i \in 1 .. Len(vi) : vi[i].pts \in Nat
  <2>1. SUFFICES ASSUME NEW i \in 1 .. Len(vi)
                 PROVE  vi[i].pts \in Nat
    OBVIOUS
  <2>2. vi[i] \in Jobs
    BY <1>1, ElementOfSeq
  <2>. QED  BY <2>2 DEF Jobs
<1>3. /\ frame_pts <= vi_last /\ vi_last <= frame
      /\ \A i \in 1 .. Len(vi) : frame_pts <= vi[i].pts /\ vi[i].pts <= vi_last
      /\ \A i, j \in 1 .. Len(vi) : i < j => vi[i].pts <= vi[j].pts
  BY DEF ViInTime
<1>4. CASE UNCHANGED <<vi, frame, frame_pts, vi_last>>
  BY <1>3, <1>4 DEF ViInTime
<1>5. CASE vi_last' = frame /\ UNCHANGED <<vi, frame, frame_pts>>
  BY <1>1, <1>2, <1>3, <1>5 DEF ViInTime
<1>6. CASE frame' = frame + 1 /\ UNCHANGED <<vi, frame_pts, vi_last>>
  BY <1>1, <1>3, <1>6 DEF ViInTime
<1>7. ASSUME NEW p \in 1 .. MaxFrame, p \in vi_last + 1 .. frame, vi_last' = p, GetReadyBeBuf(p),
             UNCHANGED <<frame, frame_pts>>
      PROVE  ViInTime'
  <2>1. p \in Nat
    BY BufsAre
  <2>2. /\ Len(vi') = Len(vi) + 1
        /\ \A i \in 1 .. Len(vi) : vi'[i] = vi[i]
        /\ vi'[Len(vi) + 1].pts = p
    BY <1>7, <2>1, ViJoins
  <2>3. \A i \in 1 .. Len(vi') : i \in 1 .. Len(vi) \/ i = Len(vi) + 1
    BY <1>1, <2>2
  <2>4. frame_pts' <= vi_last' /\ vi_last' <= frame' /\ vi_last < p /\ frame_pts <= p
    BY <1>1, <1>3, <1>7, <2>1
  <2>5. \A i \in 1 .. Len(vi) : /\ frame_pts <= vi'[i].pts /\ vi'[i].pts <= p
    BY <1>1, <1>2, <1>3, <2>1, <2>2, <2>4
  <2>6. \A i \in 1 .. Len(vi') : frame_pts' <= vi'[i].pts /\ vi'[i].pts <= vi_last'
    BY <1>7, <2>1, <2>2, <2>3, <2>4, <2>5
  <2>7. ASSUME NEW i \in 1 .. Len(vi'), NEW j \in 1 .. Len(vi'), i < j
        PROVE  vi'[i].pts <= vi'[j].pts
    <3>1. i \in 1 .. Len(vi)
      BY <1>1, <2>2, <2>7
    <3>. QED  BY <1>3, <2>2, <2>3, <2>5, <2>7, <3>1
  <2>. QED  BY <2>4, <2>6, <2>7 DEF ViInTime
<1>8. CASE HoldBusyBeBuf /\ UNCHANGED <<frame, frame_pts, vi_last>>
  <2>1. vi' = Doubled(vi) /\ vi # <<>>
    BY <1>8 DEF HoldBusyBeBuf, Doubled
  <2>7. Len(vi') = Len(vi) + 1 /\ vi'[1] = vi[1]
    BY <1>1, <2>1, DoubledHead
  <2>2. Len(vi') = Len(vi) + 1 /\ vi'[1] = vi[1] /\ 1 \in 1 .. Len(vi)
    BY <1>1, <2>1, <2>7, EmptySeq
  <2>3. \A i \in 1 .. Len(vi) : vi'[i + 1].pts = vi[i].pts
    BY <1>1, <2>1, DoubledNext
  <2>4. \A i \in 1 .. Len(vi') : \E k \in 1 .. Len(vi) :
          vi'[i].pts = vi[k].pts /\ ((i = 1 /\ k = 1) \/ i = k + 1)
    <3>1. SUFFICES ASSUME NEW i \in 1 .. Len(vi'), i # 1
                   PROVE  \E k \in 1 .. Len(vi) : vi'[i].pts = vi[k].pts /\ i = k + 1
      BY <2>2
    <3>2. PICK k : k = i - 1
      OBVIOUS
    <3>3. k \in 1 .. Len(vi) /\ i = k + 1
      BY <1>1, <2>2, <3>1, <3>2
    <3>. QED  BY <2>3, <3>3
  <2>5. \A i \in 1 .. Len(vi') : frame_pts <= vi'[i].pts /\ vi'[i].pts <= vi_last
    BY <1>3, <2>4
  <2>6. ASSUME NEW i \in 1 .. Len(vi'), NEW j \in 1 .. Len(vi'), i < j
        PROVE  vi'[i].pts <= vi'[j].pts
    <3>1. PICK k \in 1 .. Len(vi) : vi'[i].pts = vi[k].pts /\ ((i = 1 /\ k = 1) \/ i = k + 1)
      BY <2>4
    <3>2. PICK l \in 1 .. Len(vi) : vi'[j].pts = vi[l].pts /\ ((j = 1 /\ l = 1) \/ j = l + 1)
      BY <2>4
    <3>3. k = l \/ k < l
      BY <1>1, <2>6, <3>1, <3>2
    <3>. QED  BY <1>2, <1>3, <3>1, <3>2, <3>3
  <2>. QED  BY <1>3, <1>8, <2>5, <2>6 DEF ViInTime
<1>9. CASE EndJob /\ frame_pts' = Head(vi).pts /\ UNCHANGED <<frame, vi_last>>
  <2>1. vi' = [vi EXCEPT ![1].ended = TRUE] /\ vi # <<>>
    BY <1>9 DEF EndJob
  <2>2. Len(vi') = Len(vi) /\ 1 \in 1 .. Len(vi)
    BY <1>1, <2>1, EndedIs
  <2>3. \A i \in 1 .. Len(vi) : vi'[i].pts = vi[i].pts
    BY <1>1, <2>1, EndedPts
  <2>4. Head(vi) = vi[1]
    BY <1>1, <2>1, TailIs
  <2>5. \A i \in 1 .. Len(vi) : vi[1].pts <= vi[i].pts
    <3>1. \A i \in 1 .. Len(vi) : i = 1 \/ 1 < i
      BY <1>1
    <3>. QED  BY <1>2, <1>3, <2>2, <3>1
  <2>. QED  BY <1>3, <1>9, <2>2, <2>3, <2>4, <2>5 DEF ViInTime
<1>10. CASE PutFreeBeBuf /\ UNCHANGED <<frame, frame_pts, vi_last>>
  <2>1. vi' = Tail(vi) /\ vi # <<>>
    BY <1>10 DEF PutFreeBeBuf
  <2>2. Len(vi) = Len(vi') + 1 /\ Len(vi') \in Nat
    BY <1>1, <2>1, TailIs
  <2>3. \A i \in 1 .. Len(vi') : vi'[i] = vi[i + 1]
    BY <1>1, <2>1, TailIs
  <2>4. \A i \in 1 .. Len(vi') : i + 1 \in 1 .. Len(vi) /\ vi'[i].pts = vi[i + 1].pts
    BY <2>2, <2>3
  <2>5. \A i, j \in 1 .. Len(vi') : i < j => i + 1 < j + 1
    BY <2>2
  <2>. QED  BY <1>3, <1>10, <2>4, <2>5 DEF ViInTime
<1>. QED  BY <1>4, <1>5, <1>6, <1>7, <1>8, <1>9, <1>10, ViSteps

(* VI's frames have types of their own.                                    *)
LEMMA ViTypes ==
  ASSUME Queue, StatTypes, PipeTypes
  PROVE  /\ vi \in Seq(Jobs) /\ Len(vi) \in Nat
         /\ frame \in Nat /\ frame_pts \in Nat /\ vi_last \in Nat
         /\ \A i \in 1 .. Len(vi) : vi[i].pts \in Nat /\ vi[i].ended \in BOOLEAN
<1>1. /\ vi \in Seq(Jobs) /\ Len(vi) \in Nat
      /\ frame \in Nat /\ frame_pts \in Nat /\ vi_last \in Nat
  BY BufsAre, LenProperties DEF Queue, BeTypes, StatTypes, PipeTypes
<1>2. ASSUME NEW i \in 1 .. Len(vi)
      PROVE  vi[i].pts \in Nat /\ vi[i].ended \in BOOLEAN
  <2>2. vi[i] \in Jobs
    BY <1>1, ElementOfSeq
  <2>. QED  BY <2>2 DEF Jobs
<1>. QED  BY <1>1, <1>2

(* What VI has not ended stays younger than what it ended last.            *)
LEMMA YoungerNext ==
  ASSUME Younger, ViInTime, Queue, StatTypes, PipeTypes, [Next]_vars
  PROVE  Younger'
<1>1. /\ vi \in Seq(Jobs) /\ Len(vi) \in Nat
      /\ frame \in Nat /\ frame_pts \in Nat /\ vi_last \in Nat
      /\ \A i \in 1 .. Len(vi) : vi[i].pts \in Nat
  BY ViTypes
<1>2. \A i \in 1 .. Len(vi) : ~vi[i].ended =>
        /\ frame_pts < vi[i].pts
        /\ \A j \in 1 .. Len(vi) : i < j /\ ~vi[j].ended => vi[i].pts < vi[j].pts
  BY DEF Younger
<1>3. /\ frame_pts <= vi_last
      /\ \A i \in 1 .. Len(vi) : vi[i].pts <= vi_last
  BY DEF ViInTime
<1>4. CASE UNCHANGED <<vi, frame_pts>>
  BY <1>2, <1>4 DEF Younger
<1>5. ASSUME NEW p \in 1 .. MaxFrame, p \in vi_last + 1 .. frame, GetReadyBeBuf(p), frame_pts' = frame_pts
      PROVE  Younger'
  <2>1. p \in Nat
    BY BufsAre
  <2>2. /\ Len(vi') = Len(vi) + 1
        /\ \A i \in 1 .. Len(vi) : vi'[i] = vi[i]
        /\ vi'[Len(vi) + 1].pts = p
    BY <1>5, <2>1, ViJoins
  <2>3. \A i \in 1 .. Len(vi') : i \in 1 .. Len(vi) \/ i = Len(vi) + 1
    BY <1>1, <2>2
  <2>4. frame_pts < p /\ \A i \in 1 .. Len(vi) : vi[i].pts < p
    BY <1>1, <1>3, <1>5, <2>1
  <2>5. \A i \in 1 .. Len(vi') : ~vi'[i].ended => frame_pts < vi'[i].pts
    BY <1>2, <2>2, <2>3, <2>4
  <2>6. ASSUME NEW i \in 1 .. Len(vi'), NEW j \in 1 .. Len(vi'), ~vi'[i].ended, i < j, ~vi'[j].ended
        PROVE  vi'[i].pts < vi'[j].pts
    <3>1. i \in 1 .. Len(vi)
      BY <1>1, <2>2, <2>6
    <3>2. CASE j \in 1 .. Len(vi)
      BY <1>2, <2>2, <2>6, <3>1, <3>2
    <3>3. CASE j = Len(vi) + 1
      BY <2>2, <2>4, <3>1, <3>3
    <3>. QED  BY <2>3, <3>2, <3>3
  <2>. QED  BY <1>5, <2>5, <2>6 DEF Younger
<1>6. CASE HoldBusyBeBuf /\ frame_pts' = frame_pts
  <2>1. vi' = Doubled(vi) /\ vi # <<>>
    BY <1>6 DEF HoldBusyBeBuf, Doubled
  <2>2. Len(vi') = Len(vi) + 1 /\ vi'[1] = vi[1]
    BY <1>1, <2>1, DoubledHead
  <2>3. vi'[2] = [vi[1] EXCEPT !.ended = TRUE] /\ vi[1] \in Jobs
    BY <1>1, <2>1, DoubledHead
  <2>4. vi'[2].ended
    BY <2>3 DEF Jobs
  <2>5. \A i \in 2 .. Len(vi) : vi'[i + 1] = vi[i]
    BY <1>1, <2>1, DoubledTail
  <2>6. 1 \in 1 .. Len(vi)
    BY <1>1, <2>1, EmptySeq
  <2>7. ASSUME NEW i \in 1 .. Len(vi'), ~vi'[i].ended
        PROVE  \E k \in 1 .. Len(vi) : vi'[i] = vi[k] /\ ((i = 1 /\ k = 1) \/ (i = k + 1 /\ k > 1))
    <3>1. CASE i = 1
      BY <2>2, <2>6, <3>1
    <3>2. CASE i # 1
      <4>1. PICK k : k = i - 1
        OBVIOUS
      <4>2. i # 2
        BY <2>4, <2>7
      <4>3. k \in 2 .. Len(vi) /\ k \in 1 .. Len(vi) /\ i = k + 1 /\ k > 1
        BY <1>1, <2>2, <3>2, <4>1, <4>2
      <4>. QED  BY <2>5, <4>3
    <3>. QED  BY <3>1, <3>2
  <2>8. ASSUME NEW i \in 1 .. Len(vi'), NEW j \in 1 .. Len(vi'), ~vi'[i].ended, i < j, ~vi'[j].ended
        PROVE  vi'[i].pts < vi'[j].pts
    <3>1. PICK k \in 1 .. Len(vi) : vi'[i] = vi[k] /\ ((i = 1 /\ k = 1) \/ (i = k + 1 /\ k > 1))
      BY <2>7, <2>8
    <3>2. PICK l \in 1 .. Len(vi) : vi'[j] = vi[l] /\ ((j = 1 /\ l = 1) \/ (j = l + 1 /\ l > 1))
      BY <2>7, <2>8
    <3>3. k < l
      BY <1>1, <2>8, <3>1, <3>2
    <3>. QED  BY <1>2, <2>8, <3>1, <3>2, <3>3
  <2>9. \A i \in 1 .. Len(vi') : ~vi'[i].ended => frame_pts < vi'[i].pts
    <3>1. SUFFICES ASSUME NEW i \in 1 .. Len(vi'), ~vi'[i].ended
                   PROVE  frame_pts < vi'[i].pts
      OBVIOUS
    <3>2. PICK k \in 1 .. Len(vi) : vi'[i] = vi[k]
      BY <2>7, <3>1
    <3>. QED  BY <1>2, <3>1, <3>2
  <2>. QED  BY <1>6, <2>8, <2>9 DEF Younger
<1>7. CASE EndJob /\ frame_pts' = Head(vi).pts
  <2>1. vi' = [vi EXCEPT ![1].ended = TRUE] /\ vi # <<>> /\ ~Head(vi).ended
    BY <1>7 DEF EndJob
  <2>2. Head(vi) = vi[1]
    BY <1>1, <2>1, TailIs
  <2>3. Len(vi') = Len(vi) /\ vi'[1] = [vi[1] EXCEPT !.ended = TRUE]
    BY <1>1, <2>1, EndedIs
  <2>4. vi[1] \in Jobs /\ 1 \in 1 .. Len(vi)
    BY <1>1, <2>1, DoubledHead, EmptySeq
  <2>5. vi'[1].ended
    BY <2>3, <2>4 DEF Jobs
  <2>6. \A i \in 1 .. Len(vi) : i # 1 => vi'[i] = vi[i]
    BY <1>1, <2>1, EndedTail
  <2>7. \A i \in 1 .. Len(vi) : i = 1 \/ 1 < i
    BY <1>1
  <2>8. \A i \in 1 .. Len(vi) : ~vi'[i].ended => i # 1 /\ 1 < i /\ ~vi[i].ended /\ vi'[i] = vi[i]
    BY <2>5, <2>6, <2>7
  <2>9. \A i \in 1 .. Len(vi) : ~vi'[i].ended => vi[1].pts < vi'[i].pts
    BY <1>2, <2>1, <2>2, <2>4, <2>8
  <2>10. \A i, j \in 1 .. Len(vi) : ~vi'[i].ended /\ i < j /\ ~vi'[j].ended => vi'[i].pts < vi'[j].pts
    BY <1>2, <2>8
  <2>. QED  BY <1>7, <2>2, <2>3, <2>9, <2>10 DEF Younger
<1>8. CASE PutFreeBeBuf /\ frame_pts' = frame_pts
  <2>1. vi' = Tail(vi) /\ vi # <<>>
    BY <1>8 DEF PutFreeBeBuf
  <2>2. Len(vi) = Len(vi') + 1 /\ Len(vi') \in Nat
    BY <1>1, <2>1, TailIs
  <2>3. \A i \in 1 .. Len(vi') : vi'[i] = vi[i + 1]
    BY <1>1, <2>1, TailIs
  <2>4. \A i \in 1 .. Len(vi') : i + 1 \in 1 .. Len(vi) /\ vi'[i] = vi[i + 1]
    BY <2>2, <2>3
  <2>5. \A i, j \in 1 .. Len(vi') : i < j => i + 1 < j + 1
    BY <2>2
  <2>. QED  BY <1>2, <1>8, <2>4, <2>5 DEF Younger
<1>. QED  BY <1>4, <1>5, <1>6, <1>7, <1>8, ViSteps

(* What a step does to the statistics and to what the firmware has seen.   *)
LEMMA SeenSteps ==
  ASSUME PipeTypes, [Next]_vars
  PROVE  \/ UNCHANGED <<seen, frame_pts, act_stat, stat, st_busy>>
         \/ (StatBufInit \/ StatBufExit \/ SummaryInsert) /\ seen' = seen
         \/ /\ \E broken, running, last \in BOOLEAN :
                 SwitchBeOfflineStt(Head(vi).pts, broken, running, last)
            /\ vi # <<>> /\ seen' = seen
         \/ StatBufUserGet /\ seen' = stat[Head(st_busy)].pts
         \/ /\ UNCHANGED statVars /\ st_busy = <<>>
            /\ seen' = IF act_stat = NoBuf THEN seen ELSE stat[act_stat].pts
<1>1. CASE seen' = seen
  <2>1. CASE \/ UNCHANGED statVars \/ StatBufUserPut(read)
             \/ FeInsert(frame) \/ FeInsert(frame + 1) \/ UpdateFePts
             \/ \E sel \in {"FE_START", "BE_END"} : SelectWakeup(sel)
    <3>1. CASE UNCHANGED statVars
      BY <1>1, <3>1 DEF statVars
    <3>2. CASE StatBufUserPut(read)
      BY <1>1, <3>2 DEF StatBufUserPut
    <3>3. CASE FeInsert(frame) \/ FeInsert(frame + 1)
      BY <1>1, <3>3 DEF FeInsert, statLists
    <3>4. CASE UpdateFePts
      BY <1>1, <3>4 DEF UpdateFePts, statLists
    <3>5. CASE \E sel \in {"FE_START", "BE_END"} : SelectWakeup(sel)
      BY <1>1, <3>5 DEF SelectWakeup, statLists
    <3>. QED  BY <2>1, <3>1, <3>2, <3>3, <3>4, <3>5
  <2>. QED  BY <1>1, <2>1, StatSteps
<1>2. CASE seen' # seen
  <2>1. RunGetStat
    <3>1. ~UNCHANGED vars
      BY <1>2 DEF vars, pipeVars
    <3>2. Next
      BY <3>1
    <3>3. ~(\/ Start \/ StopInterrupt \/ ExitStatistics \/ ExitBegin \/ ExitEnd \/ ExitTimeout
        \/ ResetCtx \/ SetCtrlParam)
      BY <1>2 DEF Start, StopInterrupt, ExitStatistics, ExitBegin, ExitEnd, ExitTimeout, ResetCtx, SetCtrlParam,
         SelectWakeup, statLists, pipeVars
    <3>4. ~(FrameStart \/ FrameTake \/ FrameFe \/ FrameStartPlus \/ TriggerPrepare \/ SumUp)
      BY <1>2 DEF FrameStart, FrameTake, FrameFe, FrameStartPlus, TriggerPrepare, SumUp, pipeVars
    <3>5. ~((\E p \in 1 .. MaxFrame : ViStart(p)) \/ ViHold \/ ViPart \/ ViEnd \/ ViPut)
      BY <1>2 DEF ViStart, ViHold, ViPart, ViEnd, ViPut, pipeVars
    <3>6. ~(SwitchBegin \/ SwitchEnd \/ FrameEdge \/ RunGetBuf \/ RunPutStat \/ RunCfg \/ RunFail)
      BY <1>2 DEF SwitchBegin, SwitchEnd, FrameEdge, RunGetBuf, RunPutStat, RunCfg, RunFail
    <3>. QED  BY <3>2, <3>3, <3>4, <3>5, <3>6 DEF Next
  <2>. QED  BY <1>2, <2>1 DEF RunGetStat
<1>. QED  BY <1>1, <1>2

(* The statistics that the firmware may take stay in their order.          *)
LEMMA StatInTimeNext ==
  ASSUME StatInTime, ViInTime, StatPlaced, Queue, StatTypes, PipeTypes, [Next]_vars
  PROVE  StatInTime' /\ seen' >= seen
<1>1. /\ seen \in Nat /\ frame_pts \in Nat /\ stat \in [Bufs -> Stats]
      /\ act_stat \in Bufs \union {NoBuf} /\ st_busy \in Seq(Bufs) /\ Len(st_busy) \in Nat
  BY LenProperties DEF StatTypes, PipeTypes
<1>2. \A b \in Bufs : stat[b].pts \in Nat
  BY <1>1 DEF Stats
<1>3. /\ seen <= frame_pts
      /\ act_stat # NoBuf => seen <= stat[act_stat].pts /\ stat[act_stat].pts <= frame_pts
      /\ \A i \in 1 .. Len(st_busy) :
           /\ seen <= stat[st_busy[i]].pts
           /\ act_stat # NoBuf /\ stat[st_busy[i]].pts <= stat[act_stat].pts
      /\ \A i, j \in 1 .. Len(st_busy) : i < j => stat[st_busy[i]].pts <= stat[st_busy[j]].pts
  BY DEF StatInTime
<1>4. \A i \in 1 .. Len(st_busy) : st_busy[i] \in Bufs /\ On(st_busy[i], st_busy)
  BY <1>1, ElementOfSeq DEF On
<1>5. CASE UNCHANGED <<seen, frame_pts, act_stat, stat, st_busy>>
  BY <1>1, <1>3, <1>5 DEF StatInTime
<1>6. CASE (StatBufInit \/ StatBufExit) /\ seen' = seen
  <2>1. /\ st_busy' = <<>> /\ act_stat' = NoBuf /\ UNCHANGED <<seen, frame_pts>>
    BY <1>6 DEF StatBufInit, StatBufExit, StatPlaced
  <2>2. \A i \in 1 .. Len(st_busy') : FALSE
    BY <2>1
  <2>. QED  BY <1>1, <1>3, <2>1, <2>2 DEF StatInTime
<1>7. ASSUME NEW b \in Bufs, Summed(b), UNCHANGED <<seen, frame_pts>>
      PROVE  StatInTime' /\ seen' >= seen
  <2>1. /\ Source \in Seq(Bufs) /\ Rest \in Seq(Bufs) /\ Len(Rest) \in Nat
        /\ ~(On(b, Source) /\ On(b, Rest))
    BY SourceIs, LenProperties
  <2>2. /\ Source # <<>> /\ b = Source[1] /\ st_busy' = Append(Rest, b) /\ act_stat' = b
        /\ stat' = [stat EXCEPT ![b] = Entry(b)]
    BY <1>7 DEF Summed
  <2>3. On(b, Source)
    BY <2>1, <2>2, TailOn
  <2>4. /\ stat'[b].pts = frame_pts
        /\ \A c \in Bufs : c # b => stat'[c] = stat[c]
    BY <1>1, <2>2 DEF Entry
  <2>5. /\ Len(st_busy') = Len(Rest) + 1 /\ st_busy'[Len(Rest) + 1] = b
        /\ \A i \in 1 .. Len(Rest) : st_busy'[i] = Rest[i]
    BY <2>1, <2>2, AppendProperties
  <2>6. \A i \in 1 .. Len(Rest) : /\ Rest[i] \in Bufs /\ Rest[i] # b
                                  /\ i \in 1 .. Len(st_busy) /\ Rest[i] = st_busy[i]
    <3>1. SUFFICES ASSUME NEW i \in 1 .. Len(Rest)
                   PROVE  Rest[i] \in Bufs /\ Rest[i] # b /\ Rest = st_busy
      OBVIOUS
    <3>2. Rest[i] \in Bufs /\ Rest[i] # b
      BY <2>1, <2>3, ElementOfSeq DEF On
    <3>. QED  BY <3>2, EmptySeq DEF Rest
  <2>7. \A i \in 1 .. Len(st_busy') : i \in 1 .. Len(Rest) \/ i = Len(Rest) + 1
    BY <2>1, <2>5
  <2>8. \A i \in 1 .. Len(Rest) : /\ stat'[st_busy'[i]] = stat[st_busy[i]]
                                  /\ seen <= stat[st_busy[i]].pts /\ stat[st_busy[i]].pts <= frame_pts
    <3>1. SUFFICES ASSUME NEW i \in 1 .. Len(Rest)
                   PROVE  /\ stat'[st_busy'[i]] = stat[st_busy[i]]
                          /\ seen <= stat[st_busy[i]].pts /\ stat[st_busy[i]].pts <= frame_pts
      OBVIOUS
    <3>2. stat'[st_busy'[i]] = stat[st_busy[i]]
      BY <2>4, <2>5, <2>6
    <3>3. /\ seen <= stat[st_busy[i]].pts /\ act_stat \in Bufs
          /\ stat[st_busy[i]].pts <= stat[act_stat].pts /\ stat[act_stat].pts <= frame_pts
      BY <1>1, <1>3, <2>6
    <3>4. stat[st_busy[i]].pts \in Nat /\ stat[act_stat].pts \in Nat
      BY <1>2, <2>6, <3>3
    <3>. QED  BY <1>1, <3>2, <3>3, <3>4
  <2>9. act_stat' # NoBuf /\ seen <= stat'[act_stat'].pts /\ stat'[act_stat'].pts = frame_pts
    BY <1>3, <2>2, <2>4, BufsAre
  <2>10. \A i \in 1 .. Len(st_busy') : seen <= stat'[st_busy'[i]].pts /\ stat'[st_busy'[i]].pts <= frame_pts
    BY <1>1, <1>3, <2>4, <2>5, <2>7, <2>8
  <2>11. ASSUME NEW i \in 1 .. Len(st_busy'), NEW j \in 1 .. Len(st_busy'), i < j
         PROVE  stat'[st_busy'[i]].pts <= stat'[st_busy'[j]].pts
    <3>1. i \in 1 .. Len(Rest)
      BY <2>1, <2>5, <2>11
    <3>2. CASE j \in 1 .. Len(Rest)
      BY <1>3, <2>6, <2>8, <2>11, <3>1, <3>2
    <3>3. CASE j = Len(Rest) + 1
      BY <2>4, <2>5, <2>8, <3>1, <3>3
    <3>. QED  BY <2>7, <3>2, <3>3
  <2>12. seen' >= seen
    BY <1>1, <1>7
  <2>13. frame_pts <= frame_pts
    BY <1>1
  <2>. QED  BY <1>3, <1>7, <2>9, <2>10, <2>11, <2>12, <2>13 DEF StatInTime
<1>8. CASE SummaryInsert /\ seen' = seen
  <2>1. frame_pts' = frame_pts
    BY <1>8 DEF SummaryInsert
  <2>. QED  BY <1>5, <1>7, <1>8, <2>1, SummedIs
<1>9. ASSUME NEW broken \in BOOLEAN, NEW running \in BOOLEAN, NEW last \in BOOLEAN, vi # <<>>,
             SwitchBeOfflineStt(Head(vi).pts, broken, running, last), seen' = seen
      PROVE  StatInTime' /\ seen' >= seen
  <2>1. frame_pts <= Head(vi).pts /\ Head(vi).pts \in Nat
    <3>1. vi \in Seq(Jobs) /\ Len(vi) \in Nat /\ \A i \in 1 .. Len(vi) : vi[i].pts \in Nat
      BY ViTypes
    <3>2. Head(vi) = vi[1] /\ 1 \in 1 .. Len(vi)
      BY <1>9, <3>1, TailIs, EmptySeq
    <3>. QED  BY <3>1, <3>2 DEF ViInTime
  <2>2. frame_pts' \in Nat /\ frame_pts <= frame_pts' /\ act_stat' = act_stat
    BY <1>1, <1>9, <2>1 DEF SwitchBeOfflineStt
  <2>3. /\ \A b \in Bufs : stat'[b].pts = stat[b].pts
        /\ st_busy' = st_busy \/ st_busy' = <<>>
    <3>1. PICK p \in Nat : p = Head(vi).pts /\ SwitchBeOfflineStt(p, broken, running, last)
      BY <1>9, <2>1
    <3>. QED  BY <1>9, <3>1, SwitchIs
  <2>4. st_busy' = st_busy \/ st_busy' = <<>>
    BY <2>3
  <2>5. act_stat # NoBuf => stat[act_stat].pts \in Nat /\ act_stat \in Bufs
    BY <1>1, <1>2
  <2>6. /\ seen' <= frame_pts' /\ seen' >= seen
        /\ act_stat' # NoBuf => seen' <= stat'[act_stat'].pts /\ stat'[act_stat'].pts <= frame_pts'
    BY <1>1, <1>3, <1>9, <2>2, <2>3, <2>5
  <2>7. CASE st_busy' = st_busy
    BY <1>1, <1>3, <1>4, <1>9, <2>2, <2>3, <2>6, <2>7 DEF StatInTime
  <2>8. CASE st_busy' = <<>>
    <3>1. \A i \in 1 .. Len(st_busy') : FALSE
      BY <2>8
    <3>. QED  BY <2>6, <3>1 DEF StatInTime
  <2>. QED  BY <2>4, <2>7, <2>8
<1>10. CASE StatBufUserGet /\ seen' = stat[Head(st_busy)].pts
  <2>1. /\ st_busy # <<>> /\ st_busy' = Tail(st_busy) /\ UNCHANGED <<stat, act_stat, frame_pts>>
    BY <1>10 DEF StatBufUserGet
  <2>2. /\ Len(st_busy) = Len(st_busy') + 1 /\ Len(st_busy') \in Nat
        /\ \A i \in 1 .. Len(st_busy') : st_busy'[i] = st_busy[i + 1]
    BY <1>1, <2>1, TailIs
  <2>3. Head(st_busy) = st_busy[1] /\ 1 \in 1 .. Len(st_busy)
    BY <1>1, <2>1, <2>2, TailIs
  <2>4. \A i \in 1 .. Len(st_busy') : i + 1 \in 1 .. Len(st_busy) /\ 1 < i + 1
    BY <2>2
  <2>5. \A i \in 1 .. Len(st_busy') : /\ seen' <= stat'[st_busy'[i]].pts
                                      /\ stat'[st_busy'[i]].pts <= stat'[act_stat'].pts
    BY <1>3, <1>10, <2>1, <2>2, <2>3, <2>4
  <2>6. \A i, j \in 1 .. Len(st_busy') : i < j => stat'[st_busy'[i]].pts <= stat'[st_busy'[j]].pts
    <3>1. \A i, j \in 1 .. Len(st_busy') : i < j => i + 1 < j + 1
      BY <2>2
    <3>. QED  BY <1>3, <2>1, <2>2, <2>4, <3>1
  <2>7. /\ act_stat # NoBuf /\ seen <= seen' /\ seen' <= stat[act_stat].pts /\ stat[act_stat].pts <= frame_pts
    BY <1>3, <1>10, <2>3
  <2>8. seen' \in Nat /\ stat[act_stat].pts \in Nat
    BY <1>1, <1>2, <1>4, <1>10, <2>3, <2>7
  <2>9. seen' <= frame_pts /\ seen' >= seen
    BY <1>1, <2>7, <2>8
  <2>. QED  BY <2>1, <2>5, <2>6, <2>7, <2>9 DEF StatInTime
<1>11. CASE /\ UNCHANGED statVars /\ st_busy = <<>>
            /\ seen' = IF act_stat = NoBuf THEN seen ELSE stat[act_stat].pts
  <2>1. UNCHANGED <<stat, act_stat, frame_pts, st_busy>>
    BY <1>11 DEF statVars, statLists
  <2>2. \A i \in 1 .. Len(st_busy') : FALSE
    BY <1>11, <2>1
  <2>3. act_stat # NoBuf => stat[act_stat].pts \in Nat
    BY <1>1, <1>2
  <2>. QED  BY <1>1, <1>3, <1>11, <2>1, <2>2, <2>3 DEF StatInTime
<1>. QED  BY <1>5, <1>6, <1>8, <1>9, <1>10, <1>11, SeenSteps


(* What a step does to VI's frames and to the statistics in hardware.      *)
LEMMA ReadySteps ==
  ASSUME ViInTime, Queue, StatTypes, PipeTypes, [Next]_vars
  PROVE  \/ ready_stt' = ready_stt
         \/ ready_stt' = Head(vi).pts /\ vi # <<>> /\ ~Head(vi).ended /\ vi_last' = vi_last
            /\ (vi' = vi \/ EndJob)
<1>1. CASE UNCHANGED statVars \/ StatBufInit \/ StatBufExit \/ StatBufUserGet \/ StatBufUserPut(read)
  BY <1>1 DEF statVars, StatBufInit, StatBufExit, StatBufUserGet, StatBufUserPut
<1>2. CASE FeInsert(frame) \/ FeInsert(frame + 1) \/ SummaryInsert \/ UpdateFePts
  BY <1>2 DEF FeInsert, SummaryInsert, UpdateFePts
<1>3. CASE \E sel \in {"FE_START", "BE_END"} : SelectWakeup(sel)
  BY <1>3 DEF SelectWakeup
<1>4. CASE ViPart
  BY <1>4 DEF ViPart, SwitchBeOfflineStt, beVars, pipeVars
<1>5. CASE ViEnd
  BY <1>5 DEF ViEnd, EndJob, SwitchBeOfflineStt
<1>6. CASE /\ ~ViPart /\ ~ViEnd
           /\ \E broken, running, last \in BOOLEAN : SwitchBeOfflineStt(Head(vi).pts, broken, running, last)
  <2>1. CASE UNCHANGED vars
    BY <2>1 DEF vars, statVars
  <2>2. CASE Start \/ StopInterrupt \/ ExitStatistics \/ ExitBegin \/ ExitEnd \/ ExitTimeout
    BY <2>2 DEF Start, StopInterrupt, ExitStatistics, ExitBegin, ExitEnd, ExitTimeout, StatBufInit, StatBufExit,
                statVars
  <2>3. CASE ResetCtx \/ SetCtrlParam
    BY <2>3 DEF ResetCtx, SetCtrlParam, SelectWakeup
  <2>4. CASE FrameStart \/ FrameTake \/ FrameFe \/ FrameStartPlus \/ TriggerPrepare \/ SumUp
    BY <2>4 DEF FrameStart, FrameTake, FrameFe, FrameStartPlus, TriggerPrepare, SumUp, UpdateFePts,
                FeInsert, SummaryInsert, statVars
  <2>5. CASE (\E p \in 1 .. MaxFrame : ViStart(p)) \/ ViHold \/ ViPut
    BY <2>5 DEF ViStart, ViHold, ViPut, statVars
  <2>6. CASE SwitchBegin \/ SwitchEnd \/ FrameEdge \/ RunGetBuf \/ RunGetStat \/ RunPutStat \/ RunCfg \/ RunFail
    BY <2>6 DEF SwitchBegin, SwitchEnd, FrameEdge, RunGetBuf, RunGetStat, RunPutStat, RunCfg, RunFail,
                StatBufUserGet, StatBufUserPut, statVars
  <2>. QED  BY <1>6, <2>1, <2>2, <2>3, <2>4, <2>5, <2>6 DEF Next
<1>. QED  BY <1>1, <1>2, <1>3, <1>4, <1>5, <1>6, StatSteps

(* What VI has not ended stays in front of the statistics in hardware.     *)
LEMMA ReadyInTime ==
  ASSUME AfInTime, ViInTime, Queue, StatTypes, PipeTypes, [Next]_vars
  PROVE  /\ ready_stt' \in Nat /\ ready_stt <= ready_stt' /\ ready_stt' <= vi_last'
         /\ \A i \in 1 .. Len(vi') : ~vi'[i].ended => ready_stt' <= vi'[i].pts
<1>1. /\ vi \in Seq(Jobs) /\ Len(vi) \in Nat
      /\ frame \in Nat /\ frame_pts \in Nat /\ vi_last \in Nat /\ ready_stt \in Nat
      /\ \A i \in 1 .. Len(vi) : vi[i].pts \in Nat /\ vi[i].pts <= vi_last
      /\ \A i \in 1 .. Len(vi) : 1 < i => vi[1].pts <= vi[i].pts
      /\ vi_last <= frame
  <2>1. \A i \in 1 .. Len(vi) : 1 < i => 1 \in 1 .. Len(vi)
    OBVIOUS
  <2>. QED  BY <2>1, ViTypes DEF ViInTime, StatTypes
<1>2. /\ ready_stt <= vi_last
      /\ \A i \in 1 .. Len(vi) : ~vi[i].ended => ready_stt <= vi[i].pts
  BY DEF AfInTime
<1>3. CASE ready_stt' = Head(vi).pts /\ vi # <<>> /\ ~Head(vi).ended /\ vi_last' = vi_last /\ (vi' = vi \/ EndJob)
  <2>1. Head(vi) = vi[1] /\ 1 \in 1 .. Len(vi)
    BY <1>3, HeadPts
  <2>2. ready_stt' \in Nat /\ ready_stt <= ready_stt' /\ ready_stt' <= vi_last'
    BY <1>1, <1>2, <1>3, <2>1
  <2>3. \A i \in 1 .. Len(vi) : ready_stt' <= vi[i].pts
    <3>1. \A i \in 1 .. Len(vi) : i = 1 \/ 1 < i
      BY <1>1
    <3>. QED  BY <1>1, <1>3, <2>1, <2>2, <3>1
  <2>4. CASE vi' = vi
    BY <2>2, <2>3, <2>4
  <2>5. CASE EndJob
    <3>1. vi' = [vi EXCEPT ![1].ended = TRUE]
      BY <2>5 DEF EndJob
    <3>2. Len(vi') = Len(vi)
      BY <1>1, <1>3, <3>1, EndedIs
    <3>3. \A i \in 1 .. Len(vi) : vi'[i].pts = vi[i].pts
      BY <1>1, <1>3, <3>1, EndedPts
    <3>. QED  BY <2>2, <2>3, <3>2, <3>3
  <2>. QED  BY <1>3, <2>4, <2>5
<1>4. ASSUME ready_stt' = ready_stt
      PROVE  /\ ready_stt <= vi_last'
             /\ \A i \in 1 .. Len(vi') : ~vi'[i].ended => ready_stt <= vi'[i].pts
  <2>1. CASE vi' = vi /\ vi_last' \in {vi_last, frame}
    BY <1>1, <1>2, <2>1
  <2>2. ASSUME NEW p \in 1 .. MaxFrame, p \in vi_last + 1 .. frame, vi_last' = p, GetReadyBeBuf(p)
        PROVE  /\ ready_stt <= vi_last'
               /\ \A i \in 1 .. Len(vi') : ~vi'[i].ended => ready_stt <= vi'[i].pts
    <3>1. p \in Nat /\ ready_stt <= p
      BY <1>1, <1>2, <2>2, BufsAre
    <3>2. /\ Len(vi') = Len(vi) + 1
          /\ \A i \in 1 .. Len(vi) : vi'[i] = vi[i]
          /\ vi'[Len(vi) + 1].pts = p
      BY <2>2, <3>1, ViJoins
    <3>3. \A i \in 1 .. Len(vi') : i \in 1 .. Len(vi) \/ i = Len(vi) + 1
      BY <1>1, <3>2
    <3>. QED  BY <1>2, <2>2, <3>1, <3>2, <3>3
  <2>3. CASE HoldBusyBeBuf /\ vi_last' = vi_last
    <3>1. vi' = Doubled(vi) /\ vi # <<>> /\ ~Head(vi).ended
      BY <2>3 DEF HoldBusyBeBuf, Doubled
    <3>2. Len(vi') = Len(vi) + 1 /\ vi'[1] = vi[1]
      BY <1>1, <3>1, DoubledHead
    <3>3. \A i \in 1 .. Len(vi) : vi'[i + 1].pts = vi[i].pts
      BY <1>1, <3>1, DoubledNext
    <3>4. \A i \in 2 .. Len(vi) : vi'[i + 1] = vi[i]
      BY <1>1, <3>1, DoubledTail
    <3>5. Head(vi) = vi[1] /\ 1 \in 1 .. Len(vi) /\ ready_stt <= vi[1].pts
      BY <1>2, <3>1, HeadPts
    <3>6. ASSUME NEW i \in 1 .. Len(vi'), ~vi'[i].ended
          PROVE  ready_stt <= vi'[i].pts
      <4>1. CASE i = 1
        BY <3>2, <3>5, <4>1
      <4>2. CASE i = 2
        <5>1. vi'[1 + 1].pts = vi[1].pts
          BY <3>3, <3>5
        <5>. QED  BY <3>5, <4>2, <5>1
      <4>3. CASE i # 1 /\ i # 2
        <5>1. PICK k : k = i - 1
          OBVIOUS
        <5>2. k \in 2 .. Len(vi) /\ k \in 1 .. Len(vi) /\ i = k + 1
          BY <1>1, <3>2, <4>3, <5>1
        <5>. QED  BY <1>2, <3>4, <3>6, <5>2
      <4>. QED  BY <4>1, <4>2, <4>3
    <3>. QED  BY <1>2, <2>3, <3>6
  <2>4. CASE EndJob /\ vi_last' = vi_last
    <3>1. vi' = [vi EXCEPT ![1].ended = TRUE] /\ vi # <<>>
      BY <2>4 DEF EndJob
    <3>2. Len(vi') = Len(vi) /\ vi'[1] = [vi[1] EXCEPT !.ended = TRUE]
      BY <1>1, <3>1, EndedIs
    <3>3. vi[1] \in Jobs
      BY <1>1, <3>1, DoubledHead
    <3>4. vi'[1].ended
      BY <3>2, <3>3 DEF Jobs
    <3>5. \A i \in 1 .. Len(vi) : i # 1 => vi'[i] = vi[i]
      BY <1>1, <3>1, EndedTail
    <3>. QED  BY <1>2, <2>4, <3>2, <3>4, <3>5
  <2>5. CASE PutFreeBeBuf /\ vi_last' = vi_last
    <3>1. vi' = Tail(vi) /\ vi # <<>>
      BY <2>5 DEF PutFreeBeBuf
    <3>2. Len(vi) = Len(vi') + 1 /\ Len(vi') \in Nat
      BY <1>1, <3>1, TailIs
    <3>3. \A i \in 1 .. Len(vi') : vi'[i] = vi[i + 1]
      BY <1>1, <3>1, TailIs
    <3>4. \A i \in 1 .. Len(vi') : i + 1 \in 1 .. Len(vi) /\ vi'[i] = vi[i + 1]
      BY <3>2, <3>3
    <3>. QED  BY <1>2, <2>5, <3>4
  <2>. QED  BY <2>1, <2>2, <2>3, <2>4, <2>5, ViSteps
<1>5. CASE ready_stt' = ready_stt
  <2>1. ready_stt <= ready_stt
    BY <1>1
  <2>. QED  BY <1>1, <1>4, <1>5, <2>1
<1>. QED  BY <1>3, <1>5, ReadySteps

(* No buffer gets AF windows of a younger frame.                           *)
LEMMA AfInTimeNext ==
  ASSUME AfInTime, ViInTime, Queue, StatPlaced, StatTypes, PipeTypes, [Next]_vars
  PROVE  AfInTime'
<1>1. /\ ready_stt' \in Nat /\ ready_stt <= ready_stt' /\ ready_stt' <= vi_last'
      /\ \A i \in 1 .. Len(vi') : ~vi'[i].ended => ready_stt' <= vi'[i].pts
  BY ReadyInTime
<1>2. /\ ready_stt \in Nat /\ stat \in [Bufs -> Stats]
      /\ \A b \in Bufs : stat[b].af \in Nat /\ stat[b].af <= ready_stt
  BY DEF StatTypes, Stats, AfInTime
<1>3. SUFFICES \A b \in Bufs : stat'[b].af <= ready_stt'
  BY <1>1 DEF AfInTime
<1>4. CASE stat' = stat
  BY <1>1, <1>2, <1>4
<1>5. CASE StatBufInit
  BY <1>1, <1>5 DEF StatBufInit, Blank
<1>6. CASE SummaryInsert
  <2>1. ready_stt' = ready_stt
    BY <1>6 DEF SummaryInsert
  <2>2. ASSUME NEW c \in Bufs, Summed(c)
        PROVE  \A b \in Bufs : stat'[b].af <= ready_stt'
    <3>1. stat' = [stat EXCEPT ![c] = Entry(c)] /\ Entry(c).af \in {stat[c].af, ready_stt}
      BY <2>2 DEF Summed, Entry
    <3>2. stat'[c] = Entry(c) /\ \A b \in Bufs : b # c => stat'[b] = stat[b]
      BY <1>2, <3>1
    <3>. QED  BY <1>2, <2>1, <3>1, <3>2
  <2>. QED  BY <1>4, <1>6, <2>2, SummedIs
<1>7. CASE vi # <<>> /\ \E broken, running, last \in BOOLEAN : SwitchBeOfflineStt(Head(vi).pts, broken, running, last)
  <2>1. Head(vi).pts \in Nat
    BY <1>7, HeadPts
  <2>2. PICK p \in Nat, broken \in BOOLEAN, running \in BOOLEAN, last \in BOOLEAN :
          p = Head(vi).pts /\ SwitchBeOfflineStt(p, broken, running, last)
    BY <1>7, <2>1
  <2>3. ready_stt' = p /\ \A b \in Bufs : (stat'[b].af = stat[b].af \/ stat'[b].af = p)
    BY <1>7, <2>2, SwitchIs
  <2>. QED  BY <1>1, <1>2, <2>2, <2>3
<1>8. CASE \/ UNCHANGED statVars \/ StatBufExit \/ StatBufUserGet \/ StatBufUserPut(read)
           \/ FeInsert(frame) \/ FeInsert(frame + 1) \/ UpdateFePts
           \/ \E sel \in {"FE_START", "BE_END"} : SelectWakeup(sel)
  BY <1>4, <1>8 DEF statVars, StatBufExit, StatBufUserGet, StatBufUserPut, FeInsert, UpdateFePts, SelectWakeup
<1>. QED  BY <1>5, <1>6, <1>7, <1>8, StatSteps

(* The mode does not change while the pipe exists, and then no interrupt   *)
(* of the other mode is under way.                                         *)
LEMMA ModeStays ==
  ASSUME LifeOK, PipeTypes, [Next]_vars, run_wakeup_sel' # run_wakeup_sel
  PROVE  ~stat_init' /\ (FeStartMode' \/ irq' = "idle")
<1>1. ~(UNCHANGED statVars \/ StatBufInit \/ StatBufExit \/ StatBufUserGet \/ StatBufUserPut(read))
  BY DEF statVars, StatBufInit, StatBufExit, StatBufUserGet, StatBufUserPut
<1>2. ~(FeInsert(frame) \/ FeInsert(frame + 1) \/ SummaryInsert \/ UpdateFePts)
  BY DEF FeInsert, SummaryInsert, UpdateFePts
<1>3. ~\E p, broken, running, last : SwitchBeOfflineStt(p, broken, running, last)
  BY DEF SwitchBeOfflineStt
<1>4. Next
  BY DEF vars, statVars
<1>5. ~(Start \/ StopInterrupt \/ ExitStatistics \/ ExitBegin \/ ExitEnd \/ ExitTimeout)
  BY <1>1 DEF Start, StopInterrupt, ExitStatistics, ExitBegin, ExitEnd, ExitTimeout
<1>6. ~(FrameStart \/ FrameTake \/ FrameFe \/ FrameStartPlus \/ TriggerPrepare \/ SumUp)
  BY <1>1, <1>2 DEF FrameStart, FrameTake, FrameFe, FrameStartPlus, TriggerPrepare, SumUp
<1>7. ~((\E p \in 1 .. MaxFrame : ViStart(p)) \/ ViHold \/ ViPart \/ ViEnd \/ ViPut)
  BY <1>1, <1>3 DEF ViStart, ViHold, ViPart, ViEnd, ViPut
<1>8. ~(SwitchBegin \/ SwitchEnd \/ FrameEdge \/ RunGetBuf \/ RunGetStat \/ RunPutStat \/ RunCfg \/ RunFail)
  BY <1>1 DEF SwitchBegin, SwitchEnd, FrameEdge, RunGetBuf, RunGetStat, RunPutStat, RunCfg, RunFail
<1>9. ResetCtx \/ SetCtrlParam
  BY <1>4, <1>5, <1>6, <1>7, <1>8 DEF Next
<1>. QED  BY <1>9 DEF ResetCtx, SetCtrlParam, SelectWakeup, FeStartMode, LifeOK, pipeVars


(* The BE statistics stay those of the frame that is to be summed up.      *)
LEMMA BeReadyNext ==
  ASSUME BeReady, Younger, Queue, StatPlaced, StatTypes, PipeTypes, LifeOK, [Next]_vars
  PROVE  BeReady'
<1>0. SUFFICES ASSUME run_wakeup_sel' = run_wakeup_sel
               PROVE  BeReady'
  <2>1. ASSUME run_wakeup_sel' # run_wakeup_sel
        PROVE  BeReady'
    <3>1. FeStartMode' \/ irq' = "idle"
      BY <2>1, ModeStays
    <3>. QED  BY <3>1 DEF BeReady
  <2>. QED  BY <2>1
<1>1. /\ st_free \in Seq(Bufs) /\ stat \in [Bufs -> Stats] /\ Len(st_free) \in Nat
      /\ run_wakeup_sel' = run_wakeup_sel
  BY <1>0, LenProperties DEF StatTypes
<1>2. ASSUME FeStartMode \/ irq' \notin {"trigger", "sum"}
      PROVE  BeReady'
  BY <1>1, <1>2 DEF BeReady, FeStartMode
<1>3. ASSUME irq' \in {"trigger", "sum"} => irq \in {"trigger", "sum"},
             UNCHANGED <<frame_pts, stat_init, be_broken, ready_stt, stat>>,
             st_free # <<>> => st_free' # <<>> /\ st_free'[1] = st_free[1]
      PROVE  BeReady'
  BY <1>1, <1>3 DEF BeReady, FeStartMode
<1>4. CASE UNCHANGED statVars /\ irq' = irq
  BY <1>3, <1>4 DEF statVars
<1>5. CASE UNCHANGED vars
  BY <1>4, <1>5 DEF vars, pipeVars
<1>6. CASE Start
  BY <1>2, <1>6 DEF Start
<1>7. CASE StopInterrupt \/ ExitBegin \/ ExitEnd \/ ExitTimeout
  BY <1>4, <1>7 DEF StopInterrupt, ExitBegin, ExitEnd, ExitTimeout
<1>19. CASE ResetCtx \/ SetCtrlParam
  BY <1>3, <1>19 DEF ResetCtx, SetCtrlParam, SelectWakeup, statLists, pipeVars
<1>8. CASE ExitStatistics
  BY <1>1, <1>8 DEF ExitStatistics, StatBufExit, BeReady, FeStartMode
<1>9. CASE FrameStart \/ FrameTake \/ FrameFe
  BY <1>2, <1>9 DEF FrameStart, FrameTake, FrameFe, LifeOK
<1>10. CASE FrameStartPlus
  BY <1>3, <1>10 DEF FrameStartPlus, FeInsert, pipeVars, statLists
<1>11. CASE TriggerPrepare
  BY <1>3, <1>11 DEF TriggerPrepare, statVars
<1>12. CASE SumUp
  BY <1>2, <1>12 DEF SumUp
<1>13. CASE (\E p \in 1 .. MaxFrame : ViStart(p)) \/ ViHold \/ ViPut
  BY <1>4, <1>13 DEF ViStart, ViHold, ViPut, pipeVars
<1>14. CASE ViPart
  BY <1>2, <1>14 DEF ViPart, Idle, pipeVars
<1>15. CASE ViEnd
  <2>1. CASE FeStartMode \/ life = "down"
    BY <1>2, <1>15, <2>1 DEF ViEnd, Idle
  <2>2. CASE ~FeStartMode /\ life # "down"
    <3>1. PICK p : p = Head(vi).pts
      OBVIOUS
    <3>2. vi # <<>> /\ ~Head(vi).ended
      BY <1>15 DEF ViEnd, EndJob
    <3>3. p \in Nat /\ frame_pts \in Nat /\ frame_pts < p
      <4>1. Head(vi) = vi[1] /\ 1 \in 1 .. Len(vi)
        BY <3>2, ViTypes, TailIs, EmptySeq
      <4>2. p \in Nat /\ frame_pts \in Nat
        BY <3>1, <4>1, ViTypes
      <4>. QED  BY <3>1, <3>2, <4>1, <4>2 DEF Younger
    <3>4. PICK running : running = (life \in {"up", "stopping"})
      OBVIOUS
    <3>5. SwitchBeOfflineStt(p, split, running, TRUE)
      BY <1>15, <3>1, <3>4 DEF ViEnd
    <3>9. running \in BOOLEAN /\ split \in BOOLEAN
      BY <3>4 DEF PipeTypes
    <3>6. /\ frame_pts' = p /\ ready_stt' = p /\ stat_init' = stat_init
          /\ running => be_broken' = split
          /\ running /\ split /\ stat_init =>
               st_free' = Recycled /\ (Recycled # <<>> => stat'[Recycled[1]].be = p)
      BY <3>3, <3>5, <3>9, SwitchIs
    <3>7. frame_pts' > 0
      BY <3>3, <3>6
    <3>8. ASSUME stat_init
          PROVE  IF be_broken' THEN st_free' # <<>> /\ stat'[st_free'[1]].be = frame_pts'
                 ELSE ready_stt' = frame_pts'
      <4>1. running
        BY <3>4, <3>8 DEF LifeOK
      <4>2. CASE split
        <5>1. be_broken' /\ st_free' = Recycled /\ (Recycled # <<>> => stat'[Recycled[1]].be = p)
          BY <3>6, <3>8, <4>1, <4>2
        <5>2. Recycled # <<>>
          BY <3>8, SomeSource
        <5>. QED  BY <3>6, <5>1, <5>2
      <4>3. CASE ~split
        BY <3>6, <4>1, <4>3 DEF PipeTypes
      <4>. QED  BY <4>2, <4>3
    <3>. QED  BY <3>6, <3>7, <3>8 DEF BeReady
  <2>. QED  BY <2>1, <2>2
<1>16. CASE SwitchBegin \/ SwitchEnd \/ FrameEdge \/ RunGetBuf \/ RunCfg \/ RunFail
  BY <1>4, <1>16 DEF SwitchBegin, SwitchEnd, FrameEdge, RunGetBuf, RunCfg, RunFail
<1>17. CASE RunGetStat
  BY <1>3, <1>17 DEF RunGetStat, StatBufUserGet, statVars
<1>18. CASE RunPutStat
  <2>1. CASE read = NoBuf
    BY <1>4, <1>18, <2>1 DEF RunPutStat
  <2>2. CASE read # NoBuf
    <3>1. StatBufUserPut(read) /\ irq' = irq /\ read \in Bufs
      BY <1>18, <2>2 DEF RunPutStat, PipeTypes
    <3>2. st_free' = Append(st_free, read)
      BY <3>1 DEF StatBufUserPut
    <3>3. st_free' # <<>> /\ \A i \in 1 .. Len(st_free) : st_free'[i] = st_free[i]
      BY <1>1, <3>1, <3>2, AppendIs
    <3>4. st_free # <<>> => 1 \in 1 .. Len(st_free)
      BY <1>1, EmptySeq
    <3>. QED  BY <1>3, <3>1, <3>3, <3>4 DEF StatBufUserPut
  <2>. QED  BY <2>1, <2>2
<1>. QED  BY <1>5, <1>6, <1>7, <1>8, <1>9, <1>10, <1>11, <1>12, <1>13, <1>14, <1>15, <1>16, <1>17, <1>18,
             <1>19 DEF Next


(* A frame in process was in process, or VI has just started it.           *)
LEMMA InProcessNext ==
  ASSUME Queue, StatTypes, PipeTypes, [Next]_vars, NEW q, InProcess(q)'
  PROVE  InProcess(q) \/ (q = vi_last' /\ q \in vi_last + 1 .. frame)
<1>1. /\ vi \in Seq(Jobs) /\ Len(vi) \in Nat
      /\ frame \in Nat /\ vi_last \in Nat
  BY ViTypes
<1>2. PICK i \in 1 .. Len(vi') : ~vi'[i].ended /\ vi'[i].pts = q
  BY DEF InProcess
<1>3. CASE vi' = vi
  BY <1>2, <1>3 DEF InProcess
<1>4. ASSUME NEW p \in 1 .. MaxFrame, p \in vi_last + 1 .. frame, vi_last' = p, GetReadyBeBuf(p)
      PROVE  InProcess(q) \/ (q = vi_last' /\ q \in vi_last + 1 .. frame)
  <2>1. p \in Nat
    BY BufsAre
  <2>2. /\ Len(vi') = Len(vi) + 1
        /\ \A k \in 1 .. Len(vi) : vi'[k] = vi[k]
        /\ vi'[Len(vi) + 1].pts = p
    BY <1>4, <2>1, ViJoins
  <2>3. i \in 1 .. Len(vi) \/ i = Len(vi) + 1
    BY <1>1, <2>2
  <2>. QED  BY <1>2, <1>4, <2>2, <2>3 DEF InProcess
<1>5. CASE HoldBusyBeBuf
  <2>1. vi' = Doubled(vi) /\ vi # <<>>
    BY <1>5 DEF HoldBusyBeBuf, Doubled
  <2>2. Len(vi') = Len(vi) + 1 /\ vi'[1] = vi[1]
    BY <1>1, <2>1, DoubledHead
  <2>3. vi'[2] = [vi[1] EXCEPT !.ended = TRUE] /\ vi[1] \in Jobs
    BY <1>1, <2>1, DoubledHead
  <2>4. vi'[2].ended
    BY <2>3 DEF Jobs
  <2>5. CASE i = 1
    <3>1. 1 \in 1 .. Len(vi)
      BY <1>1, <2>1, EmptySeq
    <3>. QED  BY <1>2, <2>2, <2>5, <3>1 DEF InProcess
  <2>6. CASE i # 1
    <3>1. PICK k : k = i - 1
      OBVIOUS
    <3>2. i # 2
      BY <1>2, <2>4
    <3>3. k \in 2 .. Len(vi) /\ k \in 1 .. Len(vi) /\ i = k + 1
      BY <1>1, <2>2, <2>6, <3>1, <3>2
    <3>4. vi'[k + 1] = vi[k]
      BY <1>1, <2>1, <3>3, DoubledTail
    <3>. QED  BY <1>2, <3>3, <3>4 DEF InProcess
  <2>. QED  BY <2>5, <2>6
<1>6. CASE EndJob
  <2>1. vi' = [vi EXCEPT ![1].ended = TRUE] /\ vi # <<>>
    BY <1>6 DEF EndJob
  <2>2. Len(vi') = Len(vi)
    BY <1>1, <2>1, EndedIs
  <2>3. vi'[1] = [vi[1] EXCEPT !.ended = TRUE]
    BY <1>1, <2>1, EndedIs
  <2>4. vi[1] \in Jobs
    BY <1>1, <2>1, TailIs
  <2>5. i # 1
    BY <1>2, <2>3, <2>4 DEF Jobs
  <2>6. vi'[i] = vi[i]
    BY <1>1, <2>1, <2>2, <2>5, EndedTail
  <2>. QED  BY <1>2, <2>2, <2>6 DEF InProcess
<1>7. CASE PutFreeBeBuf
  <2>1. vi' = Tail(vi) /\ vi # <<>>
    BY <1>7 DEF PutFreeBeBuf
  <2>2. Len(vi) = Len(vi') + 1 /\ Len(vi') \in Nat
    BY <1>1, <2>1, TailIs
  <2>3. \A k \in 1 .. Len(vi') : vi'[k] = vi[k + 1]
    BY <1>1, <2>1, TailIs
  <2>4. i + 1 \in 1 .. Len(vi) /\ vi'[i] = vi[i + 1]
    BY <2>2, <2>3
  <2>. QED  BY <1>2, <2>4 DEF InProcess
<1>. QED  BY <1>3, <1>4, <1>5, <1>6, <1>7, ViSteps

(* The tail of the last frames holds the last frames.                      *)
LEMMA LastFramesTail ==
  ASSUME NEW s, NEW f \in Nat, LastFrames(s, f), s # <<>>
  PROVE  LastFrames(Tail(s), f) /\ Len(Tail(s)) = Len(s) - 1
<1>1. s \in Seq(Nat) /\ \A i \in 1 .. Len(s) : s[i] = f - Len(s) + i
  BY DEF LastFrames
<1>2. PICK t : t = Tail(s)
  OBVIOUS
<1>3. t \in Seq(Nat) /\ Len(s) = Len(t) + 1 /\ Len(t) \in Nat
  BY <1>1, <1>2, TailIs
<1>4. \A i \in 1 .. Len(t) : t[i] = s[i + 1]
  BY <1>1, <1>2, TailIs
<1>5. ASSUME NEW i \in 1 .. Len(t)
      PROVE  t[i] = f - Len(t) + i
  <2>1. i + 1 \in 1 .. Len(s)
    BY <1>3
  <2>2. t[i] = f - Len(s) + (i + 1)
    BY <1>1, <1>4, <2>1
  <2>. QED  BY <1>3, <2>2
<1>. QED  BY <1>2, <1>3, <1>5 DEF LastFrames

(* A new frame is appended to the last frames.                             *)
LEMMA LastFramesNext ==
  ASSUME NEW s, NEW f \in Nat, LastFrames(s, f)
  PROVE  LastFrames(Append(s, f + 1), f + 1) /\ Len(Append(s, f + 1)) = Len(s) + 1
<1>1. s \in Seq(Nat) /\ Len(s) \in Nat /\ \A i \in 1 .. Len(s) : s[i] = f - Len(s) + i
  BY LenProperties DEF LastFrames
<1>2. PICK t : t = Append(s, f + 1)
  OBVIOUS
<1>3. /\ t \in Seq(Nat) /\ Len(t) = Len(s) + 1
      /\ \A i \in 1 .. Len(s) : t[i] = s[i]
      /\ t[Len(s) + 1] = f + 1
  BY <1>1, <1>2, AppendProperties
<1>4. ASSUME NEW i \in 1 .. Len(t)
      PROVE  t[i] = f + 1 - Len(t) + i
  <2>1. CASE i \in 1 .. Len(s)
    <3>1. t[i] = f - Len(s) + i
      BY <1>1, <1>3, <2>1
    <3>. QED  BY <1>1, <1>3, <2>1, <3>1
  <2>2. CASE i = Len(s) + 1
    BY <1>1, <1>3, <2>2
  <2>. QED  BY <1>1, <1>3, <2>1, <2>2
<1>. QED  BY <1>2, <1>3, <1>4 DEF LastFrames

(* The frames from p on are the last frames, and p is found if it is one.  *)
LEMMA LastFramesFrom ==
  ASSUME NEW f \in Nat, NEW p \in Nat, p <= f, ~FeStartMode, LastFrames(fe_busy, f)
  PROVE  /\ LastFrames(FeFrom(p), f)
         /\ Len(FeFrom(p)) = IF p <= f - Len(fe_busy) THEN Len(fe_busy) ELSE f + 1 - p
         /\ f - Len(fe_busy) < p => FeFound(p)
         /\ FeFound(p) => FeFrom(p) # <<>> /\ Head(FeFrom(p)) = p
<1>1. /\ fe_busy \in Seq(Nat) /\ Len(fe_busy) \in Nat /\ run_wakeup_sel # "FE_START"
      /\ \A i \in 1 .. Len(fe_busy) : fe_busy[i] = f - Len(fe_busy) + i
  BY LenProperties DEF LastFrames, FeStartMode
<1>2. PICK L : L = Len(fe_busy)
  OBVIOUS
<1>3. PICK lo : lo = IF p <= f - L THEN 1 ELSE p - (f - L)
  OBVIOUS
<1>4. L \in Nat /\ lo \in 1 .. L + 1
  BY <1>1, <1>2, <1>3
<1>5. PICK T : T = {q \in ToSet(fe_busy) : q >= p}
  OBVIOUS
<1>6. PICK k : k = Kept(fe_busy, T)
  OBVIOUS
<1>7. FeFrom(p) = k
  BY <1>1, <1>5, <1>6 DEF FeFrom
<1>8. ASSUME NEW i \in 1 .. Len(fe_busy)
      PROVE  fe_busy[i] \in T <=> lo <= i
  <2>1. fe_busy[i] = f - L + i
    BY <1>1, <1>2
  <2>2. On(fe_busy[i], fe_busy)
    BY DEF On
  <2>3. fe_busy[i] \in ToSet(fe_busy)
    BY <1>1, <2>2, SetOf
  <2>4. f - L + i >= p <=> lo <= i
    BY <1>2, <1>3, <1>4
  <2>. QED  BY <1>5, <2>1, <2>3, <2>4
<1>9. Len(k) = L + 1 - lo
  BY <1>1, <1>2, <1>4, <1>6, <1>8, KeptSuffix
<1>10. ASSUME NEW a \in 1 .. L + 1 - lo
       PROVE  k[a] = fe_busy[lo + a - 1]
  <2>1. fe_busy \in Seq(Nat) /\ lo \in 1 .. Len(fe_busy) + 1 /\ a \in 1 .. Len(fe_busy) + 1 - lo
    BY <1>1, <1>2, <1>4
  <2>2. Kept(fe_busy, T)[a] = fe_busy[lo + a - 1]
    BY <1>8, <2>1, KeptSuffixAt
  <2>. QED  BY <1>6, <2>2
<1>11. k \in Seq(Nat)
  BY <1>1, <1>6, KeptIs
<1>12. ASSUME NEW a \in 1 .. Len(k)
       PROVE  k[a] = f - Len(k) + a
  <2>1. lo + a - 1 \in 1 .. L
    BY <1>4, <1>9
  <2>2. k[a] = f - L + (lo + a - 1)
    BY <1>1, <1>2, <1>9, <1>10, <2>1
  <2>. QED  BY <1>4, <1>9, <2>2
<1>13. LastFrames(k, f)
  BY <1>11, <1>12 DEF LastFrames
<1>14. Len(k) = IF p <= f - L THEN L ELSE f + 1 - p
  BY <1>3, <1>4, <1>9
<1>15. ASSUME f - L < p
       PROVE  k # <<>> /\ Head(k) = p
  <2>1. Len(k) = f + 1 - p
    BY <1>4, <1>14, <1>15
  <2>2. 1 \in 1 .. Len(k)
    BY <2>1
  <2>3. k[1] = p
    <3>1. k[1] = f - Len(k) + 1
      BY <1>12, <2>2
    <3>. QED  BY <2>1, <3>1
  <2>4. k # <<>>
    BY <2>2, EmptySeq
  <2>. QED  BY <1>11, <2>3, <2>4, TailIs
<1>16. FeFound(p) <=> k # <<>> /\ Head(k) = p
  BY <1>1, <1>7 DEF FeFound
<1>. QED  BY <1>2, <1>7, <1>13, <1>14, <1>15, <1>16


(* FE statistics wait for VI: a new frame takes the oldest place, and a    *)
(* summary takes only what VI has passed.                                  *)
LEMMA FeWaitsNext ==
  ASSUME FeWaits, Younger, ViInTime, Queue, StatPlaced, StatTypes, PipeTypes, LifeOK, [Next]_vars
  PROVE  FeWaits'
<1>0. SUFFICES ASSUME run_wakeup_sel' = run_wakeup_sel
               PROVE  FeWaits'
  <2>1. ASSUME run_wakeup_sel' # run_wakeup_sel
        PROVE  FeWaits'
    <3>1. ~stat_init'
      BY <2>1, ModeStays
    <3>. QED  BY <3>1 DEF FeWaits
  <2>. QED  BY <2>1
<1>1. /\ fe_busy \in Seq(Nat) /\ Len(fe_busy) \in Nat /\ Len(fe_busy) <= NumFe
      /\ frame \in Nat /\ frame_pts \in Nat /\ vi_last \in Nat /\ starts \in Nat /\ NumFe \in Nat \ {0}
      /\ run_wakeup_sel' = run_wakeup_sel
  BY <1>0, LenProperties, ViTypes, BufsAre DEF StatTypes, PipeTypes
<1>2. ASSUME FeStartMode \/ ~stat_init'
      PROVE  FeWaits'
  BY <1>1, <1>2 DEF FeWaits, FeStartMode
<1>3. ASSUME UNCHANGED <<fe_busy, frame, stat_init, starts>>, recalled => recalled',
             irq' \in {"trigger", "sum"} =>
               (irq \in {"trigger", "sum"} /\ frame_pts' = frame_pts) \/ InProcess(frame_pts'),
             vi_last' \in Nat, vi_last <= vi_last'
      PROVE  FeWaits'
  <2>1. ASSUME NEW q \in 1 .. frame, Awaited(q)'
        PROVE  Awaited(q)
    <3>1. CASE InProcess(q)'
      BY <3>1, InProcessNext DEF Awaited
    <3>2. CASE irq' \in {"trigger", "sum"} /\ q = frame_pts'
      BY <1>3, <3>2 DEF Awaited
    <3>3. CASE q \in vi_last' + 1 .. frame'
      <4>0. vi_last' \in Nat /\ vi_last <= vi_last' /\ frame' = frame
        BY <1>3
      <4>2. PICK v, w : v = vi_last /\ w = vi_last'
        OBVIOUS
      <4>3. v \in Nat /\ w \in Nat /\ v <= w /\ frame \in Nat /\ q \in w + 1 .. frame
        BY <1>1, <3>3, <4>0, <4>2
      <4>4. q \in v + 1 .. frame
        BY ONLY <4>3
      <4>1. q \in vi_last + 1 .. frame
        BY <4>2, <4>4
      <4>. QED  BY <4>1 DEF Awaited
    <3>. QED  BY <2>1, <3>1, <3>2, <3>3 DEF Awaited
  <2>. QED  BY <1>1, <1>3, <2>1 DEF FeWaits, FeStartMode
<1>4. ASSUME UNCHANGED <<statVars, starts, irq>>, recalled => recalled', vi_last' \in Nat, vi_last <= vi_last'
      PROVE  FeWaits'
  BY <1>3, <1>4 DEF statVars
<1>5. vi_last \in Nat /\ vi_last <= vi_last
  BY <1>1
<1>6. CASE UNCHANGED vars
  BY <1>4, <1>5, <1>6 DEF vars, pipeVars, beVars
<1>7. CASE Start
  <2>1. /\ fe_busy' = <<>> /\ frame' = frame /\ vi_last' = frame /\ irq' = "idle" /\ starts' = starts + 1
        /\ vi' = vi /\ recalled' = recalled /\ ~be_init
    BY <1>7 DEF Start, BeBufInit, StatBufInit
  <2>2. LastFrames(fe_busy', frame')
    <3>1. <<>> \in Seq(Nat) /\ \A i \in 1 .. Len(<<>>) : FALSE
      BY EmptySeq
    <3>. QED  BY <2>1, <3>1 DEF LastFrames
  <2>3. ASSUME ~(recalled' /\ starts' > 1), NEW q \in 1 .. frame', Awaited(q)'
        PROVE  FALSE
    <3>1. ~recalled
      <4>1. CASE starts = 0
        BY <4>1 DEF LifeOK
      <4>2. CASE starts # 0
        BY <1>1, <2>1, <2>3, <4>2
      <4>. QED  BY <4>1, <4>2
    <3>2. vi = <<>>
      BY <2>1, <3>1 DEF Queue, Trusted
    <3>3. ~InProcess(q)'
      <4>1. \A i \in 1 .. Len(vi') : FALSE
        BY <2>1, <3>2, EmptySeq
      <4>. QED  BY <4>1 DEF InProcess
    <3>4. ~(q \in vi_last' + 1 .. frame')
      BY <1>1, <2>1
    <3>. QED  BY <2>1, <2>3, <3>3, <3>4 DEF Awaited
  <2>. QED  BY <2>2, <2>3 DEF FeWaits
<1>8. CASE StopInterrupt \/ ExitBegin \/ ExitEnd \/ ExitTimeout
  BY <1>4, <1>5, <1>8 DEF StopInterrupt, ExitBegin, ExitEnd, ExitTimeout, BeExitBegin, BeExitEnd,
                          beVars, history
<1>22. CASE ResetCtx \/ SetCtrlParam
  BY <1>3, <1>5, <1>22 DEF ResetCtx, SetCtrlParam, SelectWakeup, statLists, pipeVars, beVars
<1>9. CASE ExitStatistics
  BY <1>2, <1>9 DEF ExitStatistics, StatBufExit
<1>10. CASE FrameStart \/ FrameTake \/ FrameFe
  BY <1>2, <1>10 DEF FrameStart, FrameTake, FrameFe, LifeOK
<1>11. CASE FrameStartPlus
  <2>1. /\ frame' = frame + 1 /\ fe_busy' = (IF stat_init THEN Append(FeKept, frame + 1) ELSE fe_busy)
        /\ UNCHANGED <<stat_init, frame_pts, irq, vi_last, starts, vi, recalled>> /\ ~FeStartMode
    BY <1>11 DEF FrameStartPlus, FeInsert, pipeVars, beVars
  <2>2. CASE ~stat_init
    BY <1>2, <2>1, <2>2
  <2>3. CASE stat_init
    <3>1. /\ LastFrames(fe_busy, frame)
          /\ ~(recalled /\ starts > 1) =>
               \A q \in 1 .. frame : Awaited(q) /\ frame - q < NumFe => frame - Len(fe_busy) < q
      BY <2>1, <2>3 DEF FeWaits
    <3>2. PICK k : k = FeKept
      OBVIOUS
    <3>3. LastFrames(k, frame) /\ Len(k) = IF Len(fe_busy) = NumFe THEN NumFe - 1 ELSE Len(fe_busy)
      <4>1. CASE Len(fe_busy) = NumFe
        <5>1. fe_busy # <<>> /\ k = Tail(fe_busy)
          BY <1>1, <2>1, <3>2, <4>1, EmptySeq DEF FeKept, FeStartMode
        <5>. QED  BY <1>1, <3>1, <4>1, <5>1, LastFramesTail
      <4>2. CASE Len(fe_busy) # NumFe
        BY <2>1, <3>1, <3>2, <4>2 DEF FeKept, FeStartMode
      <4>. QED  BY <4>1, <4>2
    <3>4. LastFrames(fe_busy', frame') /\ Len(fe_busy') = Len(k) + 1
      BY <1>1, <2>1, <2>3, <3>2, <3>3, LastFramesNext
    <3>6. PICK m : m = Len(k)
      OBVIOUS
    <3>7. /\ m \in Nat /\ m = (IF Len(fe_busy) = NumFe THEN NumFe - 1 ELSE Len(fe_busy))
          /\ frame' - Len(fe_busy') = frame - m
      <4>1. m \in Nat
        BY <3>3, <3>6, LenProperties DEF LastFrames
      <4>2. m = IF Len(fe_busy) = NumFe THEN NumFe - 1 ELSE Len(fe_busy)
        BY <3>3, <3>6
      <4>3. frame' - Len(fe_busy') = frame - m
        BY <1>1, <2>1, <3>4, <3>6, <4>1
      <4>. QED  BY <4>1, <4>2, <4>3
    <3>5. ASSUME ~(recalled' /\ starts' > 1), NEW q \in 1 .. frame', Awaited(q)', frame' - q < NumFe
          PROVE  frame' - Len(fe_busy') < q
      <4>1. CASE q = frame + 1
        BY <1>1, <3>7, <4>1
      <4>2. CASE q # frame + 1
        <5>1. q \in 1 .. frame /\ frame - q < NumFe /\ frame - q < NumFe - 1
          BY <1>1, <2>1, <3>5, <4>2
        <5>2. Awaited(q)
          <6>1. CASE InProcess(q)'
            BY <2>1, <6>1 DEF InProcess, Awaited
          <6>2. CASE irq' \in {"trigger", "sum"} /\ q = frame_pts'
            BY <2>1, <6>2 DEF Awaited
          <6>3. CASE q \in vi_last' + 1 .. frame'
            <7>1. q \in vi_last + 1 .. frame
              BY <1>1, <2>1, <5>1, <6>3
            <7>. QED  BY <7>1 DEF Awaited
          <6>. QED  BY <3>5, <6>1, <6>2, <6>3 DEF Awaited
        <5>3. frame - Len(fe_busy) < q
          BY <2>1, <3>1, <3>5, <5>1, <5>2
        <5>. QED  BY <1>1, <3>7, <5>1, <5>3
      <4>. QED  BY <4>1, <4>2
    <3>. QED  BY <3>4, <3>5 DEF FeWaits
  <2>. QED  BY <2>2, <2>3
<1>12. CASE TriggerPrepare
  BY <1>3, <1>5, <1>12 DEF TriggerPrepare, PrepareBeBuf, TakeFree, statVars, beVars
<1>13. CASE SumUp
  <2>1. CASE FeStartMode \/ ~stat_init
    <3>1. stat_init' = stat_init
      BY <1>13 DEF SumUp, SummaryInsert
    <3>. QED  BY <1>2, <2>1, <3>1
  <2>2. CASE ~FeStartMode /\ stat_init
    <3>1. /\ LastFrames(fe_busy, frame)
          /\ ~(recalled /\ starts > 1) =>
               \A q \in 1 .. frame : Awaited(q) /\ frame - q < NumFe => frame - Len(fe_busy) < q
      BY <2>2 DEF FeWaits
    <3>2. UNCHANGED <<frame, frame_pts, stat_init, vi, recalled, starts, vi_last>> /\ irq' = "idle"
      BY <1>13 DEF SumUp, SummaryInsert, beVars
    <3>3. frame_pts <= vi_last /\ frame_pts <= frame
      BY <1>1 DEF ViInTime
    <3>4. \/ fe_busy' = fe_busy
          \/ fe_busy' = IF FeFound(frame_pts) THEN Tail(FeFrom(frame_pts)) ELSE FeFrom(frame_pts)
      BY <1>13, SummedIs DEF SumUp, Summed
    <3>5. LastFrames(FeFrom(frame_pts), frame)
      BY <1>1, <2>2, <3>1, <3>3, LastFramesFrom
    <3>6. Len(FeFrom(frame_pts)) =
            IF frame_pts <= frame - Len(fe_busy) THEN Len(fe_busy) ELSE frame + 1 - frame_pts
      BY <1>1, <2>2, <3>1, <3>3, LastFramesFrom
    <3>7. FeFound(frame_pts) => FeFrom(frame_pts) # <<>> /\ Head(FeFrom(frame_pts)) = frame_pts
      BY <1>1, <2>2, <3>1, <3>3, LastFramesFrom
    <3>8. ASSUME ~(recalled' /\ starts' > 1), NEW q \in 1 .. frame', Awaited(q)', frame' - q < NumFe
          PROVE  frame_pts < q /\ frame - Len(fe_busy) < q
      <4>1. CASE InProcess(q)'
        <5>1. InProcess(q)
          BY <3>2, <4>1 DEF InProcess
        <5>2. frame_pts < q
          BY <5>1 DEF InProcess, Younger
        <5>. QED  BY <3>1, <3>2, <3>8, <5>1, <5>2 DEF Awaited
      <4>2. CASE q \in vi_last' + 1 .. frame'
        <5>1. q \in vi_last + 1 .. frame /\ frame_pts < q
          BY <1>1, <3>2, <3>3, <4>2
        <5>. QED  BY <3>1, <3>2, <3>8, <5>1 DEF Awaited
      <4>. QED  BY <3>2, <3>8, <4>1, <4>2 DEF Awaited
    <3>9. LastFrames(fe_busy', frame') /\ \A q \in 1 .. frame :
            frame_pts < q /\ frame - Len(fe_busy) < q => frame - Len(fe_busy') < q
      <4>1. CASE fe_busy' = fe_busy
        BY <3>1, <3>2, <4>1
      <4>2. CASE ~FeFound(frame_pts) /\ fe_busy' = FeFrom(frame_pts)
        BY <1>1, <3>2, <3>5, <3>6, <4>2
      <4>3. CASE FeFound(frame_pts) /\ fe_busy' = Tail(FeFrom(frame_pts))
        <5>1. PICK k : k = FeFrom(frame_pts)
          OBVIOUS
        <5>2. k # <<>> /\ Head(k) = frame_pts /\ LastFrames(k, frame)
          BY <3>5, <3>7, <4>3, <5>1
        <5>3. LastFrames(fe_busy', frame') /\ Len(fe_busy') = Len(k) - 1
          BY <1>1, <3>2, <4>3, <5>1, <5>2, LastFramesTail
        <5>4. k \in Seq(Nat) /\ Len(k) \in Nat /\ \A i \in 1 .. Len(k) : k[i] = frame - Len(k) + i
          BY <5>2, LenProperties DEF LastFrames
        <5>5. Head(k) = k[1] /\ 1 \in 1 .. Len(k)
          BY <5>2, <5>4, TailIs, EmptySeq
        <5>6. frame_pts = frame - Len(k) + 1
          BY <5>2, <5>4, <5>5
        <5>7. frame - Len(fe_busy') = frame_pts
          BY <1>1, <5>3, <5>4, <5>6
        <5>. QED  BY <5>3, <5>7
      <4>. QED  BY <3>4, <4>1, <4>2, <4>3
    <3>. QED  BY <3>2, <3>8, <3>9 DEF FeWaits
  <2>. QED  BY <2>1, <2>2
<1>14. CASE \E p \in 1 .. MaxFrame : ViStart(p)
  <2>1. PICK p \in 1 .. MaxFrame : ViStart(p)
    BY <1>14
  <2>2. p \in Nat /\ vi_last <= p
    BY <1>1, <2>1, BufsAre DEF ViStart
  <2>. QED  BY <1>4, <2>1, <2>2 DEF ViStart, GetReadyBeBuf, history
<1>15. CASE ViHold \/ ViPut
  BY <1>4, <1>5, <1>15 DEF ViHold, ViPut, HoldBusyBeBuf, PutFreeBeBuf, history, pipeVars
<1>16. CASE ViPart
  BY <1>3, <1>5, <1>16 DEF ViPart, SwitchBeOfflineStt, pipeVars, beVars
<1>17. CASE ViEnd
  <2>1. vi # <<>> /\ ~Head(vi).ended /\ recalled' = recalled
    BY <1>17 DEF ViEnd, EndJob, history
  <2>2. frame_pts' = Head(vi).pts /\ UNCHANGED <<fe_busy, frame, stat_init, starts, vi_last>>
    BY <1>17 DEF ViEnd, SwitchBeOfflineStt
  <2>3. InProcess(frame_pts')
    <3>1. Head(vi) = vi[1] /\ 1 \in 1 .. Len(vi)
      BY <2>1, ViTypes, TailIs, EmptySeq
    <3>. QED  BY <2>1, <2>2, <3>1 DEF InProcess
  <2>. QED  BY <1>3, <1>5, <2>1, <2>2, <2>3
<1>18. CASE SwitchBegin \/ SwitchEnd \/ RunCfg
  BY <1>4, <1>5, <1>18 DEF SwitchBegin, SwitchEnd, RunCfg, GetBeLastBuf, AllBeBufInit, BeBufCtl
<1>19. CASE FrameEdge \/ RunGetBuf \/ RunFail
  BY <1>4, <1>5, <1>19 DEF FrameEdge, RunGetBuf, RunFail, beVars
<1>20. CASE RunGetStat
  BY <1>3, <1>5, <1>20 DEF RunGetStat, StatBufUserGet, statVars, beVars
<1>21. CASE RunPutStat
  BY <1>3, <1>5, <1>21 DEF RunPutStat, StatBufUserPut, statVars, beVars
<1>. QED  BY <1>6, <1>7, <1>8, <1>9, <1>10, <1>11, <1>12, <1>13, <1>14, <1>15, <1>16, <1>17, <1>18,
             <1>19, <1>20, <1>21, <1>22 DEF Next


-----------------------------------------------------------------------------
(* Theorems.                                                               *)

(* A pipe that was never initialised satisfies the invariant.              *)
LEMMA InvInit ==
  ASSUME Init
  PROVE  IInv
<1>1. Queue
  BY QueueInit DEF Init
<1>2. /\ run_wakeup_sel \in {"FE_START", "BE_END"} /\ stat_init = FALSE
      /\ st_free = <<>> /\ st_busy = <<>> /\ st_user = <<>> /\ act_stat = NoBuf /\ stat = Blank
      /\ fe_busy = <<>> /\ frame = 0 /\ frame_pts = 0 /\ ready_stt = 0 /\ be_broken = FALSE
  BY DEF Init, StatInit
<1>3. /\ be_init = FALSE /\ busy_list = <<>> /\ vi = <<>> /\ recalled = FALSE
      /\ split \in BOOLEAN /\ life = "down" /\ irq = "idle" /\ edge = FALSE /\ pc = "wait" /\ read = NoBuf
      /\ seen = 0 /\ vi_last = 0 /\ starts = 0 /\ switches = 0
  BY DEF Init, BeInit
<1>4. /\ <<>> \in Seq(Bufs) /\ <<>> \in Seq(Nat) /\ Len(<<>>) = 0 /\ \A i \in 1 .. Len(<<>>) : FALSE
  BY EmptySeq
<1>5. StatTypes
  <2>1. stat \in [Bufs -> Stats]
    BY <1>2 DEF Blank, Stats
  <2>2. 0 <= NumFe /\ 0 \in 0 .. MaxFrame
    BY BufsAre
  <2>3. fe_busy \in Seq(Nat) /\ Len(fe_busy) <= NumFe
    BY <1>2, <1>4, <2>2
  <2>4. frame \in 0 .. MaxFrame /\ frame_pts \in Nat /\ ready_stt \in Nat
    BY <1>2, <2>2
  <2>. QED  BY <1>2, <1>4, <2>1, <2>3, <2>4 DEF StatTypes
<1>6. PipeTypes
  BY <1>3 DEF PipeTypes
<1>7. StatPlaced
  <2>1. Once(<<>>) /\ \A b : ~On(b, <<>>)
    BY <1>4 DEF Once, On
  <2>. QED  BY <1>2, <2>1 DEF StatPlaced
<1>8. LifeOK /\ LastIsNewest
  BY <1>2, <1>3 DEF LifeOK, LastIsNewest
<1>9. ViInTime /\ Younger
  BY <1>2, <1>3, <1>4 DEF ViInTime, Younger
<1>10. StatInTime
  BY <1>2, <1>3, <1>4 DEF StatInTime
<1>11. BeReady /\ FeWaits
  BY <1>2, <1>3 DEF BeReady, FeWaits
<1>12. AfInTime
  BY <1>2, <1>3, <1>4 DEF AfInTime, Blank
<1>. QED  BY <1>1, <1>5, <1>6, <1>7, <1>8, <1>9, <1>10, <1>11, <1>12 DEF IInv

(* Every step preserves the invariant.                                     *)
LEMMA InvNext ==
  ASSUME IInv, [Next]_vars
  PROVE  IInv'
<1>1. /\ Queue /\ StatTypes /\ PipeTypes /\ StatPlaced /\ LifeOK /\ LastIsNewest
      /\ ViInTime /\ Younger /\ StatInTime /\ AfInTime /\ BeReady /\ FeWaits
  BY DEF IInv
<1>2. Queue'
  BY <1>1, QueueNext
<1>3. StatTypes'
  BY <1>1, StatTypesNext
<1>4. PipeTypes'
  BY <1>1, PipeTypesNext
<1>5. StatPlaced'
  BY <1>1, StatPlacedNext
<1>6. LifeOK'
  BY <1>1, LifeNext
<1>7. LastIsNewest'
  BY <1>1, NewestNext
<1>8. ViInTime'
  BY <1>1, ViInTimeNext
<1>9. Younger'
  BY <1>1, YoungerNext
<1>10. StatInTime'
  BY <1>1, StatInTimeNext
<1>11. BeReady'
  BY <1>1, BeReadyNext
<1>12. FeWaits'
  BY <1>1, FeWaitsNext
<1>13. AfInTime'
  BY <1>1, AfInTimeNext
<1>. QED  BY <1>2, <1>3, <1>4, <1>5, <1>6, <1>7, <1>8, <1>9, <1>10, <1>11, <1>12, <1>13 DEF IInv

(* The invariant holds in every state of the pipe.                         *)
THEOREM Invariance == Spec => []IInv
<1>1. Init => IInv
  BY InvInit
<1>2. IInv /\ [Next]_vars => IInv'
  BY InvNext
<1>. QED  BY <1>1, <1>2, PTL DEF Spec

(* VI's buffers are those of its references.                               *)
LEMMA ViNodesAre ==
  ASSUME Queue
  PROVE  /\ ViNodes \subseteq Nodes /\ \A n \in ViNodes : \E i \in 1 .. Len(vi) : vi[i].node = n
         /\ \A i \in 1 .. Len(vi) : vi[i].node \in Nodes
         /\ \A n \in Nodes : RefsOf(n) = Refs(vi, n)
<1>1. vi \in Seq(Jobs)
  BY DEF Queue, BeTypes
<1>2. \A i \in 1 .. Len(vi) : vi[i] \in Jobs
  BY <1>1, ElementOfSeq
<1>3. \A i \in 1 .. Len(vi) : vi[i].node \in Nodes
  BY <1>2 DEF Jobs
<1>. QED  BY <1>3 DEF ViNodes, RefsOf, Refs

(* Types; and every statistics buffer is on exactly one list.              *)
THEOREM TypeCorrect == Spec => []TypeOK
<1>1. IInv => TypeOK
  <2>1. SUFFICES ASSUME IInv
                 PROVE  TypeOK
    OBVIOUS
  <2>2. Queue /\ StatTypes /\ PipeTypes /\ StatPlaced /\ LifeOK
    BY <2>1 DEF IInv
  <2>3. ASSUME stat_init
        PROVE  /\ ToSet(st_free \o st_busy \o st_user) = Bufs
               /\ Len(st_free \o st_busy \o st_user) = Cardinality(Bufs)
               /\ ToSet(st_user) = {read} \ {NoBuf}
    <3>1. /\ st_free \in Seq(Bufs) /\ st_busy \in Seq(Bufs) /\ st_user \in Seq(Bufs)
          /\ Once(st_free) /\ Once(st_busy) /\ Once(st_user)
          /\ \A b \in Bufs : ~(On(b, st_free) /\ On(b, st_busy)) /\ ~(On(b, st_free) /\ On(b, st_user))
                             /\ ~(On(b, st_busy) /\ On(b, st_user))
          /\ \A b \in Bufs : On(b, st_free) \/ On(b, st_busy) \/ On(b, st_user)
          /\ \A b \in Bufs : On(b, st_user) <=> b = read
          /\ read \in Bufs \union {NoBuf}
      BY <2>2, <2>3 DEF StatTypes, StatPlaced, PipeTypes
    <3>2. PICK c : c = st_free \o st_busy
      OBVIOUS
    <3>3. c \in Seq(Bufs)
      BY <3>1, <3>2, ConcatProperties
    <3>4. Once(c)
      BY <3>1, <3>2, ConcatOnce
    <3>5. \A b : On(b, c) <=> On(b, st_free) \/ On(b, st_busy)
      BY <3>1, <3>2, ConcatOn
    <3>6. PICK d : d = c \o st_user
      OBVIOUS
    <3>7. d \in Seq(Bufs)
      BY <3>1, <3>3, <3>6, ConcatProperties
    <3>8. Once(d)
      BY <3>1, <3>3, <3>4, <3>5, <3>6, ConcatOnce
    <3>9. \A b : On(b, d) <=> On(b, c) \/ On(b, st_user)
      BY <3>1, <3>3, <3>6, ConcatOn
    <3>10. \A b \in Bufs : On(b, d)
      BY <3>1, <3>5, <3>9
    <3>11. ToSet(d) = Bufs
      <4>1. \A b \in ToSet(d) : b \in Bufs
        BY <3>7, LenProperties, ElementOfSeq DEF ToSet
      <4>2. \A b \in Bufs : b \in ToSet(d)
        BY <3>7, <3>10, SetOf
      <4>. QED  BY <4>1, <4>2
    <3>12. Len(d) = Cardinality(Bufs)
      <4>1. Bufs = {b \in Bufs : On(b, d)}
        BY <3>10
      <4>2. Cardinality(Bufs) = Len(d)
        BY <3>7, <3>8, <4>1, OnceLength
      <4>. QED  BY <4>2
    <3>13. ToSet(st_user) = {read} \ {NoBuf}
      <4>1. \A b \in ToSet(st_user) : b \in Bufs
        BY <3>1, LenProperties, ElementOfSeq DEF ToSet
      <4>2. \A b \in Bufs : b \in ToSet(st_user) <=> b = read
        BY <3>1, SetOf
      <4>. QED  BY <3>1, <4>1, <4>2, BufsAre
    <3>. QED  BY <3>2, <3>6, <3>11, <3>12, <3>13
  <2>4. /\ be_init \in BOOLEAN /\ exit_state \in {"READY", "WAITING", "EXIT"}
        /\ use_node \in Nodes \union {NoNode} /\ newest \in Nodes \union {NoNode}
        /\ hold_cnt \in [Nodes -> 0 .. MaxJobs] /\ use_cnt \in 0 .. MaxJobs
        /\ Len(vi) <= MaxJobs
    BY <2>2 DEF Queue, BeTypes
  <2>5. ViNodes \subseteq Nodes
    BY <2>2, ViNodesAre
  <2>. QED  BY <2>2, <2>3, <2>4, <2>5 DEF TypeOK, StatTypes, PipeTypes
<1>. QED  BY <1>1, Invariance, PTL


(* A configuration buffer is free, busy or being filled, and in one place  *)
(* only, unless the interrupt lost one.                                    *)
THEOREM AllBuffersAccounted == Spec => []BuffersAccounted
<1>1. IInv => BuffersAccounted
  <2>1. SUFFICES ASSUME IInv, be_init, ~leaked
                 PROVE  BuffersAccounted
    BY DEF BuffersAccounted
  <2>0. PICK u : u = IF use_node = NoNode THEN <<>> ELSE <<use_node>>
    OBVIOUS
  <2>2. BeTypes /\ Placed /\ Accounted
    BY <2>1 DEF IInv, Queue
  <2>3. /\ free_list \in Seq(Nodes) /\ busy_list \in Seq(Nodes)
        /\ Once(free_list) /\ Once(busy_list)
        /\ \A n \in Nodes : /\ ~(On(n, free_list) /\ On(n, busy_list))
                            /\ n = use_node => ~On(n, free_list) /\ ~On(n, busy_list)
        /\ \A n \in Nodes : On(n, free_list) \/ On(n, busy_list) \/ n = use_node
        /\ use_node \in Nodes \union {NoNode}
    BY <2>1, <2>2 DEF BeTypes, Placed, Accounted
  <2>4. u \in Seq(Nodes) /\ Once(u) /\ \A n \in Nodes : On(n, u) <=> n = use_node
    <3>1. CASE use_node = NoNode
      <4>1. u = <<>>
        BY <2>0, <3>1
      <4>2. <<>> \in Seq(Nodes) /\ Once(<<>>) /\ \A b : ~On(b, <<>>)
        BY EmptyList
      <4>. QED  BY <3>1, <4>1, <4>2, NodesAre
    <3>2. CASE use_node # NoNode
      <4>1. u = <<use_node>> /\ use_node \in Nodes
        BY <2>0, <2>3, <3>2
      <4>2. u \in Seq(Nodes) /\ Len(u) = 1 /\ u[1] = use_node
        BY <4>1
      <4>3. \A i \in 1 .. Len(u) : i = 1
        BY <4>2
      <4>. QED  BY <4>2, <4>3 DEF Once, On
    <3>. QED  BY <3>1, <3>2
  <2>5. PICK c : c = free_list \o busy_list
    OBVIOUS
  <2>6. c \in Seq(Nodes)
    BY <2>3, <2>5, ConcatProperties
  <2>7. Once(c)
    BY <2>3, <2>5, ConcatOnce
  <2>8. \A n : On(n, c) <=> On(n, free_list) \/ On(n, busy_list)
    BY <2>3, <2>5, ConcatOn
  <2>9. PICK d : d = c \o u
    OBVIOUS
  <2>10. d \in Seq(Nodes)
    BY <2>4, <2>6, <2>9, ConcatProperties
  <2>11. Once(d)
    BY <2>3, <2>4, <2>6, <2>7, <2>8, <2>9, ConcatOnce
  <2>12. \A n : On(n, d) <=> On(n, c) \/ On(n, u)
    BY <2>4, <2>6, <2>9, ConcatOn
  <2>13. \A n \in Nodes : On(n, d)
    BY <2>3, <2>4, <2>8, <2>12
  <2>14. ToSet(d) = Nodes
    <3>1. \A n \in ToSet(d) : n \in Nodes
      BY <2>10, LenProperties, ElementOfSeq DEF ToSet
    <3>2. \A n \in Nodes : n \in ToSet(d)
      BY <2>10, <2>13, SetOf
    <3>. QED  BY <3>1, <3>2
  <2>15. Len(d) = Cardinality(Nodes)
    <3>1. Nodes = {n \in Nodes : On(n, d)}
      BY <2>13
    <3>2. Cardinality(Nodes) = Len(d)
      BY <2>10, <2>11, <3>1, OnceLength
    <3>. QED  BY <3>2
  <2>. QED  BY <2>0, <2>5, <2>9, <2>14, <2>15 DEF BuffersAccounted
<1>. QED  BY <1>1, Invariance, PTL

(* The configuration that VI works with is counted, stays on the busy list *)
(* and keeps the pipe's buffers from being given back.                     *)
THEOREM ConfigHeld == Spec => []HeldConfigStays
<1>1. IInv => HeldConfigStays
  <2>1. SUFFICES ASSUME IInv, ~recalled
                 PROVE  /\ use_cnt = Len(vi)
                        /\ ViNodes # {} => be_init
                        /\ be_init => \A n \in Nodes : hold_cnt[n] = RefsOf(n)
                        /\ ViNodes \subseteq ToSet(busy_list)
    BY DEF HeldConfigStays
  <2>2. /\ Queue /\ busy_list \in Seq(Nodes)
        /\ use_cnt = Len(vi)
        /\ ~be_init => vi = <<>>
        /\ be_init => \A n \in Nodes : hold_cnt[n] = Refs(vi, n)
        /\ \A i \in 1 .. Len(vi) : On(vi[i].node, busy_list)
    BY <2>1 DEF IInv, Queue, Trusted, BeTypes
  <2>3. /\ \A n \in ViNodes : \E i \in 1 .. Len(vi) : vi[i].node = n
        /\ \A n \in Nodes : RefsOf(n) = Refs(vi, n)
    BY <2>2, ViNodesAre
  <2>4. ViNodes # {} => be_init
    <3>1. ViNodes # {} => vi # <<>>
      BY <2>3, EmptySeq
    <3>. QED  BY <2>2, <3>1
  <2>5. ViNodes \subseteq ToSet(busy_list)
    BY <2>2, <2>3, SetOf
  <2>. QED  BY <2>2, <2>3, <2>4, <2>5
<1>. QED  BY <1>1, Invariance, PTL

(* VI always finds the configuration published last.                       *)
THEOREM AlwaysNewest == Spec => []NewestHanded
<1>1. IInv => NewestHanded
  <2>1. SUFFICES ASSUME IInv, be_init, ~recalled, pc # "switch"
                 PROVE  busy_list # <<>> /\ Last(busy_list) = newest
    BY DEF NewestHanded
  <2>2. busy_list # <<>> /\ busy_list[Len(busy_list)] = newest
    BY <2>1 DEF IInv, LastIsNewest
  <2>. QED  BY <2>2 DEF Last
<1>. QED  BY <1>1, Invariance, PTL

(* With two buffers more than VI works with there is one for the next      *)
(* configuration.                                                          *)
THEOREM BufferAlwaysFound == Spec => []BufferForNextFrame
<1>1. IInv => BufferForNextFrame
  <2>1. SUFFICES ASSUME IInv, be_init, ~recalled, ~leaked,
                        Cardinality(ViNodes) + 2 <= Cardinality(Nodes),
                        use_node = NoNode, free_list = <<>>
                 PROVE  FALSE
    BY DEF BufferForNextFrame
  <2>2. /\ Queue /\ busy_list \in Seq(Nodes) /\ vi \in Seq(Jobs)
        /\ \A n \in Nodes : On(n, free_list) \/ On(n, busy_list) \/ n = use_node
        /\ \A n \in Nodes : hold_cnt[n] = Refs(vi, n)
        /\ \A a \in 1 .. Len(busy_list) - 1 : Held(busy_list[a])
    BY <2>1 DEF IInv, Queue, Trusted, BeTypes, Accounted
  <2>3. \A n \in Nodes : On(n, busy_list)
    <3>1. \A n : ~On(n, <<>>)
      BY EmptyList
    <3>. QED  BY <2>1, <2>2, <3>1, NodesAre
  <2>4. PICK l : l = busy_list[Len(busy_list)]
    OBVIOUS
  <2>5. ASSUME NEW n \in Nodes, n # l
        PROVE  n \in ViNodes
    <3>1. PICK a \in 1 .. Len(busy_list) : busy_list[a] = n
      BY <2>3 DEF On
    <3>2. a \in 1 .. Len(busy_list) - 1
      BY <2>2, <2>4, <2>5, <3>1, LenProperties
    <3>3. Refs(vi, n) > 0
      BY <2>2, <3>1, <3>2 DEF Held
    <3>4. \E i \in 1 .. Len(vi) : vi[i].node = n
      <4>1. SUFFICES ASSUME ~\E i \in 1 .. Len(vi) : vi[i].node = n
                     PROVE  FALSE
        OBVIOUS
      <4>2. {i \in 1 .. Len(vi) : vi[i].node = n} = {}
        BY <4>1
      <4>3. Refs(vi, n) = 0
        BY <4>2, FS_EmptySet DEF Refs
      <4>. QED  BY <3>3, <4>3
    <3>. QED  BY <3>4 DEF ViNodes
  <2>6. ViNodes \subseteq Nodes /\ IsFiniteSet(Nodes)
    BY <2>2, ViNodesAre, BeBufConstants DEF BeBufConstants
  <2>7. IsFiniteSet(ViNodes)
    BY <2>6, FS_Subset
  <2>8. Cardinality(ViNodes) \in Nat
    BY <2>7, FS_CardinalityType
  <2>9. /\ IsFiniteSet(ViNodes \union {l})
        /\ Cardinality(ViNodes \union {l}) <= Cardinality(ViNodes) + 1
    <3>1. /\ IsFiniteSet(ViNodes \union {l})
          /\ Cardinality(ViNodes \union {l}) =
               IF l \in ViNodes THEN Cardinality(ViNodes) ELSE Cardinality(ViNodes) + 1
      BY <2>7, FS_AddElement
    <3>. QED  BY <2>8, <3>1
  <2>10. Nodes \subseteq ViNodes \union {l}
    BY <2>5
  <2>11. Cardinality(Nodes) <= Cardinality(ViNodes \union {l})
    BY <2>9, <2>10, FS_Subset
  <2>12. Cardinality(ViNodes \union {l}) \in Nat /\ Cardinality(Nodes) \in Nat
    BY <2>9, NodesAre, FS_CardinalityType
  <2>. QED  BY <2>1, <2>8, <2>9, <2>11, <2>12
<1>. QED  BY <1>1, Invariance, PTL

(* The firmware never goes back to older statistics.                       *)
THEOREM NeverOlder == Spec => SeenInOrder
<1>1. IInv /\ [Next]_vars => (seen' >= seen \/ UNCHANGED vars)
  BY StatInTimeNext DEF IInv
<1>2. IInv /\ [Next]_vars => [seen' >= seen]_vars
  BY <1>1
<1>. QED  BY <1>2, Invariance, PTL DEF SeenInOrder, Spec


(* Statistics that agree on each of their parts are the same.              *)
LEMMA SameStats ==
  ASSUME NEW r \in Stats, NEW s \in Stats, r.pts = s.pts, r.be = s.be, r.fe = s.fe
  PROVE  r = [s EXCEPT !.af = r.af]
BY DEF Stats

(* What a buffer in the firmware's hands holds does not change, but for    *)
(* newer AF windows.                                                       *)
LEMMA HeldStays ==
  ASSUME IInv, [Next]_vars, NEW b \in Bufs, read = b, read' = b, stat_init'
  PROVE  stat'[b] = [stat[b] EXCEPT !.af = stat'[b].af] /\ stat'[b].af >= stat[b].af
<1>1. /\ StatTypes /\ StatPlaced /\ PipeTypes /\ LifeOK /\ Queue /\ AfInTime
      /\ stat \in [Bufs -> Stats] /\ ready_stt \in Nat
  BY DEF IInv, StatTypes
<1>2. b # NoBuf
  BY BufsAre
<1>3. CASE stat' = stat
  BY <1>1, <1>3 DEF Stats
<1>4. CASE StatBufInit \/ StatBufExit
  BY <1>1, <1>2, <1>4 DEF StatBufInit, StatBufExit, LifeOK
<1>5. ASSUME stat_init, NEW c \in Bufs, On(c, st_free) \/ On(c, st_busy)
      PROVE  c # b
  BY <1>1, <1>5 DEF StatPlaced
<1>6. ASSUME NEW c \in Bufs, Summed(c)
      PROVE  stat'[b] = stat[b]
  <2>1. /\ stat_init /\ Source # <<>> /\ c = Source[1] /\ stat' = [stat EXCEPT ![c] = Entry(c)]
    BY <1>6 DEF Summed
  <2>2. /\ Source \in Seq(Bufs)
        /\ On(c, Source) \/ On(c, Rest) <=> On(c, st_free) \/ On(c, st_busy)
    BY <1>1, SourceIs
  <2>3. On(c, Source)
    BY <2>1, <2>2, TailOn
  <2>4. c # b
    BY <1>5, <2>1, <2>2, <2>3
  <2>. QED  BY <1>1, <2>1, <2>4
<1>7. CASE SummaryInsert
  <2>1. stat'[b] = stat[b]
    BY <1>1, <1>6, <1>7, SummedIs
  <2>. QED  BY <1>1, <2>1 DEF Stats
<1>8. CASE vi # <<>> /\ \E broken, running, last \in BOOLEAN : SwitchBeOfflineStt(Head(vi).pts, broken, running, last)
  <2>1. Head(vi).pts \in Nat
    BY <1>1, <1>8, HeadPts
  <2>2. PICK p \in Nat, broken \in BOOLEAN, running \in BOOLEAN, last \in BOOLEAN :
          p = Head(vi).pts /\ SwitchBeOfflineStt(p, broken, running, last)
    BY <1>8, <2>1
  <2>0. StatTypes /\ StatPlaced
    BY <1>1
  <2>3. /\ stat_init' = stat_init /\ ready_stt' = p /\ stat' \in [Bufs -> Stats]
        /\ stat'[b].pts = stat[b].pts /\ stat'[b].fe = stat[b].fe
        /\ (stat'[b].af = stat[b].af \/ stat'[b].af = p)
        /\ stat'[b].be # stat[b].be => On(b, st_free) \/ On(b, st_busy)
    BY <2>0, <2>2, SwitchIs
  <2>4. stat'[b].be = stat[b].be
    BY <1>5, <2>3
  <2>5. stat'[b] = [stat[b] EXCEPT !.af = stat'[b].af]
    BY <1>1, <2>3, <2>4, SameStats
  <2>6. ViInTime
    BY DEF IInv
  <2>7. ready_stt <= p
    BY <1>1, <2>3, <2>6, ReadyInTime
  <2>8. stat[b].af \in Nat /\ stat[b].af <= ready_stt
    BY <1>1 DEF Stats, AfInTime
  <2>9. stat'[b].af >= stat[b].af
    BY <1>1, <2>2, <2>3, <2>7, <2>8
  <2>. QED  BY <2>5, <2>9
<1>9. CASE StatBufUserPut(read) /\ read' = NoBuf
  BY <1>2, <1>9
<1>10. CASE \/ UNCHANGED statVars \/ StatBufUserGet \/ FeInsert(frame) \/ FeInsert(frame + 1) \/ UpdateFePts
            \/ \E sel \in {"FE_START", "BE_END"} : SelectWakeup(sel)
  BY <1>3, <1>10 DEF statVars, StatBufUserGet, FeInsert, UpdateFePts, SelectWakeup
<1>. QED  BY <1>1, <1>4, <1>7, <1>8, <1>9, <1>10, StatSteps

(* The statistics that the firmware computes with stay as they are; only   *)
(* the AF windows get newer.                                               *)
THEOREM ReadStatStable == Spec => HeldStatStable
<1>. DEFINE Stable ==
       \A b \in Bufs : read = b /\ read' = b /\ stat_init' =>
         /\ stat'[b] = [stat[b] EXCEPT !.af = stat'[b].af]
         /\ stat'[b].af >= stat[b].af
<1>1. IInv /\ [Next]_vars => Stable
  BY HeldStays
<1>2. IInv /\ [Next]_vars => [Stable]_vars
  BY <1>1
<1>3. Spec => [][Stable]_vars
  BY <1>2, Invariance, PTL DEF Spec
<1>. QED  BY <1>3 DEF HeldStatStable

(* Only the summary leaves its own section of the interrupt.               *)
LEMMA SumUpOnly ==
  ASSUME [Next]_vars, irq = "sum", irq' = "idle"
  PROVE  SumUp
<1>1. ~UNCHANGED vars
  BY DEF vars, pipeVars
<1>2. ~(\/ Start \/ StopInterrupt \/ ExitStatistics \/ ExitBegin \/ ExitEnd \/ ExitTimeout
        \/ ResetCtx \/ SetCtrlParam)
  BY DEF Start, StopInterrupt, ExitStatistics, ExitBegin, ExitEnd, ExitTimeout, ResetCtx, SetCtrlParam,
         SelectWakeup, statLists, pipeVars
<1>3. ~(FrameStart \/ FrameTake \/ FrameFe \/ FrameStartPlus \/ TriggerPrepare)
  BY DEF FrameStart, FrameTake, FrameFe, FrameStartPlus, TriggerPrepare, pipeVars
<1>4. ~((\E p \in 1 .. MaxFrame : ViStart(p)) \/ ViHold \/ ViPart \/ ViEnd \/ ViPut)
  BY DEF ViStart, ViHold, ViPart, ViEnd, ViPut, pipeVars
<1>5. ~(SwitchBegin \/ SwitchEnd \/ FrameEdge \/ RunGetBuf)
  BY DEF SwitchBegin, SwitchEnd, FrameEdge, RunGetBuf
<1>6. ~(RunGetStat \/ RunPutStat \/ RunCfg \/ RunFail)
  BY DEF RunGetStat, RunPutStat, RunCfg, RunFail
<1>. QED  BY <1>1, <1>2, <1>3, <1>4, <1>5, <1>6 DEF Next

(* BE_END: a summary gives the statistics of the frame that VI ended.      *)
LEMMA SumUpPairs ==
  ASSUME IInv, SumUp, [Next]_vars, ~FeStartMode, stat_init, ~(recalled /\ starts > 1)
  PROVE  /\ st_busy' # <<>>
         /\ stat'[Last(st_busy')].pts = frame_pts
         /\ stat'[Last(st_busy')].be = frame_pts
         /\ frame - frame_pts < NumFe => stat'[Last(st_busy')].fe = frame_pts
<1>1. /\ StatTypes /\ StatPlaced /\ PipeTypes /\ Queue /\ BeReady /\ FeWaits /\ ViInTime
      /\ stat \in [Bufs -> Stats]
  BY DEF IInv, StatTypes
<1>2. irq = "sum" /\ SummaryInsert
  BY DEF SumUp
<1>3. /\ frame_pts > 0
      /\ IF be_broken THEN st_free # <<>> /\ stat[st_free[1]].be = frame_pts ELSE ready_stt = frame_pts
  BY <1>1, <1>2 DEF BeReady
<1>4. Source # <<>>
  BY <1>1, <1>3, SomeSource DEF Source
<1>5. PICK b \in Bufs : Summed(b)
  <2>2. SummaryInsert /\ stat_init /\ Source # <<>>
    BY <1>2, <1>4
  <2>. QED  BY <1>1, <2>2, SummedIs
<1>6. /\ b = Source[1] /\ st_busy' = Append(Rest, b)
      /\ stat' = [stat EXCEPT ![b] = Entry(b)]
  BY <1>5 DEF Summed
<1>7. st_busy' # <<>> /\ Last(st_busy') = b
  <2>1. Rest \in Seq(Bufs) /\ Len(Rest) \in Nat
    BY <1>1, SourceIs, LenProperties
  <2>2. Len(st_busy') = Len(Rest) + 1 /\ st_busy'[Len(Rest) + 1] = b
    BY <1>6, <2>1, AppendProperties
  <2>3. st_busy' # <<>>
    BY <2>1, <2>2, EmptySeq
  <2>. QED  BY <2>2, <2>3 DEF Last
<1>8. stat'[b] = Entry(b)
  BY <1>1, <1>6
<1>9. Entry(b).be = frame_pts
  BY <1>3, <1>6 DEF Entry, Source
<1>10. ASSUME frame - frame_pts < NumFe
       PROVE  Entry(b).fe = frame_pts
  <2>1. frame \in Nat /\ frame_pts \in Nat /\ vi_last \in Nat
    BY <1>1, ViTypes
  <2>2. frame_pts <= frame /\ frame_pts \in 1 .. frame
    BY <1>1, <1>3, <2>1 DEF ViInTime
  <2>3. /\ LastFrames(fe_busy, frame)
        /\ \A q \in 1 .. frame : Awaited(q) /\ frame - q < NumFe => frame - Len(fe_busy) < q
    BY <1>1 DEF FeWaits
  <2>4. Awaited(frame_pts)
    BY <1>2 DEF Awaited
  <2>5. frame - Len(fe_busy) < frame_pts
    BY <1>10, <2>2, <2>3, <2>4
  <2>6. FeFound(frame_pts)
    BY <2>1, <2>2, <2>3, <2>5, LastFramesFrom
  <2>7. Head(FeFrom(frame_pts)) = frame_pts
    BY <2>1, <2>2, <2>3, <2>6, LastFramesFrom
  <2>. QED  BY <2>6, <2>7 DEF Entry
<1>. QED  BY <1>7, <1>8, <1>9, <1>10 DEF Entry

(* BE_END: every frame that is summed up gives BE and FE statistics of the *)
(* same frame, while VI is not NumFe frames behind.                        *)
THEOREM EveryStatPaired == Spec => StatPaired
<1>. DEFINE Paired ==
       ~FeStartMode /\ irq = "sum" /\ irq' = "idle" /\ stat_init /\ ~(recalled /\ starts > 1) =>
         /\ st_busy' # <<>>
         /\ LET s == stat'[Last(st_busy')]
            IN s.pts = frame_pts /\ s.be = s.pts /\ (frame - s.pts < NumFe => s.fe = s.pts)
<1>1. IInv /\ [Next]_vars => Paired
  BY SumUpOnly, SumUpPairs
<1>2. IInv /\ [Next]_vars => [Paired]_vars
  BY <1>1
<1>3. Spec => [][Paired]_vars
  BY <1>2, Invariance, PTL DEF Spec
<1>. QED  BY <1>3 DEF StatPaired
=============================================================================
