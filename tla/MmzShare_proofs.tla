-------------------------- MODULE MmzShare_proofs --------------------------
(***************************************************************************)
(* The process list of a block stays exact, for any number of processes    *)
(* and any capacity, as long as one file makes the share calls: proofs     *)
(* about MmzShare.                                                         *)
(***************************************************************************)
EXTENDS MmzShare, FiniteSetTheorems, TLAPS

\* The positions of I hold exactly the processes of S, each once.
Entries(I, S) ==
  /\ \A i \in I : pid[i] \in S
  /\ \A q \in S : \E i \in I : pid[i] = q
  /\ \A i, j \in I : pid[i] = pid[j] => i = j

\* A list of n processes: the allocating process and those it shares with.
ListOK(n) ==
  /\ n \in 1 .. MaxPid
  /\ pid[0] = Owner
  /\ Entries(1 .. n - 1, granted)
  /\ \A i \in Slots : i < 0 \/ i >= n => pid[i] = NoPid
  /\ Cardinality(granted) = n - 1

\* A list of n processes in which position k is being overwritten, with the
\* one that follows or with none: t is the process that is taken off.
HoleOK(n, k, t) ==
  /\ n \in 2 .. MaxPid /\ k \in 1 .. n - 1
  /\ pid[0] = Owner
  /\ t \in granted /\ Entries((1 .. n - 1) \ {k}, granted \ {t})
  /\ \A i \in Slots : i < 0 \/ i >= n => pid[i] = NoPid
  /\ Cardinality(granted) = n - 1

\* How far the call that file f executes has come.
CallOK(f) ==
  /\ call[f].at = "append" =>
       /\ ListOK(pid_num) /\ pid_num < MaxPid
       /\ call[f].target \in Procs \ {Owner} /\ call[f].target \notin granted
  /\ call[f].at = "store" =>
       /\ ListOK(pid_num - 1) /\ pid_num - 1 < MaxPid /\ call[f].cur = pid_num - 1
       /\ call[f].target \in Procs \ {Owner} /\ call[f].target \notin granted
  /\ call[f].at = "clear" =>
       /\ ListOK(pid_num) /\ call[f].cur \in 1 .. pid_num - 1
       /\ pid[call[f].cur] = call[f].target
  /\ call[f].at = "shift" => HoleOK(pid_num + 1, call[f].cur, call[f].target)

IInv ==
  /\ TypeOK
  /\ Owner \notin granted /\ IsFiniteSet(granted)
  /\ \A f \in Files : call[f].at # "idle" => \E p \in Procs : f \in Uses[p]
  /\ Quiet => ListOK(pid_num)
  /\ \A f \in Files : CallOK(f)
-----------------------------------------------------------------------------
(* The constants.                                                          *)
LEMMA Window ==
  /\ MaxPid \in Nat \ {0} /\ Cardinality(Files) \in Nat /\ Cardinality(Files) >= 1
  /\ \A i \in Int : i \in Slots <=> -Cardinality(Files) <= i /\ i <= MaxPid + Cardinality(Files)
  /\ 0 .. MaxPid \subseteq Slots /\ Owner \in Procs /\ NoPid \notin Procs
<1>1. MaxPid \in Nat \ {0} /\ IsFiniteSet(Files) /\ Files # {} /\ Owner \in Procs /\ NoPid \notin Procs
  BY ShareConstants
<1>2. Cardinality(Files) \in Nat /\ Cardinality(Files) # 0
  BY <1>1, FS_CardinalityType, FS_EmptySet
<1>. QED  BY <1>1, <1>2 DEF Slots

(* The semaphore of the one file that makes share calls: no two of them    *)
(* are under way.                                                          *)
LEMMA Alone ==
  ASSUME OneUser, IInv, NEW f \in Files, \E p \in Procs : f \in Uses[p]
  PROVE  \A g \in Files \ {f} : call[g].at = "idle"
BY DEF OneUser, IInv

(* A step of the one file that makes share calls.                          *)
LEMMA StepKeeps ==
  ASSUME OneUser, IInv, NEW f \in Files, \E p \in Procs : f \in Uses[p],
         \A g \in Files \ {f} : call'[g] = call[g],
         TypeOK', CallOK(f)', call'[f].at = "idle" => ListOK(pid_num)',
         Owner \notin granted', IsFiniteSet(granted')
  PROVE  IInv'
<1>1. \A g \in Files \ {f} : call'[g].at = "idle"
  BY Alone
<1>2. \A g \in Files : CallOK(g)'
  <2>1. ASSUME NEW g \in Files \ {f} PROVE CallOK(g)'
    BY <1>1, <2>1 DEF CallOK
  <2>. QED  BY <2>1
<1>3. \A g \in Files : call'[g].at # "idle" => \E p \in Procs : g \in Uses[p]
  BY <1>1
<1>. QED  BY <1>2, <1>3 DEF IInv, Quiet

\* The call record of f becomes c, the others stay.
Calls(f, c) == /\ call' \in [Files -> [at : {"idle", "append", "store", "clear", "shift"},
                                       target : Procs \union {NoPid}, cur : Slots]]
               /\ call'[f] = c
               /\ \A g \in Files \ {f} : call'[g] = call[g]

(* What Step and Return do to the records.                                 *)
LEMMA StepCalls ==
  ASSUME IInv, NEW f \in Files, NEW at \in {"idle", "append", "store", "clear", "shift"},
         NEW q \in Procs \union {NoPid}, NEW i \in Slots,
         Step(f, at, q, i)
  PROVE  Calls(f, [at |-> at, target |-> q, cur |-> i])
BY DEF IInv, TypeOK, Step, Calls

(* The record of a file between calls.                                     *)
LEMMA ReturnCalls ==
  ASSUME IInv, NEW f \in Files, Return(f)
  PROVE  Calls(f, Idle)
<1>1. Idle \in [at : {"idle", "append", "store", "clear", "shift"},
                target : Procs \union {NoPid}, cur : Slots]
  <2>1. 0 \in Slots
    BY Window
  <2>. QED  BY <2>1 DEF Idle
<1>. QED  BY <1>1 DEF IInv, TypeOK, Return, Calls
-----------------------------------------------------------------------------
(* A list without holes does not change when nothing it reads does.        *)
LEMMA ListStays ==
  ASSUME NEW n, UNCHANGED <<pid, granted>>
  PROVE  ListOK(n)' <=> ListOK(n)
BY DEF ListOK, Entries

(* A refused call, or one that begins: the process that is to be added is  *)
(* not on the list yet.                                                    *)
LEMMA ShareCheckInv ==
  ASSUME OneUser, IInv, NEW f \in Files, NEW p \in Procs, NEW q \in Procs, ShareCheck(p, f, q)
  PROVE  IInv'
<1>1. /\ f \in Uses[p] /\ call[f].at = "idle" /\ q # pid[0] /\ pid_num < MaxPid /\ ~Listed(q)
      /\ Step(f, "append", q, 0) /\ UNCHANGED <<pid, pid_num, check_pid, opened, granted>>
  BY DEF ShareCheck, Ready
<1>2. ListOK(pid_num)
  <2>1. Quiet
    BY <1>1, Alone DEF Quiet
  <2>. QED  BY <2>1 DEF IInv
<1>3. Calls(f, [at |-> "append", target |-> q, cur |-> 0])
  <2>1. 0 \in Slots
    BY Window
  <2>. QED  BY <1>1, <2>1, StepCalls
<1>4. q \notin granted /\ q # Owner
  BY <1>1, <1>2 DEF Listed, ListOK, Entries
<1>5. CallOK(f)' /\ call'[f].at = "append"
  <2>1. ListOK(pid_num)'
    BY <1>1, <1>2, ListStays
  <2>2. call'[f].at = "append" /\ call'[f].target = q
    BY <1>3 DEF Calls
  <2>. QED  BY <1>1, <1>4, <2>1, <2>2 DEF CallOK
<1>6. TypeOK'
  BY <1>1, <1>3 DEF IInv, TypeOK, Calls
<1>. QED  BY <1>1, <1>3, <1>5, <1>6, StepKeeps DEF Calls, IInv

(* The file that is in a call makes share calls.                           *)
LEMMA Busy ==
  ASSUME IInv, NEW f \in Files, call[f].at # "idle"
  PROVE  /\ \E p \in Procs : f \in Uses[p]
         /\ CallOK(f) /\ call[f].target \in Procs \union {NoPid} /\ call[f].cur \in Slots
         /\ call[f] = [at |-> call[f].at, target |-> call[f].target, cur |-> call[f].cur]
         /\ pid \in [Slots -> Procs \union {NoPid}] /\ pid_num \in Int
BY DEF IInv, TypeOK, Slots

(* The index is taken and pid_num incremented ...                          *)
LEMMA ShareIncrementInv ==
  ASSUME OneUser, IInv, NEW f \in Files, ShareIncrement(f)
  PROVE  IInv'
<1>1. /\ call[f].at = "append" /\ pid_num' = pid_num + 1
      /\ Step(f, "store", call[f].target, pid_num) /\ UNCHANGED <<pid, check_pid, opened, granted>>
  BY DEF ShareIncrement
<1>2. /\ ListOK(pid_num) /\ pid_num < MaxPid
      /\ call[f].target \in Procs \ {Owner} /\ call[f].target \notin granted
  BY <1>1, Busy DEF CallOK
<1>3. pid_num \in 1 .. MaxPid /\ pid_num \in Slots /\ pid_num + 1 \in Slots
  BY <1>1, <1>2, Window DEF ListOK
<1>4. Calls(f, [at |-> "store", target |-> call[f].target, cur |-> pid_num])
  BY <1>1, <1>2, <1>3, StepCalls
<1>5. CallOK(f)' /\ call'[f].at = "store"
  <2>1. ListOK(pid_num - 1)'
    <3>1. PICK n \in 1 .. MaxPid : n = pid_num
      BY <1>3
    <3>2. ListOK(n)'
      BY <1>1, <1>2, <3>1, ListStays
    <3>. QED  BY <1>1, <3>1, <3>2 DEF ListOK
  <2>2. /\ call'[f].at = "store" /\ call'[f].target = call[f].target /\ call'[f].cur = pid_num
    BY <1>4 DEF Calls
  <2>. QED  BY <1>1, <1>2, <1>3, <2>1, <2>2 DEF CallOK
<1>6. TypeOK'
  BY <1>1, <1>3, <1>4 DEF IInv, TypeOK, Calls
<1>. QED  BY <1>1, <1>4, <1>5, <1>6, Busy, StepKeeps DEF Calls, IInv

(* ... then the process is stored behind the last one.                     *)
LEMMA ShareStoreInv ==
  ASSUME OneUser, IInv, NEW f \in Files, ShareStore(f)
  PROVE  IInv'
<1>. DEFINE q == call[f].target
            n == pid_num
<1>1. /\ call[f].at = "store" /\ pid' = [pid EXCEPT ![call[f].cur] = q]
      /\ granted' = granted \union {q} /\ Return(f) /\ UNCHANGED <<pid_num, check_pid, opened>>
  BY DEF ShareStore
<1>2. /\ ListOK(n - 1) /\ n - 1 < MaxPid /\ call[f].cur = n - 1
      /\ q \in Procs \ {Owner} /\ q \notin granted /\ n \in Int
  BY <1>1, Busy DEF CallOK
<1>3. /\ n \in 2 .. MaxPid /\ n - 1 \in Slots /\ 0 \in Slots /\ (1 .. n - 1) \subseteq Slots
      /\ pid \in [Slots -> Procs \union {NoPid}] /\ Slots \subseteq Int
  <2>1. MaxPid \in Nat
    BY Window
  <2>2. n \in 2 .. MaxPid
    <3>1. n - 1 \in 1 .. MaxPid
      BY <1>2 DEF ListOK
    <3>. QED  BY <1>2, <2>1, <3>1
  <2>3. n - 1 \in 0 .. MaxPid /\ 0 \in 0 .. MaxPid /\ (1 .. n - 1) \subseteq 0 .. MaxPid
    BY <2>1, <2>2
  <2>4. Slots \subseteq Int
    BY DEF Slots
  <2>. QED  BY <1>1, <2>2, <2>3, <2>4, Busy, Window
<1>. HIDE DEF q, n
<1>4. \A i \in Slots : pid'[i] = IF i = n - 1 THEN q ELSE pid[i]
  BY <1>1, <1>2, <1>3
<1>5. Entries(1 .. n - 2, granted)
  BY <1>2, <1>3 DEF ListOK
<1>6. /\ \A i \in 1 .. n - 1 : pid'[i] \in granted'
      /\ \A x \in granted' : \E i \in 1 .. n - 1 : pid'[i] = x
      /\ \A i, j \in 1 .. n - 1 : pid'[i] = pid'[j] => i = j
  <2>1. \A i \in 1 .. n - 1 : i \in Slots /\ (i = n - 1 \/ i \in 1 .. n - 2)
    BY <1>3
  <2>2. \A i \in 1 .. n - 2 : i \in 1 .. n - 1 /\ i # n - 1 /\ pid'[i] = pid[i] /\ pid[i] \in granted
    BY <1>3, <1>4, <1>5 DEF Entries
  <2>3. n - 1 \in 1 .. n - 1 /\ pid'[n - 1] = q
    BY <1>3, <1>4
  <2>. QED  BY <1>1, <1>2, <1>5, <2>1, <2>2, <2>3 DEF Entries
<1>7. Cardinality(granted') = n - 1 /\ IsFiniteSet(granted')
  <2>1. IsFiniteSet(granted) /\ Cardinality(granted) = n - 2
    BY <1>2, <1>3 DEF IInv, ListOK
  <2>. QED  BY <1>1, <1>2, <1>3, <2>1, FS_AddElement
<1>8. pid'[0] = Owner /\ \A i \in Slots : i < 0 \/ i >= n => pid'[i] = NoPid
  BY <1>2, <1>3, <1>4 DEF ListOK
<1>9. ListOK(pid_num)'
  BY <1>1, <1>3, <1>6, <1>7, <1>8 DEF ListOK, Entries, n
<1>10. Calls(f, Idle)
  BY <1>1, ReturnCalls
<1>11. call'[f].at = "idle" /\ CallOK(f)'
  BY <1>10 DEF Calls, Idle, CallOK
<1>12. TypeOK'
  BY <1>1, <1>2, <1>3, <1>10 DEF IInv, TypeOK, Calls
<1>. QED  BY <1>1, <1>2, <1>7, <1>9, <1>10, <1>11, <1>12, Busy, StepKeeps DEF Calls, IInv

(* The process that is to be taken off is found behind position 0.         *)
LEMMA UnshareCheckInv ==
  ASSUME OneUser, IInv, NEW f \in Files, NEW p \in Procs, NEW q \in Procs, UnshareCheck(p, f, q)
  PROVE  IInv'
<1>1. /\ f \in Uses[p] /\ call[f].at = "idle" /\ q # pid[0]
      /\ UNCHANGED <<pid, pid_num, check_pid, opened, granted>>
  BY DEF UnshareCheck, Ready
<1>2. PICK i \in Slots : IsPos(q, i) /\ Step(f, "clear", q, i)
  BY DEF UnshareCheck
<1>3. ListOK(pid_num)
  <2>1. Quiet
    BY <1>1, Alone DEF Quiet
  <2>. QED  BY <2>1 DEF IInv
<1>4. i \in 1 .. pid_num - 1 /\ pid[i] = q
  BY <1>1, <1>2, <1>3 DEF IsPos, ListOK
<1>5. Calls(f, [at |-> "clear", target |-> q, cur |-> i])
  BY <1>2, StepCalls
<1>6. CallOK(f)' /\ call'[f].at = "clear"
  <2>1. ListOK(pid_num)'
    BY <1>1, <1>3, ListStays
  <2>2. call'[f].at = "clear" /\ call'[f].target = q /\ call'[f].cur = i
    BY <1>5 DEF Calls
  <2>. QED  BY <1>1, <1>4, <2>1, <2>2 DEF CallOK
<1>7. TypeOK'
  BY <1>1, <1>5 DEF IInv, TypeOK, Calls
<1>. QED  BY <1>1, <1>5, <1>6, <1>7, StepKeeps DEF Calls, IInv

(* pid_num counts one less: the list has a hole where the process was.     *)
LEMMA ClearDecrementInv ==
  ASSUME OneUser, IInv, NEW f \in Files, ClearDecrement(f)
  PROVE  IInv'
<1>. DEFINE t == call[f].target
            k == call[f].cur
<1>1. /\ call[f].at = "clear" /\ pid_num' = pid_num - 1
      /\ Step(f, "shift", t, k) /\ UNCHANGED <<pid, check_pid, opened, granted>>
  BY DEF ClearDecrement
<1>2. ListOK(pid_num) /\ k \in 1 .. pid_num - 1 /\ pid[k] = t
      /\ t \in Procs \union {NoPid} /\ k \in Slots
  BY <1>1, Busy DEF CallOK
<1>. HIDE DEF t, k
<1>3. pid_num \in 2 .. MaxPid /\ pid_num - 1 \in Slots
  BY <1>2, Window DEF ListOK
<1>4. Calls(f, [at |-> "shift", target |-> t, cur |-> k])
  BY <1>1, <1>2, StepCalls
<1>5. t \in granted /\ Entries((1 .. pid_num - 1) \ {k}, granted \ {t})
  BY <1>2 DEF ListOK, Entries
<1>6. HoleOK(pid_num, k, t)
  BY <1>2, <1>3, <1>5 DEF ListOK, HoleOK
<1>7. CallOK(f)' /\ call'[f].at = "shift"
  <2>1. call'[f].at = "shift" /\ call'[f].target = t /\ call'[f].cur = k
    BY <1>4 DEF Calls
  <2>2. PICK n \in 2 .. MaxPid : n = pid_num
    BY <1>3
  <2>3. (pid_num + 1)' = n
    BY <1>1, <2>2
  <2>4. /\ n \in 2 .. MaxPid /\ k \in 1 .. n - 1 /\ pid[0] = Owner /\ t \in granted
        /\ \A i \in Slots : i < 0 \/ i >= n => pid[i] = NoPid
        /\ Cardinality(granted) = n - 1 /\ Entries((1 .. n - 1) \ {k}, granted \ {t})
    BY <1>6, <2>2 DEF HoleOK
  <2>5. HoleOK(pid_num + 1, call[f].cur, call[f].target)'
    BY <1>1, <2>1, <2>3, <2>4 DEF HoleOK, Entries
  <2>. QED  BY <2>1, <2>5 DEF CallOK
<1>8. TypeOK'
  BY <1>1, <1>3, <1>4 DEF IInv, TypeOK, Calls
<1>. QED  BY <1>1, <1>4, <1>7, <1>8, Busy, StepKeeps DEF Calls, IInv

(* An entry moves down: so does the hole.                                  *)
LEMMA ClearShiftInv ==
  ASSUME OneUser, IInv, NEW f \in Files, ClearShift(f)
  PROVE  IInv'
<1>. DEFINE t == call[f].target
            k == call[f].cur
            n == pid_num + 1
<1>1. /\ call[f].at = "shift" /\ k < pid_num /\ pid' = [pid EXCEPT ![k] = pid[k + 1]]
      /\ Step(f, "shift", t, k + 1) /\ UNCHANGED <<pid_num, check_pid, opened, granted>>
  BY DEF ClearShift
<1>2. /\ HoleOK(n, k, t) /\ t \in Procs \union {NoPid} /\ k \in Slots /\ pid_num \in Int
      /\ pid \in [Slots -> Procs \union {NoPid}]
  BY <1>1, Busy DEF CallOK
<1>3. k < n - 1 /\ n \in 2 .. MaxPid /\ k \in 1 .. n - 1 /\ n - 1 = pid_num
  BY <1>1, <1>2 DEF HoleOK
<1>. HIDE DEF t, k, n
<1>4. k + 1 \in Slots /\ k \in Slots /\ 0 \in Slots /\ (1 .. n - 1) \subseteq Slots /\ Slots \subseteq Int
  BY <1>3, Window DEF Slots
<1>5. Calls(f, [at |-> "shift", target |-> t, cur |-> k + 1])
  BY <1>1, <1>2, <1>4, StepCalls
<1>6. \A i \in Slots : pid'[i] = IF i = k THEN pid[k + 1] ELSE pid[i]
  BY <1>1, <1>2, <1>4
<1>7. t \in granted /\ Entries((1 .. n - 1) \ {k}, granted \ {t})
  BY <1>2 DEF HoleOK
<1>8. /\ \A i \in (1 .. n - 1) \ {k + 1} : pid'[i] \in granted \ {t}
      /\ \A x \in granted \ {t} : \E i \in (1 .. n - 1) \ {k + 1} : pid'[i] = x
      /\ \A i, j \in (1 .. n - 1) \ {k + 1} : pid'[i] = pid'[j] => i = j
  <2>1. k \in (1 .. n - 1) \ {k + 1} /\ k + 1 \in (1 .. n - 1) \ {k} /\ pid'[k] = pid[k + 1]
    BY <1>3, <1>4, <1>6
  <2>2. \A i \in (1 .. n - 1) \ {k + 1} : i = k \/ (i \in (1 .. n - 1) \ {k} /\ pid'[i] = pid[i] /\ i # k + 1)
    BY <1>3, <1>4, <1>6
  <2>3. \A i \in (1 .. n - 1) \ {k} : i = k + 1 \/ (i \in (1 .. n - 1) \ {k + 1} /\ pid'[i] = pid[i])
    BY <1>3, <1>4, <1>6
  <2>. QED  BY <1>7, <2>1, <2>2, <2>3 DEF Entries
<1>9. pid'[0] = Owner /\ \A i \in Slots : i < 0 \/ i >= n => pid'[i] = NoPid
  BY <1>2, <1>3, <1>4, <1>6 DEF HoleOK
<1>10. HoleOK(pid_num + 1, call[f].cur, call[f].target)' /\ call'[f].at = "shift"
  <2>1. call'[f].at = "shift" /\ call'[f].target = t /\ call'[f].cur = k + 1
    BY <1>5 DEF Calls
  <2>2. n = pid_num' + 1
    BY <1>1 DEF n
  <2>3. Cardinality(granted) = n - 1 /\ k + 1 \in 1 .. n - 1
    BY <1>2, <1>3 DEF HoleOK
  <2>. QED  BY <1>1, <1>3, <1>7, <1>8, <1>9, <2>1, <2>2, <2>3 DEF HoleOK, Entries
<1>11. CallOK(f)'
  BY <1>10 DEF CallOK
<1>12. TypeOK'
  BY <1>1, <1>2, <1>4, <1>5 DEF IInv, TypeOK, Calls
<1>. QED  BY <1>1, <1>5, <1>10, <1>11, <1>12, Busy, StepKeeps DEF Calls, IInv

(* The hole has reached the end: the list is closed.                       *)
LEMMA ClearEndInv ==
  ASSUME OneUser, IInv, NEW f \in Files, ClearEnd(f)
  PROVE  IInv'
<1>. DEFINE t == call[f].target
            n == pid_num
<1>1. /\ call[f].at = "shift" /\ ~(call[f].cur < n) /\ pid' = [pid EXCEPT ![n] = NoPid]
      /\ granted' = granted \ {t} /\ Return(f) /\ UNCHANGED <<pid_num, check_pid, opened>>
  BY DEF ClearEnd
<1>2. /\ HoleOK(n + 1, call[f].cur, t) /\ n \in Int /\ pid \in [Slots -> Procs \union {NoPid}]
  BY <1>1, Busy DEF CallOK
<1>3. call[f].cur = n /\ n \in 1 .. MaxPid - 1
  BY <1>1, <1>2, Window DEF HoleOK
<1>. HIDE DEF t, n
<1>4. n \in Slots /\ 0 \in Slots /\ (1 .. n) \subseteq Slots /\ Slots \subseteq Int /\ MaxPid \in Nat
  BY <1>3, Window DEF Slots
<1>5. \A i \in Slots : pid'[i] = IF i = n THEN NoPid ELSE pid[i]
  BY <1>1, <1>2, <1>4
<1>6. t \in granted /\ Entries((1 .. n) \ {n}, granted \ {t})
  BY <1>2, <1>3 DEF HoleOK
<1>7. /\ \A i \in 1 .. n - 1 : pid'[i] \in granted'
      /\ \A x \in granted' : \E i \in 1 .. n - 1 : pid'[i] = x
      /\ \A i, j \in 1 .. n - 1 : pid'[i] = pid'[j] => i = j
  <2>1. \A i \in 1 .. n - 1 : i \in (1 .. n) \ {n} /\ pid'[i] = pid[i]
    BY <1>3, <1>4, <1>5
  <2>2. \A i \in (1 .. n) \ {n} : i \in 1 .. n - 1
    BY <1>3
  <2>. QED  BY <1>1, <1>6, <2>1, <2>2 DEF Entries
<1>8. Cardinality(granted') = n - 1 /\ IsFiniteSet(granted')
  <2>1. IsFiniteSet(granted) /\ Cardinality(granted) = n
    BY <1>2, <1>3 DEF IInv, HoleOK
  <2>. QED  BY <1>1, <1>3, <1>6, <2>1, FS_RemoveElement
<1>9. pid'[0] = Owner /\ \A i \in Slots : i < 0 \/ i >= n => pid'[i] = NoPid
  BY <1>2, <1>3, <1>4, <1>5 DEF HoleOK
<1>10. ListOK(pid_num)'
  BY <1>1, <1>3, <1>4, <1>7, <1>8, <1>9 DEF ListOK, Entries, n
<1>11. Calls(f, Idle)
  BY <1>1, ReturnCalls
<1>12. call'[f].at = "idle" /\ CallOK(f)'
  BY <1>11 DEF Calls, Idle, CallOK
<1>13. TypeOK'
  BY <1>1, <1>2, <1>4, <1>11 DEF IInv, TypeOK, Calls
<1>. QED  BY <1>1, <1>8, <1>10, <1>11, <1>12, <1>13, Busy, StepKeeps DEF Calls, IInv
-----------------------------------------------------------------------------
(* In every state of every call the allocating process is at position 0.   *)
LEMMA OwnerFirst ==
  ASSUME IInv
  PROVE  pid[0] = Owner
<1>1. CASE Quiet
  BY <1>1 DEF IInv, ListOK
<1>2. CASE ~Quiet
  <2>1. PICK g \in Files : call[g].at # "idle"
    BY <1>2 DEF Quiet
  <2>2. CallOK(g) /\ call[g].at \in {"append", "store", "clear", "shift"}
    BY <2>1 DEF IInv, TypeOK
  <2>. QED  BY <2>2 DEF CallOK, ListOK, HoleOK
<1>. QED  BY <1>1, <1>2

(* Steps that leave the lists alone: among them the clean-up of a closing  *)
(* file, which finds its opener only at position 0 and spares it.          *)
LEMMA OtherInv ==
  ASSUME OneUser, IInv, NEW f \in Files,
         \/ \E p \in Procs, all \in BOOLEAN : SetShareAll(p, f, all)
         \/ Release(f) \/ Reopen(f) \/ UNCHANGED vars
  PROVE  IInv'
<1>1. pid[0] = Owner
  BY OwnerFirst
<1>2. UNCHANGED <<pid, pid_num, call, granted>>
  <2>1. ASSUME Release(f) PROVE UNCHANGED call
    <3>1. {i \in Slots : IsPos(Opener[f], i) /\ MayClear(i)} = {}
      BY <1>1 DEF OneUser, IsPos, MayClear, Slots
    <3>. QED  BY <2>1, <3>1 DEF Release
  <2>. QED  BY <2>1 DEF SetShareAll, Release, Reopen, vars
<1>3. check_pid' \in BOOLEAN /\ opened' \in SUBSET Files
  BY DEF IInv, TypeOK, SetShareAll, Release, Reopen, vars
<1>4. TypeOK'
  BY <1>2, <1>3 DEF IInv, TypeOK
<1>5. \A g \in Files : CallOK(g)'
  BY <1>2 DEF IInv, CallOK, ListOK, HoleOK, Entries
<1>6. Quiet' => ListOK(pid_num)'
  BY <1>2 DEF IInv, Quiet, ListOK, Entries
<1>. QED  BY <1>2, <1>4, <1>5, <1>6 DEF IInv

(* A new block has a list of its allocator alone.                          *)
LEMMA InitInv == Init => IInv
<1>. SUFFICES ASSUME Init PROVE IInv
  OBVIOUS
<1>1. pid \in [Slots -> Procs \union {NoPid}] /\ 0 \in Slots /\ 1 \in Slots /\ 1 \in 1 .. MaxPid
  BY Window DEF Init
<1>2. TypeOK
  <2>1. Idle \in [at : {"idle", "append", "store", "clear", "shift"},
                  target : Procs \union {NoPid}, cur : Slots]
    BY <1>1 DEF Idle
  <2>. QED  BY <1>1, <2>1 DEF Init, TypeOK
<1>3. IsFiniteSet(granted) /\ Cardinality(granted) = 0
  BY FS_EmptySet DEF Init
<1>4. ListOK(pid_num)
  <2>1. \A i \in Slots : i < 0 \/ i >= 1 => pid[i] = NoPid
    BY DEF Init, Slots
  <2>. QED  BY <1>1, <1>3, <2>1 DEF Init, ListOK, Entries
<1>5. \A f \in Files : call[f].at = "idle"
  BY DEF Init, Idle
<1>. QED  BY <1>2, <1>3, <1>4, <1>5 DEF Init, IInv, CallOK

(* The list is exact, but for the entry or the hole of the call under way. *)
THEOREM Invariance ==
  ASSUME OneUser
  PROVE  Spec => []IInv
<1>1. IInv /\ [Next]_vars => IInv'
  <2>. SUFFICES ASSUME IInv, [Next]_vars PROVE IInv'
    OBVIOUS
  <2>1. ASSUME NEW f \in Files, NEW p \in Procs, NEW q \in Procs,
               ShareCheck(p, f, q) \/ UnshareCheck(p, f, q)
        PROVE  IInv'
    BY <2>1, ShareCheckInv, UnshareCheckInv
  <2>2. ASSUME NEW f \in Files, ShareIncrement(f) \/ ShareStore(f) PROVE IInv'
    BY <2>2, ShareIncrementInv, ShareStoreInv
  <2>3. ASSUME NEW f \in Files, ClearDecrement(f) \/ ClearShift(f) \/ ClearEnd(f) PROVE IInv'
    BY <2>3, ClearDecrementInv, ClearShiftInv, ClearEndInv
  <2>4. ASSUME NEW f \in Files,
               \/ \E p \in Procs, all \in BOOLEAN : SetShareAll(p, f, all)
               \/ Release(f) \/ Reopen(f)
        PROVE  IInv'
    BY <2>4, OtherInv
  <2>5. CASE UNCHANGED vars
    BY <2>5, OtherInv, ShareConstants
  <2>. QED  BY <2>1, <2>2, <2>3, <2>4, <2>5 DEF Next
<1>. QED  BY <1>1, InitInv, PTL DEF Spec

(* pid_num and the positions the calls work on stay inside the array and   *)
(* its surroundings, only processes or -1 are stored.                      *)
THEOREM TypeCorrect ==
  ASSUME OneUser
  PROVE  Spec => []TypeOK
<1>1. IInv => TypeOK
  BY DEF IInv
<1>. QED  BY <1>1, Invariance, PTL

(* Between calls the list holds exactly the allocating process and those   *)
(* it shares with, each once, and never more than OT_MMB_MAX_PID_NUM.      *)
THEOREM Exact ==
  ASSUME OneUser
  PROVE  Spec => []ListExact
<1>1. IInv => ListExact
  <2>. SUFFICES ASSUME IInv, Quiet PROVE ListExact
    BY DEF ListExact
  <2>1. ListOK(pid_num)
    BY DEF IInv
  <2>2. {pid[i] : i \in 1 .. pid_num - 1} = granted
    BY <2>1 DEF ListOK, Entries
  <2>3. pid_num <= MaxPid
    BY <2>1, Window DEF ListOK
  <2>. QED  BY <2>1, <2>2, <2>3 DEF ListExact, ListOK
<1>. QED  BY <1>1, Invariance, PTL

(* The process that allocated the block keeps its place on the list.       *)
THEOREM OwnerListed ==
  ASSUME OneUser
  PROVE  Spec => []OwnerStaysListed
<1>1. IInv => OwnerStaysListed
  BY OwnerFirst DEF OwnerStaysListed
<1>. QED  BY <1>1, Invariance, PTL
=============================================================================
