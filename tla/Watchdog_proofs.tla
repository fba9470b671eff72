-------------------------- MODULE Watchdog_proofs --------------------------
(***************************************************************************)
(* One process at a time holds the watchdog device, for any number of      *)
(* processes and in every way the module can be loaded: proofs about       *)
(* Watchdog.                                                               *)
(***************************************************************************)
EXTENDS Watchdog, FiniteSetTheorems, TLAPS

\* The processes that g_driver_open counts: holders and refused openers that
\* have not taken their decrement back.
Takes(f) == Holds(f) \/ call[f].at = "backout"
Taken == {f \in Files : Takes(f)}

CallType ==
  /\ call \in [Files -> [at : Places, arg : Int, back : Places]]
  /\ driver_open \in Int /\ cur_margin \in Int /\ module \in Modules

\* Where a call returns to, and where a process that holds the device stands.
PlaceOK(f) ==
  /\ call[f].at \in {"heartbeat", "program"} => call[f].back \in {"open", "closed"}
  /\ call[f].back = "open" => call[f].at \in {"open", "heartbeat", "program"}

\* What was taken from g_driver_open is taken; a release that meets a refused
\* opener takes one for ever, so the sum may also be less.
CountOK == driver_open + Cardinality(Taken) <= 1

IInv == CallType /\ (\A f \in Files : PlaceOK(f)) /\ CountOK /\ OneHolder
-----------------------------------------------------------------------------
(* The processes that are counted are finitely many.                       *)
LEMMA TakenFinite ==
  /\ IsFiniteSet(Taken) /\ Cardinality(Taken) \in Nat
  /\ Taken = {} <=> Cardinality(Taken) = 0
<1>1. Taken \in SUBSET Files
  BY DEF Taken
<1>2. IsFiniteSet(Taken)
  BY <1>1, WatchdogConstants, FS_Subset
<1>. QED  BY <1>2, FS_CardinalityType, FS_EmptySet

\* Process f goes to another place of its call, nobody else moves.
Moves(f, a, b) ==
  /\ call' \in [Files -> [at : Places, arg : Int, back : Places]]
  /\ call'[f].at = a /\ call'[f].back = b
  /\ \A g \in Files \ {f} : call'[g] = call[g]

(* What a step of process f within its call does to the places.            *)
LEMMA GotoMoves ==
  ASSUME IInv, NEW f \in Files, NEW a \in Places, NEW x \in Int, NEW b \in Places,
         Goto(f, a, x, b)
  PROVE  Moves(f, a, b)
BY DEF IInv, CallType, Goto, Moves

(* Entering: a process that was not counted is, and the count goes down.   *)
LEMMA Enters ==
  ASSUME IInv, NEW f \in Files, ~Takes(f), Takes(f)',
         \A g \in Files \ {f} : call'[g] = call[g],
         driver_open' = driver_open - 1
  PROVE  CountOK'
<1>1. Taken' = Taken \union {f} /\ f \notin Taken
  BY DEF Taken, Takes, Holds
<1>2. Cardinality(Taken') = Cardinality(Taken) + 1
  BY <1>1, TakenFinite, FS_AddElement
<1>3. driver_open \in Int /\ Cardinality(Taken) \in Nat
  BY TakenFinite DEF IInv, CallType
<1>4. driver_open' + Cardinality(Taken') <= 1
  BY <1>2, <1>3 DEF IInv, CountOK
<1>. QED  BY <1>4 DEF CountOK

(* Leaving: a process that was counted is not, and the count goes up.      *)
LEMMA Leaves ==
  ASSUME IInv, NEW f \in Files, Takes(f), ~Takes(f)',
         \A g \in Files \ {f} : call'[g] = call[g],
         driver_open' = driver_open + 1
  PROVE  CountOK'
<1>1. Taken' = Taken \ {f} /\ f \in Taken
  BY DEF Taken, Takes, Holds
<1>2. Cardinality(Taken') = Cardinality(Taken) - 1
  BY <1>1, TakenFinite, FS_RemoveElement
<1>3. driver_open \in Int /\ Cardinality(Taken) \in Nat
  BY TakenFinite DEF IInv, CallType
<1>4. driver_open' + Cardinality(Taken') <= 1
  BY <1>2, <1>3 DEF IInv, CountOK
<1>. QED  BY <1>4 DEF CountOK

(* A step that counts nobody anew and does not raise g_driver_open.        *)
LEMMA Remains ==
  ASSUME IInv, \A g \in Files : Takes(g)' <=> Takes(g),
         driver_open' \in Int, driver_open' <= driver_open
  PROVE  CountOK'
<1>1. Taken' = Taken
  BY DEF Taken
<1>2. driver_open \in Int /\ Cardinality(Taken) \in Nat
  BY TakenFinite DEF IInv, CallType
<1>. QED  BY <1>1, <1>2 DEF IInv, CountOK
-----------------------------------------------------------------------------
(* Holders are counted, so one that opens finds no other.                  *)
LEMMA OpenStep ==
  ASSUME IInv, NEW f \in Files, Open(f)
  PROVE  IInv'
<1>1. ~Takes(f) /\ call[f].at = "closed" /\ call[f].back # "open"
  BY DEF Open, At, Takes, Holds, IInv, PlaceOK
<1>2. CASE driver_open = 1
  <2>1. Goto(f, "open", 0, "open")
    BY <1>2 DEF Open, Return
  <2>2. "open" \in Places /\ 0 \in Int
    BY DEF Places
  <2>3. Moves(f, "open", "open")
    BY <2>1, <2>2, GotoMoves
  <2>4. CallType'
    BY <2>3 DEF IInv, CallType, Moves, Open
  <2>5. \A g \in Files : PlaceOK(g)'
    BY <2>3 DEF IInv, PlaceOK, Moves
  <2>6. Takes(f)' /\ (\A g \in Files \ {f} : call'[g] = call[g]) /\ driver_open' = driver_open - 1
    BY <2>3 DEF Open, Takes, Holds, Moves
  <2>7. CountOK'
    BY <1>1, <2>6, Enters
  <2>8. Taken = {}
    BY <1>2, TakenFinite DEF IInv, CountOK
  <2>9. OneHolder'
    BY <2>3, <2>8 DEF OneHolder, Holds, Taken, Takes, Moves
  <2>. QED  BY <2>4, <2>5, <2>7, <2>9 DEF IInv
<1>3. CASE driver_open # 1
  <2>1. Goto(f, "backout", 0, "backout")
    BY <1>3 DEF Open, Return
  <2>2. "backout" \in Places /\ 0 \in Int
    BY DEF Places
  <2>3. Moves(f, "backout", "backout")
    BY <2>1, <2>2, GotoMoves
  <2>4. CallType'
    BY <2>3 DEF IInv, CallType, Moves, Open
  <2>5. \A g \in Files : PlaceOK(g)'
    BY <2>3 DEF IInv, PlaceOK, Moves
  <2>6. Takes(f)' /\ (\A g \in Files \ {f} : call'[g] = call[g]) /\ driver_open' = driver_open - 1
    BY <2>3 DEF Open, Takes, Holds, Moves
  <2>7. CountOK'
    BY <1>1, <2>6, Enters
  <2>8. OneHolder'
    BY <2>3 DEF IInv, OneHolder, Holds, Moves
  <2>. QED  BY <2>4, <2>5, <2>7, <2>8 DEF IInv
<1>. QED  BY <1>2, <1>3

(* A refused opener and a closing holder stop being counted.               *)
LEMMA LeaveStep ==
  ASSUME IInv, NEW f \in Files, OpenBackout(f) \/ Release(f)
  PROVE  IInv'
<1>1. Takes(f) /\ driver_open' = driver_open + 1
  BY DEF OpenBackout, Release, At, Takes, Holds
<1>2. PICK a \in {"closed", "rearm", "leave"} : Goto(f, a, 0, a)
  BY DEF OpenBackout, Release, Return
<1>3. a \in Places /\ 0 \in Int
  BY DEF Places
<1>4. Moves(f, a, a)
  BY <1>2, <1>3, GotoMoves
<1>5. CallType'
  BY <1>1, <1>4 DEF IInv, CallType, Moves, OpenBackout, Release
<1>6. \A g \in Files : PlaceOK(g)'
  BY <1>4 DEF IInv, PlaceOK, Moves
<1>7. ~Takes(f)' /\ \A g \in Files \ {f} : call'[g] = call[g]
  BY <1>4 DEF Takes, Holds, Moves
<1>8. CountOK'
  BY <1>1, <1>7, Leaves
<1>9. OneHolder'
  BY <1>4 DEF IInv, OneHolder, Holds, Moves
<1>. QED  BY <1>5, <1>6, <1>8, <1>9 DEF IInv

\* Process f goes on in its call and neither becomes nor stops being a holder.
GoesOn(f, a, b) ==
  /\ Moves(f, a, b)
  /\ call[f].at # "backout" /\ a # "backout"
  /\ (a = "open" \/ b = "open") <=> Holds(f)
  /\ a \in {"heartbeat", "program"} => b \in {"open", "closed"}
  /\ b = "open" => a \in {"open", "heartbeat", "program"}

(* Such a step keeps the invariant when g_driver_open does not rise.       *)
LEMMA WithinCall ==
  ASSUME IInv, NEW f \in Files, NEW a, NEW b, GoesOn(f, a, b),
         driver_open' \in Int, driver_open' <= driver_open,
         cur_margin' \in Int, module' = module
  PROVE  IInv'
<1>1. CallType'
  BY DEF IInv, CallType, GoesOn, Moves
<1>2. \A g \in Files : PlaceOK(g)'
  BY DEF IInv, PlaceOK, GoesOn, Moves
<1>3. \A g \in Files : (Holds(g)' <=> Holds(g)) /\ (Takes(g)' <=> Takes(g))
  BY DEF Holds, Takes, GoesOn, Moves
<1>4. CountOK'
  BY <1>3, Remains
<1>5. OneHolder'
  BY <1>3 DEF IInv, OneHolder
<1>. QED  BY <1>1, <1>2, <1>4, <1>5 DEF IInv

(* A release that met a refused opener takes its increment back.           *)
LEMMA ReleaseLeaveStep ==
  ASSUME IInv, NEW f \in Files, ReleaseLeave(f)
  PROVE  IInv'
<1>1. /\ call[f].at = "leave" /\ PlaceOK(f) /\ driver_open \in Int
      /\ Goto(f, "closed", 0, "closed")
  BY DEF ReleaseLeave, At, Return, IInv, CallType
<1>2. "closed" \in Places /\ 0 \in Int
  BY DEF Places
<1>3. Moves(f, "closed", "closed")
  BY <1>1, <1>2, GotoMoves
<1>4. GoesOn(f, "closed", "closed")
  BY <1>1, <1>3 DEF GoesOn, PlaceOK, Holds
<1>5. driver_open' \in Int /\ driver_open' <= driver_open
  BY <1>1 DEF ReleaseLeave
<1>6. module' = module /\ cur_margin' \in Int
  BY DEF ReleaseLeave, IInv, CallType
<1>. QED  BY <1>4, <1>5, <1>6, WithinCall

(* Every other step of a process inside a call.                            *)
LEMMA CallStep ==
  ASSUME IInv, NEW f \in Files,
         \/ ReleaseRearm(f) \/ Heartbeat(f) \/ Program(f) \/ Enable(f)
         \/ \E t \in Timeouts : SetTimeout(f, t)
  PROVE  IInv'
<1>1. driver_open' \in Int /\ driver_open' <= driver_open /\ module' = module
  BY DEF ReleaseRearm, Heartbeat, Program, Enable, SetTimeout, driver, IInv, CallType
<1>2. /\ cur_margin \in Int /\ PlaceOK(f)
      /\ call[f].arg \in Int /\ call[f].back \in Places
      /\ 0 \in Int /\ {"open", "closed", "heartbeat", "program"} \subseteq Places
  BY DEF IInv, CallType, Places
<1>3. CASE ReleaseRearm(f)
  <2>1. /\ call[f].at = "rearm" /\ cur_margin' = cur_margin
        /\ Goto(f, "heartbeat", cur_margin, "closed")
    BY <1>3 DEF ReleaseRearm, At
  <2>2. Moves(f, "heartbeat", "closed")
    BY <1>2, <2>1, GotoMoves
  <2>3. GoesOn(f, "heartbeat", "closed")
    BY <1>2, <2>1, <2>2 DEF GoesOn, PlaceOK, Holds
  <2>. QED  BY <1>1, <1>2, <2>1, <2>3, WithinCall
<1>4. CASE Heartbeat(f)
  <2>1. PICK lt \in Int : Goto(f, "program", lt, call[f].back) /\ cur_margin' = lt
    BY <1>2, <1>4, WatchdogConstants DEF Heartbeat
  <2>2. call[f].at = "heartbeat"
    BY <1>4 DEF Heartbeat, At
  <2>3. Moves(f, "program", call[f].back)
    BY <1>2, <2>1, GotoMoves
  <2>4. GoesOn(f, "program", call[f].back)
    BY <1>2, <2>2, <2>3 DEF GoesOn, PlaceOK, Holds
  <2>. QED  BY <1>1, <2>1, <2>4, WithinCall
<1>5. CASE Program(f)
  <2>1. /\ call[f].at = "program" /\ cur_margin' = cur_margin
        /\ Goto(f, call[f].back, 0, call[f].back)
    BY <1>5 DEF Program, At, Return, driver
  <2>2. Moves(f, call[f].back, call[f].back)
    BY <1>2, <2>1, GotoMoves
  <2>3. GoesOn(f, call[f].back, call[f].back)
    BY <1>2, <2>1, <2>2 DEF GoesOn, PlaceOK, Holds
  <2>. QED  BY <1>1, <1>2, <2>1, <2>3, WithinCall
<1>6. CASE Enable(f) \/ \E t \in Timeouts : SetTimeout(f, t)
  <2>1. PICK t \in Int : Goto(f, "heartbeat", t, "open")
    BY <1>2, <1>6, WatchdogConstants DEF Enable, SetTimeout
  <2>2. call[f].at = "open" /\ cur_margin' = cur_margin
    BY <1>6 DEF Enable, SetTimeout, At, driver
  <2>3. Moves(f, "heartbeat", "open")
    BY <1>2, <2>1, GotoMoves
  <2>4. GoesOn(f, "heartbeat", "open")
    BY <2>2, <2>3 DEF GoesOn, Holds
  <2>. QED  BY <1>1, <1>2, <2>2, <2>4, WithinCall
<1>. QED  BY <1>3, <1>4, <1>5, <1>6

(* Steps that leave the calls and g_driver_open alone.                     *)
LEMMA QuietStep ==
  ASSUME IInv, UNCHANGED <<call, driver_open, cur_margin, module>>
  PROVE  IInv'
BY DEF IInv, CallType, PlaceOK, CountOK, Taken, Takes, OneHolder, Holds
-----------------------------------------------------------------------------
(* At load time nobody has the device open.                                *)
LEMMA InitInv == Init => IInv
<1>. SUFFICES ASSUME Init PROVE IInv
  OBVIOUS
<1>1. CallType
  <2>1. module.margin \in Int
    BY WatchdogConstants DEF Init
  <2>2. [at |-> "closed", arg |-> 0, back |-> "closed"] \in [at : Places, arg : Int, back : Places]
    BY DEF Places
  <2>3. call \in [Files -> [at : Places, arg : Int, back : Places]]
    BY <2>2 DEF Init
  <2>. QED  BY <2>1, <2>3 DEF Init, CallType
<1>2. \A f \in Files : PlaceOK(f) /\ ~Takes(f)
  BY DEF Init, PlaceOK, Takes, Holds
<1>3. Taken = {} /\ OneHolder
  BY <1>2 DEF Taken, Takes, OneHolder
<1>4. CountOK
  BY <1>3, FS_EmptySet DEF CountOK, Init
<1>. QED  BY <1>1, <1>2, <1>3, <1>4 DEF IInv

(* Every step of the driver, the threads, the timer and time.              *)
LEMMA NextInv == IInv /\ [Next]_vars => IInv'
<1>. SUFFICES ASSUME IInv, [Next]_vars PROVE IInv'
  OBVIOUS
<1>1. ASSUME NEW f \in Files, Open(f) PROVE IInv'
  BY <1>1, OpenStep
<1>2. ASSUME NEW f \in Files, OpenBackout(f) \/ Release(f) PROVE IInv'
  BY <1>2, LeaveStep
<1>3. ASSUME NEW f \in Files, ReleaseLeave(f) PROVE IInv'
  BY <1>3, ReleaseLeaveStep
<1>4. ASSUME NEW f \in Files,
             \/ ReleaseRearm(f) \/ Heartbeat(f) \/ Program(f) \/ Enable(f)
             \/ \E t \in Timeouts : SetTimeout(f, t)
      PROVE IInv'
  BY <1>4, CallStep
<1>5. ASSUME NEW f \in Files, KeepAlive(f) \/ Disable(f) PROVE IInv'
  BY <1>5, QuietStep DEF KeepAlive, Disable, driver
<1>6. ASSUME NEW d \in Threads, DogRun(d) PROVE IInv'
  BY <1>6, QuietStep DEF DogRun, driver
<1>7. ASSUME NEW x, Hang(x) PROVE IInv'
  BY <1>7, QuietStep DEF Hang, driver
<1>8. CASE HrFire \/ Tick
  BY <1>8, QuietStep DEF HrFire, Tick, driver
<1>9. CASE ExitBegin \/ ExitStop \/ ExitWait
  BY <1>9, QuietStep DEF ExitBegin, ExitStop, ExitWait, driver
<1>10. CASE UNCHANGED vars
  BY <1>10, QuietStep DEF vars, driver
<1>. QED
  BY <1>1, <1>2, <1>3, <1>4, <1>5, <1>6, <1>7, <1>8, <1>9, <1>10 DEF Next

(* The invariant: the count of g_driver_open, and one holder at most.      *)
THEOREM Invariance == Spec => []IInv
BY InitInv, NextInv, PTL DEF Spec

(* One process at a time holds the device, although a refused open and a   *)
(* release change g_driver_open before they know whether they may.         *)
THEOREM SingleHolder == Spec => []OneHolder
<1>1. IInv => OneHolder
  BY DEF IInv
<1>. QED  BY <1>1, Invariance, PTL
-----------------------------------------------------------------------------
(* Types.                                                                  *)

(* The threads run on the processors.                                      *)
LEMMA ThreadsAreCpus == Threads \subseteq Cpus /\ (0 \in Threads => ~module.nodeamon)
BY WatchdogConstants DEF Threads

(* What the margins come to, in seconds and in ticks.                      *)
LEMMA Numbers ==
  /\ MaxMargin \in Nat /\ MaxMargin >= 1 /\ MaxTicks \in Nat /\ MaxTicks = 2 * MaxMargin + 1
  /\ \A m \in Modules : MarginOf(m) \in 1 .. MaxMargin
  /\ \A t \in Int : Counter(t) \in 1 .. MaxTicks /\ (Fits(t) => Counter(t) = 2 * t)
                    /\ (~Fits(t) => Counter(t) = MaxTicks)
  /\ FeedMax \in Nat /\ FeedMax >= 1
<1>1. MaxMargin \in Nat /\ DefaultMargin \in 1 .. MaxMargin /\ FeedMax \in Nat \ {0}
  BY WatchdogConstants
<1>. QED  BY <1>1 DEF MaxTicks, MarginOf, Counter, Fits

(* However the interval of the timer overflows, it is at least one tick.   *)
LEMMA HrNumbers ==
  ASSUME module \in Modules
  PROVE  HrInterval \in Nat /\ HrInterval >= 1
<1>1. PICK n : n = module.margin * HrUnit
  OBVIOUS
<1>2. n \in Int /\ HrWrap \in Nat \ {0} /\ HrTick \in Nat \ {0}
  BY <1>1, WatchdogConstants
<1>3. PICK k : k = n % HrWrap
  OBVIOUS
<1>4. k \in Nat
  BY <1>2, <1>3
<1>5. k \div HrTick \in Nat
  BY <1>2, <1>4
<1>6. HrInterval = k \div HrTick + 1
  BY <1>1, <1>3 DEF HrInterval, IntervalOf
<1>. QED  BY <1>5, <1>6

(* Feeding clears the interrupt, and leaves the counter or reloads it.     *)
LEMMA FeedFields ==
  ASSUME NEW r \in HwRecord, NEW x \in Feed(r)
  PROVE  /\ x \in HwRecord /\ x.on = r.on /\ x.load = r.load /\ x.reset = r.reset /\ x.ris = FALSE
<1>1. CASE module.fiq \/ r.ris
  <2>1. PICK v \in {r.value, r.load} : x = [r EXCEPT !.ris = FALSE, !.value = v]
    BY <1>1 DEF Feed, IntClear
  <2>2. x = [on |-> r.on, load |-> r.load, value |-> v, ris |-> FALSE, reset |-> r.reset]
    BY <2>1 DEF HwRecord
  <2>. QED  BY <2>2 DEF HwRecord
<1>2. CASE ~(module.fiq \/ r.ris)
  BY <1>2 DEF Feed, HwRecord
<1>. QED  BY <1>1, <1>2

\* The counter set to n, before the feed that follows.
Reprogrammed(r, n, s) == s = [r EXCEPT !.load = n, !.value = n]

(* A new margin: the counter starts from it and so does every reload.      *)
LEMMA ProgramFields ==
  ASSUME NEW r \in HwRecord, NEW n \in 1 .. MaxTicks, NEW s, Reprogrammed(r, n, s)
  PROVE  s \in HwRecord /\ s.on = r.on /\ s.load = n /\ s.reset = r.reset
BY DEF HwRecord, Reprogrammed

(* Switching the card off and on.                                          *)
LEMMA SwitchFields ==
  ASSUME NEW r \in HwRecord, NEW x, x = Stopped(r) \/ x = [r EXCEPT !.on = TRUE, !.ris = FALSE]
  PROVE  /\ x \in HwRecord /\ x.reset = r.reset /\ x.ris = FALSE
         /\ x = Stopped(r) => x.on = FALSE /\ x.load = MaxTicks
         /\ x # Stopped(r) => x.load = r.load
<1>1. CASE x = Stopped(r)
  <2>1. x = [on |-> FALSE, load |-> MaxTicks, value |-> MaxTicks, ris |-> FALSE, reset |-> r.reset]
    BY <1>1 DEF Stopped, HwRecord
  <2>2. x \in HwRecord
    BY <2>1, Numbers DEF HwRecord
  <2>. QED  BY <1>1, <2>1, <2>2
<1>2. CASE x # Stopped(r)
  <2>1. x = [on |-> TRUE, load |-> r.load, value |-> r.value, ris |-> FALSE, reset |-> r.reset]
    BY <1>2 DEF HwRecord
  <2>2. x \in HwRecord
    BY <2>1 DEF HwRecord
  <2>. QED  BY <1>2, <2>1, <2>2
<1>. QED  BY <1>1, <1>2

(* One count: the interrupt at the first zero, the reset at the second.    *)
LEMMA CountFields ==
  ASSUME NEW r \in HwRecord, NEW x, x = Count(r)
  PROVE  /\ x \in HwRecord /\ x.on = r.on /\ x.load = r.load
         /\ ~r.on => x = r
         /\ r.on /\ r.value > 1 => x.value = r.value - 1 /\ x.ris = r.ris /\ x.reset = r.reset
         /\ r.on /\ ~(r.value > 1) => x.value = r.load /\ x.ris = TRUE /\ x.reset = r.ris
<1>1. CASE ~r.on
  BY <1>1 DEF Count
<1>2. CASE r.on /\ r.value > 1
  <2>1. x = [on |-> r.on, load |-> r.load, value |-> r.value - 1, ris |-> r.ris, reset |-> r.reset]
    BY <1>2 DEF Count, HwRecord
  <2>2. x \in HwRecord
    BY <1>2, <2>1, Numbers DEF HwRecord
  <2>. QED  BY <1>2, <2>1, <2>2
<1>3. CASE r.on /\ ~(r.value > 1)
  <2>1. x = [on |-> r.on, load |-> r.load, value |-> r.load, ris |-> TRUE, reset |-> r.ris]
    BY <1>3 DEF Count, HwRecord
  <2>2. x \in HwRecord
    BY <2>1 DEF HwRecord
  <2>3. x.on = r.on /\ x.load = r.load /\ x.value = r.load /\ x.ris = TRUE /\ x.reset = r.ris
    BY <2>1
  <2>. QED  BY <1>3, <2>2, <2>3, Zenon
<1>. QED  BY <1>1, <1>2, <1>3

\* The types that a call of a process leaves alone, under one set of threads.
RunType ==
  /\ dogs \in [Threads -> Gone .. Sleep]
  /\ status \in SUBSET Cpus /\ feed_count \in 0 .. FeedMax /\ hr \in Gone .. HrInterval
  /\ stuck \in SUBSET (Threads \union Files)
  /\ unload \in [at : {"loaded", "stop", "wait", "unloaded"}, dog : Nat]

(* Nobody changes the parameters of the module; the threads are theirs.    *)
LEMMA ModuleStays ==
  ASSUME [Next]_vars
  PROVE  /\ module' = module /\ Threads' = Threads /\ Sleep' = Sleep /\ Margin' = Margin
         /\ HrInterval' = HrInterval
<1>1. module' = module
  BY DEF Next, vars, driver, Open, OpenBackout, Release, ReleaseLeave, ReleaseRearm, KeepAlive,
         SetTimeout, Heartbeat, Program, Enable, Disable, DogRun, HrFire, Tick, Hang,
         ExitBegin, ExitStop, ExitWait
<1>. QED  BY <1>1 DEF Threads, Sleep, Margin, HrInterval

(* The steps of the processes inside their calls.                          *)
LEMMA CallTypes ==
  ASSUME TypeOK, NEW f \in Files,
         \/ Open(f) \/ OpenBackout(f) \/ Release(f) \/ ReleaseLeave(f) \/ ReleaseRearm(f)
         \/ KeepAlive(f) \/ Heartbeat(f) \/ Program(f) \/ Enable(f) \/ Disable(f)
         \/ \E t \in Timeouts : SetTimeout(f, t)
  PROVE  /\ hw' \in HwRecord /\ hw'.reset = hw.reset /\ (hw' = hw \/ hw'.ris = FALSE)
         /\ enabled' \in BOOLEAN /\ dog_state' \in {"SELFCLR", "EXIT"}
         /\ UNCHANGED <<fiq, dogs, stuck, unload>>
<1>0. hw \in HwRecord /\ enabled \in BOOLEAN /\ dog_state \in {"SELFCLR", "EXIT"} /\ call[f].arg \in Int
  BY DEF TypeOK
<1>1. UNCHANGED <<fiq, dogs, stuck, unload>>
  BY DEF Open, OpenBackout, Release, ReleaseLeave, ReleaseRearm, KeepAlive, SetTimeout,
         Heartbeat, Program, Enable, Disable
<1>2. enabled' \in BOOLEAN /\ dog_state' \in {"SELFCLR", "EXIT"}
  BY <1>0 DEF driver, Open, OpenBackout, Release, ReleaseLeave, ReleaseRearm, KeepAlive, SetTimeout,
              Heartbeat, Program, Enable, Disable
<1>3. \/ hw' = hw \/ hw' \in Feed(hw)
      \/ hw' = Stopped(hw) \/ hw' = [hw EXCEPT !.on = TRUE, !.ris = FALSE]
      \/ Program(f)
  BY DEF driver, Open, OpenBackout, Release, ReleaseLeave, ReleaseRearm, KeepAlive, SetTimeout,
         Heartbeat, Enable, Disable
<1>4. CASE hw' \in Feed(hw)
  BY <1>0, <1>1, <1>2, <1>4, FeedFields
<1>5. CASE hw' = Stopped(hw) \/ hw' = [hw EXCEPT !.on = TRUE, !.ris = FALSE]
  BY <1>0, <1>1, <1>2, <1>5, SwitchFields
<1>6. CASE Program(f)
  <2>0. PICK n \in 1 .. MaxTicks : \E r : Reprogrammed(hw, n, r) /\ hw' \in Feed(r)
    BY <1>0, <1>6, Numbers DEF Program, Reprogrammed
  <2>1. PICK r : Reprogrammed(hw, n, r) /\ hw' \in Feed(r)
    BY <2>0
  <2>2. hw' \in HwRecord /\ hw'.ris = FALSE /\ hw'.reset = hw.reset
    <3>1. r \in HwRecord /\ r.reset = hw.reset
      BY <1>0, <2>1, ProgramFields
    <3>. QED  BY <2>1, <3>1, FeedFields
  <2>. QED  BY <1>1, <1>2, <2>2
<1>. QED  BY <1>0, <1>1, <1>2, <1>3, <1>4, <1>5, <1>6

(* The steps of the threads and the timer.                                 *)
LEMMA RunTypes ==
  ASSUME TypeOK, \/ \E d \in Threads : DogRun(d)
                 \/ HrFire
  PROVE  hw' \in HwRecord /\ UNCHANGED <<enabled, dog_state>> /\ RunType'
<1>0. /\ hw \in HwRecord /\ dogs \in [Threads -> Gone .. Sleep] /\ status \in SUBSET Cpus
      /\ feed_count \in 0 .. FeedMax /\ stuck \in SUBSET (Threads \union Files)
      /\ unload \in [at : {"loaded", "stop", "wait", "unloaded"}, dog : Nat]
      /\ hr \in Gone .. HrInterval
      /\ module \in Modules
  BY DEF TypeOK
<1>1. MarginOf(module) \in 1 .. MaxMargin /\ MaxMargin \in Nat
  BY <1>0, Numbers
<1>2. Sleep \in Nat /\ Gone = -1 /\ HrInterval \in Nat /\ HrInterval >= 1
  BY <1>0, <1>1, HrNumbers DEF Sleep, Margin, Gone
<1>3. module' = module
  BY DEF DogRun, HrFire, driver
<1>4. Threads' = Threads /\ Sleep' = Sleep /\ HrInterval' = HrInterval
  BY <1>3 DEF Threads, Sleep, Margin, HrInterval
<1>5. ASSUME NEW d \in Threads, DogRun(d)
      PROVE  hw' \in HwRecord /\ UNCHANGED <<enabled, dog_state>> /\ RunType'
  <2>1. d \in Cpus /\ UNCHANGED <<enabled, dog_state, hr, stuck, unload>>
    BY <1>5, ThreadsAreCpus DEF DogRun, driver
  <2>2. dogs' \in [Threads -> Gone .. Sleep]
    BY <1>0, <1>2, <1>5 DEF DogRun
  <2>3. hw' = hw \/ hw' \in Feed(hw)
    BY <1>5 DEF DogRun
  <2>4. status' \in SUBSET Cpus /\ feed_count' \in 0 .. FeedMax
    BY <1>0, <1>5, <2>1, Numbers DEF DogRun, Report
  <2>. QED  BY <1>0, <1>4, <2>1, <2>2, <2>3, <2>4, FeedFields DEF RunType
<1>6. ASSUME HrFire
      PROVE  hw' \in HwRecord /\ UNCHANGED <<enabled, dog_state>> /\ RunType'
  <2>1. UNCHANGED <<enabled, dog_state, dogs, status, stuck, unload>>
    BY <1>6 DEF HrFire, driver
  <2>2. hw' = hw \/ hw' \in Feed(hw)
    BY <1>6 DEF HrFire
  <2>3. feed_count' \in 0 .. FeedMax /\ hr' \in Gone .. HrInterval
    BY <1>0, <1>2, <1>6, Numbers DEF HrFire
  <2>. QED  BY <1>0, <1>4, <2>1, <2>2, <2>3, FeedFields DEF RunType
<1>. QED  BY <1>5, <1>6

(* The steps of time, of what hangs and of the unloading.                  *)
LEMMA OtherTypes ==
  ASSUME TypeOK, \/ \E x \in Threads \union Files : Hang(x)
                 \/ Tick \/ ExitBegin \/ ExitStop \/ ExitWait
  PROVE  hw' \in HwRecord /\ enabled' \in BOOLEAN /\ dog_state' \in {"SELFCLR", "EXIT"} /\ RunType'
<1>0. /\ hw \in HwRecord /\ dogs \in [Threads -> Gone .. Sleep] /\ status \in SUBSET Cpus
      /\ feed_count \in 0 .. FeedMax /\ stuck \in SUBSET (Threads \union Files)
      /\ unload \in [at : {"loaded", "stop", "wait", "unloaded"}, dog : Nat]
      /\ hr \in Gone .. HrInterval /\ enabled \in BOOLEAN /\ dog_state \in {"SELFCLR", "EXIT"}
      /\ module \in Modules
  BY DEF TypeOK
<1>1. MarginOf(module) \in 1 .. MaxMargin /\ MaxMargin \in Nat
  BY <1>0, Numbers
<1>2. Sleep \in Nat /\ Gone = -1 /\ HrInterval \in Nat /\ HrInterval >= 1
  BY <1>0, <1>1, HrNumbers DEF Sleep, Margin, Gone
<1>3. module' = module
  BY DEF Hang, Tick, ExitBegin, ExitStop, ExitWait, driver
<1>4. Threads' = Threads /\ Sleep' = Sleep /\ HrInterval' = HrInterval
  BY <1>3 DEF Threads, Sleep, Margin, HrInterval
<1>5. CASE \E x \in Threads \union Files : Hang(x)
  BY <1>0, <1>4, <1>5 DEF Hang, driver, fiq, RunType
<1>6. CASE Tick
  <2>1. UNCHANGED <<enabled, dog_state, status, feed_count, stuck, unload>> /\ hw' = Count(hw)
    BY <1>6 DEF Tick, driver
  <2>2. hr' \in Gone .. HrInterval
    BY <1>0, <1>2, <1>6, Numbers DEF Tick
  <2>3. dogs' \in [Threads -> Gone .. Sleep]
    <3>1. ASSUME NEW d \in Threads
          PROVE  (IF d \in stuck \/ dogs[d] = Gone THEN dogs[d] ELSE dogs[d] - 1) \in Gone .. Sleep
      <4>1. d \notin stuck => dogs[d] # 0
        BY <1>6 DEF Tick
      <4>. QED  BY <1>0, <1>2, <4>1
    <3>. QED  BY <1>6, <3>1 DEF Tick
  <2>. QED  BY <1>0, <1>4, <2>1, <2>2, <2>3, CountFields DEF RunType
<1>7. CASE ExitBegin
  <2>1. /\ hw' = Stopped(hw) /\ enabled' = FALSE /\ dog_state' = "EXIT" /\ hr' \in {hr, Gone}
        /\ unload' = [at |-> "stop", dog |-> 0] /\ UNCHANGED <<status, feed_count, dogs, stuck>>
    BY <1>7 DEF ExitBegin
  <2>2. hr' \in Gone .. HrInterval
    BY <1>0, <1>2, <2>1
  <2>. QED  BY <1>0, <1>4, <2>1, <2>2, SwitchFields DEF RunType
<1>8. CASE ExitStop \/ ExitWait
  <2>1. UNCHANGED <<hw, enabled, dog_state, hr, status, feed_count, dogs, stuck>>
    BY <1>8 DEF ExitStop, ExitWait, driver, fiq
  <2>2. unload' \in [at : {"loaded", "stop", "wait", "unloaded"}, dog : Nat]
    BY <1>0, <1>8 DEF ExitStop, ExitWait
  <2>. QED  BY <1>0, <1>4, <2>1, <2>2 DEF RunType
<1>. QED  BY <1>5, <1>6, <1>7, <1>8

(* Every step keeps the types.                                             *)
LEMMA TypeStep ==
  ASSUME TypeOK, CallType', [Next]_vars
  PROVE  TypeOK'
<1>1. ASSUME hw' \in HwRecord, enabled' \in BOOLEAN, dog_state' \in {"SELFCLR", "EXIT"}, RunType'
      PROVE  TypeOK'
  BY <1>1 DEF TypeOK, CallType, RunType
<1>2. RunType /\ Threads' = Threads /\ Sleep' = Sleep /\ HrInterval' = HrInterval
  BY ModuleStays DEF TypeOK, RunType
<1>3. ASSUME NEW f \in Files,
             \/ Open(f) \/ OpenBackout(f) \/ Release(f) \/ ReleaseLeave(f) \/ ReleaseRearm(f)
             \/ KeepAlive(f) \/ Heartbeat(f) \/ Program(f) \/ Enable(f) \/ Disable(f)
             \/ \E t \in Timeouts : SetTimeout(f, t)
      PROVE  TypeOK'
  <2>1. /\ hw' \in HwRecord /\ enabled' \in BOOLEAN /\ dog_state' \in {"SELFCLR", "EXIT"}
        /\ UNCHANGED <<fiq, dogs, stuck, unload>>
    BY <1>3, CallTypes
  <2>2. RunType'
    BY <1>2, <2>1 DEF RunType, fiq
  <2>. QED  BY <1>1, <2>1, <2>2
<1>4. CASE (\E d \in Threads : DogRun(d)) \/ HrFire
  <2>1. hw' \in HwRecord /\ UNCHANGED <<enabled, dog_state>> /\ RunType'
    BY <1>4, RunTypes
  <2>2. enabled' \in BOOLEAN /\ dog_state' \in {"SELFCLR", "EXIT"}
    BY <2>1 DEF TypeOK
  <2>. QED  BY <1>1, <2>1, <2>2
<1>5. CASE \/ \E x \in Threads \union Files : Hang(x)
           \/ Tick \/ ExitBegin \/ ExitStop \/ ExitWait
  BY <1>1, <1>5, OtherTypes
<1>6. CASE UNCHANGED vars
  <2>1. UNCHANGED <<hw, enabled, dog_state, fiq, dogs, stuck, unload>>
    BY <1>6 DEF vars, driver
  <2>2. RunType'
    BY <1>2, <2>1 DEF RunType, fiq
  <2>3. hw' \in HwRecord /\ enabled' \in BOOLEAN /\ dog_state' \in {"SELFCLR", "EXIT"}
    BY <2>1 DEF TypeOK
  <2>. QED  BY <1>1, <2>2, <2>3
<1>. QED  BY <1>3, <1>4, <1>5, <1>6 DEF Next

(* The types at load time.                                                 *)
LEMMA InitTypes ==
  ASSUME Init
  PROVE  TypeOK
<1>1. CallType
  BY InitInv DEF IInv
<1>2. MarginOf(module) \in 1 .. MaxMargin /\ MaxMargin \in Nat
  BY <1>1, Numbers DEF CallType
<1>3. Sleep \in Nat /\ Gone = -1 /\ HrInterval \in Nat /\ HrInterval >= 1
  BY <1>1, <1>2, HrNumbers DEF Sleep, Margin, Gone, CallType
<1>4. Counter(Margin) \in 1 .. MaxTicks
  BY <1>2, Numbers DEF Margin
<1>5. hw \in HwRecord
  BY <1>4 DEF Init, HwRecord
<1>6. RunType
  BY <1>3, Numbers DEF Init, RunType, Loaded
<1>. QED  BY <1>1, <1>5, <1>6 DEF Init, TypeOK, CallType, RunType

(* Every variable keeps its type: a margin never gives a counter of 0 or   *)
(* one that does not fit, no sleep and no count leaves its range.          *)
THEOREM TypeCorrect == Spec => []TypeOK
<1>1. Init => TypeOK
  BY InitTypes
<1>2. IInv' => CallType'
  BY DEF IInv
<1>3. TypeOK /\ IInv' /\ [Next]_vars => TypeOK'
  BY <1>2, TypeStep
<1>. QED  BY <1>1, <1>3, Invariance, PTL DEF Spec
-----------------------------------------------------------------------------
(* The daemon feeds in time.                                               *)

\* Every margin that is or will be programmed is long enough for the daemon.
MarginsOK ==
  /\ Covers(module, cur_margin)
  /\ \A f \in Files : call[f].at \in {"heartbeat", "program"} => Covers(module, call[f].arg)

\* Only an enabled card counts, only one that counts has raised its interrupt,
\* and every reload leaves the daemon time for one more sleep.
SwitchOK ==
  /\ hw.ris => hw.on
  /\ hw.on => enabled
  /\ unload # Loaded => ~hw.on
  /\ hw.load >= FeedTime(module)

\* Until the module is unloaded, its threads and its timer run.
RunsOK ==
  unload = Loaded => /\ dog_state # "EXIT"
                     /\ \A d \in Threads : dogs[d] # Gone
                     /\ module.fiq => hr # Gone

\* Between the interrupt and the reset there is time for the next feed: the
\* next expiry of the timer, or, when g_feed_max is used up, the reports of
\* the processors that are missing and then an expiry.
InTime ==
  IF module.fiq
  THEN /\ status # Cpus
       /\ hw.ris => /\ feed_count < FeedMax => hw.value > hr
                    /\ \A d \in Cpus \ status :
                         ~(feed_count < FeedMax) => hw.value > dogs[d] + HrInterval
  ELSE hw.ris => hw.value > dogs[0]

FeedInv ==
  ~module.nodeamon =>
    /\ MarginsOK /\ SwitchOK /\ RunsOK
    /\ stuck \intersect Threads = {} => InTime /\ ~hw.reset

(* The largest margin, the largest counter and a sleep of the daemon.      *)
LEMMA FeedTimes ==
  ASSUME TimeoutsCover, TypeOK, ~module.nodeamon
  PROVE  /\ FeedTime(module) \in Nat /\ FeedTime(module) <= MaxTicks
         /\ Covers(module, MaxMargin)
         /\ \A t \in Timeouts \union {MarginOf(module)} : Covers(module, t)
         /\ Sleep \in Nat /\ Sleep >= 1 /\ FeedTime(module) >= Sleep
         /\ module.fiq => FeedTime(module) = Sleep + HrInterval
         /\ \A t \in Int : Covers(module, t) => Counter(t) >= FeedTime(module)
<1>1. module \in Modules /\ MarginOf(module) \in 1 .. MaxMargin
  BY Numbers DEF TypeOK
<1>2. \A t \in Timeouts \union {MarginOf(module)} : Covers(module, t)
  BY <1>1 DEF TimeoutsCover
<1>3. 2 * MarginOf(module) >= FeedTime(module)
  BY <1>1, <1>2 DEF Covers, Fits
<1>4. /\ FeedTime(module) = Sleep + (IF module.fiq THEN HrInterval ELSE 0)
      /\ Sleep = MarginOf(module) + 1 /\ HrInterval \in Nat
  BY <1>1, HrNumbers, Numbers DEF FeedTime, Sleep, Margin, HrInterval
<1>5. FeedTime(module) \in Nat /\ Sleep \in Nat /\ Sleep >= 1 /\ FeedTime(module) >= Sleep
  BY <1>1, <1>4, Numbers
<1>6. 2 * MaxMargin >= FeedTime(module) /\ FeedTime(module) <= MaxTicks
  BY <1>1, <1>3, <1>5, Numbers
<1>7. \A t \in Int : Covers(module, t) => Counter(t) >= FeedTime(module)
  BY <1>5, <1>6, Numbers DEF Covers
<1>. QED  BY <1>2, <1>4, <1>5, <1>6, <1>7, Numbers DEF Covers

(* The margins that calls hand on stay long enough: those that do not fit  *)
(* become the largest or leave the old one.                                *)
LEMMA MarginsStep ==
  ASSUME TimeoutsCover, TypeOK, IInv, ~module.nodeamon, MarginsOK, [Next]_vars
  PROVE  MarginsOK'
<1>0. module' = module /\ cur_margin \in Int /\ call \in [Files -> [at : Places, arg : Int, back : Places]]
  BY ModuleStays DEF TypeOK
<1>1. ASSUME NEW f \in Files, NEW a, NEW x, NEW b, Goto(f, a, x, b),
             a \in {"heartbeat", "program"} => Covers(module, x), Covers(module, cur_margin')
      PROVE  MarginsOK'
  BY <1>0, <1>1 DEF Goto, MarginsOK, Covers, FeedTime, MarginOf
<1>2. ASSUME UNCHANGED <<call, cur_margin>> PROVE MarginsOK'
  BY <1>0, <1>2 DEF MarginsOK, Covers, FeedTime, MarginOf
<1>3. ASSUME NEW f \in Files,
             Open(f) \/ OpenBackout(f) \/ Release(f) \/ ReleaseLeave(f)
      PROVE  MarginsOK'
  <2>1. PICK a \in {"open", "backout", "closed", "rearm", "leave"} : Return(f, a)
    BY <1>3 DEF Open, OpenBackout, Release, ReleaseLeave
  <2>2. cur_margin' = cur_margin
    BY <1>3 DEF Open, OpenBackout, Release, ReleaseLeave
  <2>. QED  BY <1>1, <2>1, <2>2 DEF Return, MarginsOK
<1>4. ASSUME NEW f \in Files, ReleaseRearm(f) \/ Enable(f) PROVE MarginsOK'
  <2>1. PICK b : Goto(f, "heartbeat", cur_margin, b) /\ cur_margin' = cur_margin
    BY <1>4 DEF ReleaseRearm, Enable
  <2>. QED  BY <1>1, <2>1 DEF MarginsOK
<1>5. ASSUME NEW f \in Files, NEW t \in Timeouts, SetTimeout(f, t) PROVE MarginsOK'
  <2>1. Goto(f, "heartbeat", t, "open") /\ cur_margin' = cur_margin
    BY <1>5 DEF SetTimeout, driver
  <2>2. Covers(module, t)
    BY FeedTimes
  <2>. QED  BY <1>1, <2>1, <2>2 DEF MarginsOK
<1>6. ASSUME NEW f \in Files, Heartbeat(f) PROVE MarginsOK'
  <2>. DEFINE t == call[f].arg
  <2>1. PICK lt \in {cur_margin, MaxMargin, t} :
          Goto(f, "program", lt, call[f].back) /\ cur_margin' = lt /\ call[f].at = "heartbeat"
    BY <1>6 DEF Heartbeat, At
  <2>2. Covers(module, lt)
    BY <2>1, FeedTimes DEF MarginsOK
  <2>. QED  BY <1>1, <2>1, <2>2
<1>7. ASSUME NEW f \in Files, Program(f) PROVE MarginsOK'
  <2>1. Goto(f, call[f].back, 0, call[f].back) /\ cur_margin' = cur_margin /\ call[f].at = "program"
    BY <1>7 DEF Program, Return, At, driver
  <2>2. call[f].back \notin {"heartbeat", "program"}
    BY <2>1 DEF IInv, PlaceOK
  <2>. QED  BY <1>1, <2>1, <2>2 DEF MarginsOK
<1>8. ASSUME NEW f \in Files, KeepAlive(f) \/ Disable(f) PROVE MarginsOK'
  BY <1>2, <1>8 DEF KeepAlive, Disable, driver
<1>9. CASE \/ \E d \in Threads : DogRun(d)
           \/ \E x \in Threads \union Files : Hang(x)
           \/ HrFire \/ Tick \/ ExitBegin \/ ExitStop \/ ExitWait \/ UNCHANGED vars
  BY <1>2, <1>9 DEF DogRun, Hang, HrFire, Tick, ExitBegin, ExitStop, ExitWait, driver, vars
<1>. QED  BY <1>3, <1>4, <1>5, <1>6, <1>7, <1>8, <1>9 DEF Next

(* SwitchOK from the fields of the hardware and from what else it reads.   *)
LEMMA SwitchFrom ==
  ASSUME module' = module,
         hw'.ris => hw'.on, hw'.on => enabled', unload' # Loaded => ~hw'.on,
         hw'.load >= FeedTime(module)
  PROVE  SwitchOK'
BY DEF SwitchOK, FeedTime, MarginOf

\* What a call of a process keeps.
CallKeeps ==
  /\ SwitchOK' /\ unload = Loaded
  /\ hw' = hw \/ hw'.ris = FALSE
  /\ hw'.reset = hw.reset /\ dog_state' \in {dog_state, "SELFCLR"}

(* The calls of the processes: what they feed, program and switch.         *)
LEMMA CallSwitch ==
  ASSUME TimeoutsCover, TypeOK, IInv, ~module.nodeamon, MarginsOK, SwitchOK, NEW f \in Files,
         \/ Open(f) \/ OpenBackout(f) \/ Release(f) \/ ReleaseLeave(f) \/ ReleaseRearm(f)
         \/ KeepAlive(f) \/ Heartbeat(f) \/ Program(f) \/ Enable(f) \/ Disable(f)
         \/ \E t \in Timeouts : SetTimeout(f, t)
  PROVE  CallKeeps
<1>0. /\ hw \in HwRecord /\ unload = Loaded /\ hw.load >= FeedTime(module)
      /\ (hw.ris => hw.on) /\ (hw.on => enabled) /\ dog_state \in {"SELFCLR", "EXIT"}
  BY DEF TypeOK, SwitchOK, Open, OpenBackout, Release, ReleaseLeave, ReleaseRearm, KeepAlive,
         Heartbeat, Program, Enable, Disable, SetTimeout, At
<1>1. module' = module /\ unload' = Loaded
  <2>1. unload' = unload
    BY DEF Open, OpenBackout, Release, ReleaseLeave, ReleaseRearm, KeepAlive,
           Heartbeat, Program, Enable, Disable, SetTimeout
  <2>. QED  BY <1>0, <2>1, ModuleStays DEF Next
<1>2. CASE \/ Open(f) \/ OpenBackout(f) \/ Release(f) \/ ReleaseLeave(f) \/ ReleaseRearm(f)
           \/ KeepAlive(f) \/ Heartbeat(f) \/ \E t \in Timeouts : SetTimeout(f, t)
  <2>1. (hw' = hw \/ hw' \in Feed(hw)) /\ enabled' = enabled /\ dog_state' \in {dog_state, "SELFCLR"}
    BY <1>2 DEF Open, OpenBackout, Release, ReleaseLeave, ReleaseRearm, KeepAlive,
                Heartbeat, SetTimeout, driver
  <2>2. hw' # hw => /\ hw'.on = hw.on /\ hw'.load = hw.load /\ hw'.reset = hw.reset /\ hw'.ris = FALSE
    BY <1>0, <2>1, FeedFields
  <2>3. (hw'.ris => hw'.on) /\ (hw'.on => enabled') /\ hw'.load >= FeedTime(module)
    BY <1>0, <2>1, <2>2
  <2>4. SwitchOK'
    BY <1>1, <2>3, SwitchFrom
  <2>. QED  BY <1>0, <2>1, <2>2, <2>4 DEF CallKeeps
<1>3. CASE Program(f)
  <2>. DEFINE n == Counter(call[f].arg)
              r == [hw EXCEPT !.load = n, !.value = n]
  <2>1. hw' \in Feed(r) /\ enabled' = enabled /\ dog_state' = dog_state
    BY <1>3 DEF Program, driver
  <2>2. call[f].arg \in Int /\ Covers(module, call[f].arg)
    BY <1>3 DEF TypeOK, Program, At, MarginsOK
  <2>3. n \in 1 .. MaxTicks /\ n >= FeedTime(module)
    BY <2>2, Numbers, FeedTimes
  <2>4. r \in HwRecord /\ r.on = hw.on /\ r.load = n /\ r.reset = hw.reset
    <3>. HIDE DEF n
    <3>1. Reprogrammed(hw, n, r)
      BY DEF Reprogrammed
    <3>. QED  BY ONLY <1>0, <2>3, <3>1, ProgramFields
  <2>5. hw'.on = hw.on /\ hw'.load = n /\ hw'.reset = hw.reset /\ hw'.ris = FALSE
    <3>. HIDE DEF r
    <3>. QED  BY <2>1, <2>4, FeedFields
  <2>6. (hw'.ris => hw'.on) /\ (hw'.on => enabled') /\ hw'.load >= FeedTime(module)
    <3>. HIDE DEF n, r
    <3>. QED  BY <1>0, <2>1, <2>3, <2>5
  <2>7. SwitchOK'
    BY <1>1, <2>6, SwitchFrom
  <2>. QED  BY <1>0, <2>1, <2>5, <2>7 DEF CallKeeps
<1>4. CASE Enable(f)
  <2>1. hw' = [hw EXCEPT !.on = TRUE, !.ris = FALSE] /\ enabled' = TRUE /\ dog_state' = dog_state
    BY <1>4 DEF Enable
  <2>2. hw'.ris = FALSE /\ hw'.load = hw.load /\ hw'.reset = hw.reset
    <3>1. hw' = [on |-> TRUE, load |-> hw.load, value |-> hw.value, ris |-> FALSE, reset |-> hw.reset]
      BY <1>0, <2>1 DEF HwRecord
    <3>. QED  BY <3>1
  <2>. QED  BY <1>0, <1>1, <2>1, <2>2, SwitchFrom DEF CallKeeps
<1>5. CASE Disable(f)
  <2>1. hw' = Stopped(hw) /\ dog_state' = dog_state
    BY <1>5 DEF Disable
  <2>2. hw'.ris = FALSE /\ hw'.on = FALSE /\ hw'.load = MaxTicks /\ hw'.reset = hw.reset
    BY <1>0, <2>1, SwitchFields
  <2>3. hw'.load >= FeedTime(module)
    BY <2>2, FeedTimes
  <2>. QED  BY <1>0, <1>1, <2>1, <2>2, <2>3, SwitchFrom DEF CallKeeps
<1>. QED  BY <1>2, <1>3, <1>4, <1>5

(* A call leaves the time that is left as it is, or clears the interrupt.  *)
LEMMA CallFeeds ==
  ASSUME TimeoutsCover, TypeOK, IInv, ~module.nodeamon, FeedInv, NEW f \in Files,
         \/ Open(f) \/ OpenBackout(f) \/ Release(f) \/ ReleaseLeave(f) \/ ReleaseRearm(f)
         \/ KeepAlive(f) \/ Heartbeat(f) \/ Program(f) \/ Enable(f) \/ Disable(f)
         \/ \E t \in Timeouts : SetTimeout(f, t)
  PROVE  FeedInv'
<1>1. MarginsOK /\ SwitchOK /\ RunsOK /\ (stuck \intersect Threads = {} => InTime /\ ~hw.reset)
  BY DEF FeedInv
<1>2. [Next]_vars
  BY DEF Next
<1>3. MarginsOK'
  BY <1>1, <1>2, MarginsStep
<1>4. CallKeeps
  BY <1>1, CallSwitch
<1>5. UNCHANGED <<fiq, dogs, stuck, unload>>
  BY CallTypes
<1>6. module' = module /\ Threads' = Threads /\ HrInterval' = HrInterval
  BY <1>2, ModuleStays
<1>7. RunsOK'
  BY <1>1, <1>4, <1>5, <1>6 DEF RunsOK, CallKeeps, fiq
<1>8. InTime => InTime'
  BY <1>4, <1>5, <1>6 DEF InTime, CallKeeps, fiq
<1>. QED  BY <1>1, <1>3, <1>4, <1>5, <1>6, <1>7, <1>8 DEF FeedInv, CallKeeps

(* A thread feeds, or reports that its processor is alive.                 *)
LEMMA DogFeeds ==
  ASSUME TimeoutsCover, TypeOK, IInv, ~module.nodeamon, FeedInv, NEW d \in Threads, DogRun(d)
  PROVE  FeedInv'
<1>0. /\ hw \in HwRecord /\ dogs \in [Threads -> Gone .. Sleep] /\ status \in SUBSET Cpus
      /\ feed_count \in 0 .. FeedMax /\ hr \in Gone .. HrInterval
  BY DEF TypeOK
<1>1. MarginsOK /\ SwitchOK /\ RunsOK /\ (stuck \intersect Threads = {} => InTime /\ ~hw.reset)
  BY DEF FeedInv
<1>2. [Next]_vars
  BY DEF Next
<1>3. module' = module /\ Threads' = Threads /\ Sleep' = Sleep /\ HrInterval' = HrInterval
  BY <1>2, ModuleStays
<1>4. MarginsOK'
  BY <1>1, <1>2, MarginsStep
<1>5. UNCHANGED <<enabled, dog_state, hr, stuck, unload>> /\ dogs[d] \in {0, 1} /\ d \in Cpus
  BY ThreadsAreCpus DEF DogRun, driver
<1>6. hw' = hw \/ hw' \in Feed(hw)
  BY DEF DogRun
<1>7. hw' # hw => /\ hw'.on = hw.on /\ hw'.load = hw.load /\ hw'.reset = hw.reset /\ hw'.ris = FALSE
  BY <1>0, <1>6, FeedFields
<1>8. SwitchOK'
  BY <1>1, <1>3, <1>5, <1>7, SwitchFrom DEF SwitchOK
<1>9. Sleep \in Nat /\ Sleep >= 1 /\ Gone = -1 /\ HrInterval \in Nat /\ HrInterval >= 1
      /\ FeedMax \in Nat /\ FeedMax >= 1
  BY FeedTimes, HrNumbers, Numbers DEF Gone, TypeOK
<1>10. RunsOK'
  BY <1>0, <1>1, <1>3, <1>5, <1>9 DEF RunsOK, DogRun
<1>11. ASSUME InTime PROVE InTime'
  <2>1. CASE dog_state = "EXIT" \/ ~enabled
    <3>1. ~hw.ris /\ hw' = hw /\ UNCHANGED <<status, module>>
      <4>1. dog_state = "EXIT" => unload # Loaded
        BY <1>1 DEF RunsOK
      <4>2. ~hw.on
        BY <1>1, <2>1, <4>1 DEF SwitchOK
      <4>. QED  BY <1>1, <1>3, <2>1, <4>2 DEF SwitchOK, DogRun
    <3>. QED  BY <1>11, <3>1 DEF InTime
  <2>2. CASE dog_state # "EXIT" /\ enabled /\ ~module.fiq
    <3>1. hw' \in Feed(hw)
      BY <2>2 DEF DogRun
    <3>2. hw'.ris = FALSE
      BY <1>0, <3>1, FeedFields
    <3>. QED  BY <1>3, <2>2, <3>2 DEF InTime
  <2>3. CASE dog_state # "EXIT" /\ enabled /\ module.fiq
    <3>1. Report(d) /\ hw' = hw /\ dogs' = [dogs EXCEPT ![d] = Sleep]
      BY <2>3 DEF DogRun
    <3>2. Threads = Cpus /\ 0 \in Cpus
      BY <2>3, WatchdogConstants DEF Threads
    <3>3. CASE status \union {d} = Cpus
      <4>1. status' = {} /\ feed_count' = 0
        BY <3>1, <3>3 DEF Report
      <4>2. d \in Cpus \ status
        BY <1>0, <1>5, <1>11, <2>3, <3>3 DEF InTime
      <4>3. hw.ris => hw.value > hr
        <5>1. hw.value \in Int /\ hr \in Int /\ hr <= HrInterval
          BY <1>0, <1>9, Numbers DEF HwRecord
        <5>. QED  BY <1>5, <1>9, <1>11, <2>3, <4>2, <5>1 DEF InTime
      <4>. QED  BY <1>3, <1>5, <1>9, <2>3, <3>1, <3>2, <4>1, <4>3 DEF InTime
    <3>4. CASE status \union {d} # Cpus
      <4>1. status' = status \union {d} /\ feed_count' = feed_count
        BY <3>1, <3>4 DEF Report
      <4>2. \A e \in Cpus \ status' : e \in Cpus \ status /\ dogs'[e] = dogs[e]
        BY <1>0, <3>1, <3>2, <4>1
      <4>. QED  BY <1>3, <1>5, <1>11, <2>3, <3>1, <3>4, <4>1, <4>2 DEF InTime
    <3>. QED  BY <3>3, <3>4
  <2>. QED  BY <2>1, <2>2, <2>3
<1>. QED  BY <1>1, <1>3, <1>4, <1>5, <1>7, <1>8, <1>10, <1>11 DEF FeedInv

(* The timer feeds as long as g_feed_max allows.                           *)
LEMMA HrFeeds ==
  ASSUME TimeoutsCover, TypeOK, IInv, ~module.nodeamon, FeedInv, HrFire
  PROVE  FeedInv'
<1>0. hw \in HwRecord /\ feed_count \in 0 .. FeedMax
  BY DEF TypeOK
<1>1. MarginsOK /\ SwitchOK /\ RunsOK /\ (stuck \intersect Threads = {} => InTime /\ ~hw.reset)
  BY DEF FeedInv
<1>2. [Next]_vars
  BY DEF Next
<1>3. module' = module /\ Threads' = Threads /\ HrInterval' = HrInterval
  BY <1>2, ModuleStays
<1>4. MarginsOK'
  BY <1>1, <1>2, MarginsStep
<1>5. UNCHANGED <<enabled, dog_state, status, dogs, stuck, unload>> /\ hr' = HrInterval /\ hr = 0
  BY DEF HrFire, driver
<1>6. hw' = hw \/ hw' \in Feed(hw)
  BY DEF HrFire
<1>7. hw' # hw => /\ hw'.on = hw.on /\ hw'.load = hw.load /\ hw'.reset = hw.reset /\ hw'.ris = FALSE
  BY <1>0, <1>6, FeedFields
<1>8. SwitchOK'
  BY <1>1, <1>3, <1>5, <1>7, SwitchFrom DEF SwitchOK
<1>9. HrInterval \in Nat /\ Gone = -1
  BY HrNumbers DEF Gone, TypeOK
<1>10. RunsOK'
  BY <1>1, <1>3, <1>5, <1>9 DEF RunsOK
<1>11. ASSUME InTime PROVE InTime'
  <2>1. CASE feed_count < FeedMax
    <3>1. hw' \in Feed(hw)
      BY <2>1 DEF HrFire
    <3>2. hw'.ris = FALSE
      BY <1>0, <3>1, FeedFields
    <3>. QED  BY <1>3, <1>5, <1>11, <3>2 DEF InTime
  <2>2. CASE ~(feed_count < FeedMax)
    <3>1. UNCHANGED <<feed_count, hw>>
      BY <2>2 DEF HrFire
    <3>. QED  BY <1>3, <1>5, <1>11, <2>2, <3>1 DEF InTime
  <2>. QED  BY <2>1, <2>2
<1>. QED  BY <1>1, <1>3, <1>4, <1>5, <1>7, <1>8, <1>10, <1>11 DEF FeedInv

(* Time passes for the counter, the threads and the timer alike.           *)
LEMMA TickFeeds ==
  ASSUME TimeoutsCover, TypeOK, IInv, ~module.nodeamon, FeedInv, Tick
  PROVE  FeedInv'
<1>0. /\ hw \in HwRecord /\ dogs \in [Threads -> Gone .. Sleep]
      /\ feed_count \in 0 .. FeedMax /\ hr \in Gone .. HrInterval
  BY DEF TypeOK
<1>1. MarginsOK /\ SwitchOK /\ RunsOK /\ (stuck \intersect Threads = {} => InTime /\ ~hw.reset)
  BY DEF FeedInv
<1>2. [Next]_vars
  BY DEF Next
<1>3. module' = module /\ Threads' = Threads /\ Sleep' = Sleep /\ HrInterval' = HrInterval
  BY <1>2, ModuleStays
<1>4. MarginsOK'
  BY <1>1, <1>2, MarginsStep
<1>5. /\ UNCHANGED <<enabled, dog_state, status, feed_count, stuck, unload>> /\ hw' = Count(hw)
      /\ hr # 0 /\ hr' = (IF hr = Gone THEN Gone ELSE hr - 1) /\ ~hw.reset
      /\ \A d \in Threads : /\ dogs'[d] = (IF d \in stuck \/ dogs[d] = Gone THEN dogs[d] ELSE dogs[d] - 1)
                            /\ d \notin stuck => dogs[d] # 0
  BY DEF Tick, driver
<1>6. hw' \in HwRecord /\ hw'.on = hw.on /\ hw'.load = hw.load /\ (~hw.on => hw' = hw)
  BY <1>0, <1>5, CountFields
<1>7. hw.on /\ hw.value > 1 => hw'.value = hw.value - 1 /\ hw'.ris = hw.ris /\ hw'.reset = hw.reset
  BY <1>0, <1>5, CountFields
<1>8. hw.on /\ ~(hw.value > 1) => hw'.value = hw.load /\ hw'.ris = TRUE /\ hw'.reset = hw.ris
  BY <1>0, <1>5, CountFields
<1>9. SwitchOK'
  <2>1. hw'.ris => hw'.on
    BY <1>1, <1>6 DEF SwitchOK
  <2>. QED  BY <1>1, <1>3, <1>5, <1>6, <2>1, SwitchFrom DEF SwitchOK
<1>10. Sleep \in Nat /\ Sleep >= 1 /\ Gone = -1 /\ HrInterval \in Nat /\ HrInterval >= 1
  BY FeedTimes, HrNumbers, Numbers DEF Gone, TypeOK
<1>11. RunsOK'
  <2>1. \A d \in Threads : dogs[d] # Gone => dogs'[d] # Gone
    BY <1>0, <1>5, <1>10
  <2>2. hr # Gone => hr' # Gone
    BY <1>0, <1>5, <1>10
  <2>. QED  BY <1>1, <1>3, <1>5, <2>1, <2>2 DEF RunsOK
<1>12. ASSUME stuck \intersect Threads = {} PROVE InTime' /\ ~hw'.reset
  <2>0. InTime /\ ~hw.reset
    BY <1>1, <1>12
  <2>1. CASE ~hw.on
    <3>1. hw' = hw /\ ~hw.ris
      BY <1>1, <1>6, <2>1 DEF SwitchOK
    <3>. QED  BY <1>3, <1>5, <2>0, <3>1 DEF InTime
  <2>2. CASE hw.on
    <3>1. /\ \A d \in Threads : dogs[d] \in 1 .. Sleep /\ dogs'[d] = dogs[d] - 1
          /\ module.fiq => hr \in 1 .. HrInterval /\ hr' = hr - 1
      <4>1. unload = Loaded
        BY <1>1, <2>2 DEF SwitchOK
      <4>. QED  BY <1>0, <1>1, <1>5, <1>10, <1>12, <4>1 DEF RunsOK
    <3>2. hw.value \in Int /\ hw.load \in Int
      BY <1>0, Numbers DEF HwRecord
    <3>3. hw.load >= Sleep /\ (module.fiq => hw.load >= Sleep + HrInterval)
      BY <1>1, <1>10, <3>2, FeedTimes DEF SwitchOK
    <3>4. CASE module.fiq
      <4>1. Threads = Cpus
        BY <3>4 DEF Threads
      <4>2. CASE hw.value > 1
        <5>1. ASSUME hw'.ris, feed_count' < FeedMax PROVE hw'.value > hr'
          <6>1. hw.ris /\ feed_count < FeedMax /\ hw'.value = hw.value - 1
            BY <1>5, <1>7, <2>2, <4>2, <5>1
          <6>2. hw.value > hr
            BY <2>0, <3>4, <6>1 DEF InTime
          <6>. QED  BY <3>1, <3>2, <3>4, <6>1, <6>2
        <5>2. ASSUME NEW d \in Cpus \ status', hw'.ris, ~(feed_count' < FeedMax)
              PROVE  hw'.value > dogs'[d] + HrInterval
          <6>1. d \in Cpus \ status /\ hw.ris /\ ~(feed_count < FeedMax) /\ hw'.value = hw.value - 1
            BY <1>5, <1>7, <2>2, <4>2, <5>2
          <6>2. hw.value > dogs[d] + HrInterval
            BY <2>0, <3>4, <6>1 DEF InTime
          <6>. QED  BY <1>10, <3>1, <3>2, <4>1, <6>1, <6>2
        <5>3. status' # Cpus /\ ~hw'.reset /\ module'.fiq
          BY <1>3, <1>5, <1>7, <2>0, <2>2, <3>4, <4>2 DEF InTime
        <5>. QED  BY <1>3, <5>1, <5>2, <5>3 DEF InTime
      <4>3. CASE ~(hw.value > 1)
        <5>0. hw'.value = hw.load /\ hw'.reset = hw.ris
          BY <1>8, <2>2, <4>3
        <5>1. hw'.value > hr'
          BY <1>10, <3>1, <3>2, <3>3, <3>4, <5>0
        <5>2. \A d \in Cpus : hw'.value > dogs'[d] + HrInterval
          BY <1>10, <3>1, <3>2, <3>3, <3>4, <4>1, <5>0
        <5>3. ~hw.ris
          <6>1. ASSUME hw.ris PROVE FALSE
            <7>1. status # Cpus /\ status \in SUBSET Cpus
              BY <2>0, <3>4 DEF InTime, TypeOK
            <7>2. PICK d \in Cpus : d \notin status
              BY <7>1
            <7>3. feed_count < FeedMax => hw.value > hr
              BY <2>0, <3>4, <6>1 DEF InTime
            <7>4. ~(feed_count < FeedMax) => hw.value > dogs[d] + HrInterval
              BY <2>0, <3>4, <6>1, <7>2 DEF InTime
            <7>. QED  BY <1>10, <3>1, <3>2, <3>4, <4>1, <4>3, <7>2, <7>3, <7>4
          <6>. QED  BY <6>1
        <5>4. status' # Cpus /\ ~hw'.reset /\ module'.fiq
          BY <1>3, <1>5, <2>0, <3>4, <5>0, <5>3 DEF InTime
        <5>. QED  BY <1>3, <5>1, <5>2, <5>4 DEF InTime
      <4>. QED  BY <4>2, <4>3
    <3>5. CASE ~module.fiq
      <4>1. 0 \in Threads
        BY <3>5 DEF Threads
      <4>2. CASE hw.value > 1
        <5>1. ASSUME hw'.ris PROVE hw'.value > dogs'[0]
          <6>1. hw.ris /\ hw'.value = hw.value - 1
            BY <1>7, <2>2, <4>2, <5>1
          <6>2. hw.value > dogs[0]
            BY <2>0, <3>5, <6>1 DEF InTime
          <6>. QED  BY <1>10, <3>1, <3>2, <4>1, <6>1, <6>2
        <5>2. ~hw'.reset /\ ~module'.fiq
          BY <1>3, <1>7, <2>0, <2>2, <3>5, <4>2
        <5>. QED  BY <5>1, <5>2 DEF InTime
      <4>3. CASE ~(hw.value > 1)
        <5>0. hw'.value = hw.load /\ hw'.reset = hw.ris
          BY <1>8, <2>2, <4>3
        <5>1. hw'.value > dogs'[0]
          BY <1>10, <3>1, <3>2, <3>3, <4>1, <5>0
        <5>2. ~hw.ris
          BY <2>0, <3>1, <3>2, <3>5, <4>1, <4>3 DEF InTime
        <5>3. ~hw'.reset /\ ~module'.fiq
          BY <1>3, <3>5, <5>0, <5>2
        <5>. QED  BY <5>1, <5>3 DEF InTime
      <4>. QED  BY <4>2, <4>3
    <3>. QED  BY <3>4, <3>5
  <2>. QED  BY <2>1, <2>2
<1>. QED  BY <1>3, <1>4, <1>5, <1>9, <1>11, <1>12 DEF FeedInv

(* A hang excuses a reset; the unloading switches the card off first.      *)
LEMMA OtherFeeds ==
  ASSUME TimeoutsCover, TypeOK, IInv, ~module.nodeamon, FeedInv,
         \/ \E x \in Threads \union Files : Hang(x)
         \/ ExitBegin \/ ExitStop \/ ExitWait \/ UNCHANGED vars
  PROVE  FeedInv'
<1>1. MarginsOK /\ SwitchOK /\ RunsOK /\ (stuck \intersect Threads = {} => InTime /\ ~hw.reset)
  BY DEF FeedInv
<1>2. [Next]_vars
  BY DEF Next
<1>3. module' = module /\ Threads' = Threads /\ HrInterval' = HrInterval
  BY <1>2, ModuleStays
<1>4. MarginsOK'
  BY <1>1, <1>2, MarginsStep
<1>5. CASE (\E x \in Threads \union Files : Hang(x)) \/ UNCHANGED vars
  <2>1. UNCHANGED <<hw, enabled, dog_state, dogs, status, feed_count, hr, unload>> /\ stuck \subseteq stuck'
    BY <1>5 DEF Hang, vars, driver, fiq
  <2>2. SwitchOK'
    BY <1>1, <1>3, <2>1, SwitchFrom DEF SwitchOK
  <2>3. RunsOK'
    BY <1>1, <1>3, <2>1 DEF RunsOK
  <2>4. InTime => InTime'
    BY <1>3, <2>1 DEF InTime
  <2>. QED  BY <1>1, <1>3, <1>4, <2>1, <2>2, <2>3, <2>4 DEF FeedInv
<1>6. CASE ExitBegin
  <2>1. /\ hw' = Stopped(hw) /\ unload' # Loaded /\ UNCHANGED <<status, stuck>>
    BY <1>6 DEF ExitBegin, Loaded
  <2>2. hw'.ris = FALSE /\ hw'.on = FALSE /\ hw'.load = MaxTicks /\ hw'.reset = hw.reset
    BY <2>1, SwitchFields DEF TypeOK
  <2>3. hw'.load >= FeedTime(module)
    BY <2>2, FeedTimes
  <2>4. SwitchOK'
    BY <1>3, <2>2, <2>3, SwitchFrom
  <2>5. RunsOK'
    BY <2>1 DEF RunsOK
  <2>6. InTime => InTime'
    BY <1>3, <2>1, <2>2 DEF InTime
  <2>. QED  BY <1>1, <1>3, <1>4, <2>1, <2>2, <2>4, <2>5, <2>6 DEF FeedInv
<1>7. CASE ExitStop \/ ExitWait
  <2>1. UNCHANGED <<hw, enabled, dogs, status, feed_count, hr, stuck>>
    BY <1>7 DEF ExitStop, ExitWait, driver, fiq
  <2>2. unload # Loaded /\ unload' # Loaded
    BY <1>7 DEF ExitStop, ExitWait, Loaded, TypeOK
  <2>3. SwitchOK'
    BY <1>1, <1>3, <2>1, <2>2, SwitchFrom DEF SwitchOK
  <2>4. RunsOK'
    BY <2>2 DEF RunsOK
  <2>5. InTime => InTime'
    BY <1>3, <2>1 DEF InTime
  <2>. QED  BY <1>1, <1>3, <1>4, <2>1, <2>3, <2>4, <2>5 DEF FeedInv
<1>. QED  BY <1>5, <1>6, <1>7

(* The module is loaded with the counter full and nothing raised.          *)
LEMMA InitFeeds ==
  ASSUME TimeoutsCover, Init
  PROVE  FeedInv
<1>. SUFFICES ASSUME ~module.nodeamon PROVE FeedInv
  BY DEF FeedInv
<1>0. TypeOK
  BY InitTypes
<1>1. Covers(module, MarginOf(module)) /\ MarginOf(module) \in 1 .. MaxMargin /\ module.margin \in Int
  BY <1>0, FeedTimes, Numbers, WatchdogConstants DEF TypeOK
<1>2. MarginsOK
  BY <1>1 DEF Init, MarginsOK, Covers, MarginOf
<1>3. Counter(Margin) >= FeedTime(module)
  BY <1>0, <1>1, FeedTimes DEF Margin
<1>4. SwitchOK
  BY <1>3 DEF Init, SwitchOK
<1>5. RunsOK
  BY <1>0, HrNumbers DEF Init, RunsOK, Gone, TypeOK
<1>6. InTime /\ ~hw.reset
  BY WatchdogConstants DEF Init, InTime
<1>. QED  BY <1>2, <1>4, <1>5, <1>6 DEF FeedInv

(* With the daemon loaded and every processor alive the board is never     *)
(* reset, whatever the processes do with the device: as long as every      *)
(* margin they may program is long enough for the daemon.                  *)
THEOREM DaemonFeeds ==
  ASSUME TimeoutsCover
  PROVE  Spec => []FedByDaemon
<1>1. Init => FeedInv
  BY InitFeeds
<1>2. TypeOK /\ IInv /\ FeedInv /\ [Next]_vars => FeedInv'
  <2>. SUFFICES ASSUME TypeOK, IInv, FeedInv, [Next]_vars PROVE FeedInv'
    OBVIOUS
  <2>1. CASE module.nodeamon
    BY <2>1, ModuleStays DEF FeedInv
  <2>2. CASE ~module.nodeamon
    <3>1. ASSUME NEW f \in Files,
                 \/ Open(f) \/ OpenBackout(f) \/ Release(f) \/ ReleaseLeave(f) \/ ReleaseRearm(f)
                 \/ KeepAlive(f) \/ Heartbeat(f) \/ Program(f) \/ Enable(f) \/ Disable(f)
                 \/ \E t \in Timeouts : SetTimeout(f, t)
          PROVE  FeedInv'
      BY <2>2, <3>1, CallFeeds
    <3>2. ASSUME NEW d \in Threads, DogRun(d) PROVE FeedInv'
      BY <2>2, <3>2, DogFeeds
    <3>3. CASE HrFire
      BY <2>2, <3>3, HrFeeds
    <3>4. CASE Tick
      BY <2>2, <3>4, TickFeeds
    <3>5. CASE \/ \E x \in Threads \union Files : Hang(x)
               \/ ExitBegin \/ ExitStop \/ ExitWait \/ UNCHANGED vars
      BY <2>2, <3>5, OtherFeeds
    <3>. QED  BY <3>1, <3>2, <3>3, <3>4, <3>5 DEF Next
  <2>. QED  BY <2>1, <2>2
<1>3. FeedInv => FedByDaemon
  BY DEF FeedInv, FedByDaemon
<1>. QED  BY <1>1, <1>2, <1>3, TypeCorrect, Invariance, PTL DEF Spec
=============================================================================
