------------------------------ MODULE Watchdog ------------------------------
(***************************************************************************)
(* The watchdog driver: the device file, the ioctls, the feeding threads,  *)
(* the high-resolution timer of the fiq mode and the unloading of the      *)
(* module, with the counter of the watchdog hardware under them.           *)
(* One tick is half a second; time passes only while no call is running.   *)
(* A file stands for a process with one thread.  The registers are written *)
(* under g_ot_dog_lock, the driver's own variables under no lock.          *)
(***************************************************************************)
EXTENDS Integers, FiniteSets

CONSTANTS
  Files,          \* processes that open /dev/watchdog
  Cpus,           \* processors 0 .. n-1, one feeding thread each in fiq mode
  Modules,        \* module parameters: records [margin, nodeamon, fiq]
  Openers,        \* the files that are used under each of Modules (a bound)
  Timeouts,       \* arguments of WDIOC_SETTIMEOUT, in seconds
  DefaultMargin,  \* OT_DOG_TIMER_MARGIN, in seconds
  MaxMargin,      \* seconds that fit the 32 bits of the counter
  HrUnit,         \* INTERVAL: nanoseconds between two expiries, per second of margin
  HrWrap,         \* 2^32, what does not fit g_interval_nsec
  HrTick,         \* nanoseconds of a tick
  FeedMax         \* g_feed_max

ASSUME WatchdogConstants ==
  /\ IsFiniteSet(Files) /\ IsFiniteSet(Cpus) /\ 0 \in Cpus
  /\ DefaultMargin \in 1 .. MaxMargin /\ MaxMargin \in Nat
  /\ HrUnit \in Nat /\ HrWrap \in Nat \ {0} /\ HrTick \in Nat \ {0} /\ FeedMax \in Nat \ {0}
  /\ Timeouts \subseteq Int
  /\ Modules \subseteq [margin : Int, nodeamon : BOOLEAN, fiq : BOOLEAN]
  /\ Openers \in [Modules -> SUBSET Files]

VARIABLES
  hw,          \* the hardware: [on, load, value, ris, reset]
  module,      \* the parameters the module was loaded with
  driver_open, \* g_driver_open
  cur_margin,  \* g_cur_margin
  enabled,     \* g_options is WDIOS_ENABLECARD
  dog_state,   \* g_ot_dog_state
  dogs,        \* the feeding threads: ticks of sleep left, or Gone
  status,      \* g_status: processors whose thread has reported
  feed_count,  \* g_feed_count
  hr,          \* ticks until the hrtimer expires, or Gone
  call,        \* what each process is doing with the device
  stuck,       \* threads and processes that never run again
  unload       \* ot_dog_exit: the thread it stops next, and how far it is

driver == <<module, driver_open, cur_margin, enabled, dog_state>>
fiq == <<status, feed_count, hr>>
vars == <<hw, driver, fiq, dogs, call, stuck, unload>>

Gone == -1
Loaded == [at |-> "loaded", dog |-> 0]
MaxTicks == 2 * MaxMargin + 1
Fits(t) == t \in 1 .. MaxMargin

\* Mutant: no margin means a counter of 0.
CounterOfZero(t) == IF t > MaxMargin THEN MaxTicks ELSE 2 * t

\* ot_dog_set_timeout: the value for LOAD and VALUE.
Counter(t) == IF Fits(t) THEN 2 * t ELSE MaxTicks

\* get_margin replaces a parameter that set_heartbeat refuses ...
MarginOf(m) == IF Fits(m.margin) THEN m.margin ELSE DefaultMargin
Margin == MarginOf(module)

\* msleep(g_default_margin * 1000 / 2 + 10) ends in the tick after Margin.
Sleep == Margin + 1

\* set_hrtimer_interval: the parameter as it was given, times INTERVAL in 32
\* bits; the timer has expired when the tick after that time ends.
IntervalOf(m) == ((m.margin * HrUnit) % HrWrap) \div HrTick + 1
HrInterval == IntervalOf(module)

Threads == IF module.nodeamon THEN {} ELSE IF module.fiq THEN Cpus ELSE {0}

\* ... but watchdog_init keeps the parameter itself in g_cur_margin.
Init ==
  /\ module \in Modules
  /\ hw = [on |-> TRUE, load |-> Counter(Margin), value |-> Counter(Margin),
           ris |-> FALSE, reset |-> FALSE]
  /\ driver_open = 1
  /\ cur_margin = module.margin
  /\ enabled = TRUE /\ dog_state = "SELFCLR"
  /\ dogs = [d \in Threads |-> 0]
  /\ status = {} /\ feed_count = 0
  /\ hr = IF module.fiq THEN HrInterval ELSE Gone
  /\ call = [f \in Files |-> [at |-> "closed", arg |-> 0, back |-> "closed"]]
  /\ stuck = {} /\ unload = Loaded

AllClosed == \A f \in Files : call[f].at = "closed"
AtRest == \A f \in Files : call[f].at \in {"closed", "open"}

\* Process f can make its next step from place "at".
At(f, at) == call[f].at = at /\ f \notin stuck /\ ~hw.reset /\ unload = Loaded
Goto(f, at, arg, back) == call' = [call EXCEPT ![f] = [at |-> at, arg |-> arg, back |-> back]]
Return(f, at) == Goto(f, at, 0, at)

(***************************************************************************)
(* Writing INTCLR clears the interrupt; whether it also reloads the        *)
(* counter the code does not tell.                                         *)
(***************************************************************************)
IntClear(r) == {[r EXCEPT !.ris = FALSE, !.value = v] : v \in {r.value, r.load}}

\* ot_dog_feed: without fiq support it only answers a raised interrupt.
Feed(r) == IF module.fiq \/ r.ris THEN IntClear(r) ELSE {r}
-----------------------------------------------------------------------------
\* Mutant: the count is reset, not taken back.
OpenBackoutReset(f) ==
  /\ At(f, "backout")
  /\ driver_open' = 1
  /\ Return(f, "closed")
  /\ UNCHANGED <<hw, module, cur_margin, enabled, dog_state, fiq, dogs, stuck, unload>>

\* ot_dog_open, called by media_open under media_sem.
Open(f) ==
  /\ At(f, "closed") /\ f \in Openers[module]
  /\ \A g \in Files : call[g].at # "backout"
  /\ driver_open' = driver_open - 1
  /\ IF driver_open = 1 THEN Return(f, "open") /\ hw' \in Feed(hw)
                        ELSE Return(f, "backout") /\ UNCHANGED hw
  /\ UNCHANGED <<module, cur_margin, enabled, dog_state, fiq, dogs, stuck, unload>>

OpenBackout(f) ==
  /\ At(f, "backout")
  /\ driver_open' = driver_open + 1
  /\ Return(f, "closed")
  /\ UNCHANGED <<hw, module, cur_margin, enabled, dog_state, fiq, dogs, stuck, unload>>

\* ot_dog_release: the count goes up first; anything but 1 is taken back.
Release(f) ==
  /\ At(f, "open")
  /\ driver_open' = driver_open + 1
  /\ Return(f, IF driver_open = 0 THEN "rearm" ELSE "leave")
  /\ UNCHANGED <<hw, module, cur_margin, enabled, dog_state, fiq, dogs, stuck, unload>>

ReleaseLeave(f) ==
  /\ At(f, "leave")
  /\ driver_open' = driver_open - 1
  /\ Return(f, "closed")
  /\ UNCHANGED <<hw, module, cur_margin, enabled, dog_state, fiq, dogs, stuck, unload>>

ReleaseRearm(f) ==
  /\ At(f, "rearm")
  /\ dog_state' = "SELFCLR"
  /\ Goto(f, "heartbeat", cur_margin, "closed")
  /\ UNCHANGED <<hw, module, driver_open, cur_margin, enabled, fiq, dogs, stuck, unload>>

\* ot_dog_ioctl_keep_alive.
KeepAlive(f) ==
  /\ At(f, "open")
  /\ hw' \in Feed(hw)
  /\ UNCHANGED <<driver, fiq, dogs, call, stuck, unload>>

\* ot_dog_ioctl_set_timeout; its last feed repeats the one of set_heartbeat.
SetTimeout(f, t) ==
  /\ At(f, "open")
  /\ Goto(f, "heartbeat", t, "open")
  /\ UNCHANGED <<hw, driver, fiq, dogs, stuck, unload>>

\* ot_dog_set_heartbeat: g_cur_margin, ...
Heartbeat(f) ==
  LET t == call[f].arg
      lt == IF t <= 0 THEN cur_margin ELSE IF t > MaxMargin THEN MaxMargin ELSE t
  IN
  /\ At(f, "heartbeat")
  /\ cur_margin' = lt
  /\ Goto(f, "program", lt, call[f].back)
  /\ UNCHANGED <<hw, module, driver_open, enabled, dog_state, fiq, dogs, stuck, unload>>

\* ... then ot_dog_set_timeout and ot_dog_feed.
Program(f) ==
  LET n == Counter(call[f].arg) IN
  /\ At(f, "program")
  /\ hw' \in Feed([hw EXCEPT !.load = n, !.value = n])
  /\ Return(f, call[f].back)
  /\ UNCHANGED <<driver, fiq, dogs, stuck, unload>>

\* Mutant: the card is enabled but the feeding stays off.
EnableForgets(f) ==
  /\ At(f, "open")
  /\ hw' = [hw EXCEPT !.on = TRUE, !.ris = FALSE]
  /\ Goto(f, "heartbeat", cur_margin, "open")
  /\ UNCHANGED <<driver, fiq, dogs, stuck, unload>>

\* ot_dog_set_options: WDIOS_ENABLECARD, ...
Enable(f) ==
  /\ At(f, "open")
  /\ hw' = [hw EXCEPT !.on = TRUE, !.ris = FALSE]
  /\ enabled' = TRUE
  /\ Goto(f, "heartbeat", cur_margin, "open")
  /\ UNCHANGED <<module, driver_open, cur_margin, dog_state, fiq, dogs, stuck, unload>>

Stopped(r) == [r EXCEPT !.on = FALSE, !.ris = FALSE, !.load = MaxTicks, !.value = MaxTicks]

\* ... or WDIOS_DISABLECARD: ot_dog_stop.
Disable(f) ==
  /\ At(f, "open")
  /\ hw' = Stopped(hw)
  /\ enabled' = FALSE
  /\ UNCHANGED <<module, driver_open, cur_margin, dog_state, fiq, dogs, call, stuck, unload>>
-----------------------------------------------------------------------------
\* Mutant: one processor's report is enough to allow more feeding.
ReportAny(d) ==
  status' = {} /\ feed_count' = 0

\* fiq_dog_feed: when every processor has reported the count starts again.
Report(d) ==
  IF status \union {d} = Cpus THEN status' = {} /\ feed_count' = 0
  ELSE status' = status \union {d} /\ UNCHANGED feed_count

\* ot_dog_deamon: thread d wakes, feeds and sleeps, or ends.
DogRun(d) ==
  /\ d \notin stuck /\ ~hw.reset /\ dogs[d] \in {0, 1}
  /\ IF dog_state = "EXIT"
     THEN dogs' = [dogs EXCEPT ![d] = Gone] /\ UNCHANGED <<hw, status, feed_count>>
     ELSE /\ dogs' = [dogs EXCEPT ![d] = Sleep]
          /\ IF ~enabled THEN UNCHANGED <<hw, status, feed_count>>
             ELSE IF module.fiq THEN Report(d) /\ UNCHANGED hw
             ELSE hw' \in Feed(hw) /\ UNCHANGED <<status, feed_count>>
  /\ UNCHANGED <<driver, hr, call, stuck, unload>>

\* hrtimer_handler.
HrFire ==
  /\ hr = 0 /\ ~hw.reset
  /\ IF feed_count < FeedMax THEN feed_count' = feed_count + 1 /\ hw' \in Feed(hw)
                             ELSE UNCHANGED <<feed_count, hw>>
  /\ hr' = HrInterval
  /\ UNCHANGED <<driver, status, dogs, call, stuck, unload>>

(***************************************************************************)
(* The counter of the hardware runs while CTRL enables it.  It raises the  *)
(* interrupt at its first zero and the reset at the next, if the interrupt *)
(* is still raised ("a reset signal after 2 timer interrupt").             *)
(***************************************************************************)
Count(r) ==
  IF ~r.on THEN r
  ELSE IF r.value > 1 THEN [r EXCEPT !.value = @ - 1]
  ELSE [r EXCEPT !.value = r.load, !.reset = r.ris, !.ris = TRUE]

\* Half a second: nothing that runs may miss its time.
Tick ==
  /\ AtRest /\ ~hw.reset /\ hr # 0
  /\ \A d \in Threads \ stuck : dogs[d] # 0
  /\ hw' = Count(hw)
  /\ hr' = IF hr = Gone THEN Gone ELSE hr - 1
  /\ dogs' = [d \in Threads |-> IF d \in stuck \/ dogs[d] = Gone THEN dogs[d] ELSE dogs[d] - 1]
  /\ UNCHANGED <<driver, status, feed_count, call, stuck, unload>>

\* A processor, and the thread bound to it, or a process hangs.
Hang(x) ==
  /\ ~hw.reset /\ unload = Loaded
  /\ x \in Threads \/ (x \in Files /\ call[x].at = "open")
  /\ stuck' = stuck \union {x}
  /\ UNCHANGED <<hw, driver, fiq, dogs, call, unload>>
-----------------------------------------------------------------------------
\* Mutant: the threads are not told to end.
ExitBeginSilent ==
  /\ unload = Loaded /\ AllClosed /\ ~hw.reset
  /\ hw' = Stopped(hw)
  /\ enabled' = FALSE
  /\ hr' = IF module.nodeamon THEN hr ELSE Gone
  /\ unload' = [at |-> "stop", dog |-> 0]
  /\ UNCHANGED <<module, driver_open, cur_margin, dog_state, status, feed_count, dogs, call, stuck>>

\* ot_dog_exit, from the remove of a module nobody uses; without the daemon
\* the timer is not stopped.
ExitBegin ==
  /\ unload = Loaded /\ AllClosed /\ ~hw.reset
  /\ hw' = Stopped(hw)
  /\ enabled' = FALSE /\ dog_state' = "EXIT"
  /\ hr' = IF module.nodeamon THEN hr ELSE Gone
  /\ unload' = [at |-> "stop", dog |-> 0]
  /\ UNCHANGED <<module, driver_open, cur_margin, status, feed_count, dogs, call, stuck>>

\* kthread_stop of one thread after the other ...
ExitStop ==
  /\ unload.at = "stop"
  /\ unload' = IF unload.dog \in Threads THEN [unload EXCEPT !.at = "wait"]
               ELSE [unload EXCEPT !.at = "unloaded"]
  /\ UNCHANGED <<hw, driver, fiq, dogs, call, stuck>>

\* ... returns when that thread has ended.
ExitWait ==
  /\ unload.at = "wait" /\ dogs[unload.dog] = Gone
  /\ unload' = [at |-> "stop", dog |-> unload.dog + 1]
  /\ UNCHANGED <<hw, driver, fiq, dogs, call, stuck>>

Next ==
  \/ \E f \in Files :
       \/ Open(f) \/ OpenBackout(f)
       \/ Release(f) \/ ReleaseLeave(f) \/ ReleaseRearm(f)
       \/ KeepAlive(f) \/ Heartbeat(f) \/ Program(f) \/ Enable(f) \/ Disable(f)
       \/ \E t \in Timeouts : SetTimeout(f, t)
  \/ \E d \in Threads : DogRun(d)
  \/ \E x \in Threads \union Files : Hang(x)
  \/ HrFire \/ Tick
  \/ ExitBegin \/ ExitStop \/ ExitWait

(***************************************************************************)
(* A thread or a timer that is due runs, time passes, and the unloading    *)
(* goes on; nothing obliges a process to make or to end a call.            *)
(***************************************************************************)
Fairness ==
  /\ WF_vars(Tick) /\ WF_vars(HrFire) /\ \A d \in Cpus : WF_vars(d \in Threads /\ DogRun(d))
  /\ WF_vars(ExitStop) /\ WF_vars(ExitWait)

Spec == Init /\ [][Next]_vars /\ Fairness
-----------------------------------------------------------------------------
HwRecord == [on : BOOLEAN, load : 1 .. MaxTicks, value : 1 .. MaxTicks,
             ris : BOOLEAN, reset : BOOLEAN]

\* Where a call of a process can stand and return to.
Places == {"closed", "backout", "open", "leave", "rearm", "heartbeat", "program"}

(* Every variable has its type.                                            *)
TypeOK ==
  /\ module \in Modules
  /\ hw \in HwRecord
  /\ driver_open \in Int /\ cur_margin \in Int /\ enabled \in BOOLEAN
  /\ dog_state \in {"SELFCLR", "EXIT"}
  /\ dogs \in [Threads -> Gone .. Sleep]
  /\ status \in SUBSET Cpus /\ feed_count \in 0 .. FeedMax /\ hr \in Gone .. HrInterval
  /\ call \in [Files -> [at : Places, arg : Int, back : Places]]
  /\ stuck \in SUBSET (Threads \union Files)
  /\ unload \in [at : {"loaded", "stop", "wait", "unloaded"}, dog : Nat]

\* Process f has the device open and has not begun to close it.
Holds(f) == call[f].at = "open" \/ call[f].back = "open"

(* g_driver_open admits one process at a time, however the dec-and-back of *)
(* refused opens and the inc-and-back of a release interleave.             *)
OneHolder == \A f, g \in Files : Holds(f) /\ Holds(g) => f = g

\* The longest time between two feeds by the daemon.
FeedTime(m) == MarginOf(m) + 1 + IF m.fiq THEN IntervalOf(m) ELSE 0

\* Twice the margin, half for the interrupt and half for the reset, is no
\* shorter; a margin that does not fit is refused or replaced.
Covers(m, t) == Fits(t) => 2 * t >= FeedTime(m)

\* No process programs a margin that is too short for the daemon.
TimeoutsCover ==
  \A m \in Modules : ~m.nodeamon =>
    Covers(m, MarginOf(m)) /\ \A t \in Timeouts : Covers(m, t)

(* "By default, a kernel daemon feed watchdog": with the daemon loaded and *)
(* every processor alive the board is never reset, whatever the processes  *)
(* do with the device and whenever they hang, as long as TimeoutsCover.    *)
FedByDaemon == hw.reset => module.nodeamon \/ stuck \intersect Threads # {}

\* A processor hangs, or nobody but the processes feeds; they do not call.
Unattended ==
  /\ hw.on /\ unload = Loaded
  /\ \A f \in Files : call[f].at = "closed" \/ f \in stuck
  /\ module.nodeamon \/ stuck \intersect Threads # {}

(* The reason for the watchdog: once a feeding thread hangs (one of them   *)
(* is enough in fiq mode), or without the daemon the process hangs or      *)
(* leaves, an enabled watchdog resets the board.                           *)
WatchdogBites == <>[]Unattended => <>hw.reset

(* Unloading ends: the wait for every feeding thread is over some day,     *)
(* unless one of them hangs.                                               *)
UnloadEnds == unload # Loaded ~> (unload.at = "unloaded" \/ stuck \intersect Threads # {})

(* "When you call the Kthread_stop function, the thread function cannot be *)
(* finished": ot_dog_exit calls kthread_stop for threads that still run.   *)
StopsLiveThread ==
  [][unload.at = "stop" /\ unload'.at = "wait" => dogs[unload.dog] # Gone]_vars
=============================================================================
