------------------------------ MODULE MmzShare ------------------------------
(***************************************************************************)
(* The process list of one user block: who may map and look it up.         *)
(* The share calls change mmb->pid[], pid_num and check_pid holding only   *)
(* the semaphore of the file they came through; the clean-up of a closing  *)
(* file changes them under g_mmz_lock.  Each action is a group of accesses *)
(* that one thread makes between two points where another may come in.     *)
(***************************************************************************)
EXTENDS Integers, FiniteSets

CONSTANTS
  Procs,     \* processes (thread group ids)
  Owner,     \* the process that allocated the block
  Files,     \* open files of /dev/mmz_userdev
  BlockFile, \* the file whose list holds the block: it stays open
  Opener,    \* the process that opened each file (pmu->pid)
  Uses,      \* the files through which each process makes share calls
  NoPid,     \* -1
  MaxPid     \* OT_MMB_MAX_PID_NUM

ASSUME ShareConstants ==
  /\ Owner \in Procs /\ NoPid \notin Procs
  /\ IsFiniteSet(Files) /\ BlockFile \in Files
  /\ Opener \in [Files -> Procs] /\ Opener[BlockFile] = Owner
  /\ Uses \in [Procs -> SUBSET Files]
  /\ MaxPid \in Nat \ {0}

VARIABLES
  pid,        \* mmb->pid[], with room on both sides to see a stray store
  pid_num,
  check_pid,  \* 0: shared with everybody
  opened,     \* the files that are open
  call,       \* the call each file is executing
  granted     \* history: the processes the completed requests ask to share with

vars == <<pid, pid_num, check_pid, opened, call, granted>>

Slots == -Cardinality(Files) .. MaxPid + Cardinality(Files)

Idle == [at |-> "idle", target |-> NoPid, cur |-> 0]

\* mmb_real_alloc of a process with isolation on: pid[0] is the allocator.
Init ==
  /\ pid = [i \in Slots |-> IF i = 0 THEN Owner ELSE NoPid]
  /\ pid_num = 1
  /\ check_pid = TRUE
  /\ opened = Files
  /\ call = [f \in Files |-> Idle]
  /\ granted = {}

\* find_pid_in_mmb: the first position of q below pid_num.
IsPos(q, i) == i \in 0 .. pid_num - 1 /\ pid[i] = q /\ \A j \in 0 .. i - 1 : pid[j] # q
Listed(q) == \E i \in 0 .. pid_num - 1 : pid[i] = q

\* Process p may start a call through f: f is open and its semaphore free.
Ready(p, f) == f \in Uses[p] /\ f \in opened /\ call[f].at = "idle"

Step(f, at, target, cur) == call' = [call EXCEPT ![f] = [at |-> at, target |-> target, cur |-> cur]]
Return(f) == call' = [call EXCEPT ![f] = Idle]
-----------------------------------------------------------------------------
\* ioctl_mmb_mem_share: the checks (a refusal changes nothing).
ShareCheck(p, f, q) ==
  /\ Ready(p, f) /\ check_pid
  /\ p = pid[0] /\ q # pid[0]
  /\ pid_num < MaxPid
  /\ ~Listed(q)
  /\ Step(f, "append", q, 0)
  /\ UNCHANGED <<pid, pid_num, check_pid, opened, granted>>

\* pid[pid_num++] = shared_pid: the index and the increment, then the store.
ShareIncrement(f) ==
  /\ call[f].at = "append"
  /\ pid_num' = pid_num + 1
  /\ Step(f, "store", call[f].target, pid_num)
  /\ UNCHANGED <<pid, check_pid, opened, granted>>

ShareStore(f) ==
  /\ call[f].at = "store"
  /\ pid' = [pid EXCEPT ![call[f].cur] = call[f].target]
  /\ granted' = granted \union {call[f].target}
  /\ Return(f)
  /\ UNCHANGED <<pid_num, check_pid, opened>>

\* Mutant: a process that is not on the list is taken off it at position -1.
UnshareUnlisted(p, f, q) ==
  /\ Ready(p, f) /\ check_pid
  /\ q # pid[0]
  /\ p = pid[0] \/ p = q
  /\ \E i \in Slots : (IsPos(q, i) \/ (~Listed(q) /\ i = -1)) /\ Step(f, "clear", q, i)
  /\ UNCHANGED <<pid, pid_num, check_pid, opened, granted>>

\* ioctl_mmb_mem_unshare: pid[0] or q itself takes q, but never pid[0], off
\* the list; pos is remembered.
UnshareCheck(p, f, q) ==
  /\ Ready(p, f) /\ check_pid
  /\ q # pid[0]
  /\ p = pid[0] \/ p = q
  /\ \E i \in Slots : IsPos(q, i) /\ Step(f, "clear", q, i)
  /\ UNCHANGED <<pid, pid_num, check_pid, opened, granted>>

\* clear_pid_in_mmb: pid_num--, ...
ClearDecrement(f) ==
  /\ call[f].at = "clear"
  /\ pid_num' = pid_num - 1
  /\ Step(f, "shift", call[f].target, call[f].cur)
  /\ UNCHANGED <<pid, check_pid, opened, granted>>

\* Mutant: the last entry is not moved down.
ClearShiftShort(f) ==
  LET cur == call[f].cur IN
  /\ call[f].at = "shift" /\ cur < pid_num
  /\ pid' = IF cur + 1 < pid_num THEN [pid EXCEPT ![cur] = pid[cur + 1]] ELSE pid
  /\ Step(f, "shift", call[f].target, cur + 1)
  /\ UNCHANGED <<pid_num, check_pid, opened, granted>>

\* ... each later entry moves down by one, ...
ClearShift(f) ==
  LET cur == call[f].cur IN
  /\ call[f].at = "shift" /\ cur < pid_num
  /\ pid' = [pid EXCEPT ![cur] = pid[cur + 1]]
  /\ Step(f, "shift", call[f].target, cur + 1)
  /\ UNCHANGED <<pid_num, check_pid, opened, granted>>

\* ... and the slot after the last one is cleared.
ClearEnd(f) ==
  /\ call[f].at = "shift" /\ ~(call[f].cur < pid_num)
  /\ pid' = [pid EXCEPT ![pid_num] = NoPid]
  /\ granted' = granted \ {call[f].target}
  /\ Return(f)
  /\ UNCHANGED <<pid_num, check_pid, opened>>

\* ioctl_mmb_mem_share_all and ioctl_mmb_mem_unshare_all.
SetShareAll(p, f, all) ==
  /\ Ready(p, f) /\ p = pid[0]
  /\ check_pid = all
  /\ check_pid' = ~all
  /\ UNCHANGED <<pid, pid_num, opened, call, granted>>

(***************************************************************************)
(* mmz_userdev_release of a file, last statement:                          *)
(* media_mem_clear_pid_in_all_mmb(pmu->pid) under g_mmz_lock, which only   *)
(* another such clean-up respects.                                         *)
(***************************************************************************)
Releasing == {f \in Files : f \notin opened /\ call[f].at # "idle"}

\* Mutant: every position found is cleared.
MayClearAny(i) == i >= 0

\* "is not the process that alloc the buffer": position 0 is spared.
MayClear(i) == i > 0

Release(f) ==
  /\ f \in opened \ {BlockFile} /\ call[f].at = "idle" /\ Releasing = {}
  /\ opened' = opened \ {f}
  /\ LET found == {i \in Slots : IsPos(Opener[f], i) /\ MayClear(i)}
     IN  IF found = {} THEN UNCHANGED call
         ELSE \E i \in found : Step(f, "clear", Opener[f], i)
  /\ UNCHANGED <<pid, pid_num, check_pid, granted>>

\* The opener opens the device again.
Reopen(f) ==
  /\ f \notin opened /\ call[f].at = "idle"
  /\ opened' = opened \union {f}
  /\ UNCHANGED <<pid, pid_num, check_pid, call, granted>>

Next ==
  \E f \in Files :
    \/ \E p \in Procs : \/ \E q \in Procs : ShareCheck(p, f, q) \/ UnshareCheck(p, f, q)
                        \/ \E all \in BOOLEAN : SetShareAll(p, f, all)
    \/ ShareIncrement(f) \/ ShareStore(f)
    \/ ClearDecrement(f) \/ ClearShift(f) \/ ClearEnd(f)
    \/ Release(f) \/ Reopen(f)

Spec == Init /\ [][Next]_vars
-----------------------------------------------------------------------------
(* Every variable has its type: pid_num and the positions the calls work   *)
(* on stay inside the window Slots, only processes or -1 are stored.       *)
TypeOK ==
  /\ pid \in [Slots -> Procs \union {NoPid}]
  /\ pid_num \in Slots
  /\ check_pid \in BOOLEAN
  /\ opened \in SUBSET Files
  /\ call \in [Files -> [at : {"idle", "append", "store", "clear", "shift"},
                         target : Procs \union {NoPid}, cur : Slots]]
  /\ granted \in SUBSET Procs

\* One process opens the device and makes all share calls through one file,
\* as the user library does: its semaphore orders them.
OneUser ==
  /\ \A f \in Files : Opener[f] = Owner
  /\ \A p, q \in Procs : \A f \in Uses[p], g \in Uses[q] : f = g

Quiet == \A f \in Files : call[f].at = "idle"

(* Between calls the list is the allocating process followed by exactly    *)
(* the processes it shares with, each once, nothing behind pid_num and     *)
(* never more than OT_MMB_MAX_PID_NUM of them.                             *)
ListExact ==
  Quiet =>
    /\ pid[0] = Owner
    /\ {pid[i] : i \in 1 .. pid_num - 1} = granted
    /\ Cardinality(granted) = pid_num - 1 /\ pid_num <= MaxPid
    /\ \A i \in Slots : i < 0 \/ i >= pid_num => pid[i] = NoPid

(* "pid[0] and pid[n] can unshare with pid[n] (except pid[0])": the        *)
(* process that allocated the block keeps its place on the list.           *)
OwnerStaysListed == pid[0] = Owner
=============================================================================
