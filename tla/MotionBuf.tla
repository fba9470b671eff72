----------------------------- MODULE MotionBuf ------------------------------
(***************************************************************************)
(* The ring buffer of the motion sensor manager, for one kind of data.     *)
(* Each column of the ring (X, Y, Z, temperature, PTS) has a write pointer *)
(* and, per user, a read pointer.  X stands for the four columns of equal  *)
(* width, whose pointers the code always moves together and first; PTS,    *)
(* which it moves last, is the other.  Pointers are slot numbers.          *)
(* mng_lock covers writing, reading and deleting; add_user holds only      *)
(* mng_mutex, so its reads of the write pointers fall where they may.      *)
(***************************************************************************)
EXTENDS Integers, FiniteSets, FiniteSetsExt

CONSTANTS
  Users,   \* user ids 0 .. MAX_USER_NUM - 1
  N,       \* slots of the ring
  Gap,     \* WR_GAP
  Windows, \* the intervals <<begin_pts, end_pts>> the users ask for
  MaxPts   \* samples written in a behaviour (a bound)

ASSUME MotionConstants ==
  /\ IsFiniteSet(Users) /\ Users \subseteq Nat
  /\ N \in Nat /\ Gap \in 1 .. N - 2 /\ MaxPts \in Nat
  /\ Windows \subseteq {w \in (Nat \ {0}) \X Nat : w[1] < w[2]}

VARIABLES
  buf,      \* the PTS of the sample in each slot, 0 if none was written
  last,     \* the PTS of the newest sample
  write_x,  \* x_write_ptr
  write_p,  \* pts_write_ptr
  user_ctx, \* the read pointers [x, p] of each user, or Null
  user_cnt,
  forward,  \* g_forward
  released, \* g_already_released
  lock,     \* who holds mng_lock: nobody, the writer or a user's get
  call,     \* what each user's thread is doing: [at, x, w]
  data,     \* data_info of each user: [first, n0, n1], two runs of slots
  raced,    \* history: the users that an add_user raced with
  mark,     \* history: the newest PTS the user was shown or found on joining
  near      \* history: the users whose own last move ended within WR_GAP

history == <<raced, mark, near>>
vars == <<buf, last, write_x, write_p, user_ctx, user_cnt, forward, released,
          lock, call, data, history>>
ring == <<buf, last, write_x, write_p>>

Slots == 0 .. N - 1
Null == [x |-> -1, p |-> -1]
Empty == [first |-> 0, n0 |-> 0, n1 |-> 0]
Idle == [at |-> "idle", x |-> 0, w |-> <<0, 0>>]
Active == {u \in Users : user_ctx[u] # Null}

\* msensor_buf_allocation_init and msensor_buf_init.
Init ==
  /\ buf = [i \in Slots |-> 0] /\ last = 0
  /\ write_x = 0 /\ write_p = 0
  /\ user_ctx = [u \in Users |-> Null] /\ user_cnt = 0
  /\ forward = TRUE
  /\ released = [u \in Users |-> TRUE]
  /\ lock = "free"
  /\ call = [u \in Users |-> Idle]
  /\ data = [u \in Users |-> Empty]
  /\ raced = {} /\ mark = [u \in Users |-> 0] /\ near = {}

Goto(u, at, x, w) == call' = [call EXCEPT ![u] = [at |-> at, x |-> x, w |-> w]]
MutexFree == \A u \in Users : call[u].at # "add"

\* Where a user has put itself: less than WR_GAP slots ahead of the writer,
\* or at the writer with samples it was not shown.
Moved(u, at, m) ==
  LET ahead == (at - write_x) % N IN
  near' = IF ahead \in 1 .. Gap - 1 \/ (ahead = 0 /\ m # last) THEN near \union {u} ELSE near \ {u}
-----------------------------------------------------------------------------
\* msensor_buf_get_user_id: the lowest id without a context.
GetUserId(u) == user_ctx[u] = Null /\ \A v \in Users : v < u => v \in Active

\* msensor_buf_add_user: the limits, the id and the first pointers, ...
AddUser(u) ==
  /\ MutexFree /\ call[u].at = "idle"
  /\ ~(user_cnt > Cardinality(Users))
  /\ GetUserId(u)
  /\ Goto(u, "add", write_x, <<0, 0>>)
  /\ UNCHANGED <<ring, user_ctx, user_cnt, forward, released, lock, data, history>>

\* ... the last pointer and the publication, with no lock a writer holds.
AddUserPublish(u) ==
  /\ call[u].at = "add"
  /\ user_ctx' = [user_ctx EXCEPT ![u] = [x |-> call[u].x, p |-> write_p]]
  /\ user_cnt' = user_cnt + 1
  /\ forward' = TRUE
  /\ Goto(u, "idle", 0, <<0, 0>>)
  /\ raced' = (IF call[u].x = write_p THEN raced \ {u} ELSE raced \union {u})
                \union {v \in Users : call[v].at = "scan"}
  /\ mark' = [mark EXCEPT ![u] = IF lock = "writer" THEN last - 1 ELSE last]
  /\ near' = near \ {u}
  /\ UNCHANGED <<ring, released, lock, data>>

\* The history of a user ends with it.
Forgotten(u) ==
  raced' = raced \ {u} /\ mark' = [mark EXCEPT ![u] = 0] /\ near' = near \ {u}

\* Mutant: a user that is gone is deleted again.
DeleteUserAgain(u) ==
  /\ MutexFree /\ lock = "free"
  /\ user_ctx' = [user_ctx EXCEPT ![u] = Null]
  /\ user_cnt' = user_cnt - 1
  /\ Forgotten(u)
  /\ UNCHANGED <<ring, forward, released, lock, call, data>>

\* msensor_buf_delete_user.
DeleteUser(u) ==
  /\ MutexFree /\ lock = "free"
  /\ u \in Active
  /\ user_ctx' = [user_ctx EXCEPT ![u] = Null]
  /\ user_cnt' = user_cnt - 1
  /\ Forgotten(u)
  /\ UNCHANGED <<ring, forward, released, lock, call, data>>
-----------------------------------------------------------------------------
\* tmp_ptr of msensor_buf_write_data: WR_GAP slots ahead of the writer.
GapSlot == IF N - write_x > Gap THEN write_x + Gap ELSE Gap - (N - write_x)

\* Mutant: the pointers advance and are never taken back to the start.
BumpPast(c) == [x |-> (c.x + 1) % N, p |-> c.p + 1]

\* The read pointers advance; that of X decides whether all wrap.
Bump(c) == IF c.x + 1 >= N THEN [x |-> 0, p |-> 0] ELSE [x |-> c.x + 1, p |-> c.p + 1]

\* Mutant: overflow is looked for one slot too late.
OverflowsLate(c) == c # Null /\ (GapSlot + 1) % N = c.x

Overflows(c) == c # Null /\ ((GapSlot = N /\ c.x = 0) \/ GapSlot = c.x)

\* msensor_buf_write_data and msensor_buf_write: slow readers are pushed,
\* the sample is stored and the pointers advance, X first ...
Write ==
  /\ lock = "free" /\ last < MaxPts
  /\ user_ctx' = [u \in Users |-> IF Overflows(user_ctx[u]) THEN Bump(user_ctx[u]) ELSE user_ctx[u]]
  /\ buf' = [buf EXCEPT ![write_p] = last + 1]
  /\ last' = last + 1
  /\ write_x' = IF write_x + 1 >= N THEN 0 ELSE write_x + 1
  /\ lock' = "writer"
  /\ UNCHANGED <<write_p, user_cnt, forward, released, call, data, history>>

\* ... and PTS last.
WriteEnd ==
  /\ lock = "writer"
  /\ write_p' = write_x
  /\ lock' = "free"
  /\ UNCHANGED <<buf, last, write_x, user_ctx, user_cnt, forward, released, call, data, history>>
-----------------------------------------------------------------------------
\* What a PTS pointer reads; behind the ring lies another kind of data.
Pts(i, garbage) == IF i \in Slots THEN buf[i] ELSE garbage

\* That data lies before, at either end of, or after the window asked for.
Behind(w) == {0, w[1], w[2], MaxPts + 1}

\* The slot k steps before, and k steps behind, slot p.
Before(p, k) == IF k <= p THEN p - k ELSE N + (p - k)
After(p, k) == IF k = 0 THEN p ELSE IF p < N THEN (p + k) % N ELSE (k - 1) % N

\* Mutant: going back stops at the newest sample of the window, not the oldest.
StepsBackShort(p, w, garbage) ==
  Min({k \in 0 .. 2 * N : Pts(Before(p, k), garbage) <= w[2] \/ Before(p, k) = write_p})

\* msensor_buf_arrive_back_start_addr goes back to a sample not younger than
\* the window, or to the write pointer, ...
StepsBack(p, w, garbage) ==
  Min({k \in 0 .. p + N : Pts(Before(p, k), garbage) <= w[1] \/ Before(p, k) = write_p})

\* ... and moves the read pointers there.
ArriveBack(c, k) ==
  [x |-> IF k > c.p THEN Before(c.p, k) ELSE c.x - k, p |-> Before(c.p, k)]

\* msensor_buf_get_data under mng_lock: the check and the way back, ...
GetData(u, w) ==
  /\ lock = "free" /\ call[u].at = "idle"
  /\ u \in Active /\ released[u]
  /\ \E garbage \in Behind(w) :
       LET k == StepsBack(user_ctx[u].p, w, garbage)
           c == ArriveBack(user_ctx[u], k)
       IN
       /\ user_ctx' = [user_ctx EXCEPT ![u] = c]
       /\ forward' = (forward /\ k = 0)
       /\ IF k = 0 THEN UNCHANGED near ELSE Moved(u, c.x, mark[u])
  /\ lock' = "reader"
  /\ Goto(u, "scan", 0, w)
  /\ UNCHANGED <<ring, user_cnt, released, data, raced, mark>>

\* The number of slots that msensor_buf_get_data_process walks from p.
Steps(p, w, garbage) ==
  Min({k \in 0 .. 2 * N : \/ After(p, k) = write_p /\ (forward \/ k > 0)
                          \/ Pts(After(p, k), garbage) > w[2]})

\* Those of them, as steps from p, that hold a sample of the window.
Hits(p, w, garbage) ==
  {k \in 0 .. Steps(p, w, garbage) - 1 : Pts(After(p, k), garbage) \in w[1] .. w[2]}

\* The hits before the ring is left again count for data[0], the others for
\* data[1].
Runs(p, hits) ==
  LET k0 == Min(hits)
      head == {k \in hits : \A j \in k0 + 1 .. k : After(p, j) # 0}
  IN  [first |-> After(p, k0), n0 |-> Cardinality(head), n1 |-> Cardinality(hits \ head)]

\* The newest sample the user has seen after these hits.
Seen(u, p, hits) ==
  Max({mark[u]} \union {buf[After(p, k)] : k \in {j \in hits : After(p, j) \in Slots}})

\* ... the walk through the window (msensor_buf_get_data_process, _assign).
GetDataScan(u) ==
  /\ call[u].at = "scan"
  /\ \E garbage \in Behind(call[u].w) :
       LET p == user_ctx[u].p
           w == call[u].w
           hits == Hits(p, w, garbage)
           d == IF hits = {} THEN Empty ELSE Runs(p, hits)
           at == IF hits = {} THEN p ELSE d.first
       IN
       /\ data' = [data EXCEPT ![u] = d]
       /\ released' = [released EXCEPT ![u] = hits = {}]
       /\ forward' = (forward \/ Steps(p, w, garbage) > 0)
       /\ user_ctx' = [user_ctx EXCEPT ![u] = [x |-> at, p |-> at]]
       /\ raced' = IF at \in Slots THEN raced \ {u} ELSE raced
       /\ mark' = [mark EXCEPT ![u] = Seen(u, p, hits)]
       /\ IF hits = {} THEN near' = near \union (raced \intersect {u})
                       ELSE Moved(u, at, Seen(u, p, hits))
  /\ lock' = "free"
  /\ Goto(u, "release", 0, <<0, 0>>)
  /\ UNCHANGED <<ring, user_cnt>>

\* msensor_buf_release: the read pointers move behind the window.
ReleasedAt(d) ==
  IF d.n1 > 0 THEN d.n1 ELSE IF d.first + d.n0 >= N THEN 0 ELSE d.first + d.n0

\* msensor_buf_release_data, which get_data itself calls at its end and the
\* user may call again.
ReleaseData(u) ==
  /\ lock = "free" /\ call[u].at \in {"idle", "release"}
  /\ IF u \in Active /\ ~released[u]
     THEN /\ LET at == ReleasedAt(data[u])
             IN  /\ user_ctx' = [user_ctx EXCEPT ![u] = [x |-> at, p |-> at]]
                 /\ Moved(u, at, mark[u])
          /\ released' = [released EXCEPT ![u] = TRUE]
          /\ data' = [data EXCEPT ![u] = Empty]
     ELSE UNCHANGED <<user_ctx, released, data, near>>
  /\ Goto(u, "idle", 0, <<0, 0>>)
  /\ UNCHANGED <<ring, user_cnt, forward, lock, raced, mark>>

Next ==
  \/ Write \/ WriteEnd
  \/ \E u \in Users :
       \/ AddUser(u) \/ AddUserPublish(u) \/ DeleteUser(u)
       \/ \E w \in Windows : GetData(u, w)
       \/ GetDataScan(u) \/ ReleaseData(u)

Spec == Init /\ [][Next]_vars
-----------------------------------------------------------------------------
(* Every variable has its type.                                            *)
TypeOK ==
  /\ buf \in [Slots -> 0 .. MaxPts] /\ last \in 0 .. MaxPts
  /\ write_x \in Slots /\ write_p \in Slots
  /\ user_ctx \in [Users -> [x : 1 - N .. 2 * N - 2, p : -1 .. 2 * N - 2]]
  /\ user_cnt \in 0 .. Cardinality(Users)
  /\ forward \in BOOLEAN /\ released \in [Users -> BOOLEAN]
  /\ lock \in {"free", "writer", "reader"}
  /\ call \in [Users -> [at : {"idle", "add", "scan", "release"}, x : Slots,
                         w : Windows \union {<<0, 0>>}]]
  /\ data \in [Users -> [first : 0 .. 2 * N - 2, n0 : 0 .. N, n1 : 0 .. N - 1]]
  /\ raced \in SUBSET Users /\ near \in SUBSET Users
  /\ mark \in [Users -> 0 .. MaxPts]

(* The columns of a sample are read from the same slot: the read pointers  *)
(* of X and PTS stay equal and inside the ring through pushes, rewinds,    *)
(* reads and releases; pointers torn by an add_user that raced with a      *)
(* writer are repaired by the user's first read from inside the ring.      *)
ColumnsInStep ==
  \A u \in Active \ raced : user_ctx[u].x = user_ctx[u].p /\ user_ctx[u].p \in Slots

\* The samples that data_info shows the user, in order.
Shown(d) == [i \in 1 .. d.n0 + d.n1 |-> IF i <= d.n0 THEN d.first + i - 1 ELSE i - d.n0 - 1]

\* The samples in the ring that lie in the window.
InWindow(w) == {i \in Slots : buf[i] \in w[1] .. w[2]}

(* A read returns exactly the samples of its window that the ring still    *)
(* holds, in the order of their PTS, across the wrap of the ring.  It      *)
(* returns nothing instead when it starts at the write pointer and the     *)
(* ring is taken for empty, which happens only to a user that was shown    *)
(* the newest sample already, or that by its own last move went within     *)
(* WR_GAP of the writer.                                                   *)
WindowExact ==
  [][\A u \in Users \ raced :
       call[u].at = "scan" /\ call'[u].at = "release" =>
         LET s == Shown(data'[u])
             w == call[u].w
         IN  \/ /\ {s[i] : i \in DOMAIN s} = InWindow(w)
                /\ \A i, j \in DOMAIN s : i < j => buf[s[i]] < buf[s[j]]
             \/ /\ DOMAIN s = {} /\ user_ctx[u].p = write_p /\ forward
                /\ mark[u] = last \/ u \in near]_vars

\* How far the reader is ahead of the writer in the ring.
Ahead(u) == (user_ctx[u].x - write_x) % N

(* The overflow test of a write, an equality with the one slot WR_GAP      *)
(* ahead, misses no reader that the writer approaches: a reader is at      *)
(* least WR_GAP slots ahead of the writer, or at the writer with nothing   *)
(* unread, through writes, pushes, joins and the reads of others, unless   *)
(* its own last move (a read of old samples, a release that came late)     *)
(* took it nearer.                                                         *)
GapKept ==
  \A u \in Active \ (raced \union near) :
    (Ahead(u) = 0 /\ mark[u] = last) \/ Ahead(u) \in Gap .. N - 1

(* "min motionsensor gap between reader pointer and write pointer, to      *)
(* prevent new data overlap with reading/processing data"                  *)
(* (motionsensor_buf.h): a write does not reach a reader that has samples  *)
(* still to read.  Violated: a reader that goes nearer than WR_GAP by a    *)
(* read of old samples, or by a release that comes late, is never the one  *)
(* slot that the overflow test compares with.                              *)
NoOverlap ==
  [][\A u \in Active \ raced : Write /\ Ahead(u) # 0 => Ahead(u)' # 0]_vars
=============================================================================
