------------------------------ MODULE IspBeBuf ------------------------------
(***************************************************************************)
(* The queue of BE configuration buffers of one ISP pipe, offline and not  *)
(* stitched.  The firmware fills the buffer in use_node and publishes it   *)
(* to the busy list; VI takes the newest busy buffer for each frame it     *)
(* processes and gives it back.  Each operator is one section under        *)
(* g_isp_lock, or a test made outside it.                                  *)
(***************************************************************************)
EXTENDS Integers, Sequences, SequencesExt, FiniteSets, IspList

CONSTANTS
  Nodes,   \* be_buf_num buffers, 1 .. be_buf_num; one is named by its address
  NoNode,  \* TD_NULL
  MaxJobs  \* bound: references that VI holds at a time

ASSUME BeBufConstants ==
  /\ IsFiniteSet(Nodes) /\ Nodes = 1 .. Cardinality(Nodes) /\ Cardinality(Nodes) >= 2
  /\ NoNode \notin Nodes
  /\ MaxJobs \in Nat

VARIABLES
  be_init,    \* be_buf_info.init
  free_list, busy_list,
  use_node,
  hold_cnt,
  use_cnt,
  exit_state,
  vi,         \* the references VI holds, in the order it gives them back
  newest,     \* history: the last configuration published
  recalled,   \* history: a mode switch took back a buffer that VI held
  leaked      \* history: use_node was overwritten by the interrupt

beVars == <<be_init, free_list, busy_list, use_node, hold_cnt, use_cnt, exit_state,
            vi, newest, recalled, leaked>>
history == <<newest, recalled, leaked>>

NoHold == [n \in Nodes |-> 0]
Held(n) == hold_cnt[n] > 0
HeldNodes == {n \in Nodes : Held(n)}

\* isp_drv_ctx of a pipe that was never initialised.
BeInit ==
  /\ be_init = FALSE
  /\ free_list = <<>> /\ busy_list = <<>>
  /\ use_node = NoNode
  /\ hold_cnt = NoHold /\ use_cnt = 0
  /\ exit_state = "EXIT"
  /\ vi = <<>>
  /\ newest = NoNode /\ recalled = FALSE /\ leaked = FALSE
-----------------------------------------------------------------------------
(* The calls of the firmware.                                              *)

\* isp_drv_be_buf_init, isp_drv_get_be_buf_first and isp_drv_all_be_buf_init
\* of one initialisation: the interrupt and VI are kept out until isp_init is
\* set, so their order does not show.
BeBufInit ==
  /\ ~be_init
  /\ be_init' = TRUE
  /\ free_list' = [i \in 1 .. Cardinality(Nodes) - 1 |-> i + 1]
  /\ busy_list' = <<1>>
  /\ use_node' = NoNode
  /\ hold_cnt' = NoHold
  /\ exit_state' = "READY"
  /\ newest' = 1
  /\ UNCHANGED <<use_cnt, vi, recalled, leaked>>

\* Mutants of BeBufCtl: use_node is not cleared; held buffers are recycled
\* too; nothing is recycled.
BeBufCtlKeeps ==
  /\ be_init
  /\ free_list' = free_list \o Kept(busy_list, Nodes \ HeldNodes)
  /\ busy_list' = Kept(busy_list, HeldNodes) \o (IF use_node = NoNode THEN <<>> ELSE <<use_node>>)
  /\ newest' = IF use_node = NoNode THEN newest ELSE use_node
  /\ UNCHANGED <<be_init, use_node, hold_cnt, use_cnt, exit_state, vi, recalled, leaked>>
BeBufCtlTakesHeld ==
  /\ be_init /\ use_node # NoNode
  /\ free_list' = free_list \o busy_list
  /\ busy_list' = <<use_node>>
  /\ newest' = use_node /\ use_node' = NoNode
  /\ UNCHANGED <<be_init, hold_cnt, use_cnt, exit_state, vi, recalled, leaked>>
BeBufCtlOnlyAdds ==
  /\ be_init /\ use_node # NoNode
  /\ busy_list' = Append(busy_list, use_node)
  /\ newest' = use_node /\ use_node' = NoNode
  /\ UNCHANGED <<be_init, free_list, hold_cnt, use_cnt, exit_state, vi, recalled, leaked>>

\* isp_drv_be_buf_ctl: busy buffers that nobody holds are free again, then
\* the configuration of use_node is published.
BeBufCtl ==
  /\ be_init
  /\ IF use_node = NoNode THEN UNCHANGED <<free_list, busy_list, newest>>
     ELSE /\ free_list' = free_list \o Kept(busy_list, Nodes \ HeldNodes)
          /\ busy_list' = Append(Kept(busy_list, HeldNodes), use_node)
          /\ newest' = use_node
  /\ use_node' = NoNode
  /\ UNCHANGED <<be_init, hold_cnt, use_cnt, exit_state, vi, recalled, leaked>>

\* isp_drv_get_be_last_buf, at a mode switch: every busy buffer is taken
\* back, held or not, and the last one is filled again.
GetBeLastBuf ==
  /\ be_init
  /\ LET all == free_list \o busy_list
         taken == use_node = NoNode
     IN /\ taken => all # <<>>
        /\ use_node' = IF taken THEN Last(all) ELSE use_node
        /\ free_list' = IF taken THEN Front(all) ELSE all
  /\ busy_list' = <<>>
  /\ hold_cnt' = [n \in Nodes |-> IF n \in ToSet(busy_list) THEN 0 ELSE hold_cnt[n]]
  /\ recalled' = (recalled \/ \E n \in ToSet(busy_list) : Held(n))
  /\ UNCHANGED <<be_init, use_cnt, exit_state, vi, newest, leaked>>

\* isp_drv_all_be_buf_init, at the end of a mode switch: the configuration is
\* copied to the free buffers and published.
AllBeBufInit ==
  /\ be_init /\ use_node # NoNode
  /\ busy_list' = Append(busy_list, use_node)
  /\ newest' = use_node
  /\ use_node' = NoNode
  /\ UNCHANGED <<be_init, free_list, hold_cnt, use_cnt, exit_state, vi, recalled, leaked>>

\* isp_drv_be_buf_exit: up to the wait.
BeExitBegin ==
  /\ be_init
  /\ exit_state' = "WAITING"
  /\ UNCHANGED <<be_init, free_list, busy_list, use_node, hold_cnt, use_cnt, vi, history>>

\* isp_drv_be_buf_exit: the wait is over, the buffers are given back to MMZ.
BeExitEnd ==
  /\ use_cnt = 0
  /\ be_init' = FALSE
  /\ free_list' = <<>> /\ busy_list' = <<>>
  /\ exit_state' = "EXIT"
  /\ UNCHANGED <<use_node, hold_cnt, use_cnt, vi, history>>
-----------------------------------------------------------------------------
(* The interrupt takes a free buffer for the next configuration.           *)

TakeFree ==
  /\ use_node' = IF free_list = <<>> THEN NoNode ELSE Head(free_list)
  /\ free_list' = IF free_list = <<>> THEN <<>> ELSE Tail(free_list)
  /\ leaked' = (leaked \/ use_node # NoNode)
  /\ UNCHANGED <<be_init, busy_list, hold_cnt, use_cnt, exit_state, vi, newest, recalled>>

\* isp_drv_prepare_be_buf: not while a configuration is being filled.
PrepareBeBuf == use_node = NoNode /\ TakeFree
-----------------------------------------------------------------------------
(* The functions exported to VI.  VI ends its frames in the order in which *)
(* it started them.                                                        *)

\* isp_drv_get_ready_be_buf, for the frame with time stamp p.
GetReadyBeBuf(p) ==
  /\ Len(vi) < MaxJobs
  /\ exit_state \notin {"EXIT", "WAITING"}
  /\ busy_list # <<>>
  /\ LET n == Last(busy_list)
     IN /\ hold_cnt' = [hold_cnt EXCEPT ![n] = @ + 1]
        /\ vi' = Append(vi, [node |-> n, pts |-> p, ended |-> FALSE])
  /\ use_cnt' = use_cnt + 1
  /\ exit_state' = "READY"
  /\ UNCHANGED <<be_init, free_list, busy_list, use_node, history>>

\* isp_drv_hold_busy_be_buf, for the frame in process; it succeeds also for a
\* buffer that is no longer on the busy list, and counts nothing then.
HoldBusyBeBuf ==
  /\ vi # <<>> /\ Len(vi) < MaxJobs /\ ~Head(vi).ended
  /\ exit_state # "EXIT"
  /\ IF Head(vi).node \in ToSet(busy_list)
     THEN /\ hold_cnt' = [hold_cnt EXCEPT ![Head(vi).node] = @ + 1]
          /\ use_cnt' = use_cnt + 1
     ELSE UNCHANGED <<hold_cnt, use_cnt>>
  /\ vi' = <<Head(vi), [Head(vi) EXCEPT !.ended = TRUE]>> \o Tail(vi)
  /\ exit_state' = IF exit_state # "WAITING" THEN "READY" ELSE exit_state
  /\ UNCHANGED <<be_init, free_list, busy_list, use_node, history>>

\* The frame in process ends.
EndJob ==
  /\ vi # <<>> /\ ~Head(vi).ended
  /\ vi' = [vi EXCEPT ![1].ended = TRUE]
  /\ UNCHANGED <<be_init, free_list, busy_list, use_node, hold_cnt, use_cnt, exit_state, history>>

\* Mutant of PutBusyToFree: the last busy buffer is freed too.
PutBusyToFreeAlways(n) ==
  LET left == IF Held(n) THEN hold_cnt[n] - 1 ELSE 0
      drop == left = 0
  IN IF n \notin ToSet(busy_list) THEN UNCHANGED <<free_list, busy_list, hold_cnt>>
     ELSE /\ hold_cnt' = [hold_cnt EXCEPT ![n] = left]
          /\ busy_list' = IF drop THEN Kept(busy_list, Nodes \ {n}) ELSE busy_list
          /\ free_list' = IF drop THEN Append(free_list, n) ELSE free_list

\* isp_drv_put_busy_to_free.
PutBusyToFree(n) ==
  LET left == IF Held(n) THEN hold_cnt[n] - 1 ELSE 0
      drop == left = 0 /\ Len(busy_list) > 1
  IN IF n \notin ToSet(busy_list) THEN UNCHANGED <<free_list, busy_list, hold_cnt>>
     ELSE /\ hold_cnt' = [hold_cnt EXCEPT ![n] = left]
          /\ busy_list' = IF drop THEN Kept(busy_list, Nodes \ {n}) ELSE busy_list
          /\ free_list' = IF drop THEN Append(free_list, n) ELSE free_list

\* isp_drv_put_free_be_buf.
PutFreeBeBuf ==
  /\ vi # <<>> /\ Head(vi).ended
  /\ vi' = Tail(vi)
  /\ IF exit_state = "EXIT" THEN UNCHANGED <<free_list, busy_list, hold_cnt, use_cnt>>
     ELSE /\ PutBusyToFree(Head(vi).node)
          /\ use_cnt' = IF use_cnt > 0 THEN use_cnt - 1 ELSE 0
  /\ UNCHANGED <<be_init, use_node, exit_state, history>>
=============================================================================
