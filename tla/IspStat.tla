------------------------------ MODULE IspStat ------------------------------
(***************************************************************************)
(* The statistics buffers of one ISP pipe.  At frame start the interrupt   *)
(* keeps the FE statistics of the frame; when a frame is summed up, BE and *)
(* FE statistics are put together in a buffer of the busy list, which the  *)
(* firmware takes to its user list and puts back.  A buffer's contents are *)
(* the time stamps of the frames they come from.  Each operator is one     *)
(* section under g_isp_lock.  Statistics are taken for every frame         *)
(* (stat_intvl 1).  The AF windows, which are also written into a buffer   *)
(* that is not being filled, are told apart from the other BE statistics.  *)
(***************************************************************************)
EXTENDS Integers, Sequences, SequencesExt, FiniteSets, IspList

CONSTANTS
  Bufs,    \* MAX_ISP_STAT_BUF_NUM buffers
  NoBuf,   \* TD_NULL
  NumFe    \* MAX_ISP_FE_STAT_BUF_NUM

ASSUME StatConstants ==
  /\ IsFiniteSet(Bufs) /\ Cardinality(Bufs) >= 2 /\ NoBuf \notin Bufs
  /\ NumFe \in Nat \ {0}

VARIABLES
  run_wakeup_sel, \* g_isp_run_wakeup_sel: fixed while the pipe is initialised
  stat_init,      \* statistics_buf.init and fe_statistics_buf.init
  st_free, st_busy, st_user,
  act_stat,
  stat,           \* the contents of the buffers
  fe_busy,        \* the frames in fe_statistics_buf.busy_list
  frame,          \* fe_frame_pts: the frame that started last
  frame_pts,      \* the frame VI ended last
  ready_stt,      \* the frame of the BE statistics at last_ready_be_stt_idx
  be_broken

statVars == <<run_wakeup_sel, stat_init, st_free, st_busy, st_user, act_stat, stat, fe_busy,
              frame, frame_pts, ready_stt, be_broken>>
statLists == <<st_free, st_busy, st_user>>

Blank == [b \in Bufs |-> [pts |-> 0, be |-> 0, fe |-> 0, af |-> 0]]

StatInit ==
  /\ run_wakeup_sel = "FE_START"
  /\ stat_init = FALSE
  /\ st_free = <<>> /\ st_busy = <<>> /\ st_user = <<>>
  /\ act_stat = NoBuf
  /\ stat = Blank
  /\ fe_busy = <<>>
  /\ frame = 0 /\ frame_pts = 0 /\ ready_stt = 0
  /\ be_broken = FALSE
-----------------------------------------------------------------------------
\* isp_drv_stat_buf_init and isp_drv_fe_stat_buf_init.
StatBufInit ==
  /\ ~stat_init
  /\ stat_init' = TRUE
  /\ st_free' = SetToSeq(Bufs) /\ st_busy' = <<>> /\ st_user' = <<>>
  /\ stat' = Blank
  /\ fe_busy' = <<>>
  /\ UNCHANGED <<run_wakeup_sel, act_stat, frame, frame_pts, ready_stt, be_broken>>

\* isp_drv_stat_buf_exit.
StatBufExit ==
  /\ stat_init' = FALSE
  /\ st_free' = <<>> /\ st_busy' = <<>> /\ st_user' = <<>>
  /\ act_stat' = NoBuf
  /\ fe_busy' = <<>>
  /\ UNCHANGED <<run_wakeup_sel, stat, frame, frame_pts, ready_stt, be_broken>>

\* isp_drv_stat_buf_user_get: the oldest statistics.
StatBufUserGet ==
  /\ stat_init /\ st_busy # <<>>
  /\ st_user' = Append(st_user, Head(st_busy))
  /\ st_busy' = Tail(st_busy)
  /\ UNCHANGED <<run_wakeup_sel, stat_init, st_free, act_stat, stat, fe_busy, frame, frame_pts,
                 ready_stt, be_broken>>

\* isp_drv_stat_buf_user_put.
StatBufUserPut(b) ==
  /\ stat_init /\ b \in ToSet(st_user)
  /\ st_user' = Kept(st_user, Bufs \ {b})
  /\ st_free' = Append(st_free, b)
  /\ UNCHANGED <<run_wakeup_sel, stat_init, st_busy, act_stat, stat, fe_busy, frame, frame_pts,
                 ready_stt, be_broken>>
-----------------------------------------------------------------------------
\* Mutant of FeKept: only the newest frame is kept in both modes.
FeKeptNone == <<>>

\* isp_drv_fe_stat_free_list_prepare: what is left on the FE busy list when
\* it must take another frame.
FeKept ==
  IF run_wakeup_sel = "FE_START" THEN <<>>
  ELSE IF Len(fe_busy) = NumFe THEN Tail(fe_busy) ELSE fe_busy

\* isp_drv_fe_stat_buf_busy_put, called by isp_drv_stat_buf_fe_insert: the
\* statistics of frame p, which started last.
FeInsert(p) ==
  /\ frame' = p
  /\ fe_busy' = IF stat_init THEN Append(FeKept, p) ELSE fe_busy
  /\ UNCHANGED <<run_wakeup_sel, stat_init, statLists, act_stat, stat, frame_pts,
                 ready_stt, be_broken>>

\* isp_drv_fe_stat_buf_busy_get: the frames that are put back on the way to
\* frame p, and whether p is found.
FeFrom(p) ==
  IF run_wakeup_sel = "FE_START" THEN fe_busy ELSE Kept(fe_busy, {q \in ToSet(fe_busy) : q >= p})
FeFound(p) == FeFrom(p) # <<>> /\ (run_wakeup_sel = "FE_START" \/ Head(FeFrom(p)) = p)

\* isp_drv_delete_busy_put_free.
Recycled == st_free \o st_busy

\* Mutant of StatBufBusyPut: the first active buffer stays the active one.
StatBufBusyPutStaleAct ==
  LET left == IF be_broken THEN st_free ELSE Recycled
      kept == IF be_broken THEN st_busy ELSE <<>>
      b == Head(left)
      found == FeFound(frame_pts)
  IN IF ~stat_init \/ left = <<>> THEN UNCHANGED <<st_free, st_busy, act_stat, stat, fe_busy>>
     ELSE /\ st_free' = Tail(left)
          /\ st_busy' = Append(kept, b)
          /\ act_stat' = IF act_stat = NoBuf THEN b ELSE act_stat
          /\ stat' = [stat EXCEPT ![b] =
               [pts |-> frame_pts,
                be |-> IF be_broken THEN @.be ELSE ready_stt,
                fe |-> IF found THEN Head(FeFrom(frame_pts)) ELSE @.fe,
                af |-> IF be_broken THEN @.af ELSE ready_stt]]
          /\ fe_busy' = IF found THEN Tail(FeFrom(frame_pts)) ELSE FeFrom(frame_pts)

\* isp_drv_stat_buf_busy_put: after a broken frame the BE statistics are
\* already in the first free buffer, and the busy list is not emptied.
StatBufBusyPut ==
  LET left == IF be_broken THEN st_free ELSE Recycled
      kept == IF be_broken THEN st_busy ELSE <<>>
      b == Head(left)
      found == FeFound(frame_pts)
  IN IF ~stat_init \/ left = <<>> THEN UNCHANGED <<st_free, st_busy, act_stat, stat, fe_busy>>
     ELSE /\ st_free' = Tail(left)
          /\ st_busy' = Append(kept, b)
          /\ act_stat' = b
          /\ stat' = [stat EXCEPT ![b] =
               [pts |-> frame_pts,
                be |-> IF be_broken THEN @.be ELSE ready_stt,
                fe |-> IF found THEN Head(FeFrom(frame_pts)) ELSE @.fe,
                af |-> IF be_broken THEN @.af ELSE ready_stt]]
          /\ fe_busy' = IF found THEN Tail(FeFrom(frame_pts)) ELSE FeFrom(frame_pts)

\* isp_drv_stat_buf_summary_insert.
SummaryInsert ==
  /\ StatBufBusyPut
  /\ UNCHANGED <<run_wakeup_sel, stat_init, st_user, frame, frame_pts, ready_stt, be_broken>>
-----------------------------------------------------------------------------
\* isp_drv_be_af_stat_read and isp_drv_read_af_offline_stats_end_int: the AF
\* windows of frame p go into the active buffer of s, wherever it is.
AfIntoAct(s, p) == IF act_stat = NoBuf THEN s ELSE [s EXCEPT ![act_stat].af = p]

\* isp_drv_be_af_offline_statistics_read_end_int.
AfStatRead(p) ==
  /\ stat' = AfIntoAct(stat, p)
  /\ UNCHANGED <<st_free, st_busy>>

\* Mutants of BeStatBufRead: the buffer read into is taken off the list; all
\* of the BE statistics go into the active buffer.
BeStatBufReadTakes(p) ==
  /\ st_free' = IF Recycled = <<>> THEN <<>> ELSE Tail(Recycled)
  /\ st_busy' = <<>>
  /\ stat' = IF Recycled = <<>> THEN stat
             ELSE AfIntoAct([stat EXCEPT ![Head(Recycled)].be = p, ![Head(Recycled)].af = p], p)
BeStatBufReadIntoAct(p) ==
  /\ st_free' = Recycled
  /\ st_busy' = <<>>
  /\ stat' = IF Recycled = <<>> \/ act_stat = NoBuf THEN stat
             ELSE [stat EXCEPT ![act_stat].be = p, ![act_stat].af = p]

\* isp_drv_be_stat_buf_read: into the first free buffer, which stays there;
\* the AF windows are copied on.
BeStatBufRead(p) ==
  /\ st_free' = Recycled
  /\ st_busy' = <<>>
  /\ stat' = IF Recycled = <<>> THEN stat
             ELSE AfIntoAct([stat EXCEPT ![Head(Recycled)].be = p, ![Head(Recycled)].af = p], p)

\* isp_drv_switch_be_offline_stt_index and isp_drv_be_end_read_stat: the BE
\* statistics of frame p are complete; broken says that VI splits its frames.
\* At the end of the frame VI also calls isp_drv_update_pts, and the interrupt
\* reads the AF windows of a frame that was not split.
SwitchBeOfflineStt(p, broken, running, last) ==
  /\ ready_stt' = p
  /\ frame_pts' = IF last THEN p ELSE frame_pts
  /\ be_broken' = IF running THEN broken ELSE be_broken
  /\ CASE running /\ stat_init /\ broken -> BeStatBufRead(p)
       [] running /\ stat_init /\ ~broken /\ last -> AfStatRead(p)
       [] OTHER -> UNCHANGED <<st_free, st_busy, stat>>
  /\ UNCHANGED <<run_wakeup_sel, stat_init, st_user, act_stat, fe_busy, frame>>

\* isp_drv_update_fe_pts: VI announces the frame that starts.
UpdateFePts ==
  /\ frame' = frame + 1
  /\ UNCHANGED <<run_wakeup_sel, stat_init, statLists, act_stat, stat, fe_busy, frame_pts,
                 ready_stt, be_broken>>

\* isp_drv_set_ctrl_param and isp_drv_reset_param: when the firmware is woken.
SelectWakeup(sel) ==
  /\ run_wakeup_sel' = sel
  /\ UNCHANGED <<stat_init, statLists, act_stat, stat, fe_busy, frame, frame_pts, ready_stt,
                 be_broken>>
=============================================================================
