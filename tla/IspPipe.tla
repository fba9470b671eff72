------------------------------ MODULE IspPipe ------------------------------
(***************************************************************************)
(* One ISP pipe at work, offline and not stitched: the sensor starts       *)
(* frames, the interrupt takes a configuration buffer and sums up          *)
(* statistics and wakes the firmware, the firmware turns the statistics    *)
(* into the next configuration, and VI processes frames with the newest    *)
(* configuration.  It composes the buffer queue (IspBeBuf) and the         *)
(* statistics buffers (IspStat).                                           *)
(***************************************************************************)
EXTENDS IspBeBuf, IspStat

CONSTANTS
  MaxFrame,  \* bound: frames that start
  MaxStart,  \* bound: times the pipe is initialised
  MaxSwitch  \* bound: mode switches

ASSUME PipeConstants == MaxFrame \in Nat /\ MaxStart \in Nat /\ MaxSwitch \in Nat

VARIABLES
  split,    \* VI processes each frame in two parts (aidrc or aidm)
  life,     \* how far initialisation and exit are
  irq,      \* where the interrupt is between two sections under the lock
  edge,     \* the firmware thread is woken
  pc,       \* where the firmware thread is
  read,     \* the statistics buffer the firmware holds
  seen,     \* history: the frame of the statistics that the firmware used last
  vi_last,  \* the frame that VI started last
  starts, switches

pipeVars == <<split, life, irq, edge, pc, read, seen, vi_last, starts, switches>>
vars == <<beVars, statVars, pipeVars>>

FeStartMode == run_wakeup_sel = "FE_START"

Init ==
  /\ BeInit /\ StatInit
  /\ split \in BOOLEAN
  /\ life = "down"
  /\ irq = "idle" /\ edge = FALSE
  /\ pc = "wait" /\ read = NoBuf
  /\ seen = 0 /\ vi_last = 0
  /\ starts = 0 /\ switches = 0
-----------------------------------------------------------------------------
(* Initialisation and exit.                                                *)

\* isp_alg_buf_init, and what follows up to isp_init and the enabled
\* interrupt.  VI's input queue is empty: it starts with a new frame, and an
\* interrupt of the time before has long returned.
Start ==
  /\ life = "down" /\ starts < MaxStart /\ irq = "idle"
  /\ BeBufInit /\ StatBufInit
  /\ life' = "up"
  /\ vi_last' = frame
  /\ starts' = starts + 1
  /\ UNCHANGED <<split, irq, edge, pc, read, seen, switches>>

\* ot_mpi_isp_exit: the interrupt is disabled and the thread asked to stop.
StopInterrupt ==
  /\ life = "up"
  /\ life' = "stopping"
  /\ UNCHANGED <<beVars, statVars, split, irq, edge, pc, read, seen, vi_last, starts, switches>>

\* isp_exit, in ot_mpi_isp_exit's section under the pipe's mutex:
\* isp_statistics_exit.  The thread is waiting, or it waits for the mutex: no
\* one waits longer than 40 ms for it to stop.
ExitStatistics ==
  /\ life = "stopping" /\ pc \in {"wait", "run"}
  /\ StatBufExit
  /\ life' = "exit" /\ read' = NoBuf
  /\ UNCHANGED <<beVars, split, irq, edge, pc, seen, vi_last, starts, switches>>

ExitBegin ==
  /\ life = "exit"
  /\ BeExitBegin
  /\ life' = "waiting"
  /\ UNCHANGED <<statVars, split, irq, edge, pc, read, seen, vi_last, starts, switches>>

ExitEnd ==
  /\ life = "waiting"
  /\ BeExitEnd
  /\ life' = "ended"
  /\ UNCHANGED <<statVars, split, irq, edge, pc, read, seen, vi_last, starts, switches>>

\* g_isp_exit_timeout passes while VI holds a buffer: isp_cfg_be_buf_exit
\* ignores the failure, and the buffers stay.
ExitTimeout ==
  /\ life = "waiting" /\ use_cnt # 0
  /\ life' = "ended"
  /\ UNCHANGED <<beVars, statVars, split, irq, edge, pc, read, seen, vi_last, starts, switches>>

\* isp_drv_reset_ctx: mem_init and isp_init are cleared, and the control
\* parameters are those of isp_drv_reset_param again.
ResetCtx ==
  /\ life = "ended"
  /\ SelectWakeup("FE_START")
  /\ life' = "down" /\ edge' = FALSE
  /\ UNCHANGED <<beVars, split, irq, pc, read, seen, vi_last, starts, switches>>

\* ISP_SET_CTRL_PARAM: when the firmware is woken can be changed until the
\* pipe has its memory.
SetCtrlParam ==
  /\ life = "down" /\ irq = "idle"
  /\ \E sel \in {"FE_START", "BE_END"} : SelectWakeup(sel)
  /\ UNCHANGED <<beVars, pipeVars>>
-----------------------------------------------------------------------------
(* The interrupt.                                                          *)

\* A frame starts, isp_irq_route_run: use_node is tested outside the lock.
FrameStart ==
  /\ FeStartMode /\ life = "up" /\ irq = "idle" /\ frame < MaxFrame
  /\ UpdateFePts
  /\ irq' = IF use_node = NoNode THEN "take" ELSE "fe"
  /\ UNCHANGED <<beVars, split, life, edge, pc, read, seen, vi_last, starts, switches>>

\* isp_drv_get_use_node_raw_mode: no free buffer, no statistics.
FrameTake ==
  /\ irq = "take"
  /\ TakeFree
  /\ irq' = IF use_node' = NoNode THEN "idle" ELSE "fe"
  /\ UNCHANGED <<statVars, split, life, edge, pc, read, seen, vi_last, starts, switches>>

FrameFe ==
  /\ irq = "fe"
  /\ FeInsert(frame)
  /\ irq' = "sum"
  /\ UNCHANGED <<beVars, split, life, edge, pc, read, seen, vi_last, starts, switches>>

\* A frame starts, isp_irq_route_run_plus: only its FE statistics are kept.
FrameStartPlus ==
  /\ ~FeStartMode /\ life = "up" /\ frame < MaxFrame
  /\ FeInsert(frame + 1)
  /\ UNCHANGED <<beVars, pipeVars>>

\* isp_drv_run_trigger_prepare_normal.
TriggerPrepare ==
  /\ irq = "trigger"
  /\ IF use_node = NoNode THEN PrepareBeBuf ELSE UNCHANGED beVars
  /\ irq' = IF use_node = NoNode /\ use_node' # NoNode THEN "sum" ELSE "idle"
  /\ UNCHANGED <<statVars, split, life, edge, pc, read, seen, vi_last, starts, switches>>

\* isp_drv_stat_buf_summary_insert and isp_drv_wake_up_thread.
SumUp ==
  /\ irq = "sum"
  /\ SummaryInsert
  /\ irq' = "idle" /\ edge' = TRUE
  /\ UNCHANGED <<beVars, split, life, pc, read, seen, vi_last, starts, switches>>
-----------------------------------------------------------------------------
(* VI.                                                                     *)

\* VI starts to process frame p; frames may be dropped.
ViStart(p) ==
  /\ life \notin {"down"} /\ p \in vi_last + 1 .. frame
  /\ GetReadyBeBuf(p)
  /\ vi_last' = p
  /\ UNCHANGED <<statVars, split, life, irq, edge, pc, read, seen, starts, switches>>

ViHold ==
  /\ HoldBusyBeBuf
  /\ UNCHANGED <<statVars, pipeVars>>

Idle == FeStartMode \/ irq = "idle"

\* The first part of a split frame ends.
ViPart ==
  /\ split /\ Idle
  /\ vi # <<>> /\ ~Head(vi).ended
  /\ SwitchBeOfflineStt(Head(vi).pts, TRUE, life \in {"up", "stopping"}, FALSE)
  /\ UNCHANGED <<beVars, pipeVars>>

\* A frame ends: the BE statistics are switched, then isp_drv_be_end_int_proc.
ViEnd ==
  /\ Idle
  /\ EndJob
  /\ SwitchBeOfflineStt(Head(vi).pts, split, life \in {"up", "stopping"}, TRUE)
  /\ irq' = IF FeStartMode \/ life = "down" THEN irq ELSE "trigger"
  /\ UNCHANGED <<split, life, edge, pc, read, seen, vi_last, starts, switches>>

ViPut ==
  /\ PutFreeBeBuf
  /\ UNCHANGED <<statVars, pipeVars>>
-----------------------------------------------------------------------------
(* The firmware thread, isp_run_thread_proc.                               *)

SwitchBegin ==
  /\ pc = "wait" /\ life = "up" /\ switches < MaxSwitch
  /\ GetBeLastBuf
  /\ pc' = "switch" /\ switches' = switches + 1
  /\ UNCHANGED <<statVars, split, life, irq, edge, read, seen, vi_last, starts>>

SwitchEnd ==
  /\ pc = "switch"
  /\ AllBeBufInit
  /\ pc' = "wait"
  /\ UNCHANGED <<statVars, split, life, irq, edge, read, seen, vi_last, starts, switches>>

\* isp_get_frame_edge.
FrameEdge ==
  /\ pc = "wait" /\ life = "up" /\ edge
  /\ edge' = FALSE /\ pc' = "run"
  /\ UNCHANGED <<beVars, statVars, split, life, irq, read, seen, vi_last, starts, switches>>

\* isp_get_be_free_buf, when the thread has got the pipe's mutex, which
\* ot_mpi_isp_exit holds from isp_exit until the device is closed.
RunGetBuf ==
  /\ pc = "run" /\ life \in {"up", "stopping", "down"}
  /\ pc' = IF life # "down" /\ be_init /\ use_node # NoNode THEN "stat" ELSE "wait"
  /\ UNCHANGED <<beVars, statVars, split, life, irq, edge, read, seen, vi_last, starts, switches>>

\* isp_statistics_get_buf: the buffer held already, the oldest busy one, or
\* the active one, which is not held.
RunGetStat ==
  /\ pc = "stat"
  /\ \/ /\ read # NoBuf
        /\ UNCHANGED <<statVars, read, seen>>
     \/ /\ read = NoBuf
        /\ StatBufUserGet
        /\ read' = Head(st_busy) /\ seen' = stat[Head(st_busy)].pts
     \/ /\ read = NoBuf /\ st_busy = <<>>
        /\ seen' = IF act_stat = NoBuf THEN seen ELSE stat[act_stat].pts
        /\ UNCHANGED <<statVars, read>>
  /\ pc' = "algs"
  /\ UNCHANGED <<beVars, split, life, irq, edge, vi_last, starts, switches>>

\* isp_statistics_put_buf, after the algorithms.
RunPutStat ==
  /\ pc = "algs"
  /\ IF read = NoBuf THEN UNCHANGED statVars ELSE StatBufUserPut(read)
  /\ read' = NoBuf
  /\ pc' = "cfg"
  /\ UNCHANGED <<beVars, split, life, irq, edge, seen, vi_last, starts, switches>>

\* isp_reg_cfg_info_set; with freeze_fw the statistics buffer is kept.
RunCfg ==
  /\ pc \in {"algs", "cfg"}
  /\ BeBufCtl
  /\ pc' = "wait"
  /\ UNCHANGED <<statVars, split, life, irq, edge, read, seen, vi_last, starts, switches>>

\* The error returns of isp_run: nothing is given back.
RunFail ==
  /\ pc \in {"algs", "cfg"}
  /\ pc' = "wait"
  /\ UNCHANGED <<beVars, statVars, split, life, irq, edge, read, seen, vi_last, starts, switches>>
-----------------------------------------------------------------------------
Next ==
  \/ Start \/ StopInterrupt \/ ExitStatistics \/ ExitBegin \/ ExitEnd \/ ExitTimeout \/ ResetCtx
  \/ SetCtrlParam
  \/ FrameStart \/ FrameTake \/ FrameFe \/ FrameStartPlus \/ TriggerPrepare \/ SumUp
  \/ \E p \in 1 .. MaxFrame : ViStart(p)
  \/ ViHold \/ ViPart \/ ViEnd \/ ViPut
  \/ SwitchBegin \/ SwitchEnd
  \/ FrameEdge \/ RunGetBuf \/ RunGetStat \/ RunPutStat \/ RunCfg \/ RunFail

Spec == Init /\ [][Next]_vars
-----------------------------------------------------------------------------
ViNodes == {vi[i].node : i \in 1 .. Len(vi)}
RefsOf(n) == Cardinality({i \in 1 .. Len(vi) : vi[i].node = n})

(* Types; and every statistics buffer is on exactly one of the three lists *)
(* while they exist, the one the firmware reads on its user list.          *)
TypeOK ==
  /\ be_init \in BOOLEAN /\ exit_state \in {"READY", "WAITING", "EXIT"}
  /\ use_node \in Nodes \union {NoNode} /\ newest \in Nodes \union {NoNode}
  /\ hold_cnt \in [Nodes -> 0 .. MaxJobs] /\ use_cnt \in 0 .. MaxJobs
  /\ Len(vi) <= MaxJobs /\ ViNodes \subseteq Nodes
  /\ act_stat \in Bufs \union {NoBuf} /\ Len(fe_busy) <= NumFe
  /\ frame \in 0 .. MaxFrame
  /\ irq \in {"idle", "take", "fe", "trigger", "sum"}
  /\ pc \in {"wait", "switch", "run", "stat", "algs", "cfg"}
  /\ life \in {"down", "up", "stopping", "exit", "waiting", "ended"}
  /\ stat_init => /\ ToSet(st_free \o st_busy \o st_user) = Bufs
                  /\ Len(st_free \o st_busy \o st_user) = Cardinality(Bufs)
                  /\ ToSet(st_user) = {read} \ {NoBuf}

(* A configuration buffer is in exactly one place: free, busy or being     *)
(* filled, whatever the firmware, the interrupt, VI and a mode switch do,  *)
(* unless the interrupt that tested use_node outside the lock lost one.    *)
BuffersAccounted ==
  be_init /\ ~leaked =>
    LET all == free_list \o busy_list \o (IF use_node = NoNode THEN <<>> ELSE <<use_node>>)
    IN ToSet(all) = Nodes /\ Len(all) = Cardinality(Nodes)

(* A configuration that VI works with stays: it is counted, on the busy    *)
(* list, not filled again and not given back to MMZ by an exit that waits  *)
(* or gives up, until VI puts it or a mode switch recalls it.              *)
HeldConfigStays ==
  ~recalled =>
    /\ use_cnt = Len(vi)
    /\ ViNodes # {} => be_init
    /\ be_init => \A n \in Nodes : hold_cnt[n] = RefsOf(n)
    /\ ViNodes \subseteq ToSet(busy_list)

(* VI always finds a configuration, and it is the one published last: what *)
(* it is given never goes back, in whatever order frames, puts and the     *)
(* firmware come.                                                          *)
NewestHanded ==
  be_init /\ ~recalled /\ pc # "switch" => busy_list # <<>> /\ Last(busy_list) = newest

(* With two buffers more than VI works with, the interrupt finds a buffer  *)
(* for the next configuration at every frame ("get FreeBeBuf is fail!").   *)
BufferForNextFrame ==
  be_init /\ ~recalled /\ ~leaked /\ Cardinality(ViNodes) + 2 <= Cardinality(Nodes) =>
    use_node # NoNode \/ free_list # <<>>

(* BE_END: every frame that is summed up gives statistics, BE and FE of    *)
(* the same frame, as long as VI is not NumFe frames behind the sensor.    *)
(* (A recalled buffer lets the pipe exit and start again under a frame of  *)
(* VI, whose FE statistics went with the old buffers.)                     *)
StatPaired ==
  [][~FeStartMode /\ irq = "sum" /\ irq' = "idle" /\ stat_init /\ ~(recalled /\ starts > 1) =>
       /\ st_busy' # <<>>
       /\ LET s == stat'[Last(st_busy')]
          IN s.pts = frame_pts /\ s.be = s.pts /\ (frame - s.pts < NumFe => s.fe = s.pts)]_vars

(* The buffer that the firmware holds keeps its statistics while it        *)
(* computes, though the interrupt goes on filling buffers for later        *)
(* frames; only its AF windows may be exchanged for those of a newer       *)
(* frame, never an older one.  Nothing is claimed for the active buffer    *)
(* that the firmware falls back on and does not hold.                      *)
HeldStatStable ==
  [][\A b \in Bufs : read = b /\ read' = b /\ stat_init' =>
       /\ stat'[b] = [stat[b] EXCEPT !.af = stat'[b].af]
       /\ stat'[b].af >= stat[b].af]_vars

(* The firmware never computes with statistics older than those of its     *)
(* last run, whether it takes a busy buffer or falls back on the active.   *)
SeenInOrder == [][seen' >= seen]_vars
=============================================================================
