----------------------------- MODULE MCIspPipe -----------------------------
(* One pipe with three configuration buffers and two of each kind of       *)
(* statistics buffer, in both wake-up modes, with whole and split frames.  *)
EXTENDS IspPipe

MCNodes == 1 .. 3
MCBufs == {1, 2}

\* Once a buffer was lost or recalled, or the pipe started again, only the
\* first two frames are followed.
ShortAfterLoss == recalled \/ leaked \/ starts > 1 => frame <= 2

\* Modes are switched with whole frames only: a switch handles configuration
\* buffers, a split frame statistics.
SwitchWhole == split => switches = 0
=============================================================================
