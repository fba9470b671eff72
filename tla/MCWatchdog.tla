----------------------------- MODULE MCWatchdog -----------------------------
(* The instance of Watchdog that TLC explores.                             *)
EXTENDS Watchdog

CONSTANTS fd1, fd2

M(margin, nodeamon, fiq_support) == [margin |-> margin, nodeamon |-> nodeamon, fiq |-> fiq_support]

(* Every way to load the module: with and without the daemon and the timer,*)
(* a margin of 0, which is refused, and in fiq mode one whose interval     *)
(* fits its 32 bits (2 s) and one whose interval does not (3 s).           *)
AllModules == {M(2, FALSE, FALSE), M(0, FALSE, FALSE), M(2, TRUE, FALSE),
               M(2, FALSE, TRUE), M(3, FALSE, TRUE), M(2, TRUE, TRUE)}

(* The races of two processes depend neither on the timer nor on a refused *)
(* margin: there one process is enough.                                    *)
AllOpeners == [m \in Modules |-> IF m.fiq \/ m.margin = 0 THEN {fd1} ELSE Files]

(* Refused, legal (3 s is the maximum here) and too large.                 *)
SomeTimeouts == {-1, 3, 4}

(* The legal one is long enough for the daemon.                            *)
ASSUME TimeoutsCover
=============================================================================
