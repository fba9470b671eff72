--------------------------- MODULE MCMmzShareRace ---------------------------
(* The owner of a block and a process that opened the device itself. *)
EXTENDS MmzShare

CONSTANTS owner, fd1, fd2

EachOpens == [f \in Files |-> IF f = fd1 THEN owner ELSE CHOOSE p \in Procs : p # owner]
OwnCaller == [p \in Procs |-> IF p = owner THEN {fd1} ELSE {fd2}]
=============================================================================
