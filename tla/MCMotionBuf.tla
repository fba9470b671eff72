---------------------------- MODULE MCMotionBuf -----------------------------
(* The instances of MotionBuf that TLC explores.                           *)
EXTENDS MotionBuf

(* An old window, and a longer one that goes around the end of the ring    *)
(* and is not complete yet when it is first asked for.                     *)
SomeWindows == {<<1, 2>>, <<2, 5>>}

(* Only behaviours in which no add_user races with a writer or a reader.   *)
NoRaces == raced = {}
=============================================================================
