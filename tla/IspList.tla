------------------------------ MODULE IspList ------------------------------
(***************************************************************************)
(* The linked lists of the ISP driver, as sequences of the buffers linked. *)
(***************************************************************************)
EXTENDS Integers, Sequences, FiniteSets

\* A walk of list s that unlinks the entries outside T: those in T, in order.
Kept(s, T) ==
  LET left == {i \in DOMAIN s : s[i] \in T}
      Rank(i) == Cardinality({j \in left : j <= i})
  IN [k \in 1 .. Cardinality(left) |-> s[CHOOSE i \in left : Rank(i) = k]]
=============================================================================
