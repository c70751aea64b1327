----------------------------- MODULE Positions -----------------------------
(***************************************************************************)
(* What a loop makes of a sequence when it takes some of its symbols and   *)
(* passes over the others: the symbols at a set of positions, in order.    *)
(* CutString drops stop words this way, ReadFile line ends, ParseContent   *)
(* tags, and boost::split and getline what stands between two marks.       *)
(***************************************************************************)
EXTENDS Integers, Sequences, FiniteSets

(* The n-th smallest number of a set. *)
Nth(set, n) == CHOOSE s \in set : Cardinality({r \in set : r <= s}) = n

Selected(seq, places) == [n \in 1 .. Cardinality(places) |-> seq[Nth(places, n)]]
=============================================================================
