------------------------------ MODULE QueueOps ------------------------------
(***************************************************************************)
(* Array.filter on the queues and histories of the control state, without  *)
(* recursion: the n-th element of the result is the element at the n-th of *)
(* the positions that are kept.                                            *)
(***************************************************************************)
EXTENDS Integers, Sequences, FiniteSets

(* Positions of q whose element is not dropped. *)
Kept(q, dropped) == {i \in 1 .. Len(q) : q[i] \notin dropped}

(* How many positions of K there are up to i. *)
Rank(K, i) == Cardinality({k \in K : k <= i})

(* q without the elements in dropped, in the same order. *)
Without(q, dropped) ==
    LET K == Kept(q, dropped) IN
    [n \in 1 .. Cardinality(K) |-> q[CHOOSE i \in K : Rank(K, i) = n]]

(* The elements of a sequence. *)
ElementsOf(q) == {q[i] : i \in 1 .. Len(q)}
=============================================================================
