------------------------------- MODULE Lists -------------------------------
(***************************************************************************)
(* Fixed arrays used as lists, the way bm-wire keeps its tables: the first *)
(* entry that matches, a removal that closes the gap, and an append that   *)
(* is refused once the array is full.  AppendAnyway is a slip: what the    *)
(* bound is there to prevent.                                              *)
(***************************************************************************)
EXTENDS Integers, Sequences

First(S) == CHOOSE i \in S : \A j \in S : i <= j
\* copy_within and a shorter length.
Without(q, i) == [j \in 1..Len(q) - 1 |-> IF j < i THEN q[j] ELSE q[j + 1]]
WithoutFirst(q, S) == IF S = {} THEN q ELSE Without(q, First(S))
AppendAnyway(q, n, e) == Append(q, e)  \* slip
AppendUpTo(q, n, e) == IF Len(q) = n THEN q ELSE Append(q, e)
=============================================================================
