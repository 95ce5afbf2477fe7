---------------------------- MODULE MCClientPool ----------------------------
(* ClientPool for TLC.  Calls of one kind are interchangeable unless one   *)
(* of them is made inside the transaction block of another.                *)
EXTENDS ClientPool, TLC

CONSTANTS o1, o2, o3, e1, c1, c2, t1

Independent == [p \in Ops |-> NoCall]
Nested == [p \in Ops |-> IF p = o1 THEN o2 ELSE NoCall]

Symmetry == Permutations(Ops) \cup Permutations(Closers)
=============================================================================
