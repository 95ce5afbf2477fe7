---------------------------- MODULE MCLifoQueue ----------------------------
(* LifoQueue for TLC: a promise per item and consumer is always enough.    *)
EXTENDS LifoQueue, TLC

Symmetry == Permutations(Promises)
=============================================================================
