--------------------------- MODULE MCTransaction ---------------------------
(* Transaction for TLC. *)
EXTENDS Transaction, TLC

MCAttempts == Calls \X (0..(MaxAttempts - 1))
Symmetry == Permutations(Calls)
=============================================================================
