------------------------------ MODULE MCRunLock ------------------------------
(* Small instances of RunLock for TLC. *)
EXTENDS RunLock, TLC

MCSymmetry == Permutations(Pids)
=============================================================================
