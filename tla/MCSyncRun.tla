------------------------------ MODULE MCSyncRun ------------------------------
(* Small instances of SyncRun for TLC. *)
EXTENDS SyncRun, TLC

MCSymmetry == Permutations(Sources)
=============================================================================
