--------------------------- MODULE MCArchiveStore ---------------------------
(* Small instances of ArchiveStore for TLC. *)
EXTENDS ArchiveStore, TLC

MCSymmetry == Permutations(Captures)
=============================================================================
