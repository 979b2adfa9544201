------------------------------ MODULE MCVault ------------------------------
(* Small instances of Vault for TLC. *)
EXTENDS Vault, TLC

CONSTANTS b1, b2, b3, x, y, id1, id2

(* b2 and b3 are two bundles of one identity: the same capture version     *)
(* discovered under two directories of the source.                         *)
MCIdentity == [b \in Bundles |-> IF b = b1 THEN id1 ELSE id2]
MCContent == [b \in Bundles |-> IF b = b1 THEN {x} ELSE IF b = b2 THEN {x, y} ELSE {y}]
MCSize == [o \in Objects |-> IF o = x THEN 2 ELSE 1]

MCSymmetry == Permutations(Writers)
=============================================================================
