---------------------------- MODULE ArchiveLedger ----------------------------
(***************************************************************************)
(* What the archive of a source promises: numbered versions without a gap, *)
(* none of which is ever changed or removed.                               *)
(***************************************************************************)
EXTENDS Naturals, Sequences

CONSTANT Contents

VARIABLE archive

Init == archive = <<>>

Next == \E x \in Contents : archive' = Append(archive, x)

Spec == Init /\ [][Next]_archive
=============================================================================
