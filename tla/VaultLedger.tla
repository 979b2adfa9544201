----------------------------- MODULE VaultLedger -----------------------------
(***************************************************************************)
(* What a vault promises to its readers: the archive units they see are    *)
(* immutable, one per identity, and only ever grow, a whole ingestion at a *)
(* time.                                                                   *)
(***************************************************************************)
CONSTANTS Bundles, Identity

VARIABLE imported   \* the bundles of the latest valid catalog generation

Init == imported = {}

(* An ingestion of new bundles becomes visible at once. *)
Import(S) ==
  /\ \A b \in S, c \in S \cup imported : Identity[b] = Identity[c] => b = c
  /\ S \cap imported = {}
  /\ imported' = imported \cup S

Next == \E S \in SUBSET Bundles : Import(S)

Spec == Init /\ [][Next]_imported
=============================================================================
