----------------------------- MODULE MCEntryTree -----------------------------
(* EntryTree with a small pool of addresses. *)
EXTENDS EntryTree, TLC

Symmetry == Permutations(Entries)
=============================================================================
