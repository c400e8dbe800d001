----------------------------- MODULE MCHeaderTree -----------------------------
(* HeaderTree with interchangeable entries and names. *)
EXTENDS HeaderTree

Symmetry == Permutations(Entries) \cup Permutations(Names)
=============================================================================
