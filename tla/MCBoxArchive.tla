---------------------------- MODULE MCBoxArchive ----------------------------
(* BoxArchive with one source file of two bytes. *)
EXTENDS BoxArchive, TLC

CONSTANTS b1, b2, b3, src

MCSources == src :> <<b1, b2>>
MCReplacements == {<<b3>>}

\* Paths of archives are interchangeable when all of them can be written.
Symmetry == Permutations(Archives)
=============================================================================
