------------------------------- MODULE MCFsTree -------------------------------
(* FsTree with places of up to three names. *)
EXTENDS FsTree

CONSTANTS a, b

MCPlaces == {<<>>, <<a>>, <<b>>, <<a, a>>, <<a, b>>, <<b, a>>, <<a, a, a>>}
===============================================================================
