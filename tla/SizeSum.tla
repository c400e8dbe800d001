-------------------------------- MODULE SizeSum --------------------------------
(***************************************************************************)
(* How many bytes a set of files has in all: what the code adds up file by *)
(* file is here the number of its bytes.                                   *)
(***************************************************************************)
EXTENDS FiniteSets, Naturals

\* Byte i of file f is the pair of both.
BytesOf(size, F) == UNION {{f} \X (1 .. size[f]) : f \in F}

\* The sum of size[f] over the files f in F.
SizeSum(size, F) == Cardinality(BytesOf(size, F))
=============================================================================
