------------------------------ MODULE MCUntar ------------------------------
(***************************************************************************)
(* Untar for TLC.  Blocks of two bytes; packages with an empty file, a     *)
(* file of half a block, one of a block and a half, a member that is no    *)
(* regular file but has data, and one name in all of them, in the last one *)
(* twice, with different lengths.                                          *)
(***************************************************************************)
EXTENDS Untar

MCName == {"a", "b", "x"}

Entry(name, type, size) == [name |-> name, type |-> type, size |-> size]

MCPackages ==
    {<<Entry("x", "other", 1), Entry("b", "TREG", 0), Entry("a", "TREG", 3)>>,
     <<Entry("a", "TREG", 3), Entry("b", "TREG", 1)>>,
     <<Entry("a", "TREG", 2), Entry("a", "TREG", 1)>>}
=============================================================================
