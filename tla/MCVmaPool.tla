------------------------------ MODULE MCVmaPool ------------------------------
(***************************************************************************)
(* Instances of VmaPool for TLC.  A block of two vm_areas and a superblock *)
(* of two blocks are the smallest in which a block, a superblock and their *)
(* lists can be full, empty and in between.                                *)
(***************************************************************************)
EXTENDS VmaPool, TLC

CONSTANTS t1, t2

TwoThreads == {t1, t2}
Symmetry == Permutations(TwoThreads)

TestModes   == {"test"}
AnyModes    == {"any"}
=============================================================================
