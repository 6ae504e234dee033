------------------------------- MODULE MCVfsFiles -------------------------------
(* What the runs of VfsFiles need beside it: two values to write, which are *)
(* interchangeable.                                                         *)
EXTENDS VfsFiles, TLC

ValueSymmetry == Permutations(Values)
=============================================================================
