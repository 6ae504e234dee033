---------------------------- MODULE MCVfsDirectories ----------------------------
(* Values for the constants of VfsDirectories: a mounted path and one that is *)
(* under no mount point.                                                      *)
EXTENDS VfsDirectories, TLC

CONSTANTS fat, onFat, nowhere

MCMounted == (onFat :> fat) @@ (nowhere :> NULL)

DirSymmetry == Permutations(Dirs) \cup Permutations(Cores)
=============================================================================
