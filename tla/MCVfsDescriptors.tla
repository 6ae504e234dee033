--------------------------- MODULE MCVfsDescriptors ---------------------------
(* Values for the constants of VfsDescriptors: two file systems, and a path  *)
(* that lies under no mount point.                                           *)
EXTENDS VfsDescriptors, TLC

CONSTANTS fat, lfs, onFat, onLfs, nowhere

MCMounted == (onFat :> fat) @@ (onLfs :> lfs) @@ (nowhere :> NULL)

\* One FAT file system, for the runs with two cores.
MCMountedFat == onFat :> fat

FileSymmetry == Permutations(Files) \cup Permutations(Cores)
=============================================================================
