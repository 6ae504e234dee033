----------------------------- MODULE MCVfsStartUp -----------------------------
(* Values for the constants of VfsStartUp: the root and a directory under it  *)
(* that is a mount point of its own.                                          *)
EXTENDS VfsStartUp, TLC

CONSTANTS root, flash, lfs

MCPrefixes == [p \in Paths |-> {root, p}]
MCLength == [d \in Dirs |-> IF d = root THEN 1 ELSE 2]

\* The application mounts half a FAT as it mounts a whole one, and no property tells
\* them apart when fs_init has returned.
Contents == [d \in Devices |-> IF ~Starting /\ low.media[d] = "half" THEN "fat" ELSE low.media[d]]

\* Next does not look at the last call, but for whether it was lost in it.
Tables == <<mpFs, mpDevice, mpDir, [low EXCEPT !.media = Contents], torn, plan, step, unread,
            cut, Lost>>

DeviceSymmetry == Permutations(Devices) \cup Permutations(FatFileSystems)
===============================================================================
