------------------------------- MODULE Namespace -------------------------------
(***************************************************************************)
(* What fs_mount() and fs_unmount() promise to an application: one name    *)
(* space, in which each directory leads to at most one file system and     *)
(* each file system hangs in at most one directory.  A call changes what   *)
(* hangs in the directory it is given, and nothing else.                   *)
(***************************************************************************)
CONSTANTS Dirs, FileSystems, NULL

VARIABLES
    mounted,   \* mounted[d]: the file system mounted on directory d, or NULL
    request    \* the directory of the last call, or NULL

vars == <<mounted, request>>

Init == /\ mounted = [d \in Dirs |-> NULL]
        /\ request = NULL

Mount(d, fs) ==
    /\ mounted[d] = NULL
    /\ \A x \in Dirs : mounted[x] # fs
    /\ mounted' = [mounted EXCEPT ![d] = fs]
    /\ request' = d

Unmount(d) ==
    /\ mounted[d] # NULL
    /\ mounted' = [mounted EXCEPT ![d] = NULL]
    /\ request' = d

\* A call that fails or only asks.
Other == UNCHANGED mounted

Next == \/ \E d \in Dirs : Unmount(d) \/ \E fs \in FileSystems : Mount(d, fs)
        \/ Other

Spec == Init /\ [][Next]_vars
=============================================================================
