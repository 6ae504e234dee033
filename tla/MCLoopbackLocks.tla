---------------------------- MODULE MCLoopbackLocks ----------------------------
(* Values for the constants of LoopbackLocks: a stack of file systems, each    *)
(* on a loopback device whose image is a file of the next.                     *)
EXTENDS LoopbackLocks, TLC

CONSTANTS fs1, fs2, fs3, c0, c1

\* FAT on littlefs (tests/integration/test_vfs.c), and a third file system under it.
MCBelowThree == (fs1 :> fs2) @@ (fs2 :> fs3) @@ (fs3 :> NULL)
MCBelowTwo == (fs1 :> fs2) @@ (fs2 :> NULL)

\* Only one of two cores uses the file systems on loopback devices.
MCUsesApart == (c0 :> {fs1, fs2, fs3}) @@ (c1 :> {fs3})
MCUsesBoth == (c0 :> {fs1, fs2}) @@ (c1 :> {fs1, fs2})
=============================================================================
