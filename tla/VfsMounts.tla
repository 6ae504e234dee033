------------------------------- MODULE VfsMounts -------------------------------
(***************************************************************************)
(* The mount table of src/filesystem/vfs.c - fs_format, fs_mount,          *)
(* fs_unmount, fs_reformat, fs_info and the calls that take a path - with  *)
(* what they leave behind in the layers below: the table of FAT volumes    *)
(* (_ffs of fat.c and FatFs[] of the FatFs library), the buffers of        *)
(* littlefs, and what is formatted on a device.                            *)
(*                                                                         *)
(* One core runs one call at a time.  A device may fail at any access.     *)
(* fs_unmount frees the string of the mount point and keeps the pointer;   *)
(* find_mountpoint goes on reading it.  What it reads is the old text,     *)
(* text that matches no path, or that of a mount point whose strdup was    *)
(* given the block since.                                                  *)
(***************************************************************************)
EXTENDS Integers, FiniteSets

CONSTANTS
    Paths,         \* the paths the application uses
    Dirs,          \* the paths it mounts on
    Prefixes,      \* Prefixes[p]: the mount directories that are a prefix of p
    Length,        \* Length[d]: strlen of the directory
    FileSystems,
    FatFileSystems,
    Devices,
    MaxMountpoint, \* FS_MAX_MOUNTPOINT
    MaxVolume,     \* FF_VOLUMES
    Careful,       \* does the application pass mounted directories only, as vfs.h
                   \* asks for fs_unmount, fs_reformat and fs_info?
    ELSEWHERE,     \* a file system mounted for good on a directory that is a
                   \* prefix of none of Paths
    NULL

Slots == 0 .. MaxMountpoint - 1
Volumes == 0 .. MaxVolume - 1
Media == {"blank", "half", "fat", "littlefs"}   \* half: a boot record without its FAT
                                                \* or root directory
FatMedia == {"half", "fat"}                     \* what f_mount takes for a FAT volume

Garbage == "garbage"   \* the text of a freed string that matches no path

ASSUME NullAssumption == NULL \notin Paths \cup FileSystems \cup Devices \cup {Garbage}
ASSUME ElsewhereAssumption == ELSEWHERE \notin FileSystems \cup {NULL}
ASSUME GarbageAssumption == Garbage \notin Paths
ASSUME DirsAssumption == Dirs \subseteq Paths
ASSUME PrefixAssumption ==
    /\ Prefixes \in [Paths -> SUBSET Dirs]
    /\ Length \in [Dirs -> Nat \ {0}]
    /\ \A d \in Dirs : d \in Prefixes[d] /\ \A e \in Prefixes[d] \ {d} : Length[e] < Length[d]
ASSUME FatAssumption == FatFileSystems \subseteq FileSystems
ASSUME SizeAssumption == MaxMountpoint \in Nat \ {0} /\ MaxVolume \in Nat \ {0}
ASSUME CarefulAssumption == Careful \in BOOLEAN

VARIABLES
    mpFs, mpDevice, \* mountpoints[i].filesystem and .device, NULL if not in use
    mpDir,          \* what mountpoints[i].dir points to, NULL before its first use
    low,            \* the layers below, see Lower
    torn,           \* history: the file systems whose fs_reformat failed
    last            \* the call that returned last: its name, its path and its answer

vars == <<mpFs, mpDevice, mpDir, low, torn, last>>

Lower ==
    [ffs : [Volumes -> Devices \cup {NULL}],               \* _ffs[] of fat.c
     registered : [Volumes -> FatFileSystems \cup {NULL}], \* FatFs[] of ff.c
     id : [FatFileSystems -> {-1} \cup Volumes],           \* context->id
     up : [FileSystems \ FatFileSystems -> BOOLEAN],       \* has littlefs its buffers?
     media : [Devices -> Media],                           \* what is on the device
     ready : [Devices -> BOOLEAN]]                         \* device->is_initialized

\* EIO stands for every error without a meaning of its own here; "undefined" for
\* a call through a null pointer or on freed memory.
Answers == {"ok", "ENOENT", "ENOMEM", "EFAULT", "EIO", "undefined"}

TypeOK == /\ mpFs \in [Slots -> FileSystems \cup {ELSEWHERE, NULL}]
          /\ mpDevice \in [Slots -> Devices \cup {NULL}]
          /\ mpDir \in [Slots -> Dirs \cup {NULL, Garbage}]
          /\ low \in Lower
          /\ torn \subseteq FileSystems
          /\ last.path \in Paths \cup {NULL} /\ last.answer \in Answers

\* path: the directory passed to fs_mount or fs_unmount, NULL for the other calls.
Returned(op, path, answer) == last' = [op |-> op, path |-> path, answer |-> answer]

\* Some slots of the table may be in use elsewhere.
Init ==
    /\ mpFs \in [Slots -> {ELSEWHERE, NULL}]
    /\ mpDevice = [i \in Slots |-> NULL]
    /\ mpDir = [i \in Slots |-> NULL]
    /\ \E ready \in [Devices -> BOOLEAN] :
          low = [ffs |-> [v \in Volumes |-> NULL],
                 registered |-> [v \in Volumes |-> NULL],
                 id |-> [f \in FatFileSystems |-> -1],
                 up |-> [f \in FileSystems \ FatFileSystems |-> FALSE],
                 media |-> [d \in Devices |-> "blank"],
                 ready |-> ready]
    /\ torn = {}
    /\ last = [op |-> "boot", path |-> NULL, answer |-> "ok"]

Lost == last.answer = "undefined"
InUse == {i \in Slots : mpFs[i] \notin {ELSEWHERE, NULL}}
Free == {i \in Slots : mpFs[i] = NULL}
Mounted == {mpDir[i] : i \in InUse}

------------------------------------------------------------------------------
(* The file systems: each operator gives the outcomes of a call, a state of *)
(* the layers below and an answer.                                          *)

Outcome(l, answer) == [low |-> l, answer |-> answer]
\* The next step of a function that returns at the first error.
Then(outcomes, Next1(_)) ==
    UNION {IF o.answer = "ok" THEN Next1(o.low) ELSE {o} : o \in outcomes}
Lowest(S) == CHOOSE i \in S : \A j \in S : i <= j
Blanked(l, dev) == [l EXCEPT !.media[dev] = "blank"]

\* Mutant of FatMount: the search runs one volume too far.
FatMountPastEnd(l, f, dev, pending) ==
    LET v == Lowest({MaxVolume} \cup {x \in Volumes : l.ffs[x] = NULL})
        taken == [l EXCEPT !.id[f] = v, !.ffs[v] = dev, !.registered[v] = f]
    IN  {Outcome(taken, IF pending \/ l.media[dev] \in FatMedia THEN "ok" ELSE "EIO")}

\* mount() of fat.c.  The volume stays taken when f_mount() fails to mount it.  f_mount()
\* reads the boot record, not the FAT or the root directory.
FatMount(l, f, dev, pending) ==
    LET unused == {v \in Volumes : l.ffs[v] = NULL}
        v == Lowest(unused)
        taken == [l EXCEPT !.id[f] = v, !.ffs[v] = dev, !.registered[v] = f]
    IN  IF unused = {} THEN {Outcome(l, "ENOMEM")}
        ELSE {Outcome(taken, a) : a \in {x \in {"ok", "EIO"} :
                 IF pending THEN x = "ok" ELSE x = "ok" => l.media[dev] \in FatMedia}}

\* Mutant of FatUnmount: forgets to clear _ffs[id].
FatUnmountKeepsDevice(l, f) ==
    LET v == l.id[f]
    IN  IF v = -1 THEN Outcome(l, "undefined")
        ELSE Outcome([l EXCEPT !.registered[v] = NULL], "ok")

\* unmount() of fat.c: f_mount(NULL) and _ffs[id], whoever has the volume by now.
FatUnmount(l, f) ==
    LET v == l.id[f]
    IN  IF v = -1 THEN Outcome(l, "undefined")
        ELSE Outcome([l EXCEPT !.ffs[v] = NULL, !.registered[v] = NULL], "ok")

\* format() of fat.c: erases the head of the device, mounts it as pending for
\* f_mkfs() and unmounts it, whether f_mkfs() succeeded or not.  f_mkfs() writes the boot
\* record before the FAT and the root directory.
FatFormat(l, f, dev) ==
    {Outcome(l, "EIO"), Outcome(Blanked(l, dev), "EIO"), Outcome(Blanked(l, dev), "ENOMEM")}
    \cup Then(FatMount(Blanked(l, dev), f, dev, TRUE),
              LAMBDA k : LET u == FatUnmount(k, f).low
                         IN  {Outcome(u, "EIO"), Outcome([u EXCEPT !.media[dev] = "half"], "EIO"),
                              Outcome([u EXCEPT !.media[dev] = "fat"], "ok")})

\* littlefs gets its buffers from lfs_mount() and frees them when that fails, in
\* lfs_unmount() and at the end of lfs_format(); device->init() may fail before.
LfsMount(l, f, dev) ==
    {Outcome(l, "EIO"), Outcome([l EXCEPT !.up[f] = FALSE], "EIO")}
    \cup {Outcome([l EXCEPT !.up[f] = TRUE], "ok") : x \in {l.media[dev]} \cap {"littlefs"}}

LfsUnmount(l, f) == IF l.up[f] THEN Outcome([l EXCEPT !.up[f] = FALSE], "ok")
                               ELSE Outcome(l, "undefined")

\* lfs_format() may still fail when the superblock has been committed.
LfsFormat(l, f, dev) ==
    LET down == [l EXCEPT !.up[f] = FALSE]
    IN  {Outcome(l, "EIO"), Outcome(down, "EIO"), Outcome(Blanked(down, dev), "EIO")}
        \cup {Outcome([down EXCEPT !.media[dev] = "littlefs"], a) : a \in {"ok", "EIO"}}

Mount(l, f, dev) ==
    IF f \in FatFileSystems THEN FatMount(l, f, dev, FALSE) ELSE LfsMount(l, f, dev)
Unmount(l, f) == IF f \in FatFileSystems THEN FatUnmount(l, f) ELSE LfsUnmount(l, f)
Format(l, f, dev) ==
    IF f \in FatFileSystems THEN FatFormat(l, f, dev) ELSE LfsFormat(l, f, dev)

\* device->init(), unless it has been.
Initialize(l, dev) ==
    {Outcome([l EXCEPT !.ready[dev] = TRUE], "ok")}
    \cup {Outcome(l, "EIO") : x \in {dev} \cap {d \in Devices : ~l.ready[d]}}

------------------------------------------------------------------------------
(* The calls of vfs.c *)

\* Mutants of FindMountpoint: `>=` instead of `>`; no comparison of the lengths.
FindMountpointLast(p) ==
    LET hits == {i \in Slots : mpDir[i] \in Prefixes[p]}
        longest == {i \in hits : \A j \in hits : Length[mpDir[j]] <= Length[mpDir[i]]}
    IN  IF hits = {} THEN -1 ELSE CHOOSE i \in longest : \A j \in longest : j <= i

FindMountpointFirst(p) ==
    LET hits == {i \in Slots : mpDir[i] \in Prefixes[p]}
    IN  IF hits = {} THEN -1 ELSE Lowest(hits)

\* The slot of the longest mount point that is a prefix of p, the first of them if
\* several are; -1 without one.  Slots that are not in use are read as well.
FindMountpoint(p) ==
    LET hits == {i \in Slots : mpDir[i] \in Prefixes[p]}
        longest == {i \in hits : \A j \in hits : Length[mpDir[j]] <= Length[mpDir[i]]}
    IN  IF hits = {} THEN -1 ELSE Lowest(longest)

\* An application mounts a file system object, a device and a directory once at a time.
Fresh(f, dev) == \A i \in InUse : mpFs[i] # f /\ mpDevice[i] # dev

MayName(p) == Careful => p \in Mounted

\* fs_format: on file systems and devices that are not mounted.
FsFormat(f, dev) ==
    /\ ~Lost /\ Fresh(f, dev)
    /\ \E o \in Then(Initialize(low, dev), LAMBDA l : Format(l, f, dev)) :
          low' = o.low /\ Returned("fs_format", NULL, o.answer)
    /\ UNCHANGED <<mpFs, mpDevice, mpDir, torn>>

\* fs_mount takes the first free slot, after the file system has been mounted:
\* EFAULT without one.  strdup may be given the block of a freed mount point.
FsMount(d, f, dev) ==
    LET unused == Free
        i == Lowest(unused)
    IN  /\ ~Lost /\ Fresh(f, dev) /\ d \notin Mounted
        /\ \E o \in Then(Initialize(low, dev), LAMBDA l : Mount(l, f, dev)) :
              /\ low' = o.low
              /\ IF o.answer = "ok" /\ unused # {}
                   THEN /\ mpFs' = [mpFs EXCEPT ![i] = f]
                        /\ mpDevice' = [mpDevice EXCEPT ![i] = dev]
                        /\ \E reused \in SUBSET {j \in unused : mpDir[j] # NULL} :
                              mpDir' = [j \in Slots |->
                                           IF j \in {i} \cup reused THEN d ELSE mpDir[j]]
                        /\ Returned("fs_mount", d, "ok")
                   ELSE /\ UNCHANGED <<mpFs, mpDevice, mpDir>>
                        /\ Returned("fs_mount", d, IF o.answer = "ok" THEN "EFAULT" ELSE o.answer)
    /\ UNCHANGED torn

\* No mount point, or one that is not in use any more: fs->... is a call through
\* a null pointer then.
Unresolved(op, p) ==
    /\ FindMountpoint(p) \notin InUse
    /\ Returned(op, IF op = "fs_unmount" THEN p ELSE NULL,
                IF FindMountpoint(p) = -1 THEN "ENOENT" ELSE "undefined")
    /\ UNCHANGED <<mpFs, mpDevice, mpDir, low, torn>>

\* fs_unmount clears the slot and frees its string, which may read as garbage then.
FsUnmount(p) ==
    /\ ~Lost /\ MayName(p)
    /\ \/ Unresolved("fs_unmount", p)
       \/ LET i == FindMountpoint(p)
              u == Unmount(low, mpFs[i])
          IN  /\ i \in InUse
              /\ low' = u.low /\ Returned("fs_unmount", p, u.answer)
              /\ mpFs' = [mpFs EXCEPT ![i] = NULL]
              /\ mpDevice' = [mpDevice EXCEPT ![i] = NULL]
              /\ \E gone \in SUBSET ({i} \cup {j \in Free : mpDir[j] # NULL}) :
                    mpDir' = [j \in Slots |-> IF j \in gone THEN Garbage ELSE mpDir[j]]
              /\ UNCHANGED torn

\* Mutant of FsReformat: does not mount again.
FsReformatForgetsMount(p) ==
    LET i == FindMountpoint(p)
    IN  /\ ~Lost /\ MayName(p) /\ i \in InUse
        /\ \E o \in Then({Unmount(low, mpFs[i])},
                         LAMBDA k : Format(k, mpFs[i], mpDevice[i])) :
              /\ low' = o.low /\ Returned("fs_reformat", NULL, o.answer)
              /\ torn' = IF o.answer = "ok" THEN torn ELSE torn \cup {mpFs[i]}
        /\ UNCHANGED <<mpFs, mpDevice, mpDir>>

\* fs_reformat: unmount, format, mount; the mount point stays if one of them fails.
FsReformat(p) ==
    /\ ~Lost /\ MayName(p)
    /\ \/ Unresolved("fs_reformat", p)
       \/ LET i == FindMountpoint(p)
              f == mpFs[i]
              dev == mpDevice[i]
          IN  /\ i \in InUse
              /\ \E o \in Then({Unmount(low, f)}, LAMBDA k :
                               Then(Format(k, f, dev), LAMBDA l : Mount(l, f, dev))) :
                    /\ low' = o.low /\ Returned("fs_reformat", NULL, o.answer)
                    /\ torn' = IF o.answer = "ok" THEN torn ELSE torn \cup {f}
              /\ UNCHANGED <<mpFs, mpDevice, mpDir>>

\* fs_info hands out what the slot holds, two null pointers if it is not in use.
FsInfo(p) ==
    /\ ~Lost /\ MayName(p)
    /\ Returned("fs_info", NULL, IF FindMountpoint(p) = -1 THEN "ENOENT" ELSE "ok")
    /\ UNCHANGED <<mpFs, mpDevice, mpDir, low, torn>>

\* _open, _unlink, rename, mkdir, rmdir, _stat and opendir, as far as they resolve
\* the path: FatFs refuses a volume that is not registered, littlefs works on the
\* buffers it has.
PathCall(p) ==
    /\ ~Lost
    /\ \/ Unresolved("path", p)
       \/ LET f == mpFs[FindMountpoint(p)]
          IN  /\ FindMountpoint(p) \in InUse
              /\ Returned("path", NULL,
                    CASE f \in FatFileSystems ->
                            IF low.registered[low.id[f]] = NULL THEN "EIO" ELSE "ok"
                      [] OTHER -> IF low.up[f] THEN "ok" ELSE "undefined")
              /\ UNCHANGED <<mpFs, mpDevice, mpDir, low, torn>>

Undefined == Lost /\ UNCHANGED vars

Next == \/ \E f \in FileSystems, dev \in Devices :
              FsFormat(f, dev) \/ \E d \in Dirs : FsMount(d, f, dev)
        \/ \E p \in Paths : FsUnmount(p) \/ FsReformat(p) \/ FsInfo(p) \/ PathCall(p)
        \/ Undefined

Spec == Init /\ [][Next]_vars

------------------------------------------------------------------------------
(* Properties *)

Consistent(l) == \A v \in Volumes : l.ffs[v] = NULL <=> l.registered[v] = NULL

\* A FAT volume has a device exactly if FatFs has a file system registered on it:
\* no failure of mount, format or reformat leaves FatFs a volume whose disk_read
\* would go through a null device.
RegistryConsistent == Consistent(low)

\* f has what its mount on dev gave it: a FAT file system the volume of its own number
\* and that volume the device, a littlefs its buffers.
Serves(l, f, dev) ==
    IF f \in FatFileSystems
      THEN l.id[f] # -1 /\ l.registered[l.id[f]] = f /\ l.ffs[l.id[f]] = dev
      ELSE l.up[f]

\* Unless an fs_reformat failed, every file system in the mount table can serve its
\* calls from its own device, however the mounts and formats before failed.
MountedInPlace ==
    ~Lost /\ torn = {} => \A i \in InUse : Serves(low, mpFs[i], mpDevice[i])

\* A directory that is mounted resolves to its own slot, whatever the strings that
\* fs_unmount has freed read as by now.
MountedDirResolves == \A i \in InUse : FindMountpoint(mpDir[i]) = i

\* The file system mounted on a directory, for Namespace.
OnDir == [d \in Dirs |-> IF \E i \in InUse : mpDir[i] = d
                           THEN mpFs[CHOOSE i \in InUse : mpDir[i] = d] ELSE NULL]

Promise == INSTANCE Namespace WITH mounted <- OnDir, request <- last.path

\* The mount table implements Namespace: fs_mount adds its own directory and
\* fs_unmount takes away its own, however the table is filled and freed strings read.
NamespaceKept == Promise!Spec

------------------------------------------------------------------------------
(* The inductive invariant behind RegistryConsistent, MountedInPlace,       *)
(* MountedDirResolves and NamespaceKept                                     *)

\* A slot in use has a device, a file system of its own, and a directory that no slot
\* before it names, in use or not.
SlotsInv ==
    /\ \A i \in InUse :
          /\ mpDevice[i] \in Devices /\ mpDir[i] \in Dirs
          /\ \A j \in InUse : mpFs[j] = mpFs[i] => j = i
          /\ \A j \in Slots : mpDir[j] = mpDir[i] => i <= j
    /\ \A i \in Slots : mpFs[i] = ELSEWHERE => mpDir[i] = NULL

\* A slot is taken from the front and freed strings are read behind it only, and a file
\* system that serves goes on to do so whatever is done to another.
MountsInv == TypeOK /\ SlotsInv /\ RegistryConsistent /\ MountedInPlace
=============================================================================
