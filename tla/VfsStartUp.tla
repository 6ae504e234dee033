------------------------------ MODULE VfsStartUp ------------------------------
(***************************************************************************)
(* How a program brings its file systems up: the default fs_init of        *)
(* src/filesystem/fs_init.c and those of the examples, each a short list   *)
(* of calls on the mount table that goes on or gives up by their answers,  *)
(* and the application that uses the table afterwards.                     *)
(*                                                                         *)
(* The media are what earlier runs of the program left on them - nothing,  *)
(* a file system, the other one, a FAT whose format was cut short - so a   *)
(* start-up here is as well the one after a reset in the middle of another.*)
(***************************************************************************)
EXTENDS VfsMounts, Sequences

CONSTANTS Root, Sub,          \* "/" and the second directory: "/flash", "/sd", ...
          Lfs,                \* the littlefs object of an fs_init
          StartUps(_, _, _)   \* the lists of calls, for a FAT file system, the
                              \* onboard flash and another device

\* A call of an fs_init of n calls.
Calls(n) == [op : {"mount", "format"}, dir : Dirs, fs : FileSystems, dev : Devices,
             ok : 0 .. n + 1, failed : 0 .. n + 1]

ASSUME StartUpAssumption == {Root, Sub} \subseteq Dirs /\ Lfs \in FileSystems \ FatFileSystems
ASSUME StartUpsAssumption ==
    \A fat \in FatFileSystems, flash, other \in Devices : flash # other =>
        \A calls \in StartUps(fat, flash, other) : calls \in Seq(Calls(Len(calls)))

VARIABLES
    plan,    \* the calls of the fs_init that runs, <<>> when none does
    step,    \* the call it comes to next; Failed or Len(plan) + 1 when it returns
    unread,  \* history: the devices that fs_mount could not read, though they hold the file system
    cut      \* history: the devices whose last format failed in this start-up, or had left
             \* half a FAT before it

startVars == <<mpFs, mpDevice, mpDir, low, torn, last, plan, step, unread, cut>>

Failed == 0

------------------------------------------------------------------------------
(* The fs_init functions.  A call is followed by the step `ok` or `failed`, *)
(* by what its caller finds in the answer.                                  *)

Call(op, d, f, dev, ok, failed) ==
    [op |-> op, dir |-> d, fs |-> f, dev |-> dev, ok |-> ok, failed |-> failed]

\* Mutant of MountOrFormat: formats first and mounts then.
MountOrFormatAlways(n, d, f, dev) ==
    << Call("format", d, f, dev, n + 1, Failed),
       Call("mount", d, f, dev, n + 3, n + 2),
       Call("mount", d, f, dev, n + 3, Failed) >>

\* Steps n to n + 2: mount, and if that fails format and mount again.
MountOrFormat(n, d, f, dev) ==
    << Call("mount", d, f, dev, n + 3, n + 1),
       Call("format", d, f, dev, n + 2, Failed),
       Call("mount", d, f, dev, n + 3, Failed) >>

\* fs_init.c calls fs->format itself, which never answers -1: any answer goes on.
DefaultInit(flash) ==
    << Call("mount", Root, Lfs, flash, 4, 2),
       Call("format", Root, Lfs, flash, 3, 3),
       Call("mount", Root, Lfs, flash, 4, Failed) >>

\* Those of examples/fs_inits; fs_init_littlefs_sdcard.c is FatSdInit with a second
\* littlefs in place of the FAT file system.
LittlefsInit(flash) == MountOrFormat(1, Root, Lfs, flash)

FatInit(fat, flash) == MountOrFormat(1, Root, fat, flash)

\* multicore_logger, on /sd.
LoggerInit(fat, sd) == MountOrFormat(1, Sub, fat, sd)

FatSdInit(fat, flash, sd) == MountOrFormat(1, Root, fat, sd) \o MountOrFormat(4, Sub, Lfs, flash)

HeapInit(fat, flash, heap) ==
    MountOrFormat(1, Root, fat, heap) \o MountOrFormat(4, Sub, Lfs, flash)

LoopbackInit(fat, flash, loopback) ==
    MountOrFormat(1, Sub, Lfs, flash) \o MountOrFormat(4, Root, fat, loopback)

HelloInit(fat, flash, sd) == MountOrFormat(1, Root, Lfs, flash) \o MountOrFormat(4, Sub, fat, sd)

\* Formats both of its partitions and mounts the first.
UsbLoggerInit(fat, flash1, flash2) ==
    << Call("format", Sub, Lfs, flash1, 2, Failed),
       Call("format", Sub, fat, flash2, 3, Failed),
       Call("mount", Sub, Lfs, flash1, 4, Failed) >>

\* Those of the repository; fs_inits that differ only in the devices are one.
FsInits(fat, onboard, other) ==
    {DefaultInit(onboard), LittlefsInit(onboard), FatInit(fat, onboard),
     LoggerInit(fat, other), FatSdInit(fat, onboard, other), HeapInit(fat, onboard, other),
     LoopbackInit(fat, onboard, other), HelloInit(fat, onboard, other),
     UsbLoggerInit(fat, onboard, other)}

------------------------------------------------------------------------------

\* fs_init is called on an empty table, if at all.
StartInit ==
    /\ mpFs \in [Slots -> {ELSEWHERE, NULL}]
    /\ mpDevice = [i \in Slots |-> NULL]
    /\ mpDir = [i \in Slots |-> NULL]
    /\ step = 1 /\ unread = {} /\ torn = {}
    /\ last = [op |-> "boot", path |-> NULL, answer |-> "ok"]
    /\ \/ Init /\ plan = <<>> /\ cut = {}
       \/ /\ mpFs = [i \in Slots |-> NULL]
          /\ \E fat \in FatFileSystems, flash, other \in Devices :
                flash # other /\ plan \in StartUps(fat, flash, other)
          /\ \E media \in [Devices -> Media], ready \in [Devices -> BOOLEAN] :
                low = [ffs |-> [v \in Volumes |-> NULL],
                       registered |-> [v \in Volumes |-> NULL],
                       id |-> [f \in FatFileSystems |-> -1],
                       up |-> [f \in FileSystems \ FatFileSystems |-> FALSE],
                       media |-> media, ready |-> ready]
          /\ cut = {d \in Devices : low.media[d] = "half"}

Starting == plan # <<>>
Running == Starting /\ step \in DOMAIN plan

\* The caller compares with -1.  fs_mount answers -1 to every error; fs_format only if
\* device->init() failed: the errors of the file system it hands on are not -1.
SeenAsFailed(call) ==
    last'.answer # "ok" /\ (call.op = "mount" \/ ~low'.ready[call.dev])

\* Mutant of Advance: a mount that failed for the second time is not looked at.
AdvanceUnchecked(call) ==
    step' = IF SeenAsFailed(call) /\ call.failed # Failed THEN call.failed ELSE call.ok

Advance(call) == step' = IF SeenAsFailed(call) THEN call.failed ELSE call.ok

KindOf(f) == IF f \in FatFileSystems THEN "fat" ELSE "littlefs"

StartMount ==
    /\ Running /\ plan[step].op = "mount"
    /\ LET call == plan[step]
       IN  /\ FsMount(call.dir, call.fs, call.dev)
           /\ Advance(call)
           /\ unread' = unread \cup {d \in {call.dev} :
                   last'.answer = "EIO" /\ low.media[d] = KindOf(call.fs)}
    /\ UNCHANGED <<plan, cut>>

StartFormat ==
    /\ Running /\ plan[step].op = "format"
    /\ FsFormat(plan[step].fs, plan[step].dev)
    /\ Advance(plan[step])
    /\ cut' = IF last'.answer = "ok" THEN cut \ {plan[step].dev} ELSE cut \cup {plan[step].dev}
    /\ UNCHANGED <<plan, unread>>

\* fs_init has returned; its answer is not looked at by every program.
StartReturn ==
    /\ Starting /\ ~Running
    /\ plan' = <<>> /\ step' = 1 /\ unread' = {} /\ cut' = {}
    /\ UNCHANGED vars

Application == ~Starting /\ Next /\ UNCHANGED <<plan, step, unread, cut>>

StartNext == StartMount \/ StartFormat \/ StartReturn \/ Application

StartSpec == StartInit /\ [][StartNext]_startVars

------------------------------------------------------------------------------
(* Properties *)

StartTypeOK ==
    /\ TypeOK
    /\ plan = <<>> => step = 1 /\ unread = {}
    /\ step \in {Failed} \cup 1 .. Len(plan) + 1
    /\ unread \subseteq Devices /\ cut \subseteq Devices

Succeeded == Starting /\ step = Len(plan) + 1   \* fs_init returns true
MountCalls(calls) == {n \in DOMAIN calls : calls[n].op = "mount"}

\* When an fs_init returns true, every file system that it mounts is on its own directory
\* and its own device, and that device holds it whole, unless its last format was cut
\* short: then it may be half a FAT.  fs_format answers -EIO to a format that fails, where
\* vfs.h promises -1 and errno and fs_init compares with -1, and f_mount takes half a FAT.
StartedInPlace ==
    Succeeded =>
        \A n \in MountCalls(plan) :
            LET i == FindMountpoint(plan[n].dir)
                dev == plan[n].dev
            IN  /\ i \in InUse
                /\ mpFs[i] = plan[n].fs /\ mpDevice[i] = dev
                /\ \/ low.media[dev] = KindOf(plan[n].fs)
                   \/ plan[n].fs \in FatFileSystems /\ low.media[dev] = "half" /\ dev \in cut

\* No fs_mount of a start-up runs out of FAT volumes or of mount points, although the
\* first fs_mount of a blank device keeps a volume and the format needs another.
StartHasRoom ==
    [][Starting /\ last'.op = "fs_mount"
          => last'.answer \notin {"ENOMEM", "EFAULT"}]_startVars

\* A start-up that mounts before it formats takes what is on a device away only after
\* it failed to read it, or when it is not the file system asked for.
KeptUnlessUnread ==
    [][\A n \in DOMAIN plan :
          LET dev == plan[n].dev
          IN  /\ plan[n].op = "mount" /\ plan[n].failed # Failed
              /\ low.media[dev] = KindOf(plan[n].fs)
              /\ low'.media[dev] # low.media[dev]
              => dev \in unread]_startVars
==============================================================================
