---------------------------- MODULE VfsDescriptors ----------------------------
(***************************************************************************)
(* The table of open files of src/filesystem/vfs.c and the calls that work *)
(* on it: _open, _close, _read, _write, _lseek, _ftello_r, ftruncate and   *)
(* _fstat, run by the cores of an RP2040 side by side.                     *)
(*                                                                         *)
(* auto_init_recursive_mutex(_mutex) declares a static mutex in the block  *)
(* it stands in, so every function has a mutex of its own: `mutex` is a    *)
(* function of the function's name, and _open never excludes _close.  A    *)
(* step is a stretch of code with at most one access that another core can *)
(* observe, taken in the order of the source; loading file_descriptor and  *)
(* reaching for the slot behind it are one access.  realloc may extend the *)
(* table where it is or move it, and then frees the old block before _open *)
(* stores the new address: a core that reaches for the table in between    *)
(* uses freed memory, and what the program does from there on is undefined *)
(* (`Lost`).  The mount table stands still here (`Mounted`); calls nested  *)
(* in a file system's own work are the subject of LoopbackLocks.           *)
(***************************************************************************)
EXTENDS Naturals

CONSTANTS
    Cores,             \* the cores that call into the VFS
    FileSystems,       \* the mounted file systems
    FatFileSystems,    \* those of type FILESYSTEM_TYPE_FAT
    Paths,             \* the paths the application opens
    Mounted,           \* Mounted[p]: find_mountpoint(p)->filesystem, or NULL
    Files,             \* the fs_file_t objects the heap can hold
    FileOps,           \* the calls on an open file that the cores make
    TableCap,          \* bound on max_file_descriptor
    Strangers,         \* may a core name a descriptor it does not hold?
    TableAllocMayFail, \* may calloc and realloc of the table fail?
    NULL

Index == 0 .. TableCap - 1
UnlockedOps == {"read", "write"}
LockedOps == {"lseek", "ftello", "ftruncate", "fstat"}
Functions == {"open", "close"} \cup FileOps

ASSUME NullAssumption == /\ NULL \notin FileSystems
                         /\ NULL \notin Files
                         /\ NULL \notin Paths
                         /\ NULL \notin Cores
                         /\ NULL \notin Functions
ASSUME FileOpsAssumption == FileOps \subseteq UnlockedOps \cup LockedOps
ASSUME MountedAssumption == Mounted \in [Paths -> FileSystems \cup {NULL}]
ASSUME FatAssumption == FatFileSystems \subseteq FileSystems
ASSUME CapAssumption == TableCap \in Nat /\ TableCap >= 2
ASSUME SwitchAssumption == Strangers \in BOOLEAN /\ TableAllocMayFail \in BOOLEAN

VARIABLES
    max,    \* max_file_descriptor
    slotFile, slotFs, slotPath,
            \* file_descriptor[i].file, .filesystem and .path, NULL beyond max
    copy,   \* the block realloc is copying the table into
    base,   \* what file_descriptor points to: the table ("valid"), a block that
            \* realloc has "freed", such a block after its "used", or "null"
    mutex,  \* mutex[fn]: the core in function fn's static _mutex, or NULL
    obj,    \* obj[f]: is the fs_file_t free, allocated or open in its file system
    pc,     \* pc[c]: where core c is in its call
    frame,  \* frame[c]: the locals of that call
    held    \* held[c]: the descriptors c got from _open and did not pass to _close

table == <<slotFile, slotFs, slotPath>>
vars == <<max, table, copy, base, mutex, obj, pc, frame, held>>

Column(S) == [Index -> S \cup {NULL}]
EmptyColumn == [i \in Index |-> NULL]
Frame == [fn : Functions \cup {NULL}, path : Paths \cup {NULL}, fd : 0 .. TableCap,
          file : Files \cup {NULL}, filesystem : FileSystems \cup {NULL}]
Block(file, fs, path) == [file |-> file, fs |-> fs, path |-> path]
EmptyBlock == Block(EmptyColumn, EmptyColumn, EmptyColumn)
Locals(fn, path, fd, file, filesystem) ==
    [fn |-> fn, path |-> path, fd |-> fd, file |-> file, filesystem |-> filesystem]
NoFrame == Locals(NULL, NULL, 0, NULL, NULL)

OpenPcs == {"assign", "free_old", "switch", "alloc", "file_open", "store_fs", "store_path", "return"}
ClosePcs == {"file_close", "free", "clear_fs", "clear_file", "clear_path", "return"}
UsePcs == {"call", "fat_stat", "return"}
Pcs == {"idle"} \cup OpenPcs \cup ClosePcs \cup UsePcs

TypeOK == /\ max \in 0 .. TableCap
          /\ slotFile \in Column(Files)
          /\ slotFs \in Column(FileSystems)
          /\ slotPath \in Column(Paths)
          /\ copy \in [file : Column(Files), fs : Column(FileSystems),
                       path : Column(Paths)]
          /\ base \in {"valid", "freed", "used", "null"}
          /\ mutex \in [Functions -> Cores \cup {NULL}]
          /\ obj \in [Files -> {"free", "raw", "open"}]
          /\ pc \in [Cores -> Pcs]
          /\ frame \in [Cores -> Frame]
          /\ held \in [Cores -> SUBSET Index]
          /\ \A c \in Cores : pc[c] \notin {"idle", "assign", "return"}
                                => frame[c].fd \in Index

Init == /\ max = 0
        /\ slotFile = EmptyColumn /\ slotFs = EmptyColumn /\ slotPath = EmptyColumn
        /\ copy = EmptyBlock
        /\ base = "valid"
        /\ mutex = [fn \in Functions |-> NULL]
        /\ obj = [f \in Files |-> "free"]
        /\ pc = [c \in Cores |-> "idle"]
        /\ frame = [c \in Cores |-> NoFrame]
        /\ held = [c \in Cores |-> {}]

\* The table is gone, or a core took freed memory for it: what the program does from
\* here on is undefined.
Lost == base \in {"null", "used"}

\* An access to the table.
Access == base' = IF base = "freed" THEN "used" ELSE base

Goto(c, l) == pc' = [pc EXCEPT ![c] = l]
\* Mutant of Enter: a mutex that keeps nobody out.
EnterAnyway(c, fn) == mutex' = [mutex EXCEPT ![fn] = c]

Enter(c, fn) == mutex[fn] = NULL /\ mutex' = [mutex EXCEPT ![fn] = c]

\* Every call ends here.  _read and _write have left their mutex by then.
Return(c) ==
    /\ pc[c] = "return"
    /\ mutex' = [fn \in Functions |-> IF mutex[fn] = c THEN NULL ELSE mutex[fn]]
    /\ frame' = [frame EXCEPT ![c] = NoFrame]
    /\ Goto(c, "idle")
    /\ UNCHANGED <<max, table, copy, base, obj, held>>

------------------------------------------------------------------------------
(* _open *)

\* Bounds the table: a call starts only if a slot is free or may still be added.
CanOpen == \/ 2 * max <= TableCap
           \/ \E i \in Index : i < max /\ slotFs[i] = NULL

\* Mutant of OpenEnter: the search for a slot starts at the second one.
OpenEnterSkipsFirst(c, p) ==
    /\ pc[c] = "idle" /\ ~Lost /\ CanOpen
    /\ Enter(c, "open")
    /\ frame' = [frame EXCEPT ![c] = Locals("open", p, 1, NULL, Mounted[p])]
    /\ Goto(c, IF Mounted[p] = NULL THEN "return" ELSE "assign")
    /\ UNCHANGED <<max, table, copy, base, obj, held>>

\* _open enters its mutex and resolves the path: ENOENT without a mount point.
OpenEnter(c, p) ==
    /\ pc[c] = "idle" /\ ~Lost /\ CanOpen
    /\ Enter(c, "open")
    /\ frame' = [frame EXCEPT ![c] = Locals("open", p, 0, NULL, Mounted[p])]
    /\ Goto(c, IF Mounted[p] = NULL THEN "return" ELSE "assign")
    /\ UNCHANGED <<max, table, copy, base, obj, held>>

\* The first _open of all allocates two slots; without memory for them ENFILE.
FirstTable(c) ==
    /\ pc[c] = "assign"
    /\ max = 0
    /\ max' = 2
    /\ \/ UNCHANGED <<base, pc>>
       \/ TableAllocMayFail /\ base' = "null" /\ Goto(c, "return")
    /\ UNCHANGED <<table, copy, mutex, obj, frame, held>>

\* Mutants of Scan: the loop runs one slot too far; the index stays where it is.
ScanPastEnd(c) ==
    LET i == frame[c].fd
    IN  /\ pc[c] = "assign"
        /\ i <= max
        /\ IF slotFs[i] = NULL
             THEN Goto(c, "alloc") /\ UNCHANGED frame
             ELSE frame' = [frame EXCEPT ![c].fd = i + 1] /\ UNCHANGED pc
        /\ UNCHANGED <<max, table, copy, base, mutex, obj, held>>

ScanInPlace(c) ==
    /\ pc[c] = "assign"
    /\ frame[c].fd < max
    /\ slotFs[frame[c].fd] = NULL
    /\ Goto(c, "alloc")
    /\ UNCHANGED <<max, table, copy, base, mutex, obj, frame, held>>

\* One turn of the loop that looks for a slot without a file system.
Scan(c) ==
    LET i == frame[c].fd
    IN  /\ pc[c] = "assign"
        /\ i < max
        /\ IF slotFs[i] = NULL
             THEN Goto(c, "alloc") /\ UNCHANGED frame
             ELSE frame' = [frame EXCEPT ![c].fd = i + 1] /\ UNCHANGED pc
        /\ UNCHANGED <<max, table, copy, base, mutex, obj, held>>

\* Mutant of Grow: one slot too many.
GrowOneMore(c) ==
    /\ pc[c] = "assign"
    /\ max > 0 /\ frame[c].fd = max
    /\ max' = 2 * max + 1
    /\ copy' = Block(slotFile, slotFs, slotPath)
    /\ Goto(c, "free_old")
    /\ UNCHANGED <<table, base, mutex, obj, frame, held>>

\* The first n slots of a column, those behind them cleared.
FirstOf(column, n) == [i \in Index |-> IF i < n THEN column[i] ELSE NULL]

\* No slot is free: the size doubles.  realloc copies the slots into a new block, or
\* extends the old one, whose new half _open clears, or fails.
Grow(c) ==
    LET n == frame[c].fd
    IN  /\ pc[c] = "assign"
        /\ max > 0 /\ n = max
        /\ 2 * max <= TableCap
        /\ max' = 2 * max
        /\ \/ /\ copy' = Block(slotFile, slotFs, slotPath) /\ Goto(c, "free_old")
              /\ UNCHANGED <<table, base>>
           \/ /\ slotFile' = FirstOf(slotFile, n) /\ slotFs' = FirstOf(slotFs, n)
              /\ slotPath' = FirstOf(slotPath, n)
              /\ Goto(c, "alloc") /\ UNCHANGED <<copy, base>>
           \/ /\ TableAllocMayFail /\ base' = "null" /\ Goto(c, "return")
              /\ UNCHANGED <<table, copy>>
        /\ UNCHANGED <<mutex, obj, frame, held>>

\* realloc frees the block it has copied; file_descriptor still points to it.
FreeOld(c) ==
    /\ pc[c] = "free_old"
    /\ base' = "freed"
    /\ Goto(c, "switch")
    /\ UNCHANGED <<max, table, copy, mutex, obj, frame, held>>

\* Mutant of Switch: the new block starts empty, as from calloc.
SwitchEmpty(c) ==
    /\ pc[c] = "switch"
    /\ slotFile' = EmptyColumn /\ slotFs' = EmptyColumn /\ slotPath' = EmptyColumn
    /\ copy' = EmptyBlock
    /\ base' = "valid"
    /\ Goto(c, "alloc")
    /\ UNCHANGED <<max, mutex, obj, frame, held>>

\* The copy becomes the table, its new half cleared; _open takes the first new slot.
\* A store that reached the old block after the copy is gone.
Switch(c) ==
    /\ pc[c] = "switch"
    /\ slotFile' = FirstOf(copy.file, frame[c].fd)
    /\ slotFs' = FirstOf(copy.fs, frame[c].fd)
    /\ slotPath' = FirstOf(copy.path, frame[c].fd)
    /\ copy' = EmptyBlock
    /\ base' = "valid"
    /\ Goto(c, "alloc")
    /\ UNCHANGED <<max, mutex, obj, frame, held>>

\* The fs_file_t goes into the slot at once; ENOMEM if the heap has none.
Alloc(c) ==
    /\ pc[c] = "alloc"
    /\ \/ \E f \in Files :
            /\ obj[f] = "free"
            /\ obj' = [obj EXCEPT ![f] = "raw"]
            /\ slotFile' = [slotFile EXCEPT ![frame[c].fd] = f]
            /\ frame' = [frame EXCEPT ![c].file = f]
            /\ Goto(c, "file_open")
       \/ /\ slotFile' = [slotFile EXCEPT ![frame[c].fd] = NULL]
          /\ Goto(c, "return")
          /\ UNCHANGED <<obj, frame>>
    /\ UNCHANGED <<max, slotFs, slotPath, copy, base, mutex, held>>

\* Mutant of FileOpen: a failed open keeps the fs_file_t.
FileOpenKeepsObject(c) ==
    /\ pc[c] = "file_open"
    /\ \/ obj' = [obj EXCEPT ![frame[c].file] = "open"] /\ Goto(c, "store_fs")
       \/ UNCHANGED obj /\ Goto(c, "return")
    /\ UNCHANGED <<max, table, copy, base, mutex, frame, held>>

\* fs->file_open; when it fails the object is freed and the slot cleared.
FileOpen(c) ==
    LET f == frame[c].file
    IN  /\ pc[c] = "file_open"
        /\ \/ /\ obj' = [obj EXCEPT ![f] = "open"]
              /\ Goto(c, "store_fs")
              /\ UNCHANGED slotFile
           \/ /\ obj' = [obj EXCEPT ![f] = "free"]
              /\ slotFile' = [slotFile EXCEPT ![frame[c].fd] = NULL]
              /\ Goto(c, "return")
        /\ UNCHANGED <<max, slotFs, slotPath, copy, base, mutex, frame, held>>

\* Mutant of StoreFs: the file system is left out of the slot.
StoreFsForgotten(c) ==
    /\ pc[c] = "store_fs"
    /\ Goto(c, "store_path")
    /\ UNCHANGED <<max, table, copy, base, mutex, obj, frame, held>>

\* From this store on the slot counts as taken.
StoreFs(c) ==
    /\ pc[c] = "store_fs"
    /\ slotFs' = [slotFs EXCEPT ![frame[c].fd] = frame[c].filesystem]
    /\ Goto(c, "store_path")
    /\ UNCHANGED <<max, slotFile, slotPath, copy, base, mutex, obj, frame, held>>

\* strncpy of the path; then the descriptor is the caller's.
StorePath(c) ==
    /\ pc[c] = "store_path"
    /\ slotPath' = [slotPath EXCEPT ![frame[c].fd] = frame[c].path]
    /\ held' = [held EXCEPT ![c] = @ \cup {frame[c].fd}]
    /\ Goto(c, "return")
    /\ UNCHANGED <<max, slotFile, slotFs, copy, base, mutex, obj, frame>>

------------------------------------------------------------------------------
(* _close and the calls on an open file *)

\* The descriptors a core may pass to a call.
Nameable(c) == IF Strangers THEN Index ELSE held[c]

\* is_valid_file_descriptor, and a file system in the slot; EBADF otherwise.
IsOpen(fd) == fd < max /\ slotFs[fd] # NULL

\* A number beyond the table is refused without an access to it.
AccessFor(fd) == IF fd < max THEN Access ELSE UNCHANGED base

\* The locals of a call on fd, loaded from its slot.
Loaded(fn, fd) == IF IsOpen(fd)
                    THEN Locals(fn, NULL, fd, slotFile[fd], slotFs[fd])
                    ELSE Locals(fn, NULL, fd, NULL, NULL)

\* _close enters its mutex and loads the slot.
CloseEnter(c, fd) ==
    /\ pc[c] = "idle" /\ ~Lost
    /\ fd \in Nameable(c)
    /\ Enter(c, "close")
    /\ frame' = [frame EXCEPT ![c] = Loaded("close", fd)]
    /\ held' = [held EXCEPT ![c] = @ \ {fd}]
    /\ Goto(c, IF IsOpen(fd) THEN "file_close" ELSE "return")
    /\ AccessFor(fd)
    /\ UNCHANGED <<max, table, copy, obj>>

\* fs->file_close; _close goes on the same way if that reports an error.
FileClose(c) ==
    /\ pc[c] = "file_close"
    /\ obj' = [f \in Files |-> IF f = frame[c].file THEN "raw" ELSE obj[f]]
    /\ Goto(c, "free")
    /\ UNCHANGED <<max, table, copy, base, mutex, frame, held>>

\* free(file): _open on another core may be given the object from here on.
FreeFile(c) ==
    /\ pc[c] = "free"
    /\ obj' = [f \in Files |-> IF f = frame[c].file THEN "free" ELSE obj[f]]
    /\ Goto(c, "clear_fs")
    /\ UNCHANGED <<max, table, copy, base, mutex, frame, held>>

\* The slot is free for _open from here on, with two stores to it still to come.
ClearFs(c) ==
    /\ pc[c] = "clear_fs"
    /\ slotFs' = [slotFs EXCEPT ![frame[c].fd] = NULL]
    /\ Goto(c, "clear_file")
    /\ Access
    /\ UNCHANGED <<max, slotFile, slotPath, copy, mutex, obj, frame, held>>

ClearFile(c) ==
    /\ pc[c] = "clear_file"
    /\ slotFile' = [slotFile EXCEPT ![frame[c].fd] = NULL]
    /\ Goto(c, "clear_path")
    /\ Access
    /\ UNCHANGED <<max, slotFs, slotPath, copy, mutex, obj, frame, held>>

ClearPath(c) ==
    /\ pc[c] = "clear_path"
    /\ slotPath' = [slotPath EXCEPT ![frame[c].fd] = NULL]
    /\ Goto(c, "return")
    /\ Access
    /\ UNCHANGED <<max, slotFile, slotFs, copy, mutex, obj, frame, held>>

\* _lseek, _ftello_r, ftruncate and _fstat load the slot in their mutex and keep it.
\* _fstat of a FAT file looks its path up again instead of asking the file.
UseEnter(c, fn, fd) ==
    /\ fn \in LockedOps
    /\ pc[c] = "idle" /\ ~Lost
    /\ fd \in Nameable(c)
    /\ Enter(c, fn)
    /\ frame' = [frame EXCEPT ![c] = Loaded(fn, fd)]
    /\ Goto(c, CASE ~IsOpen(fd) -> "return"
                 [] IsOpen(fd) /\ fn = "fstat" /\ slotFs[fd] \in FatFileSystems -> "fat_stat"
                 [] OTHER -> "call")
    /\ AccessFor(fd)
    /\ UNCHANGED <<max, table, copy, obj, held>>

\* _read and _write leave their mutex before they call the file system.
ReadWriteEnter(c, fn, fd) ==
    /\ fn \in UnlockedOps
    /\ pc[c] = "idle" /\ ~Lost
    /\ fd \in Nameable(c)
    /\ mutex[fn] = NULL
    /\ frame' = [frame EXCEPT ![c] = Loaded(fn, fd)]
    /\ Goto(c, IF IsOpen(fd) THEN "call" ELSE "return")
    /\ AccessFor(fd)
    /\ UNCHANGED <<max, table, copy, mutex, obj, held>>

\* fs->file_read, file_write, file_seek, file_tell or file_truncate.
Call(c) ==
    /\ pc[c] = "call"
    /\ Goto(c, "return")
    /\ UNCHANGED <<max, table, copy, base, mutex, obj, frame, held>>

\* find_mountpoint and fs->stat on the path the slot holds by now.
FatStat(c) ==
    /\ pc[c] = "fat_stat"
    /\ frame' = [frame EXCEPT ![c].path = slotPath[frame[c].fd]]
    /\ Goto(c, "return")
    /\ Access
    /\ UNCHANGED <<max, table, copy, mutex, obj, held>>

------------------------------------------------------------------------------
\* A step of a call that is under way; undefined once the table is lost.
Step(c) ==
    \/ Return(c)
    \/ /\ ~Lost
       /\ \/ FirstTable(c) \/ Scan(c) \/ Grow(c) \/ FreeOld(c) \/ Switch(c)
          \/ Alloc(c) \/ FileOpen(c) \/ StoreFs(c) \/ StorePath(c)
          \/ FileClose(c) \/ FreeFile(c) \/ ClearFs(c) \/ ClearFile(c) \/ ClearPath(c)
          \/ Call(c) \/ FatStat(c)

Undefined == Lost /\ UNCHANGED vars

Next == \/ \E c \in Cores :
             \/ Step(c)
             \/ \E p \in Paths : OpenEnter(c, p)
             \/ \E fd \in Index : CloseEnter(c, fd)
             \/ \E fn \in FileOps, fd \in Index : UseEnter(c, fn, fd)
             \/ \E fn \in FileOps, fd \in Index : ReadWriteEnter(c, fn, fd)
        \/ Undefined

Spec == Init /\ [][Next]_vars

\* A core that is in a call goes on with it.
FairSpec == Spec /\ \A c \in Cores : WF_vars(Step(c))

------------------------------------------------------------------------------
(* Properties *)

\* No descriptor belongs to two cores: _open never hands out a number that
\* another core got and has not closed, however _open and _close interleave.
OwnersDisjoint ==
    \A c, d \in Cores : c # d => held[c] \cap held[d] = {}

\* As long as no core has used a table that realloc had freed, a call on a descriptor
\* its core holds is not refused with EBADF: neither a _close on another core, nor
\* a table that moved while that core's stores were under way, empties its slot.
HeldIsOpen == ~Lost => \A c \in Cores : \A fd \in held[c] : IsOpen(fd)

\* Every descriptor a core holds leads to an open file of its own, in the file system
\* its path was opened on, and one core alone never uses a table that was freed.
HeldIntact ==
    base # "null" =>
        /\ base # "used"
        /\ \A c \in Cores : \A fd \in held[c] :
              LET f == slotFile[fd]
                  p == slotPath[fd]
              IN  /\ IsOpen(fd)
                  /\ f # NULL /\ obj[f] = "open"
                  /\ p # NULL /\ Mounted[p] = slotFs[fd]
                  /\ \A d \in Cores : \A other \in held[d] :
                         other # fd => slotFile[other] # f

\* write(), read() and lseek() on a descriptor that its core holds reach an
\* open file (tests/multicore/main.c asserts that they succeed).
CallsReachOpenFiles ==
    ~Lost => \A c \in Cores : pc[c] = "call" =>
        frame[c].file # NULL /\ obj[frame[c].file] = "open"

\* Between calls the heap holds the files of the held descriptors and no
\* other: no path through _open and _close forgets an fs_file_t or a slot.
NothingLeaks ==
    (~Lost /\ \A c \in Cores : pc[c] = "idle") =>
        LET fds == UNION {held[c] : c \in Cores}
        IN  /\ {f \in Files : obj[f] # "free"} = {slotFile[fd] : fd \in fds}
            /\ {fd \in Index : slotFs[fd] # NULL} = fds

\* The descriptors below one that a core is given are all held.
GivesLowest ==
    \A c \in Cores : \A fd \in held'[c] \ held[c] :
        \A i \in Index : i < fd => \E d \in Cores : i \in held[d]

\* _open returns the lowest descriptor that is free (tests/integration/
\* test_vfs.c relies on it when a closed number comes back first).
LowestFree == [][GivesLowest]_vars

\* Every call comes back to its caller.
CallsReturn == \A c \in Cores : pc[c] # "idle" ~> (pc[c] = "idle" \/ Lost)

\* The file system an owned descriptor is bound to, for DescriptorMap.
Bound == [fd \in Index |-> IF \E c \in Cores : fd \in held[c] THEN slotFs[fd] ELSE NULL]

Promise == INSTANCE DescriptorMap WITH Descriptors <- Index, owned <- held, bound <- Bound

\* The table, with _open and _close interleaved step by step, implements
\* DescriptorMap until it is lost: a descriptor appears when _open returns it and
\* nobody owns it, stays bound to its file system, and is given up at the call of
\* _close.
PromiseKept == Promise!Spec

------------------------------------------------------------------------------
(* The inductive invariant behind OwnersDisjoint, HeldIsOpen and PromiseKept *)

\* c is on its way through _open, with its mutex.
Opening(c) == pc[c] \in OpenPcs \ {"return"}

\* c has a copy of the table that is not in place yet.
Moving(c) == pc[c] \in {"free_old", "switch"}

\* c is in _close and has not emptied its slot yet.
Closing(c) == pc[c] \in {"file_close", "free", "clear_fs"}

\* Somebody's descriptor, or on its way to be closed.
Taken(fd) == \/ \E c \in Cores : fd \in held[c]
             \/ \E c \in Cores : Closing(c) /\ frame[c].fd = fd

\* The mutex of _open, and that of _close, belong to the core inside.
CallInv ==
    \A c \in Cores :
        /\ pc[c] = "idle" => frame[c].fn = NULL
        /\ frame[c].fn \in {"open", "close"} => mutex[frame[c].fn] = c
        /\ Opening(c) => /\ frame[c].fn = "open"
                         /\ frame[c].filesystem # NULL
                         /\ frame[c].fd <= max
        /\ pc[c] \in ClosePcs \ {"return"} => frame[c].fn = "close" /\ frame[c].fd < max

\* A taken slot has a file system, and so has its copy while realloc is at work.
TakenInv ==
    \A fd \in Index : Taken(fd) =>
        /\ fd < max
        /\ slotFs[fd] # NULL
        /\ \A c \in Cores : Moving(c) =>
              fd < frame[c].fd /\ copy.fs[fd] = slotFs[fd]

\* A descriptor in the hands of _close is nobody's.
ClosingInv ==
    \A c \in Cores : Closing(c) => \A d \in Cores : frame[c].fd \notin held[d]

\* The slot _open works on is empty until its file system is stored.
OpeningInv ==
    \A c \in Cores :
        LET fd == frame[c].fd
        IN  /\ Moving(c) => fd < max
            /\ pc[c] \in {"alloc", "file_open", "store_fs"} =>
                  fd < max /\ slotFs[fd] = NULL
            /\ pc[c] = "store_path" => /\ fd < max
                                       /\ slotFs[fd] = frame[c].filesystem
                                       /\ ~Taken(fd)

OwnershipInv == /\ TypeOK /\ CallInv /\ OwnersDisjoint
                /\ TakenInv /\ ClosingInv /\ OpeningInv

------------------------------------------------------------------------------
(* The inductive invariant behind HeldIntact, NothingLeaks and LowestFree, for *)
(* one core, which may pass any number to a call                               *)

\* The call works on an fs_file_t that is nobody's.
HasFile(c) == pc[c] \in {"file_open", "store_fs", "store_path", "file_close", "free"}

\* Every held descriptor leads to an open file of its own on its path's file system.
HeldFilesInv ==
    \A c \in Cores : \A fd \in held[c] :
        /\ IsOpen(fd)
        /\ slotFile[fd] \in Files /\ obj[slotFile[fd]] = "open"
        /\ slotPath[fd] \in Paths /\ Mounted[slotPath[fd]] = slotFs[fd]
        /\ \A other \in held[c] : slotFile[other] = slotFile[fd] => other = fd

\* _open works above descriptors that are all held, and realloc copies them all.
SearchInv ==
    \A c \in Cores :
        /\ Opening(c) =>
              /\ frame[c].path \in Paths /\ frame[c].filesystem # NULL
              /\ Mounted[frame[c].path] = frame[c].filesystem
              /\ frame[c].fd <= max
              /\ \A i \in Index : i < frame[c].fd => i \in held[c]
        /\ Moving(c) => /\ copy = Block(slotFile, slotFs, slotPath)
                        /\ \A fd \in held[c] : fd < frame[c].fd

\* The slot that _open or _close works on, and its file, are nobody's.
InHandInv ==
    \A c \in Cores :
        /\ pc[c] \in (OpenPcs \cup ClosePcs) \ {"assign", "return"} =>
              frame[c].fd < max /\ frame[c].fd \notin held[c]
        /\ pc[c] = "store_path" => slotFs[frame[c].fd] = frame[c].filesystem
        /\ HasFile(c) =>
              /\ frame[c].file \in Files /\ slotFile[frame[c].fd] = frame[c].file
              /\ pc[c] \in {"store_fs", "store_path"} => obj[frame[c].file] = "open"
              /\ \A fd \in held[c] : slotFile[fd] # frame[c].file

\* No other slot is taken, and no other file is allocated.
AccountInv ==
    \A c \in Cores :
        /\ \A i \in Index : slotFs[i] # NULL <=>
              \/ i \in held[c]
              \/ pc[c] \in {"store_path", "file_close", "free", "clear_fs"} /\ frame[c].fd = i
        /\ \A f \in Files : obj[f] # "free" <=>
              (\E fd \in held[c] : slotFile[fd] = f) \/ (HasFile(c) /\ frame[c].file = f)

\* The table is freed only while realloc moves it, and not used then.
MoveInv == base # "used" /\ (base = "freed" => \A c \in Cores : pc[c] = "switch")

\* With one core every slot and every fs_file_t is accounted for at every step of a call.
SequentialInv ==
    TypeOK /\ MoveInv /\ (~Lost => HeldFilesInv /\ SearchInv /\ InHandInv /\ AccountInv)
=============================================================================
