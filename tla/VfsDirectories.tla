---------------------------- MODULE VfsDirectories ----------------------------
(***************************************************************************)
(* The table of open directories of src/filesystem/vfs.c: opendir, readdir *)
(* and closedir, run by the cores of the chip side by side, with what the  *)
(* file systems allocate for a directory.  Each function has a mutex of    *)
(* its own, as in VfsDescriptors, and a step is again a stretch of code    *)
(* with at most one access that another core can observe.                  *)
(*                                                                         *)
(* A DIR is the fs_dir_t that opendir allocated, and leads to its slot by  *)
(* its own fd.  closedir clears the slot's file system, by which opendir   *)
(* finds a slot to be free, before it frees and clears what the slot holds *)
(* (vfs.c 662-664).  `raced` remembers the two races this table can lose.  *)
(* As in VfsDescriptors, realloc extends the table or moves it and frees   *)
(* the old block before opendir stores the new address; the program is     *)
(* undefined from an access to that block on (`Lost`).                     *)
(***************************************************************************)
EXTENDS Naturals

CONSTANTS
    Cores, FileSystems, Paths,
    Mounted,   \* Mounted[p]: find_mountpoint(p)->filesystem, or NULL
    Dirs,      \* the fs_dir_t objects the heap can hold
    TableCap,  \* bound on max_dir_descriptor
    NULL

Index == 0 .. TableCap - 1
Functions == {"opendir", "readdir", "closedir"}
Races == {"overtaken", \* an opendir took a slot that a closedir had yet to clear
          "copied"}    \* a closedir cleared a slot that realloc had copied

ASSUME NullAssumption == NULL \notin FileSystems \cup Dirs \cup Paths \cup Cores
ASSUME MountedAssumption == Mounted \in [Paths -> FileSystems \cup {NULL}]
ASSUME CapAssumption == TableCap \in Nat /\ TableCap >= 2

VARIABLES
    max,             \* max_dir_descriptor
    slotDir, slotFs, \* dir_descriptor[i].dir and .filesystem, NULL beyond max
    copy,            \* the block realloc is copying the table into
    base,            \* what dir_descriptor points to: the table ("valid"), a block that
                     \* realloc has "freed", such a block after its "used", or "null"
    mutex,           \* mutex[fn]: the core in function fn's static _mutex, or NULL
    obj,             \* obj[d]: is the fs_dir_t free, allocated, or open with a
                     \* context of its file system?
    fdOf,            \* fdOf[d]: dir->fd
    pc, frame,       \* where a core is in its call, and the locals of that call
    held,            \* held[c]: the DIRs c got from opendir and did not pass to closedir
    raced            \* history: the races that have happened

vars == <<max, slotDir, slotFs, copy, base, mutex, obj, fdOf, pc, frame, held, raced>>

Column(S) == [Index -> S \cup {NULL}]
EmptyColumn == [i \in Index |-> NULL]
Locals(fd, dir, filesystem) == [fd |-> fd, dir |-> dir, filesystem |-> filesystem]
NoFrame == Locals(0, NULL, NULL)
Frame == [fd : 0 .. TableCap, dir : Dirs \cup {NULL}, filesystem : FileSystems \cup {NULL}]

OpenPcs == {"assign", "free_old", "switch", "alloc", "dir_open", "store_fs", "store_fd"}
ClosePcs == {"dir_close", "clear_fs", "free", "clear_dir"}

TypeOK == /\ max \in 0 .. TableCap
          /\ slotDir \in Column(Dirs) /\ slotFs \in Column(FileSystems)
          /\ copy \in [dir : Column(Dirs), fs : Column(FileSystems)]
          /\ base \in {"valid", "freed", "used", "null"}
          /\ mutex \in [Functions -> Cores \cup {NULL}]
          /\ obj \in [Dirs -> {"free", "raw", "open"}]
          /\ fdOf \in [Dirs -> Index]
          /\ pc \in [Cores -> {"idle", "dir_read", "return"} \cup OpenPcs \cup ClosePcs]
          /\ frame \in [Cores -> Frame]
          /\ held \in [Cores -> SUBSET Dirs]
          /\ raced \subseteq Races
          /\ \A c \in Cores : pc[c] \notin {"idle", "assign", "return"} => frame[c].fd \in Index

Init == /\ max = 0
        /\ slotDir = EmptyColumn /\ slotFs = EmptyColumn
        /\ copy = [dir |-> EmptyColumn, fs |-> EmptyColumn]
        /\ base = "valid"
        /\ mutex = [fn \in Functions |-> NULL]
        /\ obj = [d \in Dirs |-> "free"]
        /\ fdOf = [d \in Dirs |-> 0]
        /\ pc = [c \in Cores |-> "idle"]
        /\ frame = [c \in Cores |-> NoFrame]
        /\ held = [c \in Cores |-> {}]
        /\ raced = {}

\* A core works on a directory that is not there (any more), or was handed one.
Harmed == \E c \in Cores :
    \/ \E d \in held[c] : obj[d] # "open"
    \/ /\ pc[c] \in {"dir_open", "store_fs", "store_fd", "dir_close", "dir_read"}
       /\ IF frame[c].dir = NULL THEN TRUE ELSE obj[frame[c].dir] = "free"

\* What the program does from here on is undefined.
Lost == base \in {"null", "used"} \/ Harmed

\* An access to the table.
Access == base' = IF base = "freed" THEN "used" ELSE base

Goto(c, l) == pc' = [pc EXCEPT ![c] = l]
\* Mutant of Enter: a mutex that keeps nobody out.
EnterAnyway(c, fn) == ~Lost /\ pc[c] = "idle" /\ mutex' = [mutex EXCEPT ![fn] = c]

Enter(c, fn) == ~Lost /\ pc[c] = "idle" /\ mutex[fn] = NULL /\ mutex' = [mutex EXCEPT ![fn] = c]

Return(c) ==
    /\ pc[c] = "return"
    /\ mutex' = [fn \in Functions |-> IF mutex[fn] = c THEN NULL ELSE mutex[fn]]
    /\ frame' = [frame EXCEPT ![c] = NoFrame]
    /\ Goto(c, "idle")
    /\ UNCHANGED <<max, slotDir, slotFs, copy, base, obj, fdOf, held, raced>>

------------------------------------------------------------------------------
(* opendir *)

\* Bounds the table: a call starts only if a slot is free or may still be added.
CanOpen == 2 * max <= TableCap \/ \E i \in Index : i < max /\ slotFs[i] = NULL

\* ENOENT without a mount point.
OpenEnter(c, p) ==
    /\ CanOpen /\ Enter(c, "opendir")
    /\ frame' = [frame EXCEPT ![c] = Locals(0, NULL, Mounted[p])]
    /\ Goto(c, IF Mounted[p] = NULL THEN "return" ELSE "assign")
    /\ UNCHANGED <<max, slotDir, slotFs, copy, base, obj, fdOf, held, raced>>

\* _assign_dir_descriptor: two slots at first, ENFILE without memory for them.
FirstTable(c) ==
    /\ pc[c] = "assign" /\ max = 0
    /\ max' = 2
    /\ \/ UNCHANGED <<base, pc>>
       \/ base' = "null" /\ Goto(c, "return")
    /\ UNCHANGED <<slotDir, slotFs, copy, mutex, obj, fdOf, frame, held, raced>>

\* One turn of the loop that looks for a slot without a file system.
Scan(c) ==
    LET i == frame[c].fd
    IN  /\ pc[c] = "assign" /\ i < max
        /\ IF slotFs[i] = NULL
             THEN Goto(c, "alloc") /\ UNCHANGED frame
             ELSE frame' = [frame EXCEPT ![c].fd = i + 1] /\ UNCHANGED pc
        /\ UNCHANGED <<max, slotDir, slotFs, copy, base, mutex, obj, fdOf, held, raced>>

\* Mutant of Grow: one slot too many.
GrowOneMore(c) ==
    /\ pc[c] = "assign" /\ max > 0 /\ frame[c].fd = max
    /\ max' = 2 * max + 1
    /\ copy' = [dir |-> slotDir, fs |-> slotFs] /\ Goto(c, "free_old")
    /\ UNCHANGED <<slotDir, slotFs, base, mutex, obj, fdOf, frame, held, raced>>

\* The first n slots of a column, those behind them cleared.
FirstOf(column, n) == [i \in Index |-> IF i < n THEN column[i] ELSE NULL]

\* No slot is free: the size doubles.  realloc copies the slots into a new block, or
\* extends the old one, whose new half opendir clears, or fails.
Grow(c) ==
    LET n == frame[c].fd
    IN  /\ pc[c] = "assign" /\ max > 0 /\ n = max
        /\ 2 * max <= TableCap
        /\ max' = 2 * max
        /\ \/ /\ copy' = [dir |-> slotDir, fs |-> slotFs] /\ Goto(c, "free_old")
              /\ UNCHANGED <<slotDir, slotFs, base>>
           \/ /\ slotDir' = FirstOf(slotDir, n) /\ slotFs' = FirstOf(slotFs, n)
              /\ Goto(c, "alloc") /\ UNCHANGED <<copy, base>>
           \/ base' = "null" /\ Goto(c, "return") /\ UNCHANGED <<slotDir, slotFs, copy>>
        /\ UNCHANGED <<mutex, obj, fdOf, frame, held, raced>>

\* realloc frees the block it has copied; dir_descriptor still points to it.
FreeOld(c) ==
    /\ pc[c] = "free_old"
    /\ base' = "freed"
    /\ Goto(c, "switch")
    /\ UNCHANGED <<max, slotDir, slotFs, copy, mutex, obj, fdOf, frame, held, raced>>

\* Mutant of Switch: forgets what realloc copied.
SwitchEmpty(c) ==
    /\ pc[c] = "switch"
    /\ slotDir' = EmptyColumn /\ slotFs' = EmptyColumn
    /\ copy' = [dir |-> EmptyColumn, fs |-> EmptyColumn]
    /\ base' = "valid"
    /\ Goto(c, "alloc")
    /\ UNCHANGED <<max, mutex, obj, fdOf, frame, held, raced>>

\* The copy becomes the table, its new half cleared; opendir takes the first new slot.
\* A store that reached the old block after the copy is gone.
Switch(c) ==
    /\ pc[c] = "switch"
    /\ slotDir' = FirstOf(copy.dir, frame[c].fd) /\ slotFs' = FirstOf(copy.fs, frame[c].fd)
    /\ copy' = [dir |-> EmptyColumn, fs |-> EmptyColumn]
    /\ base' = "valid"
    /\ Goto(c, "alloc")
    /\ UNCHANGED <<max, mutex, obj, fdOf, frame, held, raced>>

\* opendir has a copy of the table that is not in place yet.
Moving(c) == pc[c] \in {"free_old", "switch"}

\* A closedir that still has to free and clear what the slot holds.
BehindIn(fd) == \E c \in Cores : pc[c] \in {"free", "clear_dir"} /\ frame[c].fd = fd

\* The fs_dir_t goes into the slot at once; ENOMEM if the heap has none.
Alloc(c) ==
    LET fd == frame[c].fd
    IN  /\ pc[c] = "alloc"
        /\ \/ \E d \in Dirs :
                /\ obj[d] = "free"
                /\ obj' = [obj EXCEPT ![d] = "raw"]
                /\ slotDir' = [slotDir EXCEPT ![fd] = d]
                /\ frame' = [frame EXCEPT ![c].dir = d]
                /\ Goto(c, "dir_open")
           \/ /\ slotDir' = [slotDir EXCEPT ![fd] = NULL]
              /\ Goto(c, "return")
              /\ UNCHANGED <<obj, frame>>
        /\ raced' = raced \cup (IF BehindIn(fd) THEN {"overtaken"} ELSE {})
        /\ UNCHANGED <<max, slotFs, copy, base, mutex, fdOf, held>>

\* Mutant of DirOpen: a failed opendir keeps the fs_dir_t.
DirOpenKeepsObject(c) ==
    /\ pc[c] = "dir_open"
    /\ \E err \in BOOLEAN :
          IF err THEN Goto(c, "return") /\ UNCHANGED <<obj, slotDir>>
                 ELSE /\ obj' = [obj EXCEPT ![frame[c].dir] = "open"]
                      /\ Goto(c, "store_fs") /\ UNCHANGED slotDir
    /\ UNCHANGED <<max, slotFs, copy, base, mutex, fdOf, frame, held, raced>>

\* fs->dir_open; when it fails the object is freed and the slot cleared.
DirOpen(c) ==
    LET d == frame[c].dir
    IN  /\ pc[c] = "dir_open"
        /\ \/ obj' = [obj EXCEPT ![d] = "open"] /\ Goto(c, "store_fs") /\ UNCHANGED slotDir
           \/ /\ obj' = [obj EXCEPT ![d] = "free"]
              /\ slotDir' = [slotDir EXCEPT ![frame[c].fd] = NULL]
              /\ Goto(c, "return")
        /\ UNCHANGED <<max, slotFs, copy, base, mutex, fdOf, frame, held, raced>>

\* From this store on the slot counts as taken.
StoreFs(c) ==
    /\ pc[c] = "store_fs"
    /\ slotFs' = [slotFs EXCEPT ![frame[c].fd] = frame[c].filesystem]
    /\ Goto(c, "store_fd")
    /\ UNCHANGED <<max, slotDir, copy, base, mutex, obj, fdOf, frame, held, raced>>

\* The directory learns its slot and is the caller's.
StoreFd(c) ==
    LET d == frame[c].dir
    IN  /\ pc[c] = "store_fd"
        /\ fdOf' = [fdOf EXCEPT ![d] = frame[c].fd]
        /\ held' = [held EXCEPT ![c] = @ \cup {d}]
        /\ Goto(c, "return")
        /\ UNCHANGED <<max, slotDir, slotFs, copy, base, mutex, obj, frame, raced>>

------------------------------------------------------------------------------
(* readdir and closedir *)

\* The locals of a call on the directory: its slot and what the slot holds.
Loaded(d) == Locals(fdOf[d], slotDir[fdOf[d]], slotFs[fdOf[d]])

\* EBADF for a slot without a file system.
ReadEnter(c, d) ==
    /\ d \in held[c] /\ Enter(c, "readdir")
    /\ frame' = [frame EXCEPT ![c] = Loaded(d)]
    /\ Goto(c, IF slotFs[fdOf[d]] = NULL THEN "return" ELSE "dir_read")
    /\ Access
    /\ UNCHANGED <<max, slotDir, slotFs, copy, obj, fdOf, held, raced>>

\* fs->dir_read gives an entry, the end of the directory or an error.
DirRead(c) ==
    /\ pc[c] = "dir_read"
    /\ Goto(c, "return")
    /\ UNCHANGED <<max, slotDir, slotFs, copy, base, mutex, obj, fdOf, frame, held, raced>>

CloseEnter(c, d) ==
    /\ d \in held[c] /\ Enter(c, "closedir")
    /\ frame' = [frame EXCEPT ![c] = Loaded(d)]
    /\ held' = [held EXCEPT ![c] = @ \ {d}]
    /\ Goto(c, IF slotFs[fdOf[d]] = NULL THEN "return" ELSE "dir_close")
    /\ Access
    /\ UNCHANGED <<max, slotDir, slotFs, copy, obj, fdOf, raced>>

\* fs->dir_close frees its context; closedir goes on the same way after an error.
DirClose(c) ==
    /\ pc[c] = "dir_close"
    /\ obj' = [obj EXCEPT ![frame[c].dir] = "raw"]
    /\ frame' = [frame EXCEPT ![c].dir = NULL]
    /\ Goto(c, "clear_fs")
    /\ UNCHANGED <<max, slotDir, slotFs, copy, base, mutex, fdOf, held, raced>>

\* The slot is free for opendir from here on, with what it holds yet to be freed.
\* The store is lost if it goes to the block that realloc has already copied.
ClearFs(c) ==
    /\ pc[c] = "clear_fs"
    /\ slotFs' = [slotFs EXCEPT ![frame[c].fd] = NULL]
    /\ Goto(c, "free")
    /\ raced' = raced \cup (IF \E x \in Cores : Moving(x) THEN {"copied"} ELSE {})
    /\ Access
    /\ UNCHANGED <<max, slotDir, copy, mutex, obj, fdOf, frame, held>>

\* free() of what the slot holds by now.
FreeDir(c) ==
    LET d == slotDir[frame[c].fd]
    IN  /\ pc[c] = "free"
        /\ obj' = [x \in Dirs |-> IF x = d THEN "free" ELSE obj[x]]
        /\ Goto(c, "clear_dir")
        /\ Access
        /\ UNCHANGED <<max, slotDir, slotFs, copy, mutex, fdOf, frame, held, raced>>

ClearDir(c) ==
    /\ pc[c] = "clear_dir"
    /\ slotDir' = [slotDir EXCEPT ![frame[c].fd] = NULL]
    /\ Goto(c, "return")
    /\ Access
    /\ UNCHANGED <<max, slotFs, copy, mutex, obj, fdOf, frame, held, raced>>

------------------------------------------------------------------------------
Step(c) ==
    \/ Return(c)
    \/ /\ ~Lost
       /\ \/ FirstTable(c) \/ Scan(c) \/ Grow(c) \/ FreeOld(c) \/ Switch(c)
          \/ Alloc(c) \/ DirOpen(c) \/ StoreFs(c) \/ StoreFd(c)
          \/ DirRead(c) \/ DirClose(c) \/ ClearFs(c) \/ FreeDir(c) \/ ClearDir(c)

Undefined == Lost /\ UNCHANGED vars

Next == \/ \E c \in Cores :
             \/ Step(c)
             \/ \E p \in Paths : OpenEnter(c, p)
             \/ \E d \in Dirs : ReadEnter(c, d) \/ CloseEnter(c, d)
        \/ Undefined

Spec == Init /\ [][Next]_vars

------------------------------------------------------------------------------
(* Properties *)

\* As long as no core has used a table that realloc had freed, a directory is freed
\* under a core, or handed out free, in one way only: an opendir overtook the closedir
\* that was leaving its slot.  Stores of closedir that are lost because the table moves,
\* and every other interleaving of opendir, readdir and closedir, harm nobody.
HarmNeedsOvertaking == base # "used" /\ Harmed => "overtaken" \in raced

\* Unless either of the two happened, every DIR a core holds leads to its own slot, in which it
\* is open on a file system, and no two cores hold the same one.
HeldIntact ==
    ~Lost /\ "overtaken" \notin raced =>
        \A c \in Cores : \A d \in held[c] :
            /\ fdOf[d] < max
            /\ slotDir[fdOf[d]] = d /\ slotFs[fdOf[d]] # NULL
            /\ \A x \in Cores \ {c} : d \notin held[x]

\* Between calls the heap holds the directories of the held DIRs and no other, and
\* no other slot is taken: a failed opendir gives back all it took.  A race with
\* realloc may leave a slot taken for ever, but no memory.
NothingLeaks ==
    (~Lost /\ "overtaken" \notin raced /\ \A c \in Cores : pc[c] = "idle") =>
        LET kept == UNION {held[c] : c \in Cores}
        IN  /\ {d \in Dirs : obj[d] # "free"} = kept
            /\ raced = {} => {i \in Index : slotFs[i] # NULL} = {fdOf[d] : d \in kept}

\* The slots behind the DIRs of a core, and the file systems they are bound to.
Owned == [c \in Cores |-> {fdOf[d] : d \in held[c]}]
Bound == [i \in Index |-> IF \E c \in Cores : i \in Owned[c] THEN slotFs[i] ELSE NULL]

Promise == INSTANCE DescriptorMap WITH Descriptors <- Index, owned <- Owned, bound <- Bound

\* The slots themselves keep the promise of DescriptorMap even after an overtaking, until
\* the table is lost: opendir hands out one that nobody owns and it stays bound until
\* its owner calls closedir.
PromiseKept == Promise!Spec

------------------------------------------------------------------------------
(* The inductive invariant behind these properties *)

Opening(c) == pc[c] \in OpenPcs

\* opendir has a directory that is nobody's yet.
Filling(c) == pc[c] \in {"dir_open", "store_fs", "store_fd"}

\* closedir has yet to empty its slot, and to free what it holds.
Closing(c) == pc[c] \in {"dir_close", "clear_fs"}
Freeing(c) == pc[c] \in {"dir_close", "clear_fs", "free"}

IsHeld(d) == \E c \in Cores : d \in held[c]
Taken(i) == \/ \E c \in Cores : \E d \in held[c] : fdOf[d] = i
            \/ \E c \in Cores : Closing(c) /\ frame[c].fd = i

\* The mutexes of opendir and closedir belong to the core inside.
CallInv ==
    \A c \in Cores :
        /\ Opening(c) => /\ mutex["opendir"] = c
                         /\ frame[c].filesystem # NULL /\ frame[c].fd <= max
        /\ pc[c] \in ClosePcs => mutex["closedir"] = c /\ frame[c].fd < max

\* No two DIRs lead to one slot.
HeldInv ==
    \A c, x \in Cores : \A d \in held[c], e \in held[x] :
        fdOf[d] = fdOf[e] => c = x /\ d = e

\* A taken slot has a file system, and so has its copy while realloc is at work.
TakenInv ==
    \A i \in Index : Taken(i) =>
        /\ i < max /\ slotFs[i] # NULL
        /\ \A c \in Cores : Moving(c) => i < frame[c].fd /\ copy.fs[i] = slotFs[i]

\* A slot in the hands of closedir is nobody's.
ClosingInv ==
    \A c \in Cores : Closing(c) => \A x \in Cores : \A d \in held[x] : fdOf[d] # frame[c].fd

\* The slot opendir works on is empty until its file system is stored, and its
\* directory is nobody's.
OpeningInv ==
    \A c \in Cores :
        /\ Moving(c) => frame[c].fd < max
        /\ pc[c] \in {"alloc", "dir_open", "store_fs"} =>
              frame[c].fd < max /\ slotFs[frame[c].fd] = NULL
        /\ pc[c] = "store_fd" => /\ frame[c].fd < max
                                 /\ slotFs[frame[c].fd] = frame[c].filesystem
                                 /\ ~Taken(frame[c].fd)
        /\ Filling(c) => frame[c].dir \in Dirs /\ ~IsHeld(frame[c].dir)

SlotsInv == TypeOK /\ CallInv /\ HeldInv /\ TakenInv /\ ClosingInv /\ OpeningInv

\* The directory of a held DIR is open and in its slot.
HeldDirInv ==
    \A c \in Cores : \A d \in held[c] :
        /\ obj[d] = "open" /\ slotDir[fdOf[d]] = d
        /\ \A x \in Cores : Moving(x) => copy.dir[fdOf[d]] = d

\* The one opendir works on is allocated and in its slot.
FillingDirInv ==
    \A c \in Cores : Filling(c) => /\ obj[frame[c].dir] = IF pc[c] = "dir_open" THEN "raw" ELSE "open"
                                   /\ slotDir[frame[c].fd] = frame[c].dir

\* The one closedir is to free is allocated, in its slot and nobody's.
FreeingDirInv ==
    \A c \in Cores : Freeing(c) =>
        LET d == slotDir[frame[c].fd]
        IN  /\ d \in Dirs /\ obj[d] # "free" /\ ~IsHeld(d)
            /\ pc[c] = "dir_close" => frame[c].dir = d
            /\ \A x \in Cores : Filling(x) => frame[x].dir # d
            /\ \A x \in Cores : Moving(x) =>
                  frame[c].fd < frame[x].fd /\ copy.dir[frame[c].fd] = d

\* The slot that closedir has emptied is nobody's until closedir has cleared it.
LeavingInv ==
    \A c \in Cores : pc[c] \in {"free", "clear_dir"} =>
        /\ ~Taken(frame[c].fd)
        /\ \A x \in Cores : Filling(x) => frame[x].fd # frame[c].fd

\* Those are all the heap has.
HeapInv ==
    \A d \in Dirs : obj[d] # "free" =>
        \/ IsHeld(d)
        \/ \E c \in Cores : \/ Filling(c) /\ frame[c].dir = d
                            \/ Freeing(c) /\ slotDir[frame[c].fd] = d

ReadingInv == \A c \in Cores : pc[c] = "dir_read" => frame[c].dir \in held[c]

DirsInv == HeldDirInv /\ FillingDirInv /\ FreeingDirInv /\ LeavingInv /\ HeapInv /\ ReadingInv

\* The slots that have a file system, and so those of a copy, are all accounted for.
SlotsAccounted ==
    \A i \in Index :
        /\ slotFs[i] # NULL =>
              Taken(i) \/ \E c \in Cores : pc[c] = "store_fd" /\ frame[c].fd = i
        /\ \A c \in Cores : Moving(c) /\ i < frame[c].fd /\ copy.fs[i] # NULL =>
              slotFs[i] # NULL

\* At every access of opendir, readdir and closedir the slots are accounted for; the
\* directories in them as well, until an opendir overtakes the end of a closedir; and
\* what is taken is exactly that, until anything races.
DirectoriesInv == /\ SlotsInv
                  /\ "overtaken" \notin raced => DirsInv
                  /\ raced = {} => SlotsAccounted
=============================================================================
