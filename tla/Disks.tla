---------------------------------- MODULE Disks ----------------------------------
(***************************************************************************)
(* The block devices without a driver of their own - two partitions of the *)
(* on-board flash (flash.c), memory (heap.c) and a file on another file    *)
(* system (loopback.c) - under the calls of FatFs through the disk_        *)
(* functions of fat.c, or of littlefs through the callbacks of littlefs.c. *)
(*                                                                         *)
(* A cell is what the flash programs at once (a page), and stands for one  *)
(* bit of it: erased it is 1 and programming clears it.  A sector is what  *)
(* the flash erases, and what FatFs reads and writes.  Two cores work at   *)
(* the same time; the mutex of a file system lets one of them to its       *)
(* device.  Power may be lost between any two steps.                       *)
(***************************************************************************)
EXTENDS Integers, Sequences, FiniteSets

CONSTANTS
    Cores,
    Partitions,   \* devices of flash.c
    PartStart,    \* config->start, in cells
    PartLength,   \* the length passed to blockdevice_flash_create, 0 for the rest
    FlashSize,    \* PICO_FLASH_SIZE_BYTES, in cells
    Heap, Loop,   \* the device of heap.c and the one of loopback.c
    BlockCells,   \* BlockCells[d]: its erase_size, in cells
    MinSector,    \* the 512 bytes FatFs's sector has at least, in cells
    Capacity,     \* of the heap and the loopback device, in cells
    HostRoom,     \* how far the image file can grow
    OnLittlefs,   \* the devices with a littlefs on them, the others have a FAT
    NULL

Devices == Partitions \cup {Heap, Loop}

ASSUME PartAssumption == /\ PartStart \in [Partitions -> Nat]
                         /\ PartLength \in [Partitions -> Nat]
                         /\ FlashSize \in Nat
ASSUME DeviceAssumption == /\ Heap \notin Partitions /\ Loop \notin Partitions /\ Heap # Loop
                           /\ NULL \notin Devices
ASSUME SizeAssumption == /\ BlockCells \in [Devices -> Nat \ {0}]
                         /\ {MinSector, Capacity, HostRoom} \subseteq Nat \ {0}
                         /\ OnLittlefs \subseteq Devices

Bit == {0, 1}
Erased == 1
Junk == 1   \* what FatFs leaves in a file that lseek extends
Flash == 0 .. FlashSize - 1

\* device->size(): of flash.c, heap.c and loopback.c.
Size(d) == IF d \in Partitions
             THEN IF PartLength[d] > 0 THEN PartLength[d] ELSE FlashSize - PartStart[d]
             ELSE Capacity
Cells == [d \in Devices |-> 0 .. Size(d) - 1]
\* There is no memory, or no device, where there is a NULL.
ASSUME NullAssumption == NULL \notin [Cells[Heap] -> Bit]

\* flash.c does not compare a partition with the chip or with another one: the programs
\* choose them (e.g. src/examples/usb_logger/main.c:63).
ASSUME ApartAssumption ==
    /\ \A d \in Partitions : PartStart[d] + Size(d) <= FlashSize /\ Size(d) >= 0
    /\ \A d, e \in Partitions : d # e => \/ PartStart[d] + Size(d) <= PartStart[e]
                                       \/ PartStart[e] + Size(e) <= PartStart[d]

VARIABLES
    using,   \* the devices of this behaviour
    host,    \* the file system that the image file lies on: "fat" or "littlefs"
    flash,   \* the flash chip
    ram,     \* config->heap of heap.c, NULL while there is none
    image,   \* the image file as its descriptor sees it, a sequence
    saved,   \* the image file as a power loss leaves it
    fildes,  \* what the descriptor of loopback.c is, see TypeOK
    ready,   \* device->is_initialized
    known,   \* history: the cells that hold what a write has been acknowledged for
    blank,   \* history: the cells that littlefs has erased and not programmed since
    work,    \* what each core is at, see Idle
    last     \* what happened last

vars == <<using, host, flash, ram, image, saved, fildes, ready, known, blank, work, last>>

Idle == [at |-> "idle", dev |-> NULL, cells |-> {}, x |-> 0, got |-> <<>>]

TypeOK == /\ using \in {Partitions, {Heap}, {Loop}} /\ host \in {"fat", "littlefs"}
          /\ flash \in [Flash -> Bit]
          /\ ram \in [Cells[Heap] -> Bit] \cup {NULL}
          /\ image \in Seq(Bit) /\ Len(image) <= HostRoom
          /\ saved \in Seq(Bit) /\ Len(saved) <= HostRoom
          \* "errored": of a file that littlefs has marked LFS_F_ERRED; "stale": of no
          \* file any more, while the device goes on using its number
          /\ fildes \in {"none", "open", "errored", "stale"}
          /\ ready \in [Devices -> BOOLEAN]
          /\ known \in [Devices -> SUBSET Int] /\ blank \in [Devices -> SUBSET Int]
          /\ \A d \in Devices : known[d] \subseteq Cells[d] /\ blank[d] \subseteq Cells[d]
          /\ DOMAIN work = Cores

------------------------------------------------------------------------------
(* The devices: each operator gives the outcomes of a call on the media m,  *)
(* new media and whether it answers BD_ERROR_OK                             *)

Media == [flash |-> flash, ram |-> ram, image |-> image, saved |-> saved, fildes |-> fildes]
Outcome(m, ok) == [m |-> m, ok |-> ok, whole |-> ok]
Store(cells, S, x) == [i \in DOMAIN cells |-> IF i \in S THEN x ELSE cells[i]]

\* flash_target_offset() and the address of a call.
Target(d, S) == {PartStart[d] + i : i \in S}

\* flash_safe_execute() may give up before the update, or fail to let the other core go
\* on after it.
FlashUpdate(m, new) == {Outcome(new, TRUE), Outcome(new, FALSE), Outcome(m, FALSE)}
FlashErase(m, d, S) == FlashUpdate(m, [m EXCEPT !.flash = Store(@, Target(d, S), Erased)])
\* Programming can only clear bits.
FlashProgram(m, d, S, x) ==
    FlashUpdate(m, IF x = 0 THEN [m EXCEPT !.flash = Store(@, Target(d, S), 0)] ELSE m)

HeapErase(m, S) == {Outcome([m EXCEPT !.ram = Store(@, S, Erased)], TRUE)}
HeapProgram(m, S, x) == {Outcome([m EXCEPT !.ram = Store(@, S, x)], TRUE)}

First(S) == CHOOSE i \in S : \A j \in S : i <= j
Lower(a, b) == IF a < b THEN a ELSE b
\* A file of n cells at least.
Extended(file, n, fill) ==
    [i \in 1 .. (IF n > Len(file) THEN n ELSE Len(file)) |->
        IF i <= Len(file) THEN file[i] ELSE fill]

\* __read of loopback.c: zeros after the end of the image, which lseek has moved on FAT.
LoopSeek(m, to) ==
    IF host = "fat"
      THEN LET longer == Extended(m.image, Lower(to, HostRoom), Junk)
           IN  [m EXCEPT !.image = longer, !.saved = longer]
      ELSE m
LoopCell(m, i) == IF i < Len(m.image) THEN m.image[i + 1] ELSE 0

\* program of loopback.c: lseek and write.  A FAT without room writes a part of it and
\* says so, which counts as success; littlefs refuses.  An error of the host leaves the
\* cells as they are or as they should be.  FAT saves every write, littlefs the close,
\* and after a write that failed not even that, until one succeeds.
LoopProgram(m, S, x) ==
    LET k == LoopSeek(m, First(S))
        fits == {i \in S : i < HostRoom}
        long == Extended(k.image, First(S) + Cardinality(fits), 0)
        put == [i \in DOMAIN long |-> IF i - 1 \in fits THEN x ELSE long[i]]
        new == [k EXCEPT !.image = put, !.saved = IF host = "fat" THEN put ELSE @,
                         !.fildes = "open"]
        marked(n) == [n EXCEPT !.fildes = IF host = "fat" THEN @ ELSE "errored"]
    IN  IF m.fildes = "stale" THEN {Outcome(m, FALSE)} ELSE
        {Outcome(m, FALSE), Outcome(marked(k), FALSE)} \cup
        (IF fits = S THEN {Outcome(new, TRUE), Outcome(marked(new), FALSE)}
         ELSE IF host = "littlefs" THEN {}
         ELSE {[Outcome(IF fits = {} THEN k ELSE new, TRUE) EXCEPT !.whole = FALSE]})

\* device->erase(): nothing to do for loopback.c.
Erase(m, d, S) == CASE d \in Partitions -> FlashErase(m, d, S)
                    [] d = Heap -> HeapErase(m, S)
                    [] d = Loop -> {Outcome(m, TRUE)}

\* device->program()
Program(m, d, S, x) == CASE d \in Partitions -> FlashProgram(m, d, S, x)
                         [] d = Heap -> HeapProgram(m, S, x)
                         [] d = Loop -> LoopProgram(m, S, x)

\* What device->read() copies.
Holds(m, d, i) == CASE d \in Partitions -> m.flash[PartStart[d] + i]
                    [] d = Heap -> m.ram[i]
                    [] d = Loop -> LoopCell(m, i)

------------------------------------------------------------------------------
(* The calls of the file systems *)

\* Mutant of SectorCount: rounds up.
SectorCountUp(d) == (Size(d) + MinSector - 1) \div MinSector

\* disk_get_sector_size and disk_get_sector_count of fat.c.
SectorSize(d) == IF BlockCells[d] < MinSector THEN MinSector ELSE BlockCells[d]
SectorCount(d) == Size(d) \div SectorSize(d)
Sectors(d, s, n) == s * SectorSize(d) .. (s + n) * SectorSize(d) - 1

\* One of several blocks of littlefs, from off on; config.block_count blocks of
\* config.block_size.
BlockCount(d) == Size(d) \div BlockCells[d]
Block(d, b) == b * BlockCells[d] .. (b + 1) * BlockCells[d] - 1

TakeMedia(m) == /\ flash' = m.flash /\ ram' = m.ram /\ image' = m.image /\ saved' = m.saved
                /\ fildes' = m.fildes
Happened(op, d, S, x, got) == last' = [op |-> op, dev |-> d, cells |-> S, x |-> x, got |-> got]

\* The mutex of the file system (context->_mutex) is free.
MayEnter(d) == d \in using /\ ready[d] /\ \A c \in Cores : work[c].dev # d

\* A core starts to change the cells S of d.
Begin(c, d, S, at, x) ==
    /\ work[c].at = "idle" /\ MayEnter(d)
    /\ work' = [work EXCEPT ![c] = [Idle EXCEPT !.at = at, !.dev = d, !.cells = S, !.x = x]]
    /\ known' = [known EXCEPT ![d] = @ \ S]
    /\ blank' = [blank EXCEPT ![d] = @ \ S]
    /\ Happened("start", d, S, x, <<>>)
    /\ UNCHANGED <<using, host, flash, ram, image, saved, fildes, ready>>

\* disk_write: erases its sectors and programs them.
DiskWrite(c, d, s, n, x) ==
    /\ d \notin OnLittlefs /\ s + n <= SectorCount(d)
    /\ Begin(c, d, Sectors(d, s, n), "erase", x)

\* littlefs_erase and littlefs_program: one block, and a part of a block that has been
\* erased.
LfsErase(c, d, b) == d \in OnLittlefs /\ Begin(c, d, Block(d, b), "erase", Erased)
LfsProgram(c, d, b, i, x) ==
    /\ d \in OnLittlefs /\ i \in Block(d, b) \cap blank[d]
    /\ Begin(c, d, {i}, "program", x)

Return(c) == work' = [work EXCEPT ![c] = Idle]

\* device->erase(): disk_write goes on to program, or answers RES_PARERR.
EraseStep(c) ==
    LET w == work[c]
    IN  /\ w.at = "erase"
        /\ \E o \in Erase(Media, w.dev, w.cells) :
              /\ TakeMedia(o.m)
              /\ IF o.ok /\ w.dev \notin OnLittlefs
                   THEN /\ work' = [work EXCEPT ![c].at = "program"]
                        /\ UNCHANGED <<last, blank>>
                   ELSE /\ Return(c)
                        /\ Happened(IF o.ok THEN "erased" ELSE "failed",
                                    w.dev, w.cells, w.x, <<>>)
                        /\ blank' = [blank EXCEPT ![w.dev] =
                                        IF o.ok THEN @ \cup w.cells ELSE @]
        /\ UNCHANGED <<using, host, ready, known>>

\* device->program(), the end of the call.  A program that wrote a part only answers
\* BD_ERROR_OK all the same.
ProgramStep(c) ==
    LET w == work[c]
    IN  /\ w.at = "program"
        /\ \E o \in Program(Media, w.dev, w.cells, w.x) :
              /\ TakeMedia(o.m)
              /\ known' = [known EXCEPT ![w.dev] = IF o.ok /\ o.whole THEN @ \cup w.cells ELSE @]
              /\ Happened(IF ~o.ok THEN "failed" ELSE IF o.whole THEN "written" ELSE "short",
                          w.dev, w.cells, w.x, <<>>)
        /\ Return(c)
        /\ UNCHANGED <<using, host, ready, blank>>

\* disk_read and littlefs_read: device->read() copies cell by cell, while the other core
\* goes on.
ReadCall(c, d, S) ==
    /\ work[c].at = "idle" /\ MayEnter(d)
    /\ work' = [work EXCEPT ![c] = [Idle EXCEPT !.at = "read", !.dev = d, !.cells = S]]
    /\ UNCHANGED <<using, host, flash, ram, image, saved, fildes, ready, known, blank, last>>
DiskRead(c, d, s) == d \notin OnLittlefs /\ ReadCall(c, d, Sectors(d, s, 1))
LfsRead(c, d, i) == d \in OnLittlefs /\ ReadCall(c, d, {i})

Copy(c) ==
    LET w == work[c]
        i == First(w.cells \ DOMAIN w.got)
        m == IF w.dev = Loop THEN LoopSeek(Media, First(w.cells)) ELSE Media
        got == [j \in DOMAIN w.got \cup {i} |-> IF j = i THEN Holds(m, w.dev, i) ELSE w.got[j]]
    IN  /\ w.at = "read" /\ (w.dev = Loop => fildes # "stale") /\ TakeMedia(m)
        /\ IF DOMAIN got = w.cells
             THEN Return(c) /\ Happened("read", w.dev, w.cells, 0, got)
             ELSE work' = [work EXCEPT ![c].got = got] /\ UNCHANGED last
        /\ UNCHANGED <<using, host, ready, known, blank>>

\* A read() of the image that fails.
CopyFails(c) ==
    /\ work[c].at = "read" /\ work[c].dev = Loop
    /\ Return(c) /\ Happened("failed", Loop, work[c].cells, 0, <<>>)
    /\ UNCHANGED <<using, host, flash, ram, image, saved, fildes, ready, known, blank>>

\* device->init() answers; d is ready or not, and has this memory or this image.
Initialised(d, isReady, ram1, image1, fildes1) ==
    /\ d \in using
    /\ ready' = [ready EXCEPT ![d] = isReady]
    /\ ram' = ram1 /\ image' = image1 /\ fildes' = fildes1
    /\ Happened("init", d, {}, 0, <<>>)
    /\ UNCHANGED <<using, host, flash, saved, known, blank, work>>

FlashInit(d) == d \in Partitions /\ Initialised(d, TRUE, ram, image, fildes)

\* heap.c allocates memory that may hold anything, if there is any.
HeapInit == \/ Initialised(Heap, ready[Heap], ram, image, fildes)
            \/ /\ ~ready[Heap]
               /\ \E b \in Bit :
                     Initialised(Heap, TRUE, [i \in Cells[Heap] |-> b], image, fildes)

\* loopback.c opens its image, if it is not initialised and can.
LoopInit == \/ Initialised(Loop, ready[Loop], ram, image, fildes)
            \/ ~ready[Loop] /\ Initialised(Loop, TRUE, ram, saved, "open")

\* device->deinit() answers, when the file system has been unmounted: ok says whether d
\* is not initialised any more.
Deinitialised(d, ok, ram1, image1, saved1, fildes1, known1) ==
    /\ MayEnter(d)
    /\ ready' = [ready EXCEPT ![d] = ~ok]
    /\ ram' = ram1 /\ image' = image1 /\ saved' = saved1 /\ fildes' = fildes1
    /\ known' = [known EXCEPT ![d] = known1]
    /\ Happened(IF ok THEN "deinit" ELSE "deinit failed", d, {}, 0, <<>>)
    /\ UNCHANGED <<using, host, flash, blank, work>>

FlashDeinit(d) ==
    d \in Partitions /\ Deinitialised(d, TRUE, ram, image, saved, fildes, known[d])

\* heap.c frees its memory.
HeapDeinit == Deinitialised(Heap, TRUE, NULL, image, saved, fildes, {})

\* What the image file is after a close() that answers 0: littlefs gives up what it has
\* marked.
Closed == IF fildes = "errored" THEN saved ELSE image

LoopClosed == /\ fildes # "stale"
              /\ Deinitialised(Loop, TRUE, ram, Closed, Closed, "none",
                               IF Closed = image THEN known[Loop] ELSE {})

\* close() has given back the descriptor before it answers its error, with the image
\* saved or not; a close() of a number that is no file's is an error too.
CloseFailed == /\ fildes # "errored"
               /\ \E left \in IF fildes = "stale" THEN {saved} ELSE {saved, image} :
                     Deinitialised(Loop, FALSE, ram, image, left, "stale", known[Loop])

\* Mutant of LoopDeinit: the device counts as closed whatever close() answers.
LoopDeinitAnyway ==
    \/ LoopClosed
    \/ /\ fildes # "errored"
       /\ \E left \in IF fildes = "stale" THEN {saved} ELSE {saved, image} :
             Deinitialised(Loop, TRUE, ram, left, left, "none",
                           IF left = image THEN known[Loop] ELSE {})

\* loopback.c closes its image, and stays initialised if close() fails.
LoopDeinit == LoopClosed \/ CloseFailed

\* The devices that a power loss leaves as they are.
Kept == (Partitions \cup IF host = "fat" \/ saved = image THEN {Loop} ELSE {})

\* Both cores restart.  An erase or a program under way has left its cells anyhow.
PowerLoss ==
    LET torn == UNION {Target(work[c].dev, work[c].cells) :
                         c \in {x \in Cores : /\ work[x].at \in {"erase", "program"}
                                              /\ work[x].dev \in Partitions}}
    IN  /\ \E b \in Bit : flash' = Store(flash, torn, b)
        /\ ram' = NULL /\ image' = saved /\ fildes' = "none"
        /\ ready' = [d \in Devices |-> d \in Partitions]
        /\ known' = [d \in Devices |-> IF d \in Kept THEN known[d] ELSE {}]
        /\ blank' = [d \in Devices |-> {}]
        /\ work' = [c \in Cores |-> Idle]
        /\ Happened("reset", NULL, {}, 0, <<>>)
        /\ UNCHANGED <<using, host, saved>>

\* flash.c and heap.c initialise in their create functions; the heap may have no memory.
Init == /\ using \in {Partitions, {Heap}, {Loop}} /\ host \in {"fat", "littlefs"}
        /\ \E b \in Bit : flash = [i \in Flash |-> b]
        /\ ram = NULL /\ image = <<>> /\ saved = <<>> /\ fildes = "none"
        /\ ready = [d \in Devices |-> d \in Partitions]
        /\ known = [d \in Devices |-> {}] /\ blank = [d \in Devices |-> {}]
        /\ work = [c \in Cores |-> Idle]
        /\ last = [op |-> "boot", dev |-> NULL, cells |-> {}, x |-> 0, got |-> <<>>]

Next == \/ \E c \in Cores, d \in using, x \in Bit :
              \/ \E s \in 0 .. SectorCount(d) - 1, n \in 1 .. 2 : DiskWrite(c, d, s, n, x)
              \/ \E b \in 0 .. BlockCount(d) - 1 :
                    LfsErase(c, d, b) \/ \E i \in Cells[d] : LfsProgram(c, d, b, i, x)
        \/ \E c \in Cores, d \in using :
              \/ \E s \in 0 .. SectorCount(d) - 1 : DiskRead(c, d, s)
              \/ \E i \in Cells[d] : LfsRead(c, d, i)
        \/ \E c \in Cores : EraseStep(c) \/ ProgramStep(c) \/ Copy(c) \/ CopyFails(c)
        \/ \E d \in Partitions : FlashInit(d) \/ FlashDeinit(d)
        \/ HeapInit \/ HeapDeinit \/ LoopInit \/ LoopDeinit
        \/ PowerLoss

Spec == Init /\ [][Next]_vars
------------------------------------------------------------------------------
(* Properties *)

\* What is known of the cells.
Content == [d \in Devices |-> [i \in Cells[d] |->
                IF i \in known[d] THEN Holds(Media, d, i) ELSE NULL]]

\* The devices whose deinit() gives up what it has not saved, and answers BD_ERROR_OK.
Spoilt == IF fildes = "errored" THEN {Loop} ELSE {}

Promise == INSTANCE SectorStore WITH
    Durable <- Devices \ {Heap},
    content <- Content,
    kept <- Kept,
    spoilt <- Spoilt,
    call <- last

\* What a device has acknowledged it gives back: no call on another sector, another
\* partition or by the other core changes it, disk_read and littlefs_read find it
\* whole, and a power loss in the middle of a call costs the cells of that call only -
\* on flash always, on a loopback device over FAT always, over littlefs from a deinit()
\* on that answered BD_ERROR_OK, unless a write to it has failed and none has succeeded
\* since.  After a deinit() that fails the calls on the device fail; the number it still
\* has is taken to be no other file's by then.
StoreKept == Promise!Spec

------------------------------------------------------------------------------
(* The inductive invariant behind StoreKept *)

\* A stretch of the cells of a device, of which the first are copied.
Stretch(w) == \E a, b, k \in Cells[w.dev] :
                 a <= k /\ k <= b /\ w.cells = a .. b /\ DOMAIN w.got = a .. k - 1

\* What a core is at.  Nothing is known of cells that are to change, and what is
\* programmed into flash has been erased.  What is known of cells that have been read
\* is what has been read.
AtWork(c) ==
    LET w == work[c]
    IN  /\ w = [at |-> w.at, dev |-> w.dev, cells |-> w.cells, x |-> w.x, got |-> w.got]
        /\ w.at \in {"erase", "program", "read"}
        /\ w.dev \in using /\ ready[w.dev] /\ w.x \in Bit
        /\ Stretch(w)
        /\ w.at # "read" => w.cells \cap known[w.dev] = {} /\ w.cells \cap blank[w.dev] = {}
        /\ w.at = "program" /\ w.dev \in Partitions =>
              \A i \in w.cells : flash[PartStart[w.dev] + i] = Erased
        /\ \A i \in DOMAIN w.got \cap known[w.dev] : w.got[i] = Holds(Media, w.dev, i)

DisksInv ==
    /\ TypeOK
    /\ \A c \in Cores : work[c] = Idle \/ AtWork(c)
    /\ \A c, e \in Cores : c # e /\ work[c] # Idle => work[c].dev # work[e].dev
    /\ \A d \in Partitions : \A i \in blank[d] : flash[PartStart[d] + i] = Erased
    /\ IF ready[Heap] THEN ram # NULL ELSE known[Heap] = {}
    /\ \A i \in known[Loop] : i < Len(image)
    /\ host = "fat" \/ ~ready[Loop] => saved = image
    /\ ready[Loop] <=> fildes # "none"
=============================================================================
