# A TLA+ model of pico-vfs

pico-vfs gives programs on a Raspberry Pi Pico the POSIX file API (`open`,
`read`, `opendir`, ...) over FAT and littlefs on SD cards, on-board flash,
memory and image files.  This directory holds TLA+ modules that model it, TLC
configurations that check them on small instances, and proofs that hold for
every size.  Paths below are relative to the repository.

## 1. The system

| component | source | state | operations |
|---|---|---|---|
| descriptor table | `src/filesystem/vfs.c` | `file_descriptor` (file, file system, path per slot), `max_file_descriptor`, one mutex per function | `_open`, `_close`, `_read`, `_write`, `_lseek`, `_ftello_r`, `ftruncate`, `_fstat` |
| directory table | `src/filesystem/vfs.c` | `dir_descriptor`, `max_dir_descriptor` | `opendir`, `readdir`, `closedir` |
| mount table | `src/filesystem/vfs.c` | `mountpoints` (dir, file system, device) | `fs_format`, `fs_mount`, `fs_unmount`, `fs_reformat`, `fs_info`, `find_mountpoint` |
| path operations | `src/filesystem/vfs.c` | none of their own | `_unlink`, `rename`, `mkdir`, `rmdir`, `_stat` |
| FAT adapter | `src/filesystem/fat.c` | `_ffs` (device per volume), `context->id`, a mutex per file system and one per format | mount, unmount, format, file and directory calls, `disk_*` for FatFs |
| littlefs adapter | `src/filesystem/littlefs.c` | `lfs_t` and its buffers, a mutex per file system | the same calls, `littlefs_read/program/erase/sync` |
| loopback device | `src/blockdevice/loopback.c` | a descriptor of the image, a mutex | read and program through `lseek`, `read`, `write` |
| SD device | `src/blockdevice/sd.c` | card type, number of sectors, a mutex; the card's own state | init, read, program, trim over SPI |
| flash device | `src/blockdevice/flash.c` | the flash, a mutex only `read` enters | read, erase, program |
| heap device | `src/blockdevice/heap.c` | a block of memory, a mutex | read, erase, program |
| start-up | `src/filesystem/fs_init.c`, `examples/*/` | none | `fs_init`: mount, else format and mount |
| FatFs, littlefs | `vendor/` | `FatFs[]`, the volumes | called by the adapters |

A call goes down: VFS function, adapter, library, device.  With a loopback
device it comes back to the VFS from the bottom.  There are no messages and no
callbacks otherwise; two cores (or FreeRTOS tasks) call in at the same time and
share the tables.  `auto_init_recursive_mutex(_mutex)` in a function declares a
static mutex *in that block*, which hides the `_mutex` of the file: `_open`
excludes `_open`, not `_close`.

What is hard, and therefore what the properties are about:

* two cores in different functions on one table, through a sequence of stores
  whose order decides whether a slot is free (`_open`, `_close`, `realloc`);
* a file pointer loaded under a mutex and used after it was left (`_read`,
  `_write`);
* a call that re-enters the VFS with three kinds of mutex entered (loopback);
* a call of several steps of which one fails: mount, format, reformat;
* strings and volume numbers that outlive what they stood for;
* a device or a card that fails, answers late or loses power.

What makes each component correct: a descriptor belongs to one caller and leads
to its own open file until that caller closes it; a mounted directory resolves
to its own file system and that to its own device; no sequence of failures uses
up slots, volumes or memory; every call returns; a device reads back what was
programmed, or says that it failed.  `PROJECT.json` lists the hazards line by
line with the properties that cover them.

## 2. The modules

| module | models | abstract specification it implements |
|---|---|---|
| `VfsDescriptors` | the descriptor table, access by access | `DescriptorMap` |
| `VfsDirectories` | the directory table, access by access | `DescriptorMap` |
| `LoopbackLocks` | every mutex on the way from the VFS to a loopback device | |
| `VfsMounts` | the mount table, FAT volumes, littlefs buffers | `Namespace` |
| `VfsStartUp` | each `fs_init`, and the application after it, on `VfsMounts` | `Namespace` |
| `VfsPaths` | the calls on names, over two mounted file systems | `PosixNames` |
| `VfsFiles` | the calls on one file, on FAT and littlefs | `PosixFile` |
| `Disks` | flash, heap and loopback devices under FatFs and littlefs | `SectorStore` |
| `SdCard`, `SdDriver` | the SD driver and the card | |
| `VfsDescriptorsProofs`, `VfsDirectoriesProofs`, `VfsMountsProofs`, `VfsPathsProofs`, `VfsFilesProofs`, `LoopbackLocksProofs`, `DisksProofs`, `SdDriverProofs` | the theorems of section 4 | |

The modules starting with `MC` only give constants their values and name the
symmetry sets and views.

### DescriptorMap and VfsDescriptors: the descriptor table

`DescriptorMap` is the promise of `open()` and `close()`: `owned[c]`, the
descriptors core `c` has; `bound[d]`, the file system of `d`; `Open` hands out a
descriptor nobody owns, `Close` takes it back.

`VfsDescriptors` is the code, cut into steps at every access that another core
can see.  `slotFile`, `slotFs`, `slotPath` are the three fields of a slot, `max`
is `max_file_descriptor`, `copy` the block `realloc` copies into, `base` what the
pointer `file_descriptor` leads to (the table, a block `realloc` has freed, nothing),
`obj` the life of each `fs_file_t` (free, allocated, open), `pc` and `frame` the place
and the locals of the call each core is in, `mutex[fn]` the static mutex of function
`fn`.  `held[c]` is the application's view: the descriptors `c` was given and
has not passed to `_close`.

| actions | code |
|---|---|
| `OpenEnter` `Alloc` `FileOpen` `StoreFs` `StorePath` | `_open`, with its three error returns |
| `FirstTable` `Scan` `Grow` `FreeOld` `Switch` | `_assign_file_descriptor`: the first table, a turn of the search loop, `max *= 2` and the copy of `realloc`, its `free` of the old block, the store of the new pointer and the cleared half |
| `CloseEnter` `FileClose` `FreeFile` `ClearFs` `ClearFile` `ClearPath` | `_close`, store by store |
| `UseEnter` `Call` | `_lseek`, `_ftello_r`, `ftruncate`, `_fstat`: the mutex is kept during the call |
| `ReadWriteEnter` `Call` | `_read`, `_write`: the mutex is left before the call |
| `FatStat` | the second look-up of `_fstat` on FAT |
| `Return` | leaves the mutex |

`realloc` may move the table, extend it where it is, or fail.  When it moves it, it
frees the old block before it returns, so that until `_open` stores the new address
every other core that reaches for the table uses freed memory: `base` goes from
`"valid"` to `"freed"`, with such an access to `"used"`, or back to `"valid"` with
`Switch` if there was none.  A store between the copy and the `free` is only lost.

Assumptions: loads and stores of a word are atomic and happen in the order of the
source (the RP2040 is in-order and the calls in between are opaque to the compiler);
the load of `file_descriptor` and the access to the slot behind it are one step (a
core that loads the address before the `free` and uses it afterwards, one more way to
the same harm, is not in the model); `file_open` succeeds or fails and changes no
slot; descriptors 0 to 2 are not modelled; a failing `calloc`/`realloc` of the table
(`TableAllocMayFail`) leaves a null table.  From there on, and from the use of a freed
table on, the program is undefined and the model stops (`Lost`). `Strangers` says
whether a core may pass a number it does not hold.

### VfsDirectories: the directory table

The same promise and the same way of cutting the code, for `opendir`, `readdir`
and `closedir`.  `slotDir` and `slotFs` are the fields of a slot; `obj[d]` tells
whether an `fs_dir_t` is free, allocated (`raw`) or open with a context of its
file system; `fdOf[d]` is the `fd` in it, by which the later calls find the slot.
`held[c]` are the `DIR`s that `c` was given and has not passed to `closedir`.

| actions | code |
|---|---|
| `OpenEnter` `Alloc` `DirOpen` `StoreFs` `StoreFd` | `opendir`, with its error returns |
| `FirstTable` `Scan` `Grow` `FreeOld` `Switch` | `_assign_dir_descriptor`, with `realloc` as above |
| `ReadEnter` `DirRead` | `readdir`, which keeps its mutex during the call |
| `CloseEnter` `DirClose` `ClearFs` `FreeDir` `ClearDir` | `closedir`, store by store |
| `Return` | leaves the mutex |

`closedir` empties the slot before it frees what the slot holds, and reads the
slot again for it.  An `opendir` on the other core may have taken the slot by
then.  `raced` is a history of this (`"overtaken"`) and of a store of `closedir`
that `realloc` has already copied past (`"copied"`): the properties say what
holds with which of them.  Once a core has a freed directory in its hands, or has used
a table that `realloc` has freed, the program is undefined and the model stops (`Lost`).

### LoopbackLocks: mutexes on the way down

`stack[c]` is the chain of calls of core `c`, innermost first, each in one
layer: `vfs`, `context` (an adapter's mutex) or `device` (a loopback device's).
`owner` and `depth` are the mutexes; those of the VFS may be entered again by
their own core.  `VfsEnter`/`VfsLeave` is a function that keeps its mutex,
`VfsPass` one that does not (`_read`, `_write`); `FsAccess` is a device access
of a file system call, at most `MaxAccess` of them; `DeviceSeek`,
`DeviceTransfer`, `DeviceLeave` are `__read` and `program` of
`src/blockdevice/loopback.c`, with the error return after `lseek`.  FatFs is
built without locks of its own (`FF_FS_REENTRANT` is 0).

Left out: the FAT format mutex, and the device's `init` and `deinit`.  These two call
`open` (`loopback.c:35`) and `close` (`loopback.c:57`) with the device's mutex entered,
as `__read` calls `lseek`, and what is shown here says nothing of them.  `init` goes on
to `open` only while the device is not initialised, which is when a program creates it,
in its start-up on one core, before anything is mounted on it; later calls of `init`,
by FatFs and `littlefs.c`, find it initialised and leave.  `deinit` is called by
`blockdevice_loopback_free` and by tests, and by no file system.

### Namespace, VfsMounts and VfsStartUp: the mount table

`Namespace` is the promise: `fs_mount` adds the directory it is given, `fs_unmount`
takes it away, and no other call changes the name space.

`VfsMounts` is `fs_format`, `fs_mount`, `fs_unmount`, `fs_reformat`, `fs_info` and, as
`PathCall`, what the calls with a path do with the table.  One call is one action:
`fs->mount` and its like are operators that give the set of outcomes (the layers
below, and an answer), and `Then` chains them the way the code returns at the first
error.  `low` is the state of the layers below: `ffs` and `registered` (`_ffs` of
fat.c, `FatFs[]` of FatFs), `id`, `up` (has littlefs its buffers), `media`, `ready`.
Any access may fail.  A medium holds nothing, a FAT, a littlefs, or half a FAT:
`f_mkfs` writes the boot record (`ff.c:6298`) before the FAT and the root directory
(`ff.c:6325-6339`), and `f_mount` looks at the boot record only.  A slot of the table
may be taken by a file system mounted elsewhere for good.

`fs_unmount` frees the string of the mount point and keeps the pointer.  What
`find_mountpoint` reads there later is modelled by what an allocator can make of
it: the old text, text that matches no path (`Garbage`), or, when a later
`strdup` is given the block, the text of that mount point.  A slot that was
never used points to address 0, where the RP2040 has its boot ROM; that matches
no path.  A call through a slot without a file system, or on freed littlefs
buffers, is `undefined` and the model stops.

`VfsStartUp` puts the start of a program before it.  `plan` is the `fs_init` that
runs, a list of calls each followed by the step its caller takes on success and on
failure; `step` is where it is.  `SeenAsFailed` is the comparison with -1 the callers
make, which misses the file system's own negative errors.  The plans are `DefaultInit`
(`src/filesystem/fs_init.c`) and those of the examples: `LittlefsInit`, `FatInit`,
`LoggerInit`, `FatSdInit`, `HeapInit`, `LoopbackInit`, `HelloInit`, `UsbLoggerInit`.
The media hold anything at first - nothing, a file system, the other one, half a FAT -
so a start-up is as well one after a reset in the middle of another.  `unread` is a
history: the devices whose mount failed on an access, though they hold the file system
that was asked for.  `cut` is another: the devices whose last format failed in this
start-up, or had left half a FAT before it.

Assumptions: one call at a time; an application mounts a file system object, a
device and a directory once at a time and formats what is not mounted (all
callers in `examples/` and `tests/` do); `Careful` is the demand of
`include/filesystem/vfs.h` that the path "Must be the same as the path specified
for the mount"; `strdup` succeeds; a loopback device is taken for a device like
any other.

### PosixNames and VfsPaths: the calls on names

`PosixNames` is what an application sees: one tree, joined from file systems,
in which `creat`, `mkdir`, `unlink`, `rmdir`, `rename`, `stat` and `readdir`
change the names they are about and no others, and an error tells the truth.

`VfsPaths` is the way from a path to its object: `FindMountpoint` and `RemovePrefix`
of vfs.c, then the FAT and littlefs operators (`FatRemove` and so on), each with the
error map of its adapter.  `tree[m]` is what the file system on mount point `m` holds.
Paths are sequences of names; because vfs.c compares strings, a name such as `sdx` is
`Joined` with `/sd` and leads into the file system there.  `twins` is a history:
`f_rename` failed between its two steps and left an object under two names, after
which the model stops.  A rename of a name to itself is no exception on FAT
(`ff.c:5196-5225`): it makes a second entry of that name, is denied when there is no
room for it, and removes the first one afterwards.  `Seen` is the one tree that the
application sees, by the paths it would write (`Canonical`).

`IsTree` says that what a file system holds is a tree, and `Fits` that it keeps to
`MaxObjects` and `MaxDepth`.  `ClosedAssumption` is about the application: it may use
every path at which its calls leave something, so that a directory that looks empty
to it is empty.  All sequences of names satisfy it, and so do the paths of the run.

### PosixFile and VfsFiles: the calls on a file

`PosixFile` is one file: `content`, `handle`, and `stable`, what a power loss may
leave.  `VfsFiles` has it on either kind of file system: `live` is what the open file
holds, `dirent` the size in its entry, `medium` what is on the device (`Torn` in the
middle of a change), `file` the handle with FatFs's or littlefs's dirty and error
flags, `heap` the contexts allocated and `leaks` how many times `f_open` has answered
an error, whatever became of the heap (`FOpenFailed`).  The FAT operators follow fat.c
and ff.c, the littlefs ones littlefs.c and the library's interface: nothing of a file
changes on the medium before `close`.  Every call may fail on an access.

Where the two file systems differ from POSIX or from each other - flags that only
one of them looks at, a read through an append handle, positions outside the file,
`ftruncate` behind the position or on a file not open for writing, `fstat` after
it, `stat` of an open file - the call is in the model, but marks the file
`outside`, and the promise speaks again when the file has been removed.

### SectorStore and Disks: the devices

`SectorStore` is the promise of a block device: what it has acknowledged it gives
back until those cells are written again, whatever happens to other cells and
devices, and after a power loss if the device keeps its content by then, as one that is
more than memory does from a `deinit` on, unless a write to it has failed (`spoilt`).

`Disks` has the devices of flash.c, heap.c and loopback.c below `disk_read`,
`disk_write` and the sizes of fat.c, or below the callbacks of littlefs.c.  A
cell stands for a bit of a page; a flash erases it to 1 and programs it to 0.
`work[c]` is the call core `c` is in, in two steps for a FAT write (erase,
program) and cell by cell for a read, which `flash.c` does without the mutex
that protects an update.  `image` and `saved` are a loopback file as its
descriptor sees it and as a power loss leaves it, and `fildes` is what that descriptor
is.  Over littlefs a failed write marks the file (`"errored"`); `close` of such a file
answers 0 and saves nothing, so that `deinit` gives up what the image had, until a
later write succeeds.  `close` of vfs.c takes the descriptor away before it answers an
error; `deinit` then leaves the device initialised with a number that is no file's
(`"stale"`), and every access to it fails from there on.  `known` and `blank` are
histories: the cells a write was acknowledged for, and those littlefs has erased
and may program.  Power is lost between any two steps, with the flash cells of
the call under way left as anything.

### SdCard and SdDriver: the SD device

`SdCard` is the other end of the bus, written from what `src/blockdevice/sd.c`
sends and expects: operators that give the answers a card may give to a command
(`Obey`), to one attempt on a disturbed bus (`Attempt`), and to a block or a
token (`Sending`, `Taking`, `Stopped`).  A disturbance loses a command or its
answer, spoils or refuses a block, or loses a token; there are `MaxNoise` of
them.  A card is of version 1 or 2, of high capacity, or one that does not run
at 3.3 V.  Its phases are those of the SD specification.

`SdDriver` is the driver, one step per command, block or token.  `config` is
`blockdevice_sd_config_t`, `initialized` the flag of the device, `selected` the
chip select, `call` the call under way with its locals, `card` the card.

| actions | code |
|---|---|
| `StartInit` `GoIdle` `SendIfCond` `CrcOn` `ReadOcr` `SendOpCond` `ReadCcs` `CrcOff` | `init_card`, with the five CMD0 and the ACMD41 loop |
| `SendCsd` `CsdData` `BlockLength` | `_sd_sectors`, CMD16 and `_freq` in `init` |
| `StartRead` `ReadCommand` `ReadData` `ReadStop` | `read` |
| `StartProgram` `PreErase` `WriteCommand` `WriteData` `WriteStop` | `program` |
| `StartTrim` `EraseFrom` `EraseTo` `Erase` | `trim` |
| `Deinit` | `deinit`, which takes no mutex |
| `Pull` `Insert` | the user takes the card out, and puts any kind of card in |

`Command` is `_cmd`: three tries as long as there is no response, the status
made of the response, and whether the card stays selected.  Addresses are
numbers of blocks or of bytes, as the driver computes them, and the card reads
them in its own unit.  Checksums are abstracted to whether a block arrives as it was
sent or disturbed (`Spoilt`), in its data or its checksum, which then never match by
accident; the CSD register to the size and erase unit it gives.

Assumptions: a disturbance never turns a command or an answer into another valid
one (so the bits of the OCR are right when they arrive); callers read and
program at least one block, as FatFs and littlefs do (with size 0 the loop of
`program` would count down from 0); a device is trimmed after an `init` has
found its erase size, by which `_is_valid_trim` divides.

## 3. The runs

| run | configuration | what it shows |
|---|---|---|
| `descriptors_one_core` | 1 core, FAT and littlefs, 3 objects, table up to 4, strangers, failing allocation | sequential correctness with every error path: each held descriptor leads to its own open file (`HeldIntact`), nothing is forgotten between calls (`NothingLeaks`), the lowest free number is handed out (`LowestFree`), every call returns (`CallsReturn`) |
| `descriptors_two_cores` | 2 cores, one file system, 3 objects, table up to 4 | `_open` and `_close` do not exclude each other, and yet, until a core uses a table that `realloc` has freed, no descriptor is shared (`OwnersDisjoint`) or emptied under its owner (`HeldIsOpen`); the table implements `DescriptorMap` (`PromiseKept`); the invariant behind the proofs (`OwnershipInv`) |
| `descriptors_two_cores_files` | the same | expected violation of `CallsReachOpenFiles`, see below |
| `directories` | 2 cores, 3 `fs_dir_t`, table up to 4, failing allocations | until a core uses a table that `realloc` has freed, nobody loses a directory (`HarmNeedsOvertaking`, `HeldIntact`) and none leaks (`NothingLeaks`) but for one race; the slots implement `DescriptorMap` with it too (`PromiseKept`); the invariant behind the proofs (`DirectoriesInv`) |
| `loopback_stack` | 1 core on three file systems stacked, another on the lowest of them | re-entry is free of deadlock (`NoDeadlock`), balanced (`LocksAccounted`), and ends (`CallsReturn`); sharing only the lowest file system is safe |
| `loopback_two_cores` | 2 cores on the loopback file system | expected violation of `NoDeadlock` |
| `mounts` | nine `fs_init`, then any calls; 2 FAT and 1 littlefs, 2 devices, 2 directories (one inside the other), 3 slots of which any may be taken, 2 volumes | volumes, devices and directories stay matched (`RegistryConsistent`, `MountedInPlace`); freed strings never win against a mounted directory (`MountedDirResolves`); what `fs_init` means by true (`StartedInPlace`), that it finds room (`StartHasRoom`), what it may erase (`KeptUnlessUnread`); the table implements `Namespace` (`NamespaceKept`) |
| `paths` | names x, y, sd, sdx, paths of 2 names below each mount point, 2 objects per file system, FAT and littlefs in each place | every answer of the calls on names, renames of a name to itself included, is what `PosixNames` says (`NamesKept`); each file system stays a tree, and within its size (`TypeOK`) |
| `files` | 2 values, a medium of 2 cells, a heap of 2 contexts | one file on either file system implements `PosixFile` (`PromiseKept`); what FAT has acknowledged is on the medium (`FatWriteStays`); the heap holds the open file's context and one for each `f_open` that failed (`ContextsAccounted`); the invariant behind the proofs (`FilesInv`) |
| `disks` | 2 cores; a flash of 6 cells in 2 partitions, FAT on the first and littlefs on the rest; or a heap, or a loopback device, of 5 cells, whose image may fail to close | the devices implement `SectorStore` (`StoreKept`); the invariant behind the proof (`DisksInv`) |
| `sd_driver` | cards of 2 blocks of every kind, calls of up to 2 blocks, one disturbance, cards pulled out at any moment, boards with CRC and without | `InitMeansReady`, `SingleReadExact`: what success means; `NoStrayWrites`: which blocks change; `TransferClosed`, `ReleasedAtRest`: how card and bus are left; every call returns (`CallsReturn`); the invariant behind the proofs (`DriverInv`) |
| `sd_whole` | the same, one board with CRC | expected violation of `SuccessIsWhole` |

Each module's type invariant (`TypeOK`, `StartTypeOK`, or as a part of `OwnershipInv`,
`DirectoriesInv`, `FilesInv`, `DisksInv` and `DriverInv`) is checked in one of its
runs.

Bounds.

* A table of 4 means the first allocation and one growth, with slots in use during the
  copy and after the `free`; more growths repeat the same steps.  Three objects let
  two cores hold one each while a third is being opened.
* Three mount slots of which any may be taken give tables with one, two and three
  free slots: full at the first mount, full at the second, and with a freed slot
  on either side of one in use.  Two volumes let one be kept by a failed mount
  while another is in use, or both be in use.
* Two objects per file system make a directory with something in it, a subtree
  that moves, and a full medium.  `sdx` is a name that only begins like `/sd`.
* A medium of two cells tells an empty, a partly written and a full file apart; a
  heap of two contexts can be emptied by one failed `f_open` and one open file.
* A flash of six cells has two erase blocks in the first partition and one in the
  second, next to it.  The loopback device has blocks of half a sector, a size
  that is no multiple of a sector, and a host with room for three of its five
  cells, so that an image can be read and written beyond its end and a write can
  be short.
* Two SD blocks tell a first block from a last one and from the end of the card; a
  block of two bytes tells the units apart.  One disturbance hits any step of any
  call; several in a row are what a card that was pulled out looks like.  Once
  round the ACMD41 loop is enough to leave it by completion, error and timeout.
* Two device accesses per call distinguish the first from a later one.

Objects, cores, values, devices and FAT file systems are interchangeable and
declared as symmetry sets where only safety is checked.  `mounts`, `paths` and
`disks` have a VIEW that leaves out `last`, the record of the last call: no action
reads it (but for whether the program is undefined, which the view keeps), so two
states that differ in it have the same future, and the properties about it are
action properties, which TLC checks on every transition it generates.

Fairness.  `FairSpec` asks of each core only that it goes on with a call it is
in (weak fairness of `Step`).  Cores run independently in hardware, so this is
what the chip gives; nothing is assumed about when an application calls.  The
liveness runs ask for a return when one core is calling, or when the others have
stopped to: entry to a mutex is not fair, and `loopback_two_cores` shows that it
can be closed for ever.  In `SdDriver` the assumption is that a call goes on; the
card may be silent or busy for ever, and may be exchanged in every call.

### What the expected violations say

* `descriptors_two_cores_files`: `_close` stores NULL to `.filesystem` first and
  to `.file` and `.path` after.  `_open` on the other core can take the slot in
  between; its new `.file` is then cleared.  `tests/multicore/main.c:42` asserts
  that `write` never fails in this situation.  The test's timing never meets the
  window.
* `loopback_two_cores`: `_lseek` keeps its mutex while the file system works.
  Core 0 is in the device and calls `lseek`; core 1 is in `lseek` on a file of
  the loopback file system and waits for what core 0 has.  The comment at
  `src/filesystem/vfs.c:45` expects recursive mutexes to carry this.
* `sd_whole`: a multiple read that lost a block answers with the status of the
  CMD12 that ends it, which is success; a multiple write whose block was refused
  leaves its loop without a status.

### What the models allow besides

The properties that hold are stated around these, each of which is a behaviour of
a model and a line of the code:

* When the table of files is full, the `realloc` of `_open` frees the old one before its
  new address is stored (`vfs.c:357`), and the mutex of `_open` keeps no other function
  out: a `write` or `close` of the other core in between reaches into the freed block.
  The two descriptors of `tests/multicore` fit the first table; a third open file makes
  it grow.  `opendir` has the same lines (`vfs.c:391`).
* `closedir` frees what its slot holds after it has given the slot up
  (`src/filesystem/vfs.c:662`): an `opendir` that takes the slot in between has its
  new directory freed.  `HarmNeedsOvertaking` says that this is the only way, but for
  the use of a table that `realloc` has freed.
* A second `fs_unmount` of a directory finds the old slot by its freed string and
  calls through its null file system (`vfs.c:143`), where `vfs.h` promises -1.
  `Careful` excludes it.
* `mount` of fat.c keeps the volume when `f_mount` fails (`fat.c:203`).  A program
  that tries to mount a blank card again and again gets ENOMEM for good;
  `StartHasRoom` shows that one start-up does not get there.
* `fs_format` returns the file system's own negative error (`vfs.c:95`), where
  `vfs.h:41` promises -1 and errno, and the `fs_init` functions compare with -1.  When
  `f_mkfs` failed after the boot record, the mount that follows takes it for a FAT, and
  `fs_init` answers true with half a FAT mounted; half a FAT from an earlier start-up is
  mounted likewise.  `StartedInPlace` says that nothing else gets by.
* A FAT format that is cut short leaves half a FAT where a good one was, also when
  `fs_reformat` does it to what was mounted.
* On FAT, `rename` of a name to itself answers an error when the medium is full, and
  leaves two entries of the name when it fails between its two steps (`twins`).
* An access that fails in the first `fs_mount` makes a start-up format a good
  medium (`fs_init.c:17`); `KeptUnlessUnread` says that nothing else does.
* `rename` takes the file system of the old path for the new one as well
  (`vfs.c:216`), so that a move across mount points lands in the first; FatFs
  lets a directory be moved into itself, where no path leads to it any more.
  `PosixNames` allows both (`Stray`) as long as other file systems are untouched.
* littlefs's NOTEMPTY is no case of the error map and arrives as errno 39.
* `_fstat` on littlefs does not check its first `lseek` (`vfs.c:300`) and may give a
  negative size; `lseek` on FAT extends a file that is open for writing, to the
  end of the medium for a negative offset (`fat.c:527`); `ftruncate` on FAT extends
  it again to a position behind the cut (`fat.c:578`); `close` on littlefs answers 0
  after a write that failed.
* `f_open` that fails leaves the context allocated (`fat.c:438`):
  `ContextsAccounted` counts them.
* A loopback `program` counts a short write as success (`loopback.c:112`), where
  `blockdevice.h:23` says "no error": on an image that has no room to grow FAT writes a
  part and says so.  `StoreKept` does not take such a write for acknowledged.
* `sync` of the loopback device does nothing, so an image on littlefs loses what was
  acknowledged until it is closed; `deinit` answers success although the `close` of an
  image on littlefs gave up what was written since the last one, when a write had
  failed; and when `close` fails `deinit` leaves the device initialised, with a
  descriptor that is no file's (`loopback.c:57`).  The model takes that number to stay
  nobody's; in the code a later `open` may be given it.
* `init_card` reads the capacity with a CMD58 whose failure the next command's
  status overwrites (`sd.c:575`), so that a high-capacity card may be addressed in
  bytes.

Disagreements with the text that no run shows, for they are a matter of one line
each: `tests/integration/test_vfs.c:48` says that unmounting deinits the device,
which nothing does; `sd.h:35` says that `enable_crc` enables "CRC on read/write",
but `init_card` ends by switching the card's checks off in both branches
(`sd.c:590`), so that only reads are checked; and
`tests/integration/test_blockdevice.c:132` expects a trim of size 0 to succeed,
for which `trim` of `sd.c` sends an end before the start.

## 4. What is proved

By tlapm, for every number of cores, file systems, devices, names, paths and objects,
for trees of every size and depth, for descriptor and directory tables of every size
of at least 2, mount and volume tables of every size of at least 1, and media, heaps,
partitions and images of any size.

### The descriptor table (`VfsDescriptorsProofs`)

* `TypeCorrect`: `Spec => []TypeOK`, without further assumptions;
* `Ownership`: `Spec => []OwnershipInv`, assuming `Strangers = FALSE`;
* `UniqueOwner`, `HeldStaysOpen`: `OwnersDisjoint` and `HeldIsOpen` follow, the second
  until a core uses a table that `realloc` has freed;
* `Refinement`: `Spec => PromiseKept`: every step is a step of `DescriptorMap`
  or leaves its variables alone.

`OwnersDisjoint` is not inductive: nothing in it says that the slot `_open` is
working on is nobody's.  `OwnershipInv` adds that a call has the mutex of its
function (`CallInv`); that a slot which is owned or on its way to be closed lies
in the table, has a file system, and has the same one in `copy` while the table
grows (`TakenInv`); that a descriptor in the hands of `_close` is nobody's
(`ClosingInv`); and that the slot of an `_open` is empty until its file system
is stored (`OpeningInv`).  The argument: at most one core is in `_open`; it only
takes a slot without a file system; every taken slot has one; and only the core
that closes a slot empties it, when it is nobody's any more.  The first load of
the search and the last store of `_close` concern the same field, which is why
the missing exclusion is harmless for the numbers, and why it is not for the
files (`descriptors_two_cores_files`).

`Strangers = FALSE` is needed: a core that closes another one's descriptor takes
it away by design.

### The descriptor table with one core (`VfsDescriptorsProofs`)

* `Sequential`: `Spec => []SequentialInv`, assuming `Cores = {c}`;
* `HeldStaysIntact`, `NoLeak`, `OpensLowest`: `HeldIntact`, `NothingLeaks` and
  `LowestFree` follow.

`HeldIntact` and `NothingLeaks` are false with two cores
(`descriptors_two_cores_files`).  Nothing is assumed of the calls: allocations may
fail, and the core may pass numbers that nobody holds (`Strangers`).
`SequentialInv` goes through a call step by step: every held descriptor leads to an
open file of its own on its path's file system (`HeldFilesInv`); while `_open`
searches, all slots below it are held, so that the copy of `realloc`, which takes
what is below, loses nothing (`SearchInv`); the slot and the file that a call has in
hand are nobody's (`InHandInv`); there are no others (`AccountInv`); and only the
core that moves the table is there while its old block is freed, which is why it never
comes to a use of it (`MoveInv`).
`SearchInv` is what `OpensLowest` comes from.  A failed allocation of the table
leaves a null table, and `SequentialInv` ends there.

### The directory table (`VfsDirectoriesProofs`)

* `TypeCorrect`: `Spec => []TypeOK`;
* `DirectoriesHold`: `Spec => []DirectoriesInv`;
* `OneWayToHarm`, `HeldStaysIntact`, `NoLeak`: `HarmNeedsOvertaking`,
  `HeldIntact` and `NothingLeaks` follow;
* `SlotsKeepPromise`: `Spec => PromiseKept`.

There is no assumption besides those of the constants: a core passes `DIR`s it
holds, for a `DIR` is a pointer.  `DirectoriesInv` has three parts, each of which
needs the one before.

`SlotsInv` is `OwnershipInv` again, by way of `fdOf`, and holds whatever races: a
`closedir` empties its slot once, when nobody owns it, and so the late free and
the late store never touch the numbers.

`DirsInv` says what is in the slots, as long as no `opendir` has overtaken a
`closedir`: a held directory is open and in its slot, also in the copy of a
growing table (`HeldDirInv`); so is the one `opendir` is filling
(`FillingDirInv`); the one `closedir` is to free is still there and nobody's
(`FreeingDirInv`); and these are all the heap has (`HeapInv`).  The conjunct that
makes it inductive is `LeavingInv`: between the store that gives the slot up and
the last store to it, nobody has taken the slot.  It is exactly what overtaking
breaks, which is why `OneWayToHarm` can name a single culprit, besides the use of a
freed table, with which the model ends.  A growth that nobody meets in that window is
harmless: a store of `closedir` that the copy has lost is a slot too many, no directory
too few.

`SlotsAccounted` says that no other slot is taken, as long as no store was lost
to a growing table either; with it `NothingLeaks` counts slots, without it
directories only.

### The mount table (`VfsMountsProofs`)

About `StartSpec`: any lists of calls as a start-up (`StartUpsAssumption` asks only
that a call goes on to a step of its list), and any calls after it.

* `TypeCorrect`: `StartSpec => []StartTypeOK`;
* `MountsHold`: `StartSpec => []MountsInv`;
* `RegistryHolds`, `ServesInPlace`, `MountedResolve`: `RegistryConsistent`,
  `MountedInPlace` and `MountedDirResolves` follow;
* `IsNamespace`: `StartSpec => NamespaceKept`, assuming `Careful`.

The proof has two halves.  Below the table, `Keeps(l, k, f)` is what any outcome of
a call on the file system `f` may do to the layers below: the two registries stay
matched, and whoever else could serve its calls still can.  It is transitive, so
that it goes through `Then`, and holds of each of `fs->mount`, `unmount` and
`format`.  The exception is the `unmount` of a file system that does not serve,
whose `id` may be the volume of another by then: it keeps the registries matched
(`FatUnmountKeeps`), but not the others in service, which is why `MountedInPlace`
ends with the first `fs_reformat` that failed.  In the table, `SlotsInv` says that
no slot before one in use names its directory, in use or freed.  It holds because a
mount takes the first free slot and `strdup` can only be given the block of another
free one, behind it; and it makes `find_mountpoint`, which takes the first of the
longest, find the slot that is in use.

`Careful` is needed for `IsNamespace`: `fs_unmount` of a path below a mount point
unmounts that.

Of the start-ups of the repository (`OwnStartUps`: the lists are among `FsInits`):

* `StartsInPlace`: `StartSpec => []StartedInPlace`;
* `HasRoom`, `KeepsUnlessUnread`: `StartSpec => StartHasRoom` and
  `StartSpec => KeptUnlessUnread`, assuming that `MaxVolume` and `MaxMountpoint` are at
  least 2 (`pico_vfs.cmake` sets 4 and 8).

These rest on the shape of the lists (`Ordered`): a call goes on to a later step or
gives up; there are two directories, at most two calls that mount a FAT file system,
and one file system for a device; the way past all the calls that mount one thing
leads over one of them that succeeded; and a device that is mounted as it is gets
formatted only after that mount failed. `PlaceInv` says that what a start-up has
behind it is mounted in its place: a failed format is taken for a success, but the
mount after it finds out unless half a FAT is there, which `cut` tells, and what the
later steps do leaves alone what is in place. `RoomInv` counts: a volume that is taken
has a FAT mount behind the step, and two of them have two, so that the first mount
finds both volumes free and the second finds one; the slots are those of the two
directories. With room, a mount fails on an access or on what is on the medium and on
nothing else, so that a format that is reached has its device in `unread`, or another
file system before it (`UnreadInv`).

### The mutexes (`LoopbackLocksProofs`)

For any stack of file systems, any number of cores, and any number of device
accesses in a file system call:

* `StackHolds`: `Spec => []StackInv`;
* `Accounted`: `Spec => []LocksAccounted`;
* `ReentryIsSafe`: `Spec => []NoDeadlock`, assuming that no file system lies, over
  however many loopback devices, on itself (`Ranks`), and that one core, `c0`, has
  the file systems on loopback devices to itself; the others may use those at the
  bottom.

`LocksAccounted` counts: for each mutex and core, the entries of the stack that are
in the mutex are as many as its depth.  Each step adds one entry, takes one away, or
moves the innermost one into or out of its mutex, and so the proof follows one count
by one step (`CountTop`).  `StackInv` is what `NoDeadlock` needs besides: only the
innermost call waits, and only what lies on a loopback device calls further down.

The argument for `ReentryIsSafe`: every call in a stack is lower than the one that
made it (`Descends`), so a core never meets one of its own mutexes that it cannot
enter again.  If some cores waited for each other, one of them would wait for a core
`d` other than `c0`, whose calls all end at the bottom (`Shallow`).  `d` is in a
mutex, and so waits further down than in a function of the VFS: for the context mutex
of a file system at the bottom.  Whoever is in that is in its innermost call and does
not wait (`ShallowEnds`).  Without the assumption on `c0` the run `loopback_two_cores` shows
the deadlock.

### The calls on names (`VfsPathsProofs`)

For any names, any set of paths that is closed (`ClosedAssumption`), any `Joined`, FAT
and littlefs in either place, and trees of any size and depth:

* `TypeCorrect`: `Spec => []TypeOK`;
* `NamesAreKept`: `Spec => NamesKept`: every call is a step of `PosixNames` on `Seen`,
  until `twins`.

The first part is about trees: what an object is after it was made, cut out or moved
with all that lies below it (`KindMoved`), and that what results is a tree again.  It
needs that nothing is put below a file, below what is cut or below itself, and that is
what the error returns of `f_unlink`, `f_rename` and their like see to.  From it comes,
for every call of each library, a lemma that says what tree it leaves with which errno.

The second part takes that through the mount points.  A path that the application would
write and its path in its file system determine each other (`UpIs`), and prefixes,
names and siblings go along; so a change of `tree[m]` is the change of `Seen` below the
same names, and of nothing on the other mount point (`SeenChange`).

The inductive invariant is `NamesInv`, `TypeOK` with `AllVisible`: every object that the
second mount point does not hide has a path among `Paths`.  `NamesKept` needs it for the
errors: `PosixNames` lets `rmdir` answer ENOTEMPTY only when something lies below the
directory in the tree that the application sees, and `unlink` go through only if nothing
does.  An object without a path would be in the file system's way and not in sight.
`ClosedAssumption` is what carries `AllVisible` over a rename, which moves objects to
paths that no call has named.

### The files (`VfsFilesProofs`)

For any values, a medium and a heap of any size, and either file system:

* `FilesHold`: `Spec => []FilesInv`;
* `WritesStay`, `ContextsCounted`: `FatWriteStays` and `ContextsAccounted` follow, the
  second with `leaks` counted by the answers of `f_open` alone;
* `ImplementsPosixFile`: `Spec => PromiseKept`: every call, whatever fails in it, and
  every power loss is a step of `PosixFile` or leaves its variables alone.

`FatWriteStays` says what the medium is after a `write`, which is of no use to the
`close`, the `unlink` or the power loss that comes next.  `FilesInv` says how the copies
of the file stand to each other after any sequence of calls: without a handle the entry
has the size of the file, and on littlefs the file is the medium (`CopiesAgree`); an
open handle on which no call failed knows what is behind - on FAT an entry that is
behind means it is dirty or was cut, on littlefs a medium that is behind means it is
dirty (`HandleKnows`).  Of a handle on which a call failed, and of a file that is
`outside`, only `CopiesAgree` holds, as `PosixFile` promises nothing of them; from the
`close` or the `unlink` that ends this on, everything holds again.  The proof of the
step has, for each file system, one lemma per operation about the state that the
operation hands to the call, and for each call one about what the call makes of it.

`ValueAssumption` says that NULL, `Absent` and `Torn` are no contents and no handles.

### The block devices (`DisksProofs`)

For any cores, partitions, sizes, erase blocks and image:

* `DisksHold`: `Spec => []DisksInv`;
* `ImplementsSectorStore`: `Spec => StoreKept`.

`DisksInv` says what lies between two steps of a call: two cores are never at work on
the same device; nothing is known of the cells that a call is to change; what is to be
programmed into flash has been erased, and so has what littlefs counts as `blank`; the
known cells of a loopback device lie within its image, and the image is the one on the
medium over FAT and once it is closed; the device is initialised as long as it has a
descriptor, a stale one included; and what a read has copied so far is what is known
of those cells, whatever other cores did meanwhile.  The argument: a step changes
cells of its own device only (`Touches`), in the one chip all the partitions share too,
for partitions lie apart; and before it changes them they have stopped being known.  So
a write becomes known when its last step is done, a read answers with what is known,
and a power loss may tear the cells of the calls under way and no others.  A `deinit` that
answers success has either saved the image, or given it up, in which case nothing of it
is known any more and the device was `spoilt` before.

`ApartAssumption` is needed for that: `flash.c` compares a partition neither with the
chip nor with another, and the programs choose them (for instance
`examples/usb_logger/main.c:63`).  `NullAssumption` says that NULL is no memory.

### The SD driver (`SdDriverProofs`)

For cards and calls of any size, any size of a block and an erase group, any boards,
disturbances and turns of the ACMD41 loop, cards that come and go, and `deinit` at any
moment:

* `DriverIsSafe`: `Spec => []DriverInv`;
* `CardIsReleased`, `InitIsHonest`, `ReadIsExact`, `TransfersAreClosed`,
  `WritesAreInPlace`: `ReleasedAtRest`, `InitMeansReady`, `SingleReadExact`,
  `TransferClosed` and `NoStrayWrites` follow.

The first part is about the bus.  `Effect` says what one command may do to a card and
what its answer tells, and `CmdEffect` that the three tries of `_cmd` do no more than
one: `Effect` composes, for a command that was carried out and lost its answer finds
nothing left to do (`EffectsCompose`).  That is least obvious of CMD38, which forgets the
range it has erased, so that the second one is refused.

The second part is the calls.  The properties speak of the last step of a call, and
`DriverInv` of what the driver knows before it: in `init`, that the card has a type, or
is one that CMD9 will find not to be ready (`InitInv`); in `read`, that a card asked for
one block sends that block or nothing (`ReadInv`); in `program`, that the card takes
block `count - left` of the range, or nothing (`WriteInv`); in `trim`, that the card, if
it is ready, has been told the ends of the range (`TrimInv`).  All of it is said of a
card that hears: one that was exchanged is in a phase in which it hears nothing of this.

The busy card of `init_card` is an instance: at the timeout the call goes on with type
UNKNOWN, and `InitInv` remembers that the card is not ready, which is why CMD9 fails.
`WritesAreInPlace` needs arithmetic: an address goes through the unit and back
(`AddressIs`), and a range of whole erase groups contains every block whose group it
meets (`GroupsAre`), also when it is empty.

The assumptions are those of the constants.  That units agree is a premise of the
properties, for the driver may take a high-capacity card for another one (`sd.c:575`).

### What is only model-checked

Liveness - `CallsReturn` of the descriptor table, the mutexes and the SD driver -
which is out of the prover's reach.  Every invariant and every action property of a
passing run is stated by a theorem.  With two cores `HeldIntact` of the descriptor
table is false, and so the theorem about it assumes one.

## 5. Not modelled

* Two cores in `fs_mount` or `fs_format` at once: the scan of `_ffs` (`fat.c:200`) is
  guarded by the mutex of each file system only, and `fs_mount` mounts before it
  enters its own (`vfs.c:105`).  `VfsMounts` runs one call at a time; every program
  of the repository mounts from one core, in `fs_init`.
* Two cores in the `init` or `deinit` of a loopback device, which call `open` and `close`
  with its mutex entered: deadlocks with these are not looked for.
* What a program does after an access to a table that `realloc` has freed.
* A failing `strdup` (`vfs.c:116`): what a path then matches depends on what lies at
  address 0.
* `fs_init_littlefs_sdcard.c`, which is `FatSdInit` with another file system object,
  and the third directory of `freertos_benchmark`.
* FatFs and littlefs inside (vendored): clusters, directory entries, long names,
  wear levelling.  What their calls do to names, contents and the medium is taken
  from ff.c and from the interface of littlefs.
* `.` and `..`, which littlefs lists and FAT does not; a rename onto a mount point.
* The stdio descriptors 0 to 2 (pure I/O), `fs_strerror` (a table of texts),
  `get_fattime` (the clock), the pin checks and allocations of the `_create`
  functions, examples after their start-up, tests and build files.
* Checksums and the bits of the CSD register in `SdDriver`.
