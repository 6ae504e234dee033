-------------------------------- MODULE VfsFiles --------------------------------
(***************************************************************************)
(* The calls on one file as fat.c and littlefs.c carry them out: open,     *)
(* read, write, lseek, ftruncate, fstat, stat, close and unlink, with a    *)
(* device that may fail at any access and power that may be lost between   *)
(* any two calls (lost within a call it is a failed call and then a loss). *)
(*                                                                         *)
(* The file is open once at a time (LIMITATION.md, Multiple Open           *)
(* Instances).  A cell stands for a stretch of the file and MaxSize for    *)
(* what the medium holds.  What the two libraries do is FatFs's            *)
(* src/vendor/ff15/source/ff.c, and for littlefs what its interface says:  *)
(* nothing of a file changes on the medium before it is closed.            *)
(***************************************************************************)
EXTENDS Integers, Sequences

CONSTANTS
    Values,   \* what an application writes into a cell
    MaxSize,  \* the size of the medium, in cells
    HeapCap,  \* bound on the file contexts (fat_file_t, littlefs_file_t) of the heap
    NULL, Absent, Torn

ASSUME SizeAssumption == MaxSize \in Nat \ {0} /\ HeapCap \in Nat \ {0}

Cells == Values \cup {"zero", "junk"}
Contents == UNION {[1 .. n -> Cells] : n \in 0 .. MaxSize}

\* The flags of open that an application combines.
Flags == [read : BOOLEAN, write : BOOLEAN, creat : BOOLEAN, trunc : BOOLEAN,
          append : BOOLEAN, excl : BOOLEAN]
Usual == {f \in Flags : /\ f.read \/ f.write
                        /\ f.trunc \/ f.append \/ f.creat => f.write
                        /\ f.trunc => ~f.append
                        /\ f.excl => f.creat /\ ~f.trunc /\ ~f.append}

VARIABLES
    kind,    \* the file system: "fat" or "littlefs"
    live,    \* the file as its handle, or the next open, sees it: cells, or Absent
    dirent,  \* the size in its directory entry
    medium,  \* what a power loss leaves: cells, Absent, or Torn for anything
    file,    \* the open file, or NULL
    heap,    \* how many contexts are allocated
    leaks,   \* history: how many f_open() failed with a context allocated
    outside, \* history: has the file been used in a way the file systems differ on?
    last     \* the call that returned last, its arguments and its answer

vars == <<kind, live, dirent, medium, file, heap, leaks, outside, last>>

Handle == [read : BOOLEAN, write : BOOLEAN, append : BOOLEAN, pos : 0 .. MaxSize,
           dirty : BOOLEAN,  \* FA_MODIFIED, or littlefs's LFS_F_DIRTY
           err : BOOLEAN,    \* fp->err, or littlefs's LFS_F_ERRED
           cut : BOOLEAN,    \* history: ftruncate since the last write?
           failed : BOOLEAN, \* history: did a call on it fail?
           changed : BOOLEAN] \* history: has the file been changed since its open?

\* What PosixFile knows of a handle.
Shown(h) == [pos |-> h.pos, read |-> h.read, write |-> h.write, append |-> h.append,
             failed |-> h.failed, changed |-> h.changed]

ASSUME ValueAssumption == /\ NULL \notin Handle \cup {Shown(h) : h \in Handle}
                          /\ Absent \notin Contents /\ Torn \notin Contents \cup {Absent}

\* n, by: what lseek or ftruncate was given; x: what write was; flags: of open.
Request(op) == [op |-> op, n |-> 0, by |-> "SET", x |-> NULL, flags |-> NULL,
                answer |-> NULL, number |-> 0]

TypeOK == /\ kind \in {"fat", "littlefs"}
          /\ live \in Contents \cup {Absent}
          /\ dirent \in 0 .. MaxSize
          /\ medium \in Contents \cup {Absent, Torn}
          /\ file \in Handle \cup {NULL}
          /\ heap \in 0 .. HeapCap /\ leaks \in 0 .. HeapCap
          /\ outside \in BOOLEAN

Init == /\ kind \in {"fat", "littlefs"}
        /\ live = Absent /\ dirent = 0 /\ medium = Absent
        /\ file = NULL /\ heap = 0 /\ leaks = 0
        /\ outside = FALSE
        /\ last = [Request("boot") EXCEPT !.answer = "ok"]

------------------------------------------------------------------------------
(* The file systems: each operator gives the outcomes of a call on a state s *)

Now == [live |-> live, dirent |-> dirent, medium |-> medium, file |-> file, heap |-> heap]
Outcome(s, answer) == [s |-> s, answer |-> answer, number |-> 0]
\* The answer of a call that tells a position or a size.
Number(s, n) == [s |-> s, answer |-> "ok", number |-> n]

Lower(a, b) == IF a < b THEN a ELSE b
Upper(a, b) == IF a < b THEN b ELSE a
\* A file of n cells: cut, or filled up.
Resize(cells, n, fill) == [i \in 1 .. n |-> IF i <= Len(cells) THEN cells[i] ELSE fill]
\* A cell written at position p, over the end if need be.
Put(cells, p, x, fill) ==
    [Resize(cells, Upper(Len(cells), p + 1), fill) EXCEPT ![p + 1] = x]

Opened(fl, pos, dirty) ==
    [read |-> fl.read, write |-> fl.write, append |-> fl.append, pos |-> pos,
     dirty |-> dirty, err |-> FALSE, cut |-> FALSE, failed |-> FALSE, changed |-> FALSE]

\* Where an lseek of offset by whence leads.
Target(s, offset, whence) ==
    offset + (CASE whence = "SET" -> 0
                [] whence = "CUR" -> s.file.pos
                [] whence = "END" -> Len(s.live))

\* file_open of fat.c.  O_CREAT with O_TRUNC is FA_CREATE_ALWAYS, O_CREAT and
\* O_APPEND are FA_OPEN_ALWAYS; O_TRUNC alone and O_EXCL are not looked at.
\* f_open() creates and empties a file in memory, to be written by f_sync().  When it
\* fails the context stays allocated.  ENOMEM is the calloc()'s; EIO stands for any
\* failure within f_open(), that of its own name buffer included.
FatOpen(s, fl) ==
    LET create == fl.creat \/ fl.append
        up == [s EXCEPT !.heap = @ + 1]
        empty == [up EXCEPT !.live = <<>>, !.dirent = 0, !.medium = Torn]
        renewed == create /\ (s.live = Absent \/ (fl.creat /\ fl.trunc))
    IN  {Outcome(s, "ENOMEM")} \cup
        (IF s.heap = HeapCap THEN {}
         ELSE {Outcome(up, "EIO")} \cup
              (IF s.live = Absent /\ ~create THEN {Outcome(up, "ENOENT")}
               ELSE IF renewed
                 THEN {Outcome(empty, "EIO"),
                       Outcome([empty EXCEPT !.file = Opened(fl, 0, TRUE)], "ok")}
               ELSE {Outcome([up EXCEPT !.file =
                         Opened(fl, IF fl.append THEN Len(s.live) ELSE 0, FALSE)], "ok")}))

\* file_open of littlefs.c: the context is freed when lfs_file_open() fails.  A new
\* file is on the medium at once, an emptied one when it is closed.
LfsOpen(s, fl) ==
    LET up == [s EXCEPT !.heap = @ + 1]
        new == [s EXCEPT !.live = <<>>, !.medium = <<>>]
    IN  {Outcome(s, "ENOMEM")} \cup
        (IF s.heap = HeapCap THEN {}
         ELSE {Outcome(s, "EIO")} \cup
              (IF s.live = Absent /\ ~fl.creat THEN {Outcome(s, "ENOENT")}
               ELSE IF s.live = Absent
                 THEN {Outcome(new, "EIO"),
                       Outcome([new EXCEPT !.heap = @ + 1, !.file = Opened(fl, 0, FALSE)], "ok")}
               ELSE IF fl.excl THEN {Outcome(s, "EEXIST")}
               ELSE {Outcome([up EXCEPT !.live = IF fl.trunc THEN <<>> ELSE @,
                                        !.file = Opened(fl, 0, fl.trunc)], "ok")}))

\* f_sync(): the data and the directory entry; it may fail before, or after, the
\* entry has its new size.  Nothing to do without FA_MODIFIED.
FatSync(s) ==
    LET done == [s EXCEPT !.dirent = Len(s.live), !.file.dirty = FALSE]
    IN  IF ~s.file.dirty THEN {Outcome(s, "ok")}
        ELSE {Outcome([done EXCEPT !.medium = s.live], "ok"),
              Outcome([s EXCEPT !.medium = Torn], "EIO"),
              Outcome([done EXCEPT !.medium = Torn], "EIO")}

\* Mutant of FatWrite: without the f_sync().
FatWriteLazy(s, x) ==
    LET p == s.file.pos
    IN  IF ~s.file.write THEN {Outcome(s, "EACCES")}
        ELSE IF p = MaxSize THEN {Outcome(s, "short")}
        ELSE {Outcome([s EXCEPT !.live = Put(@, p, x, "junk"), !.file.pos = p + 1,
                                !.file.dirty = TRUE, !.file.cut = FALSE], "ok")}

\* file_write of fat.c: f_write(), which remembers an error for good, and f_sync().
\* On a full medium f_write() answers that it wrote nothing.
FatWrite(s, x) ==
    LET p == s.file.pos
        put == [s EXCEPT !.live = Put(@, p, x, "junk"), !.file.pos = p + 1,
                         !.file.dirty = TRUE, !.file.cut = FALSE]
        bad == [s EXCEPT !.file.err = TRUE, !.medium = Torn]
    IN  IF s.file.err THEN {Outcome(s, "EIO")}
        ELSE IF ~s.file.write THEN {Outcome(s, "EACCES")}
        ELSE {Outcome(bad, "EIO")} \cup
             (IF p = MaxSize
                THEN {IF o.answer = "ok" THEN Outcome(o.s, "short") ELSE o :
                          o \in FatSync([s EXCEPT !.file.dirty = TRUE])}
                ELSE {Outcome([bad EXCEPT !.live = put.live], "EIO")} \cup FatSync(put))

\* file_write of littlefs.c: in memory, or to blocks that are not the file's yet.
LfsWrite(s, x) ==
    LET p == IF s.file.append THEN Upper(s.file.pos, Len(s.live)) ELSE s.file.pos
        put == [s EXCEPT !.live = Put(@, p, x, "zero"), !.file.pos = p + 1,
                         !.file.dirty = TRUE, !.file.err = FALSE, !.file.cut = FALSE]
        bad == [s EXCEPT !.file.err = TRUE]
    IN  IF ~s.file.write THEN {Outcome(s, "EACCES")}
        ELSE IF p >= MaxSize THEN {Outcome(bad, "ENOSPC")}
        ELSE {Outcome(put, "ok"), Outcome(bad, "EIO"),
              Outcome([bad EXCEPT !.live = put.live], "EIO")}

ReadAt(s) ==
    IF s.file.pos < Len(s.live)
      THEN Outcome([s EXCEPT !.file.pos = @ + 1], s.live[s.file.pos + 1])
      ELSE Outcome(s, "eof")

\* file_read: f_read() remembers an error, lfs_file_read() does not.
FatRead(s) == IF s.file.err THEN {Outcome(s, "EIO")}
              ELSE IF ~s.file.read THEN {Outcome(s, "EACCES")}
              ELSE {ReadAt(s), Outcome([s EXCEPT !.file.err = TRUE], "EIO")}
LfsRead(s) == IF ~s.file.read THEN {Outcome(s, "EACCES")} ELSE {ReadAt(s), Outcome(s, "EIO")}

\* f_lseek(): a file open for writing is extended at once, as far as the medium
\* reaches, and what was there before becomes its content; a negative offset is a
\* huge one.  A file open for reading is not left.
FatMoved(s, offset) ==
    LET wish == IF offset < 0 THEN MaxSize ELSE Lower(offset, MaxSize)
        to == IF s.file.write THEN wish ELSE Lower(wish, Len(s.live))
        longer == Upper(to, Len(s.live))
    IN  IF s.file.err THEN {Outcome(s, "EIO")}
        ELSE {Outcome([s EXCEPT !.live = Resize(@, longer, "junk"), !.file.pos = to,
                                !.file.dirty = @ \/ longer > Len(s.live)], "ok")} \cup
             {Outcome([s EXCEPT !.live = Resize(@, n, "junk"), !.file.err = TRUE,
                                !.file.pos = 0,
                                !.file.dirty = @ \/ n > Len(s.live)], "EIO") :
                  n \in Len(s.live) .. longer}

\* The position of a call that moved.
AnswerPos(outcomes) ==
    {IF o.answer = "ok" THEN Number(o.s, o.s.file.pos) ELSE o : o \in outcomes}

\* Mutant of FatSeek: SEEK_END goes back from the start.
FatSeekFromStart(s, offset, whence) ==
    AnswerPos(FatMoved(s, IF whence = "END" THEN offset ELSE Target(s, offset, whence)))

\* Mutant of LfsSeek: resolves the offset before it hands over offset and whence.
LfsSeekTwice(s, offset, whence) ==
    LET to == Target(s, Target(s, offset, whence), whence)
    IN  IF to < 0 THEN {Outcome(s, "EINVAL")} ELSE {Number([s EXCEPT !.file.pos = to], to)}

\* file_seek of fat.c and littlefs.c.
FatSeek(s, offset, whence) == AnswerPos(FatMoved(s, Target(s, offset, whence)))
LfsSeek(s, offset, whence) ==
    LET to == Target(s, offset, whence)
    IN  IF to < 0 THEN {Outcome(s, "EINVAL")}
        ELSE {Number([s EXCEPT !.file.pos = to], to)}
             \cup (IF s.file.dirty THEN {Outcome(s, "EIO")} ELSE {})

\* file_truncate of fat.c: f_lseek() to the new size, f_truncate() there, f_lseek()
\* back - which extends the file again if it was behind.  The directory entry keeps
\* the old size, and the medium may lose the clusters that were cut off.
FatTruncate(s, n) ==
    UNION {IF a.answer # "ok" THEN {a}
           ELSE IF ~s.file.write THEN {Outcome(a.s, "EACCES")}
           ELSE LET shorter == Len(a.s.live) > a.s.file.pos
                    t == IF shorter
                           THEN [a.s EXCEPT !.live = Resize(@, a.s.file.pos, "junk"),
                                            !.medium = Torn, !.file.dirty = TRUE]
                           ELSE a.s
                IN  (IF shorter THEN {Outcome([t EXCEPT !.file.err = TRUE], "EIO")} ELSE {})
                    \cup {Outcome([b.s EXCEPT !.file.cut = TRUE], b.answer) :
                              b \in FatMoved(t, s.file.pos)} :
           a \in FatMoved(s, n)}

\* file_truncate of littlefs.c: the position stays.
LfsTruncate(s, n) ==
    IF ~s.file.write THEN {Outcome(s, "EINVAL")}
    ELSE {Outcome([s EXCEPT !.live = Resize(@, n, "zero"), !.file.dirty = TRUE,
                            !.file.cut = TRUE], "ok"),
          Outcome(s, "EIO")}

\* _fstat: the entry of the path on FAT; on littlefs by two lseeks, to the end and
\* back, of which the answer of the first is not checked.
FatFstat(s) == {Number(s, s.dirent), Outcome(s, "EIO")}
LfsFstat(s) ==
    {Number(s, Len(s.live))}
    \cup (IF s.file.dirty THEN {Outcome(s, "EIO"), Outcome(s, "negative size")} ELSE {})

\* file_stat: the entry, for both.
Stat1(s) == {IF s.live = Absent THEN Outcome(s, "ENOENT") ELSE Number(s, s.dirent),
             Outcome(s, "EIO")}

Closed(s) == [s EXCEPT !.file = NULL, !.heap = @ - 1]

\* Mutant of FatClose: keeps the context when f_close() fails.
FatCloseKeeps(s) ==
    {Outcome([s EXCEPT !.file = NULL, !.live = Resize(@, s.dirent, "junk"),
                       !.heap = IF o.answer = "ok" THEN @ - 1 ELSE @], o.answer) :
         o \in FatSync(s)}

\* file_close of fat.c: f_close() saves what is modified; the context is freed in any
\* case, and the file is again what its entry says.
FatClose(s) ==
    {Outcome(Closed([o.s EXCEPT !.live = Resize(@, o.s.dirent, "junk")]), o.answer) :
         o \in FatSync(s)}

\* file_close of littlefs.c: saves the file unless a write has failed, and answers 0 then.
LfsClose(s) ==
    LET saved == Closed([s EXCEPT !.medium = s.live, !.dirent = Len(s.live)])
        given == Closed([s EXCEPT !.live = s.medium])
    IN  IF s.file.err \/ ~s.file.dirty THEN {Outcome(given, "ok")}
        ELSE {Outcome(saved, "ok"), Outcome(saved, "EIO"), Outcome(given, "EIO")}

\* file_remove: both write the directory before they answer.
FatRemove(s) ==
    LET gone == [s EXCEPT !.live = Absent, !.dirent = 0]
    IN  IF s.live = Absent THEN {Outcome(s, "ENOENT"), Outcome(s, "EIO")}
        ELSE {Outcome([gone EXCEPT !.medium = Absent], "ok"), Outcome(s, "EIO"),
              Outcome([gone EXCEPT !.medium = Torn], "EIO")}
LfsRemove(s) ==
    LET gone == [s EXCEPT !.live = Absent, !.dirent = 0, !.medium = Absent]
    IN  IF s.live = Absent THEN {Outcome(s, "ENOENT"), Outcome(s, "EIO")}
        ELSE {Outcome(gone, "ok"), Outcome(s, "EIO"), Outcome(gone, "EIO")}

------------------------------------------------------------------------------
(* The calls *)

Errors == {"EIO", "ENOSPC", "negative size"}

Fat == kind = "fat"

\* What the history leaks counts, told by the answer alone: f_open() has failed, which
\* no file_open() of FAT answers before its calloc() has succeeded.
FOpenFailed(request, answer) == Fat /\ request.op = "open" /\ answer \notin {"ok", "ENOMEM"}

\* One outcome becomes the state; beyond says whether the use is one the file
\* systems differ on.
Take(request, outcomes, beyond) ==
    /\ \E o \in outcomes :
          /\ live' = o.s.live /\ dirent' = o.s.dirent /\ medium' = o.s.medium
          /\ heap' = o.s.heap
          /\ file' = IF o.s.file = NULL THEN NULL
                     ELSE [o.s.file EXCEPT !.failed = @ \/ o.answer \in Errors,
                                           !.changed = @ \/ live' # live]
          /\ last' = [request EXCEPT !.answer = o.answer, !.number = o.number]
          /\ leaks' = IF FOpenFailed(request, o.answer) THEN leaks + 1 ELSE leaks
    /\ outside' = ((medium' # Absent \/ live' # Absent) /\ (outside \/ beyond))
    /\ UNCHANGED kind

\* POSIX and littlefs: O_EXCL refuses a file that exists, O_TRUNC needs no O_CREAT,
\* O_APPEND does not create.
Open(fl) ==
    /\ file = NULL
    /\ Take([Request("open") EXCEPT !.flags = fl],
         IF Fat THEN FatOpen(Now, fl) ELSE LfsOpen(Now, fl),
            \/ fl.excl /\ live # Absent
            \/ fl.trunc /\ ~fl.creat
            \/ fl.append /\ ~fl.creat /\ live = Absent)

Write(x) ==
    /\ file # NULL
    /\ Take([Request("write") EXCEPT !.x = x],
         IF Fat THEN FatWrite(Now, x) ELSE LfsWrite(Now, x), FALSE)

\* An append handle starts at the end on FAT and at the top on littlefs.
Read ==
    /\ file # NULL
    /\ Take(Request("read"), IF Fat THEN FatRead(Now) ELSE LfsRead(Now), file.append)

\* Outside of the file both go where POSIX does not, or fill up differently.  MaxSize
\* bounds the positions.
Lseek(offset, whence) ==
    /\ file # NULL /\ Target(Now, offset, whence) <= MaxSize
    /\ Take([Request("lseek") EXCEPT !.n = offset, !.by = whence],
            IF Fat THEN FatSeek(Now, offset, whence) ELSE LfsSeek(Now, offset, whence),
            file.append \/ Target(Now, offset, whence) \notin 0 .. Len(live))

Ftruncate(n) ==
    /\ file # NULL
    /\ Take([Request("ftruncate") EXCEPT !.n = n],
            IF Fat THEN FatTruncate(Now, n) ELSE LfsTruncate(Now, n),
            ~file.write \/ n \notin file.pos .. Len(live))

Fstat == /\ file # NULL
         /\ Take(Request("fstat"), IF Fat THEN FatFstat(Now) ELSE LfsFstat(Now), file.cut)

Stat == Take(Request("stat"), Stat1(Now), file # NULL)

Close == /\ file # NULL
         /\ Take(Request("close"), IF Fat THEN FatClose(Now) ELSE LfsClose(Now), FALSE)

Unlink ==
    /\ file = NULL
    /\ Take(Request("unlink"), IF Fat THEN FatRemove(Now) ELSE LfsRemove(Now), FALSE)

\* The chip restarts and mounts the file system again.
PowerLoss ==
    /\ live' \in (IF medium = Torn THEN Contents \cup {Absent} ELSE {medium})
    /\ medium' = live' /\ dirent' = IF live' = Absent THEN 0 ELSE Len(live')
    /\ file' = NULL /\ heap' = 0 /\ leaks' = 0
    /\ last' = [Request("reset") EXCEPT !.answer = "ok"]
    /\ UNCHANGED <<kind, outside>>

Next == \/ \E fl \in Usual : Open(fl)
        \/ \E x \in Values : Write(x)
        \/ \E offset \in -1 .. MaxSize, whence \in {"SET", "CUR", "END"} : Lseek(offset, whence)
        \/ \E n \in 0 .. MaxSize : Ftruncate(n)
        \/ Read \/ Fstat \/ Stat \/ Close \/ Unlink \/ PowerLoss

Spec == Init /\ [][Next]_vars
------------------------------------------------------------------------------
(* Properties *)

\* What write() has acknowledged on FAT survives a power loss from then on, whatever
\* was done with the file before: f_write() never returns without its f_sync().
FatWriteStays == Fat /\ last.op = "write" /\ last.answer = "ok" => medium = live

\* The heap holds the context of the open file, and on FAT one more for every f_open()
\* that failed; littlefs gives its context back on every path.
ContextsAccounted ==
    /\ heap = leaks + (IF file = NULL THEN 0 ELSE 1)
    /\ ~Fat => leaks = 0

Promise == INSTANCE PosixFile WITH
    content <- live,
    handle <- IF file = NULL THEN NULL ELSE Shown(file),
    stable <- IF medium = Torn THEN Contents \cup {Absent} ELSE {medium},
    call <- last

\* As long as an application keeps to what both file systems do alike, the file is
\* the one of PosixFile on either of them: reads give what was written, positions
\* and sizes are right, a refused call changes nothing, and what close() has saved,
\* or FAT has written, survives a power loss.
PromiseKept == Promise!Spec

------------------------------------------------------------------------------
(* The inductive invariant behind FatWriteStays, ContextsAccounted and PromiseKept *)

\* How the copies of the file stand to each other, in a state s of the calls.
CopiesAgree(s) ==
    /\ s.file # NULL => s.live # Absent
    /\ s.live = Absent => s.dirent = 0
    /\ s.file = NULL /\ s.live # Absent => s.dirent = Len(s.live)
    /\ ~Fat => /\ s.medium # Torn /\ (s.medium = Absent <=> s.live = Absent)
               /\ s.medium # Absent => s.dirent = Len(s.medium)
               /\ s.file = NULL => s.live = s.medium

\* What a handle knows as long as no call on it failed and it is used as both file
\* systems allow: where the entry and the medium are behind, it is dirty, or was cut.
HandleKnows(s) ==
    s.file # NULL /\ ~s.file.failed =>
        /\ s.file.pos <= Len(s.live)
        /\ Fat => /\ ~s.file.dirty => /\ s.dirent = Len(s.live)
                                      /\ s.file.changed => s.medium = s.live
                  /\ ~s.file.cut => s.dirent = Len(s.live)
                  /\ s.file.append => s.file.pos = Len(s.live)
        /\ ~Fat => ~s.file.err /\ (~s.file.dirty => s.live = s.medium)

FilesInv == /\ TypeOK
            /\ CopiesAgree(Now)
            /\ ~outside => HandleKnows(Now)
            /\ ContextsAccounted
            /\ FatWriteStays
=============================================================================
