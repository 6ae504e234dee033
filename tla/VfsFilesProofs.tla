---------------------------- MODULE VfsFilesProofs ----------------------------
(***************************************************************************)
(* Proofs about VfsFiles: for either file system, any values, a medium and *)
(* a heap of any size.                                                     *)
(***************************************************************************)
EXTENDS VfsFiles, SequenceTheorems, TLAPS

------------------------------------------------------------------------------
(* The content of a file *)

LEMMA ContentsAre ==
    \A c : c \in Contents <=> c \in Seq(Cells) /\ Len(c) \in 0 .. MaxSize
<1>1. ASSUME NEW c \in Contents PROVE c \in Seq(Cells) /\ Len(c) \in 0 .. MaxSize
  <2>1. PICK n \in 0 .. MaxSize : c \in [1 .. n -> Cells]
    BY DEF Contents
  <2>2. c \in Seq(Cells)
    BY <2>1, SeqDef, SizeAssumption
  <2>3. Len(c) = n
    BY <2>1, <2>2, LenProperties, SizeAssumption
  <2> QED
    BY <2>2, <2>3
<1>2. ASSUME NEW c \in Seq(Cells), Len(c) \in 0 .. MaxSize PROVE c \in Contents
  <2>1. c \in [1 .. Len(c) -> Cells]
    BY LenProperties
  <2> QED
    BY <1>2, <2>1 DEF Contents
<1> QED
  BY <1>1, <1>2

LEMMA ResizeIs ==
    ASSUME NEW c \in Contents, NEW n \in 0 .. MaxSize, NEW fill \in Cells
    PROVE  /\ Resize(c, n, fill) \in Contents /\ Len(Resize(c, n, fill)) = n
           /\ \A i \in 1 .. n : Resize(c, n, fill)[i] = IF i <= Len(c) THEN c[i] ELSE fill
           /\ n = Len(c) => Resize(c, n, fill) = c
           /\ n <= Len(c) => Resize(c, n, fill) = SubSeq(c, 1, n)
<1> DEFINE r == Resize(c, n, fill)
<1>1. c \in Seq(Cells) /\ Len(c) \in Nat /\ \A i \in 1 .. Len(c) : c[i] \in Cells
  BY ContentsAre, LenProperties, ElementOfSeq
<1>2. r \in [1 .. n -> Cells] /\ \A i \in 1 .. n : r[i] = IF i <= Len(c) THEN c[i] ELSE fill
  BY <1>1 DEF Resize
<1>3. r \in Seq(Cells) /\ Len(r) = n
  <2>1. r \in Seq(Cells)
    BY <1>2, SeqDef, SizeAssumption
  <2> QED
    BY <1>2, <2>1, LenProperties, SizeAssumption
<1>4. r \in Contents
  BY <1>3, ContentsAre
<1> HIDE DEF r
<1>5. ASSUME n = Len(c) PROVE r = c
  <2>1. \A i \in 1 .. Len(r) : r[i] = c[i]
    BY <1>2, <1>3, <1>5
  <2> QED
    BY <1>1, <1>3, <1>5, <2>1, SeqEqual
<1>6. ASSUME n <= Len(c) PROVE r = SubSeq(c, 1, n)
  <2> DEFINE t == SubSeq(c, 1, n)
  <2>1. \A i \in 1 .. n : c[i] \in Cells
    BY <1>1, <1>6
  <2>2. t \in Seq(Cells) /\ Len(t) = (IF 1 <= n THEN n - 1 + 1 ELSE 0)
        /\ \A i \in 1 .. n - 1 + 1 : t[i] = c[1 + i - 1]
    BY <2>1, SubSeqProperties, SizeAssumption
  <2> HIDE DEF t
  <2>3. Len(t) = n
    BY <2>2, SizeAssumption
  <2>4. \A i \in 1 .. Len(r) : r[i] = t[i]
    BY <1>2, <1>3, <1>6, <2>2, SizeAssumption
  <2> QED
    BY <1>3, <2>2, <2>3, <2>4, SeqEqual DEF t
<1> QED
  BY <1>2, <1>3, <1>4, <1>5, <1>6 DEF r

LEMMA PutIs ==
    ASSUME NEW c \in Contents, NEW p \in 0 .. MaxSize - 1, NEW x \in Values,
           NEW fill \in Cells
    PROVE  /\ Put(c, p, x, fill) \in Contents
           /\ Len(Put(c, p, x, fill)) = Upper(Len(c), p + 1)
           /\ p <= Len(c) => Put(c, p, x, fill) = Promise!Put(c, p, x)
<1> DEFINE m == Upper(Len(c), p + 1)
           r == Resize(c, m, fill)
           t == Put(c, p, x, fill)
           u == Promise!Put(c, p, x)
<1>1. c \in Seq(Cells) /\ Len(c) \in 0 .. MaxSize /\ \A i \in 1 .. Len(c) : c[i] \in Cells
  BY ContentsAre, ElementOfSeq, LenProperties
<1>2. m \in 0 .. MaxSize /\ p + 1 \in 1 .. m /\ Len(c) <= m
  BY <1>1, SizeAssumption DEF Upper
<1>3. r \in Seq(Cells) /\ Len(r) = m
      /\ \A i \in 1 .. m : r[i] = IF i <= Len(c) THEN c[i] ELSE fill
  <2> HIDE DEF m
  <2> QED
    BY <1>2, ResizeIs, ContentsAre
<1>4. t \in Seq(Cells) /\ Len(t) = m
      /\ \A i \in 1 .. m : t[i] = IF i = p + 1 THEN x ELSE r[i]
  <2>1. x \in Cells /\ p + 1 \in 1 .. Len(r)
    BY <1>2, <1>3 DEF Cells
  <2>2. t = [r EXCEPT ![p + 1] = x]
    BY DEF Put
  <2> HIDE DEF t, r
  <2> QED
    BY <1>3, <2>1, <2>2, ExceptSeq
<1>5. t \in Contents
  BY <1>2, <1>4, ContentsAre
<1>6. ASSUME p <= Len(c) PROVE t = u
  <2>1. u = [i \in 1 .. (IF p < Len(c) THEN Len(c) ELSE p + 1) |-> IF i = p + 1 THEN x ELSE c[i]]
    BY DEF Promise!Put
  <2>2. (IF p < Len(c) THEN Len(c) ELSE p + 1) = m
    BY <1>1, <1>6, SizeAssumption DEF Upper
  <2>3. t \in [1 .. m -> Cells]
    BY <1>4, LenProperties
  <2>4. \A i \in 1 .. m : t[i] = IF i = p + 1 THEN x ELSE c[i]
    <3> HIDE DEF t, r
    <3>1. m = Len(c) \/ (m = p + 1 /\ Len(c) = p)
      BY <1>1, <1>6, SizeAssumption DEF Upper
    <3> HIDE DEF m
    <3> QED
      BY <1>1, <1>3, <1>4, <3>1
  <2>5. u = [i \in 1 .. m |-> IF i = p + 1 THEN x ELSE c[i]]
    BY <2>1, <2>2
  <2> HIDE DEF t, u, m
  <2> QED
    BY <2>3, <2>4, <2>5
<1> HIDE DEF t, u, m
<1> QED
  BY <1>4, <1>5, <1>6 DEF t, u, m

------------------------------------------------------------------------------
(* The outcomes of a call on an open file *)

States == [live : Contents \cup {Absent}, dirent : 0 .. MaxSize,
           medium : Contents \cup {Absent, Torn}, file : Handle \cup {NULL},
           heap : 0 .. HeapCap]
OpenStates == {s \in States : s.file \in Handle /\ s.live \in Contents}

\* The handle of t is that of s, but for its position and what it knows.
SameHandle(s, t) ==
    /\ t.file.read = s.file.read /\ t.file.write = s.file.write
    /\ t.file.append = s.file.append
    /\ t.file.failed = s.file.failed /\ t.file.changed = s.file.changed

\* What every call on an open file leaves as it is, but for close().
Stays(s, o) == /\ o.s \in OpenStates /\ o.s.heap = s.heap /\ SameHandle(s, o.s)
               /\ ~Fat => o.s.medium = s.medium /\ o.s.dirent = s.dirent

LEMMA FatSyncIs ==
    ASSUME Fat, NEW s \in OpenStates, NEW o \in FatSync(s)
    PROVE  /\ Stays(s, o) /\ o.s.live = s.live /\ o.answer \in {"ok", "EIO"} /\ o.number = 0
           /\ o.s.file.pos = s.file.pos /\ o.s.file.err = s.file.err
           /\ o.s.file.cut = s.file.cut
           /\ ~s.file.dirty => o.s = s
           /\ s.file.dirty /\ o.answer = "ok" =>
                 /\ ~o.s.file.dirty /\ o.s.dirent = Len(s.live) /\ o.s.medium = s.live
<1> DEFINE done == [s EXCEPT !.dirent = Len(s.live), !.file.dirty = FALSE]
           a == [done EXCEPT !.medium = s.live]
           b == [s EXCEPT !.medium = Torn]
           c == [done EXCEPT !.medium = Torn]
<1>1. Len(s.live) \in 0 .. MaxSize
  BY ContentsAre DEF OpenStates
<1>2. /\ s \in States /\ s.file \in Handle /\ s.live \in Contents
  BY DEF OpenStates
<1>3. /\ done \in OpenStates /\ done.live = s.live /\ done.heap = s.heap
      /\ done.dirent = Len(s.live) /\ done.medium = s.medium
      /\ SameHandle(s, done) /\ done.file.pos = s.file.pos /\ done.file.err = s.file.err
      /\ done.file.cut = s.file.cut /\ ~done.file.dirty
  BY <1>1, <1>2 DEF OpenStates, States, Handle, SameHandle
<1> HIDE DEF done
<1>4. /\ a \in OpenStates /\ a.live = s.live /\ a.heap = s.heap /\ a.file = done.file
      /\ a.dirent = Len(s.live) /\ a.medium = s.live
  BY <1>2, <1>3 DEF OpenStates, States
<1>5. /\ b \in OpenStates /\ b.live = s.live /\ b.heap = s.heap /\ b.file = s.file
  BY <1>2 DEF OpenStates, States
<1>6. /\ c \in OpenStates /\ c.live = s.live /\ c.heap = s.heap /\ c.file = done.file
  BY <1>2, <1>3 DEF OpenStates, States
<1>7. o \in IF ~s.file.dirty THEN {Outcome(s, "ok")}
            ELSE {Outcome(a, "ok"), Outcome(b, "EIO"), Outcome(c, "EIO")}
  BY DEF FatSync, done
<1> HIDE DEF a, b, c
<1>8. \/ o = Outcome(s, "ok") /\ ~s.file.dirty
      \/ o = Outcome(a, "ok")
      \/ o = Outcome(b, "EIO") /\ s.file.dirty
      \/ o = Outcome(c, "EIO") /\ s.file.dirty
  BY <1>7
<1>9. CASE o = Outcome(s, "ok") /\ ~s.file.dirty
  BY <1>9 DEF Outcome, Stays, SameHandle
<1>10. CASE o = Outcome(a, "ok") /\ s.file.dirty
  BY <1>3, <1>4, <1>10 DEF Outcome, Stays, SameHandle
<1>11. CASE o = Outcome(b, "EIO") /\ s.file.dirty
  BY <1>5, <1>11 DEF Outcome, Stays, SameHandle
<1>12. CASE o = Outcome(c, "EIO") /\ s.file.dirty
  BY <1>3, <1>6, <1>12 DEF Outcome, Stays, SameHandle
<1> QED
  BY <1>7, <1>9, <1>10, <1>11, <1>12

LEMMA FatMovedIs ==
    ASSUME Fat, NEW s \in OpenStates, NEW offset \in Int, NEW o \in FatMoved(s, offset)
    PROVE  /\ Stays(s, o) /\ o.answer \in {"ok", "EIO"} /\ o.number = 0
           /\ o.s.dirent = s.dirent /\ o.s.medium = s.medium /\ o.s.file.cut = s.file.cut
           /\ o.answer = "ok" /\ offset \in 0 .. Len(s.live) =>
                 /\ o.s.live = s.live /\ o.s.file.pos = offset
                 /\ o.s.file.dirty = s.file.dirty
<1> DEFINE wish == IF offset < 0 THEN MaxSize ELSE Lower(offset, MaxSize)
           to == IF s.file.write THEN wish ELSE Lower(wish, Len(s.live))
           longer == Upper(to, Len(s.live))
           good == [s EXCEPT !.live = Resize(@, longer, "junk"), !.file.pos = to,
                             !.file.dirty = @ \/ longer > Len(s.live)]
           bad(n) == [s EXCEPT !.live = Resize(@, n, "junk"), !.file.err = TRUE,
                               !.file.pos = 0, !.file.dirty = @ \/ n > Len(s.live)]
<1>1. /\ s \in States /\ s.file \in Handle /\ s.live \in Contents
      /\ Len(s.live) \in 0 .. MaxSize /\ "junk" \in Cells
  BY ContentsAre DEF OpenStates, Cells
<1>2. wish \in 0 .. MaxSize /\ (offset \in 0 .. Len(s.live) => wish = offset)
  BY <1>1, SizeAssumption DEF Lower
<1>3. to \in 0 .. MaxSize /\ (offset \in 0 .. Len(s.live) => to = offset)
  <2> HIDE DEF wish
  <2> QED
    BY <1>1, <1>2, SizeAssumption DEF Lower
<1>4. /\ longer \in 0 .. MaxSize
      /\ offset \in 0 .. Len(s.live) => longer = Len(s.live)
  <2> HIDE DEF to
  <2> QED
    BY <1>1, <1>3, SizeAssumption DEF Upper
<1>5. o \in IF s.file.err THEN {Outcome(s, "EIO")}
            ELSE {Outcome(good, "ok")} \cup {Outcome(bad(n), "EIO") : n \in Len(s.live) .. longer}
  BY DEF FatMoved
<1> HIDE DEF longer, to, wish
<1>6. /\ good \in OpenStates /\ good.heap = s.heap /\ SameHandle(s, good)
      /\ good.dirent = s.dirent /\ good.medium = s.medium /\ good.file.cut = s.file.cut
      /\ good.file.pos = to /\ good.live = Resize(s.live, longer, "junk")
      /\ good.file.dirty = (s.file.dirty \/ longer > Len(s.live))
  <2>1. Resize(s.live, longer, "junk") \in Contents
    BY <1>1, <1>4, ResizeIs
  <2> QED
    BY <1>1, <1>3, <2>1 DEF OpenStates, States, Handle, SameHandle
<1>7. ASSUME NEW n \in Len(s.live) .. longer
      PROVE  /\ bad(n) \in OpenStates /\ bad(n).heap = s.heap /\ SameHandle(s, bad(n))
             /\ bad(n).dirent = s.dirent /\ bad(n).medium = s.medium
             /\ bad(n).file.cut = s.file.cut
  <2>1. n \in 0 .. MaxSize /\ 0 \in 0 .. MaxSize
    BY <1>1, <1>4, SizeAssumption
  <2>2. Resize(s.live, n, "junk") \in Contents
    BY <1>1, <2>1, ResizeIs
  <2> HIDE DEF good
  <2> QED
    BY <1>1, <2>1, <2>2 DEF OpenStates, States, Handle, SameHandle
<1> HIDE DEF good, bad
<1>8. CASE o = Outcome(s, "EIO")
  BY <1>8 DEF Outcome, Stays, SameHandle
<1>9. CASE o = Outcome(good, "ok")
  <2>1. o.s = good /\ o.answer = "ok" /\ o.number = 0
    BY <1>9 DEF Outcome
  <2>2. ASSUME offset \in 0 .. Len(s.live)
        PROVE  good.live = s.live /\ good.file.pos = offset
               /\ good.file.dirty = s.file.dirty
    <3>1. longer = Len(s.live) /\ to = offset
      BY <1>3, <1>4, <2>2
    <3>2. Resize(s.live, Len(s.live), "junk") = s.live
      BY <1>1, ResizeIs
    <3>3. s.file.dirty \in BOOLEAN /\ ~(Len(s.live) > Len(s.live))
      BY <1>1 DEF Handle
    <3> QED
      BY <1>6, <3>1, <3>2, <3>3
  <2> QED
    BY <1>6, <2>1, <2>2 DEF Stays
<1>10. CASE \E n \in Len(s.live) .. longer : o = Outcome(bad(n), "EIO")
  <2>1. PICK n \in Len(s.live) .. longer : o = Outcome(bad(n), "EIO")
    BY <1>10
  <2> QED
    BY <1>7, <2>1 DEF Outcome, Stays
<1> QED
  BY <1>5, <1>8, <1>9, <1>10

LEMMA FatWriteIs ==
    ASSUME Fat, NEW s \in OpenStates, NEW x \in Values, NEW o \in FatWrite(s, x)
    PROVE  /\ Stays(s, o) /\ o.answer \in {"ok", "EIO", "EACCES", "short"}
           /\ o.answer = "EACCES" => o.s = s
           /\ o.answer \in {"ok", "short"} =>
                 /\ s.file.write /\ ~o.s.file.dirty
                 /\ o.s.dirent = Len(o.s.live) /\ o.s.medium = o.s.live
           /\ o.answer = "short" =>
                 /\ o.s.live = s.live /\ o.s.file.pos = s.file.pos
                 /\ o.s.file.cut = s.file.cut
           /\ o.answer = "ok" =>
                 /\ s.file.pos \in 0 .. MaxSize - 1
                 /\ o.s.live = Put(s.live, s.file.pos, x, "junk")
                 /\ o.s.file.pos = s.file.pos + 1
<1> DEFINE p == s.file.pos
           put == [s EXCEPT !.live = Put(@, p, x, "junk"), !.file.pos = p + 1,
                            !.file.dirty = TRUE, !.file.cut = FALSE]
           bad == [s EXCEPT !.file.err = TRUE, !.medium = Torn]
           worse == [bad EXCEPT !.live = put.live]
           full == [s EXCEPT !.file.dirty = TRUE]
<1>1. /\ s \in States /\ s.file \in Handle /\ s.live \in Contents /\ "junk" \in Cells
      /\ Len(s.live) \in 0 .. MaxSize /\ p \in 0 .. MaxSize
  BY ContentsAre DEF OpenStates, Cells, Handle
<1>2. o \in IF s.file.err THEN {Outcome(s, "EIO")}
            ELSE IF ~s.file.write THEN {Outcome(s, "EACCES")}
            ELSE {Outcome(bad, "EIO")} \cup
                 (IF p = MaxSize
                    THEN {IF q.answer = "ok" THEN Outcome(q.s, "short") ELSE q :
                              q \in FatSync(full)}
                    ELSE {Outcome(worse, "EIO")} \cup FatSync(put))
  BY DEF FatWrite
<1>3. /\ bad \in OpenStates /\ bad.heap = s.heap /\ SameHandle(s, bad)
      /\ bad.live = s.live /\ bad.file \in Handle /\ bad \in States
  BY <1>1 DEF OpenStates, States, Handle, SameHandle
<1>4. /\ full \in OpenStates /\ full.heap = s.heap /\ SameHandle(s, full)
      /\ full.live = s.live /\ full.file.pos = p /\ full.file.dirty
      /\ full.file.cut = s.file.cut
  BY <1>1 DEF OpenStates, States, Handle, SameHandle
<1>5. ASSUME p # MaxSize
      PROVE  /\ put \in OpenStates /\ put.heap = s.heap /\ SameHandle(s, put)
             /\ put.live = Put(s.live, p, x, "junk") /\ put.file.pos = p + 1
             /\ put.file.dirty /\ p \in 0 .. MaxSize - 1 /\ put.live \in Contents
  <2>1. p \in 0 .. MaxSize - 1 /\ p + 1 \in 0 .. MaxSize
    BY <1>1, <1>5, SizeAssumption
  <2>2. Put(s.live, p, x, "junk") \in Contents
    BY <1>1, <2>1, PutIs
  <2> QED
    BY <1>1, <2>1, <2>2 DEF OpenStates, States, Handle, SameHandle
<1> HIDE DEF bad, put, full
<1>6. ASSUME p # MaxSize
      PROVE  worse \in OpenStates /\ worse.heap = s.heap /\ SameHandle(s, worse)
  BY <1>3, <1>5, <1>6 DEF OpenStates, States, SameHandle
<1> HIDE DEF worse, p
<1>7. CASE o \in {Outcome(s, "EIO"), Outcome(bad, "EIO")}
           \/ (p # MaxSize /\ o = Outcome(worse, "EIO"))
  BY <1>3, <1>6, <1>7 DEF Outcome, Stays, SameHandle
<1>8. CASE o = Outcome(s, "EACCES")
  BY <1>8 DEF Outcome, Stays, SameHandle
<1>9. CASE /\ s.file.write
           /\ \E q \in FatSync(full) : o = IF q.answer = "ok" THEN Outcome(q.s, "short") ELSE q
  <2>1. PICK q \in FatSync(full) : o = IF q.answer = "ok" THEN Outcome(q.s, "short") ELSE q
    BY <1>9
  <2>2. /\ Stays(full, q) /\ q.s.live = s.live /\ q.answer \in {"ok", "EIO"}
        /\ q.s.file.pos = p /\ q.s.file.cut = s.file.cut
        /\ q.answer = "ok" =>
              ~q.s.file.dirty /\ q.s.dirent = Len(s.live) /\ q.s.medium = s.live
    BY <1>4, FatSyncIs
  <2>3. Stays(s, q)
    BY <1>4, <2>2 DEF Stays, SameHandle
  <2> QED
    BY <1>9, <2>1, <2>2, <2>3 DEF Outcome, Stays, p
<1>10. CASE s.file.write /\ p # MaxSize /\ o \in FatSync(put)
  <2>1. /\ Stays(put, o) /\ o.s.live = put.live /\ o.answer \in {"ok", "EIO"}
        /\ o.s.file.pos = p + 1
        /\ o.answer = "ok" =>
              ~o.s.file.dirty /\ o.s.dirent = Len(put.live) /\ o.s.medium = put.live
    BY <1>5, <1>10, FatSyncIs
  <2>2. Stays(s, o)
    BY <1>5, <1>10, <2>1 DEF Stays, SameHandle
  <2> QED
    BY <1>5, <1>10, <2>1, <2>2 DEF p
<1> QED
  BY <1>2, <1>7, <1>8, <1>9, <1>10

LEMMA LfsWriteIs ==
    ASSUME ~Fat, NEW s \in OpenStates, NEW x \in Values, NEW o \in LfsWrite(s, x)
    PROVE  LET p == IF s.file.append THEN Upper(s.file.pos, Len(s.live)) ELSE s.file.pos
           IN  /\ Stays(s, o) /\ o.answer \in {"ok", "EIO", "EACCES", "ENOSPC"}
               /\ o.answer = "EACCES" => o.s = s
               /\ o.answer = "ok" =>
                     /\ s.file.write /\ o.s.file.dirty /\ ~o.s.file.err
                     /\ p \in 0 .. MaxSize - 1 /\ o.s.live = Put(s.live, p, x, "zero")
                     /\ o.s.file.pos = p + 1
<1> DEFINE p == IF s.file.append THEN Upper(s.file.pos, Len(s.live)) ELSE s.file.pos
           put == [s EXCEPT !.live = Put(@, p, x, "zero"), !.file.pos = p + 1,
                            !.file.dirty = TRUE, !.file.err = FALSE, !.file.cut = FALSE]
           bad == [s EXCEPT !.file.err = TRUE]
           worse == [bad EXCEPT !.live = put.live]
<1>1. /\ s \in States /\ s.file \in Handle /\ s.live \in Contents /\ "zero" \in Cells
      /\ Len(s.live) \in 0 .. MaxSize /\ p \in 0 .. MaxSize
  BY ContentsAre, SizeAssumption DEF OpenStates, Cells, Handle, Upper
<1>2. o \in IF ~s.file.write THEN {Outcome(s, "EACCES")}
            ELSE IF p >= MaxSize THEN {Outcome(bad, "ENOSPC")}
            ELSE {Outcome(put, "ok"), Outcome(bad, "EIO"), Outcome(worse, "EIO")}
  BY DEF LfsWrite
<1> HIDE DEF p
<1>3. /\ bad \in OpenStates /\ bad.heap = s.heap /\ SameHandle(s, bad) /\ bad \in States
      /\ bad.medium = s.medium /\ bad.dirent = s.dirent /\ bad.file \in Handle
  BY <1>1 DEF OpenStates, States, Handle, SameHandle
<1>4. ASSUME ~(p >= MaxSize)
      PROVE  /\ put \in OpenStates /\ put.heap = s.heap /\ SameHandle(s, put)
             /\ put.live = Put(s.live, p, x, "zero") /\ put.file.pos = p + 1
             /\ put.file.dirty /\ ~put.file.err /\ p \in 0 .. MaxSize - 1
             /\ put.live \in Contents /\ put.medium = s.medium /\ put.dirent = s.dirent
  <2>1. p \in 0 .. MaxSize - 1 /\ p + 1 \in 0 .. MaxSize
    BY <1>1, <1>4, SizeAssumption
  <2>2. Put(s.live, p, x, "zero") \in Contents
    BY <1>1, <2>1, PutIs
  <2> QED
    BY <1>1, <2>1, <2>2 DEF OpenStates, States, Handle, SameHandle
<1> HIDE DEF bad, put
<1>5. ASSUME ~(p >= MaxSize)
      PROVE  /\ worse \in OpenStates /\ worse.heap = s.heap /\ SameHandle(s, worse)
             /\ worse.medium = s.medium /\ worse.dirent = s.dirent
  BY <1>3, <1>4, <1>5 DEF OpenStates, States, SameHandle
<1> HIDE DEF worse
<1>6. CASE o = Outcome(s, "EACCES")
  BY <1>6 DEF Outcome, Stays, SameHandle
<1>7. CASE o \in {Outcome(bad, "ENOSPC"), Outcome(bad, "EIO")}
           \/ (~(p >= MaxSize) /\ o = Outcome(worse, "EIO"))
  BY <1>3, <1>5, <1>7 DEF Outcome, Stays
<1>8. CASE s.file.write /\ ~(p >= MaxSize) /\ o = Outcome(put, "ok")
  BY <1>4, <1>8 DEF Outcome, Stays, p
<1> QED
  BY <1>2, <1>6, <1>7, <1>8 DEF p

LEMMA ReadIs ==
    ASSUME NEW s \in OpenStates, NEW o \in IF Fat THEN FatRead(s) ELSE LfsRead(s)
    PROVE  /\ Stays(s, o)
           /\ \/ o.answer = "EIO"
              \/ o.answer = "EACCES" /\ o.s = s
              \/ /\ s.file.read /\ s.file.pos < Len(s.live)
                 /\ o.answer = s.live[s.file.pos + 1] /\ o.s.file.pos = s.file.pos + 1
              \/ /\ s.file.read /\ ~(s.file.pos < Len(s.live))
                 /\ o.answer = "eof" /\ o.s.file.pos = s.file.pos
           /\ o.s.live = s.live /\ o.s.dirent = s.dirent /\ o.s.medium = s.medium
           /\ o.s.file.dirty = s.file.dirty /\ o.s.file.cut = s.file.cut
           /\ ~Fat => o.s.file.err = s.file.err
<1> DEFINE next == [s EXCEPT !.file.pos = @ + 1]
           bad == [s EXCEPT !.file.err = TRUE]
<1>1. /\ s \in States /\ s.file \in Handle /\ s.live \in Contents
      /\ Len(s.live) \in 0 .. MaxSize /\ s.file.pos \in 0 .. MaxSize
  BY ContentsAre DEF OpenStates, Handle
<1>2. ASSUME s.file.pos < Len(s.live)
      PROVE  /\ next \in OpenStates /\ next.heap = s.heap /\ SameHandle(s, next)
             /\ next.live = s.live /\ next.dirent = s.dirent /\ next.medium = s.medium
             /\ next.file.pos = s.file.pos + 1 /\ next.file.dirty = s.file.dirty
             /\ next.file.cut = s.file.cut /\ next.file.err = s.file.err
  <2>1. s.file.pos + 1 \in 0 .. MaxSize
    BY <1>1, <1>2, SizeAssumption
  <2> QED
    BY <1>1, <2>1 DEF OpenStates, States, Handle, SameHandle
<1>3. /\ bad \in OpenStates /\ bad.heap = s.heap /\ SameHandle(s, bad)
      /\ bad.live = s.live /\ bad.dirent = s.dirent /\ bad.medium = s.medium
      /\ bad.file.dirty = s.file.dirty /\ bad.file.cut = s.file.cut
  BY <1>1 DEF OpenStates, States, Handle, SameHandle
<1>4. ReadAt(s) = IF s.file.pos < Len(s.live)
                    THEN Outcome(next, s.live[s.file.pos + 1]) ELSE Outcome(s, "eof")
  BY DEF ReadAt
<1>5. \/ o = Outcome(s, "EIO")
      \/ o = Outcome(s, "EACCES") /\ ~s.file.read
      \/ o = ReadAt(s) /\ s.file.read
      \/ o = Outcome(bad, "EIO") /\ Fat
  BY DEF FatRead, LfsRead
<1> HIDE DEF next, bad
<1>6. CASE o = Outcome(s, "EIO") \/ (o = Outcome(s, "EACCES") /\ ~s.file.read)
  BY <1>6 DEF Outcome, Stays, SameHandle
<1>7. CASE o = ReadAt(s) /\ s.file.read
  <2>1. CASE s.file.pos < Len(s.live)
    BY <1>2, <1>4, <1>7, <2>1 DEF Outcome, Stays
  <2>2. CASE ~(s.file.pos < Len(s.live))
    <3>1. o.s = s /\ o.answer = "eof"
      BY <1>4, <1>7, <2>2 DEF Outcome
    <3>2. Stays(s, o)
      BY <3>1 DEF Stays, SameHandle
    <3> QED
      BY <1>7, <2>2, <3>1, <3>2
  <2> QED
    BY <2>1, <2>2
<1>8. CASE o = Outcome(bad, "EIO") /\ Fat
  BY <1>3, <1>8 DEF Outcome, Stays
<1> QED
  BY <1>5, <1>6, <1>7, <1>8

LEMMA SeekIs ==
    ASSUME NEW s \in OpenStates, NEW offset \in Int, NEW whence \in {"SET", "CUR", "END"},
           Target(s, offset, whence) <= MaxSize,
           NEW o \in IF Fat THEN FatSeek(s, offset, whence) ELSE LfsSeek(s, offset, whence)
    PROVE  LET to == Target(s, offset, whence)
           IN  /\ Stays(s, o) /\ o.answer \in {"ok", "EIO", "EINVAL"}
               /\ o.answer = "EINVAL" => o.s = s
               /\ Fat => o.s.dirent = s.dirent /\ o.s.medium = s.medium
               /\ o.answer = "ok" /\ to \in 0 .. Len(s.live) =>
                     /\ o.s.live = s.live /\ o.s.file.pos = to /\ o.number = to
                     /\ o.s.file.dirty = s.file.dirty /\ o.s.file.cut = s.file.cut
                     /\ ~Fat => o.s.file.err = s.file.err
<1> DEFINE to == Target(s, offset, whence)
           moved == [s EXCEPT !.file.pos = to]
<1>1. /\ s \in States /\ s.file \in Handle /\ s.live \in Contents
      /\ Len(s.live) \in 0 .. MaxSize /\ s.file.pos \in 0 .. MaxSize
  BY ContentsAre DEF OpenStates, Handle
<1>2. to \in Int /\ to <= MaxSize
  BY <1>1, SizeAssumption DEF Target
<1> HIDE DEF to
<1>3. CASE Fat
  <2>1. PICK m \in FatMoved(s, to) :
            o = IF m.answer = "ok" THEN Number(m.s, m.s.file.pos) ELSE m
    BY <1>3 DEF FatSeek, AnswerPos, to
  <2>2. /\ Stays(s, m) /\ m.answer \in {"ok", "EIO"}
        /\ m.s.dirent = s.dirent /\ m.s.medium = s.medium /\ m.s.file.cut = s.file.cut
        /\ m.answer = "ok" /\ to \in 0 .. Len(s.live) =>
              /\ m.s.live = s.live /\ m.s.file.pos = to /\ m.s.file.dirty = s.file.dirty
    BY <1>2, <1>3, FatMovedIs
  <2>3. o.s = m.s /\ o.answer = m.answer /\ (m.answer = "ok" => o.number = m.s.file.pos)
    BY <2>1 DEF Number
  <2> QED
    BY <1>3, <2>2, <2>3 DEF Stays, to
<1>4. CASE ~Fat
  <2>1. \/ o = Outcome(s, "EINVAL")
        \/ o = Outcome(s, "EIO")
        \/ o = Number(moved, to) /\ ~(to < 0)
    BY <1>4 DEF LfsSeek, to
  <2>2. ASSUME ~(to < 0)
        PROVE  /\ moved \in OpenStates /\ moved.heap = s.heap /\ SameHandle(s, moved)
               /\ moved.live = s.live /\ moved.dirent = s.dirent /\ moved.medium = s.medium
               /\ moved.file.pos = to /\ moved.file.dirty = s.file.dirty
               /\ moved.file.cut = s.file.cut /\ moved.file.err = s.file.err
    <3>1. to \in 0 .. MaxSize
      BY <1>2, <2>2, SizeAssumption
    <3> QED
      BY <1>1, <3>1 DEF OpenStates, States, Handle, SameHandle
  <2> HIDE DEF moved
  <2>3. CASE o = Outcome(s, "EINVAL") \/ o = Outcome(s, "EIO")
    BY <2>3 DEF Outcome, Stays, SameHandle
  <2>4. CASE o = Number(moved, to) /\ ~(to < 0)
    BY <1>4, <2>2, <2>4 DEF Number, Stays, to
  <2> QED
    BY <2>1, <2>3, <2>4
<1> QED
  BY <1>3, <1>4

LEMMA FatTruncateIs ==
    ASSUME Fat, NEW s \in OpenStates, NEW n \in 0 .. MaxSize, NEW o \in FatTruncate(s, n)
    PROVE  /\ Stays(s, o) /\ o.answer \in {"ok", "EIO", "EACCES"}
           /\ o.answer = "EACCES" => ~s.file.write
           /\ o.answer = "ok" /\ n \in s.file.pos .. Len(s.live) =>
                 /\ s.file.write
                 /\ o.s.live = SubSeq(s.live, 1, n) /\ o.s.file.pos = s.file.pos
                 /\ o.s.file.cut
                 /\ ~o.s.file.dirty => /\ o.s.live = s.live /\ o.s.dirent = s.dirent
                                       /\ o.s.medium = s.medium /\ ~s.file.dirty
<1>1. /\ s \in States /\ s.file \in Handle /\ s.live \in Contents
      /\ Len(s.live) \in 0 .. MaxSize /\ s.file.pos \in 0 .. MaxSize /\ n \in Int
  BY ContentsAre, SizeAssumption DEF OpenStates, Handle
<1> DEFINE shorter(a) == Len(a.s.live) > a.s.file.pos
           t(a) == IF shorter(a)
                     THEN [a.s EXCEPT !.live = Resize(@, a.s.file.pos, "junk"),
                                      !.medium = Torn, !.file.dirty = TRUE]
                     ELSE a.s
           bad(a) == [t(a) EXCEPT !.file.err = TRUE]
           done(b) == [b.s EXCEPT !.file.cut = TRUE]
<1>2. PICK a \in FatMoved(s, n) :
          o \in IF a.answer # "ok" THEN {a}
                ELSE IF ~s.file.write THEN {Outcome(a.s, "EACCES")}
                ELSE (IF shorter(a) THEN {Outcome(bad(a), "EIO")} ELSE {})
                     \cup {Outcome(done(b), b.answer) : b \in FatMoved(t(a), s.file.pos)}
  BY DEF FatTruncate
<1>3. /\ Stays(s, a) /\ a.answer \in {"ok", "EIO"}
      /\ a.s.dirent = s.dirent /\ a.s.medium = s.medium /\ a.s.file.cut = s.file.cut
      /\ a.answer = "ok" /\ n \in 0 .. Len(s.live) =>
            /\ a.s.live = s.live /\ a.s.file.pos = n /\ a.s.file.dirty = s.file.dirty
  BY <1>1, FatMovedIs
<1>4. /\ a.s \in States /\ a.s.file \in Handle /\ a.s.live \in Contents
      /\ Len(a.s.live) \in 0 .. MaxSize /\ a.s.file.pos \in 0 .. MaxSize
      /\ "junk" \in Cells
  BY <1>3, ContentsAre DEF Stays, OpenStates, Handle, Cells
<1>5. /\ t(a) \in OpenStates /\ t(a).heap = s.heap /\ SameHandle(s, t(a))
      /\ t(a).file.pos = a.s.file.pos /\ t(a).file.cut = s.file.cut
      /\ shorter(a) => /\ t(a).live = Resize(a.s.live, a.s.file.pos, "junk")
                       /\ t(a).file.dirty
      /\ ~shorter(a) => t(a) = a.s
  <2>1. CASE shorter(a)
    <3>1. Resize(a.s.live, a.s.file.pos, "junk") \in Contents
      BY <1>4, ResizeIs
    <3> QED
      BY <1>3, <1>4, <2>1, <3>1 DEF OpenStates, States, Handle, SameHandle, Stays
  <2>2. CASE ~shorter(a)
    BY <1>3, <1>4, <2>2 DEF OpenStates, Stays
  <2> QED
    BY <2>1, <2>2
<1> HIDE DEF t
<1>6. /\ bad(a) \in OpenStates /\ bad(a).heap = s.heap /\ SameHandle(s, bad(a))
  BY <1>5 DEF OpenStates, States, Handle, SameHandle
<1> HIDE DEF bad
<1>7. CASE a.answer # "ok" /\ o = a
  BY <1>3, <1>7
<1>8. CASE o = Outcome(a.s, "EACCES") /\ ~s.file.write
  BY <1>3, <1>8 DEF Outcome, Stays
<1>9. CASE o = Outcome(bad(a), "EIO")
  BY <1>6, <1>9 DEF Outcome, Stays
<1>10. CASE /\ a.answer = "ok" /\ s.file.write
            /\ \E b \in FatMoved(t(a), s.file.pos) : o = Outcome(done(b), b.answer)
  <2>1. PICK b \in FatMoved(t(a), s.file.pos) : o = Outcome(done(b), b.answer)
    BY <1>10
  <2>2. /\ Stays(t(a), b) /\ b.answer \in {"ok", "EIO"}
        /\ b.s.dirent = t(a).dirent /\ b.s.medium = t(a).medium
        /\ b.answer = "ok" /\ s.file.pos \in 0 .. Len(t(a).live) =>
              /\ b.s.live = t(a).live /\ b.s.file.pos = s.file.pos
              /\ b.s.file.dirty = t(a).file.dirty
    BY <1>1, <1>5, FatMovedIs
  <2>3. /\ done(b) \in OpenStates /\ done(b).heap = s.heap /\ SameHandle(s, done(b))
        /\ done(b).live = b.s.live /\ done(b).dirent = b.s.dirent
        /\ done(b).medium = b.s.medium /\ done(b).file.pos = b.s.file.pos
        /\ done(b).file.dirty = b.s.file.dirty /\ done(b).file.cut
    <3>1. b.s \in States /\ b.s.file \in Handle /\ b.s.live \in Contents
          /\ b.s.heap = s.heap /\ SameHandle(s, b.s)
      BY <1>5, <2>2 DEF Stays, OpenStates, SameHandle
    <3>2. /\ done(b) \in OpenStates /\ done(b).heap = b.s.heap /\ SameHandle(b.s, done(b))
          /\ done(b).live = b.s.live /\ done(b).dirent = b.s.dirent
          /\ done(b).medium = b.s.medium /\ done(b).file.pos = b.s.file.pos
          /\ done(b).file.dirty = b.s.file.dirty /\ done(b).file.cut
      BY <3>1 DEF OpenStates, States, Handle, SameHandle
    <3> QED
      BY <3>1, <3>2 DEF SameHandle
  <2> HIDE DEF done
  <2>4. o.s = done(b) /\ o.answer = b.answer
    BY <2>1 DEF Outcome
  <2>5. ASSUME b.answer = "ok", n \in s.file.pos .. Len(s.live)
        PROVE  /\ o.s.live = SubSeq(s.live, 1, n) /\ o.s.file.pos = s.file.pos
               /\ o.s.file.cut
               /\ ~o.s.file.dirty => /\ o.s.live = s.live /\ o.s.dirent = s.dirent
                                     /\ o.s.medium = s.medium /\ ~s.file.dirty
    <3>1. n \in 0 .. Len(s.live) /\ a.s.live = s.live /\ a.s.file.pos = n
          /\ a.s.file.dirty = s.file.dirty
      BY <1>1, <1>3, <1>10, <2>5
    <3>2. t(a).live = SubSeq(s.live, 1, n) /\ Len(t(a).live) = n
      <4>1. CASE shorter(a)
        BY <1>1, <1>4, <1>5, <3>1, <4>1, ResizeIs
      <4>2. CASE ~shorter(a)
        <5>1. n = Len(s.live)
          BY <1>1, <3>1, <4>2
        <5>2. SubSeq(s.live, 1, n) = s.live
          BY <1>1, <5>1, ContentsAre, SubSeqFull
        <5> QED
          BY <1>5, <3>1, <4>2, <5>1, <5>2
      <4> QED
        BY <4>1, <4>2
    <3>3. s.file.pos \in 0 .. Len(t(a).live)
      BY <1>1, <2>5, <3>2
    <3>4. /\ o.s.live = t(a).live /\ o.s.file.pos = s.file.pos /\ o.s.file.cut
          /\ o.s.file.dirty = t(a).file.dirty /\ o.s.dirent = t(a).dirent
          /\ o.s.medium = t(a).medium
      BY <2>2, <2>3, <2>4, <2>5, <3>3
    <3> QED
      BY <1>3, <1>5, <3>1, <3>2, <3>4
  <2> QED
    BY <1>10, <2>2, <2>3, <2>4, <2>5 DEF Stays
<1> QED
  BY <1>2, <1>7, <1>8, <1>9, <1>10

LEMMA LfsTruncateIs ==
    ASSUME ~Fat, NEW s \in OpenStates, NEW n \in 0 .. MaxSize, NEW o \in LfsTruncate(s, n)
    PROVE  /\ Stays(s, o) /\ o.answer \in {"ok", "EIO", "EINVAL"}
           /\ o.answer = "EINVAL" => ~s.file.write
           /\ o.answer = "ok" =>
                 /\ s.file.write /\ o.s.file.pos = s.file.pos /\ o.s.file.dirty
                 /\ o.s.file.err = s.file.err /\ Len(o.s.live) = n
                 /\ n <= Len(s.live) => o.s.live = SubSeq(s.live, 1, n)
<1> DEFINE done == [s EXCEPT !.live = Resize(@, n, "zero"), !.file.dirty = TRUE,
                             !.file.cut = TRUE]
<1>1. /\ s \in States /\ s.file \in Handle /\ s.live \in Contents /\ "zero" \in Cells
  BY DEF OpenStates, Cells
<1>2. /\ Resize(s.live, n, "zero") \in Contents /\ Len(Resize(s.live, n, "zero")) = n
      /\ n <= Len(s.live) => Resize(s.live, n, "zero") = SubSeq(s.live, 1, n)
  BY <1>1, ResizeIs
<1>3. /\ done \in OpenStates /\ done.heap = s.heap /\ SameHandle(s, done)
      /\ done.medium = s.medium /\ done.dirent = s.dirent
      /\ done.live = Resize(s.live, n, "zero") /\ done.file.pos = s.file.pos
      /\ done.file.dirty /\ done.file.err = s.file.err
  BY <1>1, <1>2 DEF OpenStates, States, Handle, SameHandle
<1>4. \/ o = Outcome(s, "EINVAL") /\ ~s.file.write
      \/ o = Outcome(s, "EIO")
      \/ o = Outcome(done, "ok") /\ s.file.write
  BY DEF LfsTruncate
<1> HIDE DEF done
<1>5. CASE (o = Outcome(s, "EINVAL") /\ ~s.file.write) \/ o = Outcome(s, "EIO")
  BY <1>5 DEF Outcome, Stays, SameHandle
<1>6. CASE o = Outcome(done, "ok") /\ s.file.write
  BY <1>2, <1>3, <1>6 DEF Outcome, Stays
<1> QED
  BY <1>4, <1>5, <1>6

------------------------------------------------------------------------------
(* The calls on an open file *)

LEMMA NowIs ==
    ASSUME FilesInv
    PROVE  /\ Now \in States /\ Now.live = live /\ Now.dirent = dirent
           /\ Now.medium = medium /\ Now.file = file /\ Now.heap = heap
           /\ file # NULL => Now \in OpenStates
BY ValueAssumption DEF FilesInv, TypeOK, CopiesAgree, Now, States, OpenStates

\* The parts of FilesInv that hold of any use and after any failure.
FirmInv == TypeOK /\ CopiesAgree(Now) /\ ContextsAccounted

\* The call went as both file systems promise, on a handle that they promise for.
Kept(o, beyond) ==
    /\ ~outside /\ ~outside' /\ ~beyond /\ ~file.failed /\ ~file'.failed
    /\ o.answer \notin Errors
    /\ file'.changed <=> file.changed \/ live' # live

\* The handle is that of the outcome.
GoesOn(o) ==
    /\ file' \in Handle
    /\ file'.pos = o.s.file.pos /\ file'.dirty = o.s.file.dirty
    /\ file'.err = o.s.file.err /\ file'.cut = o.s.file.cut
    /\ file'.read = file.read /\ file'.write = file.write /\ file'.append = file.append

\* Nothing is promised of a use outside, or of a handle after a failure.
LEMMA NoPromise ==
    ASSUME file # NULL, file \in Handle, file' \in Handle,
           outside \in BOOLEAN, outside' \in BOOLEAN,
           \/ outside'
           \/ ~outside /\ ~outside' /\ file'.failed /\ (file.failed \/ last'.answer \in Errors)
    PROVE  Promise!Next
<1>1. CASE outside'
  BY <1>1 DEF Promise!Next
<1>2. CASE ~outside /\ ~outside' /\ file'.failed /\ (file.failed \/ last'.answer \in Errors)
  <2>1. file # NULL /\ file' # NULL /\ Shown(file) # NULL
    BY ValueAssumption
  <2>2. Shown(file).failed = file.failed /\ Shown(file').failed = file'.failed
    BY DEF Shown
  <2>3. outside = outside'
    BY <1>2
  <2>4. Promise!Fail
    BY <1>2, <2>1, <2>2 DEF Promise!Fail, Promise!Failures, Errors
  <2> QED
    BY <1>2, <2>3, <2>4 DEF Promise!Next
<1> QED
  BY <1>1, <1>2

\* What a call on an open file does in any case.
Called(request, o, beyond) ==
    /\ FirmInv'
    /\ last' = [request EXCEPT !.answer = o.answer, !.number = o.number]
    /\ live' = o.s.live /\ dirent' = o.s.dirent /\ medium' = o.s.medium /\ kind' = kind
    /\ file' = [o.s.file EXCEPT !.failed = @ \/ o.answer \in Errors,
                                !.changed = @ \/ live' # live]
    /\ GoesOn(o)
    /\ \/ Kept(o, beyond)
       \/ /\ ~outside' => HandleKnows(Now)'
          /\ last'.answer = o.answer => Promise!Next

LEMMA HandleCall ==
    ASSUME FilesInv, file # NULL, NEW request, NEW outcomes, NEW beyond \in BOOLEAN,
           request.op # "open", Take(request, outcomes, beyond),
           \A o \in outcomes : Stays(Now, o)
    PROVE  \E o \in outcomes : Called(request, o, beyond)
<1>1. PICK o \in outcomes :
          /\ live' = o.s.live /\ dirent' = o.s.dirent /\ medium' = o.s.medium
          /\ heap' = o.s.heap
          /\ file' = IF o.s.file = NULL THEN NULL
                     ELSE [o.s.file EXCEPT !.failed = @ \/ o.answer \in Errors,
                                           !.changed = @ \/ live' # live]
          /\ last' = [request EXCEPT !.answer = o.answer, !.number = o.number]
          /\ leaks' = leaks
  BY DEF Take, FOpenFailed
<1>2. /\ kind' = kind
      /\ outside' = ((medium' # Absent \/ live' # Absent) /\ (outside \/ beyond))
  BY DEF Take
<1>3. /\ o.s \in States /\ o.s.file \in Handle /\ o.s.live \in Contents
      /\ o.s.heap = heap /\ SameHandle(Now, o.s)
      /\ ~Fat => o.s.medium = medium /\ o.s.dirent = dirent
  BY NowIs DEF Stays, OpenStates
<1>4. /\ file' = [o.s.file EXCEPT !.failed = @ \/ o.answer \in Errors,
                                  !.changed = @ \/ live' # live]
      /\ file' \in Handle /\ file' # NULL /\ live' # Absent
      /\ file'.failed <=> o.s.file.failed \/ o.answer \in Errors
      /\ file'.changed <=> o.s.file.changed \/ live' # live
      /\ file'.pos = o.s.file.pos /\ file'.dirty = o.s.file.dirty
      /\ file'.err = o.s.file.err /\ file'.cut = o.s.file.cut
      /\ file'.read = o.s.file.read /\ file'.write = o.s.file.write
      /\ file'.append = o.s.file.append
  BY <1>1, <1>3, ValueAssumption DEF Handle
<1>5. TypeOK'
  BY <1>1, <1>2, <1>3, <1>4 DEF FilesInv, TypeOK, States
<1>6. CopiesAgree(Now)'
  BY <1>1, <1>2, <1>3, <1>4 DEF FilesInv, CopiesAgree, Now, Fat
<1>7. ContextsAccounted'
  BY <1>1, <1>2, <1>3, <1>4 DEF FilesInv, ContextsAccounted, Fat
<1>8. /\ file \in Handle /\ o.s.file.failed = file.failed /\ o.s.file.changed = file.changed
      /\ outside \in BOOLEAN /\ outside' \in BOOLEAN /\ (outside' <=> outside \/ beyond)
  BY <1>2, <1>3, <1>4, <1>5, NowIs DEF FilesInv, TypeOK, SameHandle
<1>9. Kept(o, beyond) \/ (/\ ~outside' => HandleKnows(Now)'
                          /\ last'.answer = o.answer => Promise!Next)
  <2>1. CASE outside'
    BY <1>4, <1>8, <2>1, NoPromise
  <2>2. CASE ~outside' /\ (file.failed \/ o.answer \in Errors)
    <3>1. ~outside /\ file'.failed
      BY <1>4, <1>8, <2>2
    <3>2. HandleKnows(Now)'
      BY <3>1 DEF HandleKnows, Now
    <3> QED
      BY <1>4, <1>8, <2>2, <3>1, <3>2, NoPromise
  <2>3. CASE ~outside' /\ ~file.failed /\ o.answer \notin Errors
    BY <1>4, <1>8, <2>3 DEF Kept
  <2> QED
    BY <2>1, <2>2, <2>3
<1>10. GoesOn(o)
  BY <1>3, <1>4, NowIs DEF GoesOn, SameHandle
<1> QED
  BY <1>1, <1>2, <1>4, <1>5, <1>6, <1>7, <1>9, <1>10 DEF FirmInv, Called

\* A call on an open file goes on with the invariant, and as PosixFile says.
Meets == FilesInv' /\ Promise!Next

LEMMA KnowsNext ==
    ASSUME FirmInv', FatWriteStays', ~outside' => HandleKnows(Now)'
    PROVE  FilesInv'
BY DEF FirmInv, FilesInv

LEMMA HandleShown ==
    ASSUME FilesInv, file \in Handle, file' \in Handle
    PROVE  /\ file # NULL /\ file' # NULL /\ Shown(file) # NULL
           /\ Shown(file).pos = file.pos /\ Shown(file).read = file.read
           /\ Shown(file).write = file.write /\ Shown(file).append = file.append
BY ValueAssumption DEF Shown, Handle

\* A handle of PosixFile, moved.
At(r, p, c) == [r EXCEPT !.pos = p, !.changed = c]

LEMMA ShownNext ==
    ASSUME NEW h, NEW k, NEW p, NEW c, k.read = h.read, k.write = h.write,
           k.append = h.append, k.failed = h.failed, k.pos = p, k.changed = c
    PROVE  Shown(k) = At(Shown(h), p, c)
<1> DEFINE s == Shown(h)
           t == [s EXCEPT !.pos = p]
           u == [t EXCEPT !.changed = c]
<1>1. s = [pos |-> h.pos, read |-> h.read, write |-> h.write, append |-> h.append,
           failed |-> h.failed, changed |-> h.changed]
  BY DEF Shown
<1> HIDE DEF s
<1>2. t = [pos |-> p, read |-> h.read, write |-> h.write, append |-> h.append,
           failed |-> h.failed, changed |-> h.changed]
  BY <1>1
<1> HIDE DEF t
<1>3. u = [pos |-> p, read |-> h.read, write |-> h.write, append |-> h.append,
           failed |-> h.failed, changed |-> c]
  BY <1>2
<1>4. u = [s EXCEPT !.pos = p, !.changed = c]
  BY DEF t
<1> HIDE DEF u
<1> QED
  BY <1>3, <1>4 DEF Shown, s, At

LEMMA KeptIs ==
    ASSUME FilesInv, FirmInv', file # NULL, NEW o, NEW beyond, Stays(Now, o), Kept(o, beyond),
           live' = o.s.live, dirent' = o.s.dirent, medium' = o.s.medium, GoesOn(o)
    PROVE  /\ file \in Handle /\ file' \in Handle /\ live \in Contents /\ live' \in Contents
           /\ Len(live) \in 0 .. MaxSize /\ file.pos \in 0 .. MaxSize
           /\ HandleKnows(Now) /\ file.pos <= Len(live)
           /\ Fat /\ file.append => file.pos = Len(live)
           /\ ~outside /\ outside' = outside /\ ~file.failed
           /\ file'.failed = file.failed
           /\ file'.changed = (file.changed \/ live' # live)
           /\ Shown(file') = At(Shown(file), file'.pos, Shown(file).changed \/ live' # live)
           /\ ~Fat => medium' = medium /\ dirent' = dirent
<1>1. /\ file \in Handle /\ live \in Contents /\ HandleKnows(Now)
      /\ Len(live) \in 0 .. MaxSize /\ file.pos \in 0 .. MaxSize
      /\ file.pos <= Len(live) /\ ~outside /\ outside' = outside /\ ~file.failed
      /\ Fat /\ file.append => file.pos = Len(live)
  BY NowIs, ContentsAre
     DEF OpenStates, FilesInv, FirmInv, TypeOK, Kept, HandleKnows, Handle
<1>2. live' \in Contents /\ (~Fat => medium' = medium /\ dirent' = dirent)
  BY NowIs DEF Stays, OpenStates
<1>3. /\ file'.failed \in BOOLEAN /\ file.failed \in BOOLEAN /\ ~file.failed /\ ~file'.failed
      /\ file'.changed \in BOOLEAN
      /\ file'.changed <=> file.changed \/ live' # live
  BY <1>1 DEF GoesOn, Kept, Handle
<1>4. file'.failed = file.failed /\ file'.changed = (file.changed \/ live' # live)
  BY <1>3
<1>5. Shown(file') = At(Shown(file), file'.pos, file'.changed)
  <2>1. /\ file'.read = file.read /\ file'.write = file.write
        /\ file'.append = file.append /\ file'.failed = file.failed
    BY <1>4 DEF GoesOn
  <2> QED
    BY <2>1, ShownNext
<1>6. Shown(file).changed = file.changed
  BY DEF Shown
<1>7. Shown(file') = At(Shown(file), file'.pos, Shown(file).changed \/ live' # live)
  BY <1>4, <1>5, <1>6
<1>8. file' \in Handle
  BY DEF GoesOn
<1> QED
  BY <1>1, <1>2, <1>4, <1>7, <1>8

\* A call that is refused.
LEMMA Refused ==
    ASSUME FilesInv, file \in Handle, NEW o, NEW beyond, Kept(o, beyond), FirmInv',
           o.s = Now, o.answer \in Promise!Refusals, last'.answer = o.answer,
           live' = o.s.live, dirent' = o.s.dirent, medium' = o.s.medium, kind' = kind,
           last'.op # "write" \/ last'.answer # "ok",
           file' = [o.s.file EXCEPT !.failed = @ \/ o.answer \in Errors,
                                    !.changed = @ \/ live' # live]
    PROVE  Meets
<1>1. live' = live /\ dirent' = dirent /\ medium' = medium
  BY NowIs
<1>2. o.answer \notin Errors /\ o.s.file = file
  BY NowIs DEF Errors, Promise!Refusals
<1>3. file' = file
  BY <1>1, <1>2 DEF Handle
<1>4. HandleKnows(Now)'
  BY <1>1, <1>3 DEF FilesInv, HandleKnows, Now, Fat, Kept
<1>5. FilesInv'
  BY <1>4, KnowsNext DEF FatWriteStays
<1>6. Promise!Refuse
  BY <1>1, <1>3 DEF Promise!Refuse
<1>7. ~outside /\ outside' = outside
  BY <1>5 DEF Kept, FilesInv, TypeOK
<1> QED
  BY <1>5, <1>6, <1>7 DEF Meets, Promise!Next

LEMMA WriteStep ==
    ASSUME FilesInv, NEW x \in Values, Write(x)
    PROVE  Meets
<1> DEFINE outcomes == IF Fat THEN FatWrite(Now, x) ELSE LfsWrite(Now, x)
           request == [Request("write") EXCEPT !.x = x]
<1>1. file # NULL /\ Take(request, outcomes, FALSE) /\ Now \in OpenStates
  BY NowIs DEF Write
<1>2. request.op = "write"
  BY DEF Request
<1>3. \A o \in outcomes : Stays(Now, o)
  BY <1>1, FatWriteIs, LfsWriteIs
<1> HIDE DEF request, outcomes
<1>4. PICK o \in outcomes : Called(request, o, FALSE)
  BY <1>1, <1>2, <1>3, HandleCall
<1>5. /\ FirmInv'
      /\ last' = [request EXCEPT !.answer = o.answer, !.number = o.number]
      /\ live' = o.s.live /\ dirent' = o.s.dirent /\ medium' = o.s.medium /\ kind' = kind
      /\ file' = [o.s.file EXCEPT !.failed = @ \/ o.answer \in Errors,
                                  !.changed = @ \/ live' # live]
      /\ GoesOn(o)
      /\ \/ Kept(o, FALSE)
         \/ /\ ~outside' => HandleKnows(Now)'
            /\ last'.answer = o.answer => Promise!Next
  BY <1>4 DEF Called
<1>6. last'.op = "write" /\ last'.answer = o.answer /\ last'.x = x
  BY <1>5 DEF request, Request
<1>7. Fat => /\ o.answer \in {"ok", "EIO", "EACCES", "short"}
             /\ o.answer = "EACCES" => o.s = Now
             /\ o.answer \in {"ok", "short"} =>
                   /\ file.write /\ ~o.s.file.dirty
                   /\ o.s.dirent = Len(o.s.live) /\ o.s.medium = o.s.live
             /\ o.answer = "short" =>
                   /\ o.s.live = live /\ o.s.file.pos = file.pos
                   /\ o.s.file.cut = file.cut
             /\ o.answer = "ok" =>
                   /\ file.pos \in 0 .. MaxSize - 1
                   /\ o.s.live = Put(live, file.pos, x, "junk")
                   /\ o.s.file.pos = file.pos + 1
  BY <1>1, FatWriteIs, NowIs DEF outcomes
<1>8. LET p == IF file.append THEN Upper(file.pos, Len(live)) ELSE file.pos
      IN  ~Fat => /\ o.answer \in {"ok", "EIO", "EACCES", "ENOSPC"}
                  /\ o.answer = "EACCES" => o.s = Now
                  /\ o.answer = "ok" =>
                        /\ file.write /\ o.s.file.dirty /\ ~o.s.file.err
                        /\ p \in 0 .. MaxSize - 1 /\ o.s.live = Put(live, p, x, "zero")
                        /\ o.s.file.pos = p + 1
  BY <1>1, LfsWriteIs, NowIs DEF outcomes
<1>9. FatWriteStays'
  BY <1>5, <1>6, <1>7 DEF FatWriteStays, Fat
<1>10. CASE ~Kept(o, FALSE)
  BY <1>5, <1>6, <1>9, <1>10, KnowsNext DEF Meets
<1>11. CASE Kept(o, FALSE) /\ o.answer = "EACCES"
  <2>1. file \in Handle
    BY <1>1, NowIs DEF OpenStates
  <2> QED
    BY <1>5, <1>6, <1>7, <1>8, <1>11, <2>1, Refused DEF Promise!Refusals
<1>12. CASE Kept(o, FALSE) /\ o.answer \in {"ok", "short"}
  <2>1. /\ file \in Handle /\ file' \in Handle /\ live \in Contents /\ live' \in Contents
        /\ Len(live) \in 0 .. MaxSize /\ file.pos \in 0 .. MaxSize
        /\ HandleKnows(Now) /\ file.pos <= Len(live)
        /\ Fat /\ file.append => file.pos = Len(live)
        /\ ~outside /\ outside' = outside /\ ~file.failed
        /\ ~Fat => medium' = medium /\ dirent' = dirent
    BY <1>1, <1>3, <1>5, <1>12, KeptIs
  <2>2. /\ file'.pos = o.s.file.pos /\ file'.dirty = o.s.file.dirty
        /\ file'.err = o.s.file.err /\ file'.cut = o.s.file.cut
        /\ file'.read = file.read /\ file'.write = file.write /\ file'.append = file.append
        /\ file'.failed = file.failed
        /\ file'.changed = (file.changed \/ live' # live)
        /\ Shown(file') = At(Shown(file), file'.pos, Shown(file).changed \/ live' # live)
    BY <1>1, <1>3, <1>5, <1>12, KeptIs DEF GoesOn
  <2>3. CASE o.answer = "short"
    <3>1. Fat
      BY <1>8, <2>3
    <3>2. HandleKnows(Now)'
      BY <1>5, <1>7, <2>1, <2>2, <2>3, <3>1, ZenonT(60) DEF HandleKnows, Now, Fat
    <3>3. Shown(file') = Shown(file) /\ live' = live
      BY <1>5, <1>7, <2>1, <2>2, <2>3, <3>1 DEF Shown, Handle
    <3>4. Promise!WriteNothing
      BY <1>5, <1>6, <1>7, <2>1, <2>3, <3>1, <3>3, HandleShown
         DEF Promise!WriteNothing, Promise!Answers
    <3> QED
      BY <1>5, <1>9, <2>1, <3>2, <3>4, KnowsNext DEF Meets, Promise!Next
  <2>4. CASE o.answer = "ok"
    <3> DEFINE p == IF file.append THEN Len(live) ELSE file.pos
    <3>1. /\ p \in 0 .. MaxSize - 1 /\ live' = Promise!Put(live, p, x)
          /\ Len(live') = Upper(Len(live), p + 1) /\ file'.pos = p + 1
      <4>1. CASE Fat
        <5>1. p = file.pos
          BY <2>1, <4>1
        <5>2. "junk" \in Cells
          BY DEF Cells
        <5> HIDE DEF p
        <5> QED
          BY <1>5, <1>7, <2>1, <2>2, <2>4, <4>1, <5>1, <5>2, PutIs
      <4>2. CASE ~Fat
        <5>1. p = IF file.append THEN Upper(file.pos, Len(live)) ELSE file.pos
          BY <2>1, SizeAssumption DEF Upper
        <5>2. "zero" \in Cells /\ p <= Len(live)
          BY <2>1 DEF Cells
        <5> HIDE DEF p
        <5> QED
          BY <1>5, <1>8, <2>1, <2>2, <2>4, <4>2, <5>1, <5>2, PutIs
      <4> QED
        BY <4>1, <4>2
    <3>2. p <= Len(live)
      BY <2>1
    <3>3. Len(live') \in Nat /\ file'.pos <= Len(live')
          /\ (file.append => file'.pos = Len(live'))
      <4>1. file.append => p = Len(live)
        OBVIOUS
      <4> HIDE DEF p
      <4> QED
        BY <2>1, <3>1, <3>2, <4>1, SizeAssumption DEF Upper
    <3>4. HandleKnows(Now)'
      BY <1>5, <1>7, <1>8, <2>1, <2>2, <2>4, <3>3 DEF HandleKnows, Now, Fat
    <3>5. Shown(file') = [Shown(file) EXCEPT !.pos = p + 1,
                                             !.changed = Shown(file).changed \/ live' # live]
      <4>1. file'.pos = p + 1
        BY <3>1
      <4>2. Shown(file') = At(Shown(file), p + 1, Shown(file).changed \/ live' # live)
        BY <2>2, <4>1
      <4> HIDE DEF p
      <4> QED
        BY <4>2 DEF At
    <3>6. medium' \in {medium, live'} /\ (~Fat => medium' = medium) /\ live' # Torn
      <4>1. Fat => medium' = live'
        BY <1>5, <1>7, <2>4
      <4> QED
        BY <2>1, <4>1, ValueAssumption
    <3>7. Promise!Write
      BY <1>5, <1>6, <1>7, <1>8, <2>1, <2>4, <3>1, <3>5, <3>6, HandleShown, ZenonT(60)
         DEF Promise!Write, Promise!Answers
    <3> QED
      BY <1>5, <1>9, <2>1, <3>4, <3>7, KnowsNext DEF Meets, Promise!Next
  <2> QED
    BY <1>12, <2>3, <2>4
<1>13. Kept(o, FALSE) => o.answer \in {"EACCES", "ok", "short"}
  BY <1>7, <1>8 DEF Kept, Errors
<1> QED
  BY <1>10, <1>11, <1>12, <1>13

\* A call that moves the position at most.
LEMMA KnowsStill ==
    ASSUME HandleKnows(Now), file # NULL, ~file.append, ~file.failed, file'.append = file.append,
           live' = live, dirent' = dirent, medium' = medium, kind' = kind,
           file'.pos <= Len(live), file'.dirty = file.dirty, file'.cut = file.cut,
           file'.changed = file.changed, ~Fat => file'.err = file.err
    PROVE  HandleKnows(Now)'
BY DEF HandleKnows, Now, Fat

LEMMA ReadStep ==
    ASSUME FilesInv, Read
    PROVE  Meets
<1> DEFINE outcomes == IF Fat THEN FatRead(Now) ELSE LfsRead(Now)
<1>1. file # NULL /\ Take(Request("read"), outcomes, file.append) /\ Now \in OpenStates
  BY NowIs DEF Read
<1>2. Request("read").op = "read" /\ file.append \in BOOLEAN
  BY <1>1, NowIs DEF Request, OpenStates, Handle
<1>3. \A o \in outcomes : Stays(Now, o)
  BY <1>1, ReadIs
<1> HIDE DEF outcomes
<1>4. PICK o \in outcomes : Called(Request("read"), o, file.append)
  BY <1>1, <1>2, <1>3, HandleCall
<1>5. /\ FirmInv'
      /\ last' = [Request("read") EXCEPT !.answer = o.answer, !.number = o.number]
      /\ live' = o.s.live /\ dirent' = o.s.dirent /\ medium' = o.s.medium /\ kind' = kind
      /\ file' = [o.s.file EXCEPT !.failed = @ \/ o.answer \in Errors,
                                  !.changed = @ \/ live' # live]
      /\ GoesOn(o)
      /\ \/ Kept(o, file.append)
         \/ /\ ~outside' => HandleKnows(Now)'
            /\ last'.answer = o.answer => Promise!Next
  BY <1>4 DEF Called
<1>6. last'.op = "read" /\ last'.answer = o.answer
  BY <1>5 DEF Request
<1>7. /\ \/ o.answer = "EIO"
         \/ o.answer = "EACCES" /\ o.s = Now
         \/ /\ file.read /\ file.pos < Len(live)
            /\ o.answer = live[file.pos + 1] /\ o.s.file.pos = file.pos + 1
         \/ /\ file.read /\ ~(file.pos < Len(live))
            /\ o.answer = "eof" /\ o.s.file.pos = file.pos
      /\ o.s.live = live /\ o.s.dirent = dirent /\ o.s.medium = medium
      /\ o.s.file.dirty = file.dirty /\ o.s.file.cut = file.cut
      /\ ~Fat => o.s.file.err = file.err
  BY <1>1, ReadIs, NowIs DEF outcomes
<1>8. FatWriteStays'
  BY <1>6 DEF FatWriteStays
<1>9. CASE ~Kept(o, file.append)
  BY <1>5, <1>6, <1>8, <1>9, KnowsNext DEF Meets
<1>10. CASE Kept(o, file.append)
  <2>1. /\ file \in Handle /\ file' \in Handle /\ live \in Contents
        /\ Len(live) \in 0 .. MaxSize /\ file.pos \in 0 .. MaxSize
        /\ HandleKnows(Now) /\ file.pos <= Len(live)
        /\ ~outside /\ outside' = outside /\ ~file.append
        /\ file'.failed = file.failed
        /\ file'.changed = (file.changed \/ live' # live)
        /\ Shown(file') = At(Shown(file), file'.pos, Shown(file).changed \/ live' # live)
    BY <1>1, <1>3, <1>5, <1>10, KeptIs DEF Kept
  <2>2. live' = live /\ dirent' = dirent /\ medium' = medium
    BY <1>5, <1>7
  <2>3. file'.changed = file.changed /\ Shown(file).changed = file.changed
        /\ file.changed \in BOOLEAN
    BY <2>1, <2>2 DEF Shown, Handle
  <2>4. Shown(file') = [Shown(file) EXCEPT !.pos = file'.pos]
    <3>1. Shown(file') = At(Shown(file), file'.pos, Shown(file).changed)
      BY <2>1, <2>2, <2>3
    <3> QED
      BY <3>1 DEF At, Shown
  <2>5. CASE o.answer = "EACCES" /\ o.s = Now
    BY <1>5, <1>6, <1>10, <2>1, <2>5, Refused DEF Promise!Refusals
  <2>6. CASE file.read /\ file.pos < Len(live) /\ o.answer = live[file.pos + 1]
             /\ o.s.file.pos = file.pos + 1
    <3>1. HandleKnows(Now)'
      <4>1. /\ file'.pos <= Len(live) /\ file'.dirty = file.dirty /\ file'.cut = file.cut
            /\ file'.append = file.append
            /\ ~Fat => file'.err = file.err
        BY <1>5, <1>7, <2>1, <2>6 DEF GoesOn
      <4> QED
        BY <1>1, <1>5, <1>10, <2>1, <2>2, <2>3, <4>1, KnowsStill DEF Kept
    <3>2. Shown(file') = [Shown(file) EXCEPT !.pos = file.pos + 1]
      BY <1>5, <2>4, <2>6 DEF GoesOn
    <3>3. Promise!Read
      BY <1>6, <2>1, <2>2, <2>6, <3>2, HandleShown DEF Promise!Read, Promise!Answers
    <3> QED
      BY <1>5, <1>8, <2>1, <3>1, <3>3, KnowsNext DEF Meets, Promise!Next
  <2>7. CASE file.read /\ ~(file.pos < Len(live)) /\ o.answer = "eof"
             /\ o.s.file.pos = file.pos
    <3>1. HandleKnows(Now)'
      <4>1. /\ file'.pos <= Len(live) /\ file'.dirty = file.dirty /\ file'.cut = file.cut
            /\ file'.append = file.append
            /\ ~Fat => file'.err = file.err
        BY <1>5, <1>7, <2>1, <2>7 DEF GoesOn
      <4> QED
        BY <1>1, <1>5, <1>10, <2>1, <2>2, <2>3, <4>1, KnowsStill DEF Kept
    <3>2. Shown(file') = Shown(file)
      <4>1. Shown(file') = [Shown(file) EXCEPT !.pos = file.pos]
        BY <1>5, <2>4, <2>7 DEF GoesOn
      <4> QED
        BY <4>1 DEF Shown
    <3>3. Promise!Read
      BY <1>6, <2>1, <2>2, <2>7, <3>2, HandleShown DEF Promise!Read, Promise!Answers
    <3> QED
      BY <1>5, <1>8, <2>1, <3>1, <3>3, KnowsNext DEF Meets, Promise!Next
  <2> QED
    BY <1>7, <1>10, <2>5, <2>6, <2>7 DEF Kept, Errors
<1> QED
  BY <1>9, <1>10

LEMMA LseekStep ==
    ASSUME FilesInv, NEW offset \in -1 .. MaxSize, NEW whence \in {"SET", "CUR", "END"},
           Lseek(offset, whence)
    PROVE  Meets
<1> DEFINE outcomes == IF Fat THEN FatSeek(Now, offset, whence) ELSE LfsSeek(Now, offset, whence)
           to == Target(Now, offset, whence)
           beyond == file.append \/ to \notin 0 .. Len(live)
           request == [Request("lseek") EXCEPT !.n = offset, !.by = whence]
<1>1. file # NULL /\ Take(request, outcomes, beyond) /\ Now \in OpenStates /\ to <= MaxSize
      /\ offset \in Int
  BY NowIs, SizeAssumption DEF Lseek
<1>2. request.op = "lseek" /\ beyond \in BOOLEAN
  BY <1>1, NowIs DEF Request, OpenStates, Handle
<1>3. \A o \in outcomes : Stays(Now, o)
  BY <1>1, SeekIs
<1> HIDE DEF outcomes, request, beyond
<1>4. PICK o \in outcomes : Called(request, o, beyond)
  BY <1>1, <1>2, <1>3, HandleCall
<1>5. /\ FirmInv'
      /\ last' = [request EXCEPT !.answer = o.answer, !.number = o.number]
      /\ live' = o.s.live /\ dirent' = o.s.dirent /\ medium' = o.s.medium /\ kind' = kind
      /\ file' = [o.s.file EXCEPT !.failed = @ \/ o.answer \in Errors,
                                  !.changed = @ \/ live' # live]
      /\ GoesOn(o)
      /\ \/ Kept(o, beyond)
         \/ /\ ~outside' => HandleKnows(Now)'
            /\ last'.answer = o.answer => Promise!Next
  BY <1>4 DEF Called
<1>6. last'.op = "lseek" /\ last'.answer = o.answer /\ last'.number = o.number
      /\ last'.n = offset /\ last'.by = whence
  BY <1>5 DEF Request, request
<1>7. /\ o.answer \in {"ok", "EIO", "EINVAL"}
      /\ o.answer = "EINVAL" => o.s = Now
      /\ Fat => o.s.dirent = dirent /\ o.s.medium = medium
      /\ o.answer = "ok" /\ to \in 0 .. Len(live) =>
            /\ o.s.live = live /\ o.s.file.pos = to /\ o.number = to
            /\ o.s.file.dirty = file.dirty /\ o.s.file.cut = file.cut
            /\ ~Fat => o.s.file.err = file.err
  BY <1>1, SeekIs, NowIs DEF outcomes
<1>8. FatWriteStays'
  BY <1>6 DEF FatWriteStays
<1>9. CASE ~Kept(o, beyond)
  BY <1>5, <1>6, <1>8, <1>9, KnowsNext DEF Meets
<1>10. CASE Kept(o, beyond)
  <2>1. /\ file \in Handle /\ file' \in Handle /\ live \in Contents
        /\ Len(live) \in 0 .. MaxSize /\ file.pos \in 0 .. MaxSize
        /\ HandleKnows(Now) /\ file.pos <= Len(live)
        /\ ~outside /\ outside' = outside
        /\ file'.failed = file.failed
        /\ file'.changed = (file.changed \/ live' # live)
        /\ Shown(file') = At(Shown(file), file'.pos, Shown(file).changed \/ live' # live)
        /\ ~Fat => medium' = medium /\ dirent' = dirent
    BY <1>1, <1>3, <1>5, <1>10, KeptIs
  <2>2. ~file.append /\ to \in 0 .. Len(live)
    BY <1>10 DEF Kept, beyond
  <2>3. CASE o.answer = "EINVAL"
    BY <1>5, <1>6, <1>7, <1>10, <2>1, <2>3, Refused DEF Promise!Refusals
  <2>4. CASE o.answer = "ok"
    <3> HIDE DEF to
    <3>1. live' = live /\ dirent' = dirent /\ medium' = medium /\ file'.pos = to
      BY <1>5, <1>7, <2>1, <2>2, <2>4 DEF GoesOn
    <3>2. file'.changed = file.changed /\ Shown(file).changed = file.changed
          /\ file.changed \in BOOLEAN
      BY <2>1, <3>1 DEF Shown, Handle
    <3>3. Shown(file') = [Shown(file) EXCEPT !.pos = to]
      <4>1. Shown(file') = At(Shown(file), to, Shown(file).changed)
        BY <2>1, <3>1, <3>2
      <4> QED
        BY <4>1 DEF At, Shown
    <3>4. HandleKnows(Now)'
      <4>1. /\ file'.pos <= Len(live) /\ file'.dirty = file.dirty /\ file'.cut = file.cut
            /\ file'.append = file.append
            /\ ~Fat => file'.err = file.err
        BY <1>5, <1>7, <2>1, <2>2, <2>4, <3>1 DEF GoesOn
      <4> QED
        BY <1>1, <1>5, <1>10, <2>1, <2>2, <3>1, <3>2, <4>1, KnowsStill DEF Kept
    <3>5. to = offset + (CASE whence = "SET" -> 0
                           [] whence = "CUR" -> Shown(file).pos
                           [] whence = "END" -> Len(live))
      BY NowIs, <2>1, HandleShown DEF to, Target
    <3>6. Promise!Seek
      BY <1>6, <1>7, <2>1, <2>2, <2>4, <3>1, <3>3, <3>5, HandleShown
         DEF Promise!Seek, Promise!Answers
    <3> QED
      BY <1>5, <1>8, <2>1, <3>4, <3>6, KnowsNext DEF Meets, Promise!Next
  <2> QED
    BY <1>7, <1>10, <2>3, <2>4 DEF Kept, Errors
<1> QED
  BY <1>9, <1>10

LEMMA FtruncateStep ==
    ASSUME FilesInv, NEW n \in 0 .. MaxSize, Ftruncate(n)
    PROVE  Meets
<1> DEFINE outcomes == IF Fat THEN FatTruncate(Now, n) ELSE LfsTruncate(Now, n)
           beyond == ~file.write \/ n \notin file.pos .. Len(live)
           request == [Request("ftruncate") EXCEPT !.n = n]
<1>1. file # NULL /\ Take(request, outcomes, beyond) /\ Now \in OpenStates
  BY NowIs DEF Ftruncate
<1>2. request.op = "ftruncate" /\ beyond \in BOOLEAN
  BY <1>1, NowIs DEF Request, OpenStates, Handle
<1>3. \A o \in outcomes : Stays(Now, o)
  BY <1>1, FatTruncateIs, LfsTruncateIs
<1> HIDE DEF outcomes, request, beyond
<1>4. PICK o \in outcomes : Called(request, o, beyond)
  BY <1>1, <1>2, <1>3, HandleCall
<1>5. /\ FirmInv'
      /\ last' = [request EXCEPT !.answer = o.answer, !.number = o.number]
      /\ live' = o.s.live /\ dirent' = o.s.dirent /\ medium' = o.s.medium /\ kind' = kind
      /\ GoesOn(o)
      /\ \/ Kept(o, beyond)
         \/ /\ ~outside' => HandleKnows(Now)'
            /\ last'.answer = o.answer => Promise!Next
  BY <1>4 DEF Called
<1>6. last'.op = "ftruncate" /\ last'.answer = o.answer /\ last'.n = n
  BY <1>5 DEF Request, request
<1>7. Fat => /\ o.answer \in {"ok", "EIO", "EACCES"}
             /\ o.answer = "EACCES" => ~file.write
             /\ o.answer = "ok" /\ n \in file.pos .. Len(live) =>
                   /\ file.write
                   /\ o.s.live = SubSeq(live, 1, n) /\ o.s.file.pos = file.pos
                   /\ o.s.file.cut
                   /\ ~o.s.file.dirty => /\ o.s.live = live /\ o.s.dirent = dirent
                                         /\ o.s.medium = medium /\ ~file.dirty
  BY <1>1, FatTruncateIs, NowIs DEF outcomes
<1>8. ~Fat => /\ o.answer \in {"ok", "EIO", "EINVAL"}
              /\ o.answer = "EINVAL" => ~file.write
              /\ o.answer = "ok" =>
                    /\ file.write /\ o.s.file.pos = file.pos /\ o.s.file.dirty
                    /\ o.s.file.err = file.err /\ Len(o.s.live) = n
                    /\ n <= Len(live) => o.s.live = SubSeq(live, 1, n)
  BY <1>1, LfsTruncateIs, NowIs DEF outcomes
<1>9. FatWriteStays'
  BY <1>6 DEF FatWriteStays
<1>10. CASE ~Kept(o, beyond)
  BY <1>5, <1>6, <1>9, <1>10, KnowsNext DEF Meets
<1>11. CASE Kept(o, beyond)
  <2>1. /\ file \in Handle /\ file' \in Handle /\ live \in Contents /\ live' \in Contents
        /\ Len(live) \in 0 .. MaxSize /\ file.pos \in 0 .. MaxSize
        /\ HandleKnows(Now) /\ file.pos <= Len(live)
        /\ Fat /\ file.append => file.pos = Len(live)
        /\ ~outside /\ outside' = outside /\ ~file.failed
        /\ file'.changed = (file.changed \/ live' # live)
        /\ Shown(file') = At(Shown(file), file'.pos, Shown(file).changed \/ live' # live)
    BY <1>1, <1>3, <1>5, <1>11, KeptIs
  <2>2. file.write /\ n \in file.pos .. Len(live) /\ n <= Len(live)
    BY <1>11, <2>1 DEF Kept, beyond
  <2>3. o.answer = "ok"
    BY <1>7, <1>8, <1>11, <2>2 DEF Kept, Errors
  <2>4. live' = SubSeq(live, 1, n) /\ file'.pos = file.pos
    BY <1>5, <1>7, <1>8, <2>2, <2>3 DEF GoesOn
  <2>5. Len(live') = n
    <3>1. live \in Seq(Cells)
      BY <2>1, ContentsAre
    <3>2. \A i \in 1 .. n : live[i] \in Cells
      BY <2>1, <2>2, <3>1, ElementOfSeq, SizeAssumption
    <3>3. Len(SubSeq(live, 1, n)) = IF 1 <= n THEN n - 1 + 1 ELSE 0
      BY <3>2, SubSeqProperties, SizeAssumption
    <3> QED
      BY <2>4, <3>3, SizeAssumption
  <2>6. HandleKnows(Now)'
    <3>1. CASE Fat
      <4>1. /\ file'.cut /\ file'.append = file.append
            /\ ~file'.dirty => /\ live' = live /\ dirent' = dirent /\ medium' = medium
                               /\ ~file.dirty
        BY <1>5, <1>7, <2>2, <2>3, <3>1 DEF GoesOn
      <4>2. ~file'.dirty => dirent' = Len(live') /\ (file'.changed => medium' = live')
        BY <1>1, <2>1, <3>1, <4>1, NowIs DEF HandleKnows
      <4>3. file'.append => file'.pos = Len(live')
        BY <2>1, <2>2, <2>4, <2>5, <3>1, <4>1
      <4>4. file'.pos <= Len(live')
        BY <2>1, <2>2, <2>4, <2>5
      <4> QED
        BY <1>5, <3>1, <4>1, <4>2, <4>3, <4>4 DEF HandleKnows, Now, Fat
    <3>2. CASE ~Fat
      <4>1. file'.dirty /\ file'.err = file.err /\ ~file.err
        BY <1>1, <1>5, <1>8, <2>1, <2>3, <3>2, NowIs DEF GoesOn, HandleKnows
      <4>2. file'.pos <= Len(live')
        BY <2>1, <2>2, <2>4, <2>5
      <4> QED
        BY <1>5, <3>2, <4>1, <4>2 DEF HandleKnows, Now, Fat
    <3> QED
      BY <3>1, <3>2
  <2>7. Shown(file') = [Shown(file) EXCEPT !.changed = Shown(file).changed \/ live' # live]
    <3>1. Shown(file') = At(Shown(file), Shown(file).pos, Shown(file).changed \/ live' # live)
      BY <2>1, <2>4, HandleShown
    <3> QED
      BY <3>1 DEF At, Shown
  <2>8. Promise!Truncate
    BY <1>6, <2>1, <2>2, <2>3, <2>4, <2>7, HandleShown DEF Promise!Truncate, Promise!Answers
  <2> QED
    BY <1>5, <1>9, <2>1, <2>6, <2>8, KnowsNext DEF Meets, Promise!Next
<1> QED
  BY <1>10, <1>11

LEMMA FstatStep ==
    ASSUME FilesInv, Fstat
    PROVE  Meets
<1> DEFINE outcomes == IF Fat THEN FatFstat(Now) ELSE LfsFstat(Now)
<1>1. file # NULL /\ Take(Request("fstat"), outcomes, file.cut) /\ Now \in OpenStates
  BY NowIs DEF Fstat
<1>2. Request("fstat").op = "fstat" /\ file.cut \in BOOLEAN
  BY <1>1, NowIs DEF Request, OpenStates, Handle
<1>3. ASSUME NEW o \in outcomes
      PROVE  /\ o.s = Now
             /\ \/ o.answer \in Errors
                \/ o.answer = "ok" /\ o.number = IF Fat THEN dirent ELSE Len(live)
  <2>1. \/ o = Outcome(Now, "EIO") \/ o = Outcome(Now, "negative size")
        \/ o = Number(Now, IF Fat THEN dirent ELSE Len(live))
    BY NowIs DEF FatFstat, LfsFstat
  <2>2. CASE o = Outcome(Now, "EIO")
    BY <2>2 DEF Outcome, Errors
  <2>3. CASE o = Outcome(Now, "negative size")
    BY <2>3 DEF Outcome, Errors
  <2>4. CASE o = Number(Now, IF Fat THEN dirent ELSE Len(live))
    BY <2>4 DEF Number
  <2> QED
    BY <2>1, <2>2, <2>3, <2>4
<1>4. \A o \in outcomes : Stays(Now, o)
  BY <1>1, <1>3 DEF Stays, SameHandle
<1> HIDE DEF outcomes
<1>5. PICK o \in outcomes : Called(Request("fstat"), o, file.cut)
  BY <1>1, <1>2, <1>4, HandleCall
<1>6. /\ FirmInv'
      /\ last' = [Request("fstat") EXCEPT !.answer = o.answer, !.number = o.number]
      /\ live' = o.s.live /\ dirent' = o.s.dirent /\ medium' = o.s.medium /\ kind' = kind
      /\ GoesOn(o)
      /\ \/ Kept(o, file.cut)
         \/ /\ ~outside' => HandleKnows(Now)'
            /\ last'.answer = o.answer => Promise!Next
  BY <1>5 DEF Called
<1>7. last'.op = "fstat" /\ last'.answer = o.answer /\ last'.number = o.number
  BY <1>6 DEF Request
<1>8. FatWriteStays'
  BY <1>7 DEF FatWriteStays
<1>9. CASE ~Kept(o, file.cut)
  BY <1>6, <1>7, <1>8, <1>9, KnowsNext DEF Meets
<1>10. CASE Kept(o, file.cut)
  <2>1. /\ file \in Handle /\ file' \in Handle /\ live \in Contents
        /\ HandleKnows(Now) /\ ~outside /\ outside' = outside /\ ~file.failed
        /\ file'.failed = file.failed
        /\ file'.changed = (file.changed \/ live' # live)
        /\ Shown(file') = At(Shown(file), file'.pos, Shown(file).changed \/ live' # live)
    BY <1>1, <1>4, <1>6, <1>10, KeptIs
  <2>2. /\ live' = live /\ dirent' = dirent /\ medium' = medium
        /\ file'.pos = file.pos /\ file'.dirty = file.dirty
        /\ file'.err = file.err /\ file'.cut = file.cut /\ file'.append = file.append
    BY <1>3, <1>6, NowIs DEF GoesOn
  <2>3. file'.changed = file.changed /\ Shown(file).changed = file.changed
        /\ file.changed \in BOOLEAN
    BY <2>1, <2>2 DEF Shown, Handle
  <2>4. Shown(file') = Shown(file)
    <3>1. Shown(file') = At(Shown(file), Shown(file).pos, Shown(file).changed)
      BY <2>1, <2>2, <2>3, HandleShown
    <3> QED
      BY <3>1 DEF At, Shown
  <2>5. HandleKnows(Now)'
    BY <1>1, <1>6, <2>1, <2>2, <2>3 DEF HandleKnows, Now, Fat
  <2>6. live # Absent /\ last'.answer = "ok" /\ last'.number = Len(live)
    BY <1>1, <1>3, <1>7, <1>10, <2>1, NowIs, ValueAssumption DEF Kept, HandleKnows
  <2>7. Promise!Size
    BY <1>7, <2>1, <2>2, <2>4, <2>6, HandleShown DEF Promise!Size
  <2> QED
    BY <1>6, <1>8, <2>1, <2>5, <2>7, KnowsNext DEF Meets, Promise!Next
<1> QED
  BY <1>9, <1>10

------------------------------------------------------------------------------
(* The calls that open no file or leave none open *)

\* One outcome of a call, as Take makes it the state.
Taken(request, o, beyond) ==
    /\ live' = o.s.live /\ dirent' = o.s.dirent /\ medium' = o.s.medium
    /\ heap' = o.s.heap
    /\ file' = IF o.s.file = NULL THEN NULL
               ELSE [o.s.file EXCEPT !.failed = @ \/ o.answer \in Errors,
                                     !.changed = @ \/ live' # live]
    /\ last' = [request EXCEPT !.answer = o.answer, !.number = o.number]
    /\ leaks' = IF FOpenFailed(request, o.answer) THEN leaks + 1 ELSE leaks
    /\ outside' = ((medium' # Absent \/ live' # Absent) /\ (outside \/ beyond))
    /\ kind' = kind

LEMMA TakenIs ==
    ASSUME NEW request, NEW outcomes, NEW beyond, Take(request, outcomes, beyond)
    PROVE  \E o \in outcomes : Taken(request, o, beyond)
BY DEF Take, Taken

\* After the call no file is open.
LEMMA NoFileLeft ==
    ASSUME FilesInv, NEW request, NEW o, NEW beyond \in BOOLEAN, Taken(request, o, beyond),
           last'.op # "write", last'.answer = o.answer,
           o.s \in States, o.s.file = NULL, CopiesAgree(o.s),
           \/ /\ request.op = "open" /\ file = NULL
              /\ o.s.heap = IF FOpenFailed(request, o.answer) THEN heap + 1 ELSE heap
           \/ request.op # "open" /\ o.s.heap = leaks
    PROVE  /\ FilesInv' /\ file' = NULL
           /\ outside \/ outside' \/ o.answer \in Errors => Meets
           /\ /\ file = NULL /\ o.answer \in Promise!Refusals
              /\ o.s.live = live /\ o.s.medium = medium
              => Meets
<1>1. /\ live' = o.s.live /\ dirent' = o.s.dirent /\ medium' = o.s.medium
      /\ heap' = o.s.heap /\ file' = NULL /\ kind' = kind
      /\ leaks' = IF FOpenFailed(request, o.answer) THEN leaks + 1 ELSE leaks
      /\ outside' = ((medium' # Absent \/ live' # Absent) /\ (outside \/ beyond))
  BY DEF Taken
<1>2. heap \in Nat /\ leaks \in Nat /\ heap = leaks + (IF file = NULL THEN 0 ELSE 1)
      /\ (~Fat => leaks = 0) /\ o.s.heap \in Nat /\ outside \in BOOLEAN
  BY SizeAssumption DEF FilesInv, TypeOK, ContextsAccounted, States
<1>3. leaks' = o.s.heap /\ (~Fat => leaks' = 0)
  <2>1. CASE FOpenFailed(request, o.answer)
    BY <1>1, <1>2, <2>1 DEF FOpenFailed
  <2>2. CASE ~FOpenFailed(request, o.answer)
    BY <1>1, <1>2, <2>2
  <2> QED
    BY <2>1, <2>2
<1>4. TypeOK'
  BY <1>1, <1>2, <1>3 DEF FilesInv, TypeOK, States
<1>5. CopiesAgree(Now)'
  BY <1>1 DEF CopiesAgree, Now, Fat
<1>6. ContextsAccounted'
  BY <1>1, <1>2, <1>3 DEF ContextsAccounted, Fat
<1>7. FatWriteStays' /\ HandleKnows(Now)'
  BY <1>1 DEF FatWriteStays, HandleKnows, Now
<1>8. FilesInv'
  BY <1>4, <1>5, <1>6, <1>7 DEF FilesInv
<1>9. ASSUME outside \/ outside' PROVE Meets
  BY <1>8, <1>9 DEF Meets, Promise!Next
<1>10. ASSUME o.answer \in Errors, ~outside, ~outside' PROVE Meets
  <2>1. outside' = outside
    BY <1>1, <1>2, <1>10
  <2>2. Promise!Fail
    BY <1>1, <1>10 DEF Promise!Fail, Promise!Failures, Errors
  <2> QED
    BY <1>8, <1>10, <2>1, <2>2 DEF Meets, Promise!Next
<1>11. ASSUME file = NULL, o.answer \in Promise!Refusals, o.s.live = live, o.s.medium = medium,
              ~outside, ~outside'
       PROVE  Meets
  <2>1. outside' = outside
    BY <1>1, <1>2, <1>11
  <2>2. Promise!Refuse
    BY <1>1, <1>11 DEF Promise!Refuse
  <2> QED
    BY <1>8, <1>11, <2>1, <2>2 DEF Meets, Promise!Next
<1> QED
  BY <1>1, <1>8, <1>9, <1>10, <1>11

LEMMA UnlinkStep ==
    ASSUME FilesInv, Unlink
    PROVE  Meets
<1> DEFINE outcomes == IF Fat THEN FatRemove(Now) ELSE LfsRemove(Now)
           gone == [Now EXCEPT !.live = Absent, !.dirent = 0, !.medium = Absent]
           torn == [Now EXCEPT !.live = Absent, !.dirent = 0, !.medium = Torn]
<1>1. file = NULL /\ Take(Request("unlink"), outcomes, FALSE) /\ Now \in States
  BY NowIs DEF Unlink
<1>2. PICK o \in outcomes : Taken(Request("unlink"), o, FALSE)
  BY <1>1, TakenIs
<1>3. Request("unlink").op = "unlink" /\ last'.op = "unlink" /\ last'.answer = o.answer
  BY <1>2 DEF Request, Taken
<1>4. \/ o = Outcome(Now, "EIO")
      \/ o = Outcome(Now, "ENOENT")
      \/ o = Outcome(gone, "ok") /\ live # Absent
      \/ o = Outcome(gone, "EIO")
      \/ o = Outcome(torn, "EIO") /\ Fat
  <2>1. [[Now EXCEPT !.live = Absent, !.dirent = 0] EXCEPT !.medium = Absent] = gone
        /\ [[Now EXCEPT !.live = Absent, !.dirent = 0] EXCEPT !.medium = Torn] = torn
    BY DEF Now
  <2> HIDE DEF gone, torn
  <2> QED
    BY <2>1, NowIs DEF FatRemove, LfsRemove, gone
<1>5. /\ gone \in States /\ gone.file = NULL /\ gone.live = Absent /\ gone.dirent = 0
      /\ gone.medium = Absent /\ gone.heap = heap
      /\ torn \in States /\ torn.file = NULL /\ torn.live = Absent /\ torn.dirent = 0
      /\ torn.heap = heap
  <2>1. 0 \in 0 .. MaxSize /\ Now.file = NULL /\ Now.heap = heap
    BY <1>1, NowIs, SizeAssumption
  <2>2. /\ gone \in States /\ gone.file = NULL /\ gone.live = Absent /\ gone.dirent = 0
        /\ gone.medium = Absent /\ gone.heap = heap
    BY <1>1, <2>1 DEF States
  <2>3. /\ torn \in States /\ torn.file = NULL /\ torn.live = Absent /\ torn.dirent = 0
        /\ torn.heap = heap
    BY <1>1, <2>1 DEF States
  <2> HIDE DEF gone, torn
  <2> QED
    BY <2>2, <2>3
<1> HIDE DEF gone, torn, outcomes
<1>6. /\ CopiesAgree(Now) /\ heap = leaks /\ CopiesAgree(gone) /\ (Fat => CopiesAgree(torn))
  BY <1>1, <1>5, ValueAssumption, SizeAssumption
     DEF FilesInv, CopiesAgree, ContextsAccounted, TypeOK
<1>7. /\ o.s \in States /\ o.s.file = NULL /\ CopiesAgree(o.s) /\ o.s.heap = leaks
      /\ \/ o.answer \in Errors
         \/ o.answer \in Promise!Refusals /\ o.s.live = live /\ o.s.medium = medium
         \/ o.answer = "ok" /\ o.s.live = Absent /\ o.s.medium = Absent /\ live # Absent
  <2>1. CASE o = Outcome(Now, "EIO")
    BY <1>1, <1>6, <2>1, NowIs DEF Outcome, Errors
  <2>2. CASE o = Outcome(Now, "ENOENT")
    BY <1>1, <1>6, <2>2, NowIs DEF Outcome, Promise!Refusals
  <2>3. CASE o = Outcome(gone, "ok") /\ live # Absent
    BY <1>1, <1>5, <1>6, <2>3 DEF Outcome
  <2>4. CASE o = Outcome(gone, "EIO")
    BY <1>1, <1>5, <1>6, <2>4 DEF Outcome, Errors
  <2>5. CASE o = Outcome(torn, "EIO") /\ Fat
    BY <1>1, <1>5, <1>6, <2>5 DEF Outcome, Errors
  <2> QED
    BY <1>4, <2>1, <2>2, <2>3, <2>4, <2>5
<1>8. /\ FilesInv' /\ file' = NULL
      /\ outside \/ outside' \/ o.answer \in Errors => Meets
      /\ o.answer \in Promise!Refusals /\ o.s.live = live /\ o.s.medium = medium => Meets
  BY <1>1, <1>2, <1>3, <1>7, NoFileLeft
<1>9. ASSUME ~outside, ~outside', o.answer = "ok", o.s.live = Absent, o.s.medium = Absent
      PROVE  Meets
  <2>1. live' = Absent /\ medium' = Absent /\ outside \in BOOLEAN /\ outside' \in BOOLEAN
    BY <1>2, <1>8, <1>9 DEF Taken, FilesInv, TypeOK
  <2>2. Promise!Remove
    BY <1>1, <1>3, <1>8, <1>9, <2>1, ValueAssumption DEF Promise!Remove, Promise!Answers
  <2> QED
    BY <1>8, <1>9, <2>1, <2>2 DEF Meets, Promise!Next
<1> QED
  BY <1>7, <1>8, <1>9

LEMMA StatStep ==
    ASSUME FilesInv, Stat
    PROVE  Meets
<1>1. Take(Request("stat"), Stat1(Now), file # NULL) /\ Now \in States
  BY NowIs DEF Stat
<1>2. ASSUME NEW o \in Stat1(Now)
      PROVE  /\ o.s = Now
             /\ \/ o.answer \in Errors
                \/ o.answer \in Promise!Refusals
                \/ o.answer = "ok" /\ live # Absent /\ o.number = dirent
  <2>1. \/ o = Outcome(Now, "ENOENT") \/ o = Outcome(Now, "EIO")
        \/ o = Number(Now, dirent) /\ live # Absent
    BY NowIs DEF Stat1
  <2>2. CASE o = Outcome(Now, "ENOENT")
    BY <2>2 DEF Outcome, Promise!Refusals
  <2>3. CASE o = Outcome(Now, "EIO")
    BY <2>3 DEF Outcome, Errors
  <2>4. CASE o = Number(Now, dirent) /\ live # Absent
    BY <2>4 DEF Number
  <2> QED
    BY <2>1, <2>2, <2>3, <2>4
<1>3. Request("stat").op = "stat" /\ (file # NULL) \in BOOLEAN
  BY DEF Request
<1>4. CASE file # NULL
  <2>1. \A o \in Stat1(Now) : Stays(Now, o)
    BY <1>2, <1>4, NowIs DEF Stays, SameHandle
  <2>2. PICK o \in Stat1(Now) : Called(Request("stat"), o, file # NULL)
    BY <1>1, <1>3, <1>4, <2>1, HandleCall
  <2>3. last'.op = "stat" /\ last'.answer = o.answer
    BY <2>2 DEF Called, Request
  <2>4. FirmInv' /\ (~outside' => HandleKnows(Now)') /\ Promise!Next
    BY <1>4, <2>2, <2>3 DEF Called, Kept
  <2> QED
    BY <2>3, <2>4, KnowsNext DEF FatWriteStays, Meets
<1>5. CASE file = NULL
  <2>1. PICK o \in Stat1(Now) : Taken(Request("stat"), o, file # NULL)
    BY <1>1, TakenIs
  <2>2. last'.op = "stat" /\ last'.answer = o.answer /\ last'.number = o.number
    BY <2>1 DEF Taken, Request
  <2>3. o.s \in States /\ o.s.file = NULL /\ CopiesAgree(o.s) /\ o.s.heap = leaks
        /\ o.s.live = live /\ o.s.medium = medium
    BY <1>1, <1>2, <1>5, NowIs DEF FilesInv, ContextsAccounted, TypeOK
  <2>4. /\ FilesInv' /\ file' = NULL
        /\ outside \/ outside' \/ o.answer \in Errors => Meets
        /\ o.answer \in Promise!Refusals => Meets
    BY <1>3, <1>5, <2>1, <2>2, <2>3, NoFileLeft
  <2>5. ASSUME ~outside, ~outside', o.answer = "ok", live # Absent, o.number = dirent
        PROVE  Meets
    <3>1. live' = live /\ medium' = medium /\ outside \in BOOLEAN /\ outside' \in BOOLEAN
      BY <2>1, <2>3, <2>4 DEF Taken, FilesInv, TypeOK
    <3>2. dirent = Len(live)
      BY <1>5, <2>5, NowIs DEF FilesInv, CopiesAgree
    <3>3. Promise!Size
      BY <1>5, <2>2, <2>4, <2>5, <3>1, <3>2 DEF Promise!Size
    <3> QED
      BY <2>4, <2>5, <3>1, <3>3 DEF Meets, Promise!Next
  <2> QED
    BY <1>2, <2>4, <2>5
<1> QED
  BY <1>4, <1>5

\* What a close leaves of the file.
LEMMA CloseIs ==
    ASSUME FilesInv, file # NULL,
           NEW o \in IF Fat THEN FatClose(Now) ELSE LfsClose(Now)
    PROVE  /\ o.s \in States /\ o.s.file = NULL /\ CopiesAgree(o.s) /\ o.s.heap = leaks
           /\ o.answer \in {"ok", "EIO"}
           /\ ~outside /\ ~file.failed /\ o.answer = "ok" =>
                 /\ o.s.live = live
                 /\ \/ o.s.medium = live
                    \/ o.s.medium = medium /\ ~file.changed
<1>1. /\ Now \in OpenStates /\ Now \in States /\ file \in Handle /\ live \in Contents
      /\ heap - 1 = leaks /\ leaks \in 0 .. HeapCap /\ Len(live) \in 0 .. MaxSize
      /\ CopiesAgree(Now)
  BY NowIs, ContentsAre, SizeAssumption
     DEF FilesInv, ContextsAccounted, TypeOK, OpenStates
<1>2. CASE Fat
  <2> DEFINE kept(q) == [q.s EXCEPT !.live = Resize(@, q.s.dirent, "junk")]
             left(q) == [kept(q) EXCEPT !.file = NULL, !.heap = @ - 1]
  <2>1. PICK q \in FatSync(Now) : o = Outcome(left(q), q.answer)
    BY <1>2 DEF FatClose, Closed
  <2>2. /\ Stays(Now, q) /\ q.s.live = live /\ q.answer \in {"ok", "EIO"}
        /\ ~file.dirty => q.s = Now
        /\ file.dirty /\ q.answer = "ok" => q.s.dirent = Len(live) /\ q.s.medium = live
    BY <1>1, <1>2, FatSyncIs, NowIs
  <2>3. /\ q.s \in States /\ q.s.dirent \in 0 .. MaxSize /\ q.s.heap = heap
        /\ "junk" \in Cells
    BY <2>2, NowIs DEF Stays, OpenStates, States, Cells
  <2> DEFINE r == Resize(live, q.s.dirent, "junk")
  <2>4. r \in Contents /\ Len(r) = q.s.dirent /\ (q.s.dirent = Len(live) => r = live)
    BY <1>1, <2>3, ResizeIs
  <2>5. kept(q) = [q.s EXCEPT !.live = r]
    BY <2>2
  <2> HIDE DEF r
  <2>6. /\ kept(q) \in States /\ kept(q).live = r /\ kept(q).dirent = q.s.dirent
        /\ kept(q).medium = q.s.medium /\ kept(q).heap = heap
    BY <2>3, <2>4, <2>5 DEF States
  <2> HIDE DEF kept
  <2>7. /\ left(q) \in States /\ left(q).live = r /\ left(q).dirent = q.s.dirent
        /\ left(q).medium = q.s.medium /\ left(q).heap = leaks /\ left(q).file = NULL
    BY <1>1, <2>6 DEF States
  <2> HIDE DEF left
  <2>8. o.s = left(q) /\ o.answer = q.answer
    BY <2>1 DEF Outcome
  <2>9. CopiesAgree(o.s)
    BY <1>2, <2>4, <2>7, <2>8, ValueAssumption DEF CopiesAgree
  <2>10. ASSUME ~outside, ~file.failed, q.answer = "ok"
         PROVE  r = live /\ (q.s.medium = live \/ (q.s.medium = medium /\ ~file.changed))
    <3>1. ~file.dirty => dirent = Len(live) /\ (file.changed => medium = live)
      BY <1>2, <2>10, NowIs DEF FilesInv, HandleKnows
    <3> QED
      BY <2>2, <2>4, <2>10, <3>1, NowIs
  <2> QED
    BY <2>2, <2>7, <2>8, <2>9, <2>10
<1>3. CASE ~Fat
  <2> DEFINE kept == [Now EXCEPT !.medium = live, !.dirent = Len(live)]
             lost == [Now EXCEPT !.live = medium]
             saved == [kept EXCEPT !.file = NULL, !.heap = @ - 1]
             given == [lost EXCEPT !.file = NULL, !.heap = @ - 1]
  <2>1. \/ o = Outcome(given, "ok") /\ (file.err \/ ~file.dirty)
        \/ o = Outcome(saved, "ok")
        \/ o = Outcome(saved, "EIO")
        \/ o = Outcome(given, "EIO")
    <3>1. [Now EXCEPT !.medium = Now.live, !.dirent = Len(Now.live)] = kept
          /\ [Now EXCEPT !.live = Now.medium] = lost /\ Now.file = file
      BY NowIs
    <3> HIDE DEF kept, lost
    <3>2. Closed(kept) = saved /\ Closed(lost) = given
      BY DEF Closed
    <3> HIDE DEF saved, given
    <3> QED
      BY <1>3, <3>1, <3>2 DEF LfsClose
  <2>2. medium \in Contents /\ dirent = Len(medium) /\ (~file.dirty \/ TRUE)
    BY <1>1, <1>3, NowIs, ValueAssumption DEF FilesInv, TypeOK, CopiesAgree
  <2>3. /\ kept \in States /\ kept.live = live /\ kept.medium = live
        /\ kept.dirent = Len(live) /\ kept.heap = heap
    BY <1>1, NowIs DEF States
  <2>4. /\ lost \in States /\ lost.live = medium /\ lost.medium = medium
        /\ lost.dirent = Len(medium) /\ lost.heap = heap
    BY <1>1, <2>2, NowIs DEF States
  <2> HIDE DEF kept, lost
  <2>5. /\ saved \in States /\ saved.live = live /\ saved.medium = live /\ saved.file = NULL
        /\ saved.dirent = Len(live) /\ saved.heap = leaks
    BY <1>1, <2>3 DEF States
  <2>6. /\ given \in States /\ given.live = medium /\ given.medium = medium
        /\ given.file = NULL /\ given.dirent = Len(medium) /\ given.heap = leaks
    BY <1>1, <2>4 DEF States
  <2> HIDE DEF saved, given
  <2>7. CopiesAgree(saved) /\ CopiesAgree(given)
    BY <1>1, <1>3, <2>2, <2>5, <2>6, ValueAssumption DEF CopiesAgree
  <2>8. ASSUME ~outside, ~file.failed, file.err \/ ~file.dirty
        PROVE  live = medium
    BY <1>1, <1>3, <2>8, NowIs DEF FilesInv, HandleKnows
  <2>9. CASE o = Outcome(given, "ok") /\ (file.err \/ ~file.dirty)
    BY <2>6, <2>7, <2>8, <2>9 DEF Outcome
  <2>10. CASE o = Outcome(saved, "ok")
    BY <2>5, <2>7, <2>10 DEF Outcome
  <2>11. CASE o = Outcome(saved, "EIO")
    BY <2>5, <2>7, <2>11 DEF Outcome
  <2>12. CASE o = Outcome(given, "EIO")
    BY <2>6, <2>7, <2>12 DEF Outcome
  <2> QED
    BY <2>1, <2>9, <2>10, <2>11, <2>12
<1> QED
  BY <1>2, <1>3

LEMMA CloseStep ==
    ASSUME FilesInv, Close
    PROVE  Meets
<1> DEFINE outcomes == IF Fat THEN FatClose(Now) ELSE LfsClose(Now)
<1>1. file # NULL /\ Take(Request("close"), outcomes, FALSE) /\ file \in Handle
      /\ live \in Contents
  BY NowIs DEF Close, OpenStates
<1>2. PICK o \in outcomes : Taken(Request("close"), o, FALSE)
  BY <1>1, TakenIs
<1>3. Request("close").op = "close" /\ last'.op = "close" /\ last'.answer = o.answer
  BY <1>2 DEF Request, Taken
<1>4. /\ o.s \in States /\ o.s.file = NULL /\ CopiesAgree(o.s) /\ o.s.heap = leaks
      /\ o.answer \in {"ok", "EIO"}
      /\ ~outside /\ ~file.failed /\ o.answer = "ok" =>
            /\ o.s.live = live
            /\ \/ o.s.medium = live
               \/ o.s.medium = medium /\ ~file.changed
  BY <1>1, CloseIs
<1> HIDE DEF outcomes
<1>5. /\ FilesInv' /\ file' = NULL
      /\ outside \/ outside' \/ o.answer \in Errors => Meets
  BY <1>1, <1>2, <1>3, <1>4, NoFileLeft
<1>6. ASSUME ~outside, ~outside', o.answer = "ok"
      PROVE  Meets
  <2>1. /\ live' = o.s.live /\ medium' = o.s.medium
        /\ outside \in BOOLEAN /\ outside' \in BOOLEAN
    BY <1>2, <1>5 DEF Taken, FilesInv, TypeOK
  <2>2. /\ Shown(file) # NULL /\ Shown(file).failed = file.failed
        /\ Shown(file).changed = file.changed
    BY <1>1, ValueAssumption DEF Shown
  <2>3. CASE file.failed
    <3>1. Promise!Fail
      BY <1>1, <1>5, <2>2, <2>3 DEF Promise!Fail
    <3> QED
      BY <1>5, <1>6, <2>1, <3>1 DEF Meets, Promise!Next
  <2>4. CASE ~file.failed
    <3>1. live' = live /\ live # Torn
          /\ (medium' = live \/ (medium' = medium /\ ~file.changed))
      BY <1>1, <1>4, <1>6, <2>1, <2>4, ValueAssumption
    <3>2. Promise!Close
      BY <1>1, <1>3, <1>5, <1>6, <2>2, <3>1 DEF Promise!Close, Promise!Answers
    <3> QED
      BY <1>5, <1>6, <2>1, <3>2 DEF Meets, Promise!Next
  <2> QED
    BY <2>3, <2>4
<1> QED
  BY <1>4, <1>5, <1>6 DEF Errors

LEMMA PowerLossStep ==
    ASSUME FilesInv, PowerLoss
    PROVE  Meets
<1>1. /\ live' \in (IF medium = Torn THEN Contents \cup {Absent} ELSE {medium})
      /\ medium' = live' /\ dirent' = (IF live' = Absent THEN 0 ELSE Len(live'))
      /\ file' = NULL /\ heap' = 0 /\ leaks' = 0 /\ kind' = kind /\ outside' = outside
      /\ last' = [Request("reset") EXCEPT !.answer = "ok"]
  BY DEF PowerLoss
<1>2. last'.op = "reset" /\ last'.answer = "ok"
  BY <1>1 DEF Request
<1>3. live' \in Contents \cup {Absent} /\ live' # Torn
  BY <1>1, ValueAssumption DEF FilesInv, TypeOK
<1>4. dirent' \in 0 .. MaxSize
  BY <1>1, <1>3, ContentsAre, SizeAssumption
<1>5. TypeOK'
  BY <1>1, <1>3, <1>4, SizeAssumption DEF FilesInv, TypeOK
<1>6. CopiesAgree(Now)' /\ HandleKnows(Now)'
  BY <1>1, <1>3 DEF CopiesAgree, HandleKnows, Now
<1>7. ContextsAccounted' /\ FatWriteStays'
  BY <1>1, <1>2 DEF ContextsAccounted, FatWriteStays
<1>8. FilesInv'
  BY <1>5, <1>6, <1>7 DEF FilesInv
<1>9. CASE outside
  BY <1>8, <1>9 DEF Meets, Promise!Next
<1>10. CASE ~outside
  <2>1. Promise!PowerLoss
    BY <1>1, <1>2, <1>3 DEF Promise!PowerLoss, Promise!Answers
  <2> QED
    BY <1>1, <1>8, <1>10, <2>1 DEF Meets, Promise!Next
<1> QED
  BY <1>9, <1>10

\* The outcome o of an open that fails: a context more is allocated if f_open() failed.
OpenFails(o) ==
    /\ o.s \in States /\ o.s.file = NULL /\ CopiesAgree(o.s)
    /\ o.answer # "ok"
    /\ o.s.heap = IF Fat /\ o.answer # "ENOMEM" THEN heap + 1 ELSE heap
    /\ \/ o.answer \in Errors
       \/ o.answer \in Promise!Refusals /\ o.s.live = live /\ o.s.medium = medium

\* The outcome o of an open with flags fl that succeeds.
OpenWorks(o, fl) ==
    /\ o.answer = "ok" /\ o.s.file = Opened(fl, o.s.file.pos, o.s.file.dirty)
    /\ CopiesAgree(o.s)
    /\ o.s.file.pos \in 0 .. MaxSize /\ o.s.file.dirty \in BOOLEAN
    /\ o.s.live \in Contents /\ o.s.dirent \in 0 .. MaxSize
    /\ o.s.medium \in Contents \cup {Absent, Torn}
    /\ o.s.heap = heap + 1 /\ heap + 1 <= HeapCap
    /\ (Fat /\ fl.append) \/ o.s.file.pos = 0

\* What an open that succeeds does as long as it keeps to what both file systems do alike.
OpenKeeps(o, fl) ==
    /\ o.s.file.pos <= Len(o.s.live)
    /\ IF live # Absent /\ ~fl.trunc THEN o.s.live = live /\ o.s.medium = medium
       ELSE o.s.live = <<>> /\ (live = Absent => fl.creat)
    /\ o.s.dirent = Len(o.s.live) \/ (~Fat /\ o.s.file.dirty)
    /\ Fat /\ fl.append => o.s.file.pos = Len(o.s.live)
    /\ Fat /\ ~o.s.file.dirty => o.s.live = live
    /\ ~Fat /\ ~o.s.file.dirty => o.s.live = o.s.medium

Beyond(fl) == \/ fl.excl /\ live # Absent
              \/ fl.trunc /\ ~fl.creat
              \/ fl.append /\ ~fl.creat /\ live = Absent

\* What open may do.
Opens(o, fl) == \/ OpenFails(o)
                \/ OpenWorks(o, fl) /\ (~Beyond(fl) => OpenKeeps(o, fl))

LEMMA OpenedIs ==
    ASSUME NEW fl, NEW p, NEW d
    PROVE  Opened(fl, p, d).pos = p /\ Opened(fl, p, d).dirty = d
BY DEF Opened

LEMMA EmptyIs == <<>> \in Contents /\ Len(<<>>) = 0
<1>1. <<>> \in Seq(Cells) /\ Len(<<>>) = 0
  BY EmptySeq
<1> DEFINE e == <<>>
<1>2. e \in Seq(Cells) /\ Len(e) \in 0 .. MaxSize
  BY <1>1, SizeAssumption
<1> HIDE DEF e
<1>3. e \in Contents
  BY <1>2, ContentsAre
<1> QED
  BY <1>1, <1>3 DEF e

LEMMA FatOpenIs ==
    ASSUME FilesInv, file = NULL, Fat, NEW fl \in Usual, NEW o \in FatOpen(Now, fl)
    PROVE  Opens(o, fl)
<1> DEFINE yes == TRUE
           no == FALSE
           none == <<>>
           create == fl.creat \/ fl.append
           up == [Now EXCEPT !.heap = @ + 1]
           empty == [up EXCEPT !.live = none, !.dirent = 0, !.medium = Torn]
           renewed == create /\ (live = Absent \/ (fl.creat /\ fl.trunc))
           at == IF fl.append THEN Len(live) ELSE 0
           new == [empty EXCEPT !.file = Opened(fl, 0, yes)]
           old == [up EXCEPT !.file = Opened(fl, at, no)]
<1>1. /\ yes \in BOOLEAN /\ yes /\ no \in BOOLEAN /\ ~no
      /\ none \in Contents /\ Len(none) = 0 /\ none = <<>> /\ 0 \in 0 .. MaxSize
  BY EmptyIs, SizeAssumption
<1>2. /\ Now \in States /\ CopiesAgree(Now) /\ heap \in 0 .. HeapCap
      /\ live \in Contents \cup {Absent} /\ medium \in Contents \cup {Absent, Torn}
      /\ dirent \in 0 .. MaxSize
  BY NowIs DEF FilesInv, TypeOK
<1>3. /\ fl.read \in BOOLEAN /\ fl.write \in BOOLEAN /\ fl.append \in BOOLEAN
      /\ fl.creat \in BOOLEAN /\ fl.trunc \in BOOLEAN /\ fl.excl \in BOOLEAN
      /\ fl.trunc => ~fl.append
  BY DEF Usual, Flags
<1>4. \/ o = Outcome(Now, "ENOMEM")
      \/ heap # HeapCap /\ o = Outcome(up, "EIO")
      \/ heap # HeapCap /\ o = Outcome(up, "ENOENT")
      \/ heap # HeapCap /\ o = Outcome(empty, "EIO")
      \/ heap # HeapCap /\ renewed /\ o = Outcome(new, "ok")
      \/ heap # HeapCap /\ ~renewed /\ ~(live = Absent /\ ~create) /\ o = Outcome(old, "ok")
  <2>1. o \in {Outcome(Now, "ENOMEM")} \cup
             (IF heap = HeapCap THEN {}
              ELSE {Outcome(up, "EIO")} \cup
                   (IF live = Absent /\ ~create THEN {Outcome(up, "ENOENT")}
                    ELSE IF renewed THEN {Outcome(empty, "EIO"), Outcome(new, "ok")}
                    ELSE {Outcome(old, "ok")}))
    BY NowIs DEF FatOpen
  <2> HIDE DEF up, empty, create, renewed, at, new, old, none, yes, no
  <2> QED
    BY <2>1
<1> HIDE DEF create, renewed, at, none, yes, no
<1>5. heap # HeapCap => heap + 1 \in 0 .. HeapCap
  BY <1>2, SizeAssumption
<1>6. ASSUME heap # HeapCap
      PROVE  /\ up \in States /\ up.live = live /\ up.dirent = dirent /\ up.medium = medium
             /\ up.file = NULL /\ up.heap = heap + 1
  BY <1>2, <1>5, <1>6, NowIs DEF States
<1> HIDE DEF up
<1>7. ASSUME heap # HeapCap
      PROVE  /\ empty \in States /\ empty.live = none /\ empty.dirent = 0
             /\ empty.medium = Torn /\ empty.file = NULL /\ empty.heap = heap + 1
  BY <1>1, <1>6, <1>7 DEF States
<1> HIDE DEF empty
<1>8. ASSUME heap # HeapCap
      PROVE  /\ new.live = none /\ new.dirent = 0 /\ new.medium = Torn
             /\ new.file = Opened(fl, 0, yes) /\ new.heap = heap + 1
             /\ old.live = live /\ old.dirent = dirent /\ old.medium = medium
             /\ old.file = Opened(fl, at, no) /\ old.heap = heap + 1
  BY <1>6, <1>7, <1>8 DEF States
<1> HIDE DEF new, old
<1>9. /\ heap # HeapCap => CopiesAgree(up) /\ CopiesAgree(empty) /\ CopiesAgree(new)
      /\ heap # HeapCap /\ live # Absent => CopiesAgree(old)
  BY <1>2, <1>6, <1>7, <1>8, NowIs, <1>1, ValueAssumption DEF CopiesAgree
<1>10. CASE o = Outcome(Now, "ENOMEM")
  BY <1>2, <1>10, NowIs DEF Outcome, Opens, OpenFails, Promise!Refusals
<1>11. CASE heap # HeapCap /\ o = Outcome(up, "EIO")
  BY <1>6, <1>9, <1>11 DEF Outcome, Opens, OpenFails, Errors
<1>12. CASE heap # HeapCap /\ o = Outcome(up, "ENOENT")
  BY <1>6, <1>9, <1>12 DEF Outcome, Opens, OpenFails, Promise!Refusals
<1>13. CASE heap # HeapCap /\ o = Outcome(empty, "EIO")
  BY <1>7, <1>9, <1>13 DEF Outcome, Opens, OpenFails, Errors
<1>14. CASE heap # HeapCap /\ renewed /\ o = Outcome(new, "ok")
  <2>1. o.s = new /\ o.answer = "ok"
    BY <1>14 DEF Outcome
  <2>2. o.s.file = Opened(fl, 0, yes) /\ o.s.file.pos = 0 /\ o.s.file.dirty = yes
    BY <1>8, <1>14, <2>1, OpenedIs
  <2>3. OpenWorks(o, fl)
    <3>1. /\ heap # HeapCap /\ new.live \in Contents /\ new.dirent \in 0 .. MaxSize
          /\ new.medium \in Contents \cup {Absent, Torn} /\ CopiesAgree(new)
          /\ new.file = Opened(fl, 0, yes) /\ new.heap = heap + 1
      BY <1>1, <1>8, <1>9, <1>14
    <3>2. heap + 1 <= HeapCap
      BY <1>5, <1>14, SizeAssumption
    <3> QED
      BY <2>2, <1>1, <2>1, <3>1, <3>2 DEF OpenWorks
  <2>4. ~Beyond(fl) => OpenKeeps(o, fl)
    <3>1. ~Beyond(fl) => (live = Absent => fl.creat) /\ ~(live # Absent /\ ~fl.trunc)
      BY <1>14 DEF Beyond, renewed, create
    <3>2. /\ o.s.live = none /\ o.s.dirent = Len(none) /\ o.s.file.pos = Len(none)
          /\ o.s.file.dirty
      BY <1>1, <1>8, <1>14, <2>2, <2>1
    <3> QED
      BY <1>1, <3>1, <3>2 DEF OpenKeeps
  <2> QED
    BY <2>3, <2>4 DEF Opens
<1>15. CASE heap # HeapCap /\ ~renewed /\ ~(live = Absent /\ ~create)
            /\ o = Outcome(old, "ok")
  <2>1. o.s = old /\ o.answer = "ok"
    BY <1>15 DEF Outcome
  <2>2. live # Absent /\ live \in Contents
    BY <1>2, <1>15 DEF renewed
  <2>3. at \in 0 .. MaxSize /\ at <= Len(live) /\ (fl.append => at = Len(live))
        /\ (fl.append \/ at = 0) /\ dirent = Len(live)
    BY <1>2, <2>2, NowIs, ContentsAre, SizeAssumption DEF at, CopiesAgree
  <2>4. o.s.file = Opened(fl, at, no) /\ o.s.file.pos = at /\ o.s.file.dirty = no
    BY <1>8, <1>15, <2>1, OpenedIs
  <2>5. OpenWorks(o, fl)
    BY <2>4, <1>1, <1>2, <1>5, <1>8, <1>9, <1>15, <2>1, <2>2, <2>3 DEF OpenWorks
  <2>6. ~Beyond(fl) => OpenKeeps(o, fl)
    BY <2>4, <1>1, <1>3, <1>8, <1>15, <2>1, <2>2, <2>3 DEF OpenKeeps, Beyond, renewed, create
  <2> QED
    BY <2>5, <2>6 DEF Opens
<1> QED
  BY <1>4, <1>10, <1>11, <1>12, <1>13, <1>14, <1>15

LEMMA LfsOpenIs ==
    ASSUME FilesInv, file = NULL, ~Fat, NEW fl \in Usual, NEW o \in LfsOpen(Now, fl)
    PROVE  Opens(o, fl)
<1> DEFINE no == FALSE
           made == [Now EXCEPT !.live = <<>>, !.medium = <<>>]
           new == [made EXCEPT !.heap = @ + 1, !.file = Opened(fl, 0, no)]
           cells == IF fl.trunc THEN <<>> ELSE live
           old == [Now EXCEPT !.heap = @ + 1, !.live = cells,
                              !.file = Opened(fl, 0, fl.trunc)]
<1>1. no \in BOOLEAN /\ ~no
  OBVIOUS
<1>2. /\ Now \in States /\ CopiesAgree(Now) /\ heap \in 0 .. HeapCap
      /\ live \in Contents \cup {Absent} /\ medium \in Contents \cup {Absent, Torn}
      /\ dirent \in 0 .. MaxSize
  BY NowIs DEF FilesInv, TypeOK
<1>3. /\ fl.read \in BOOLEAN /\ fl.write \in BOOLEAN /\ fl.append \in BOOLEAN
      /\ fl.creat \in BOOLEAN /\ fl.trunc \in BOOLEAN /\ fl.excl \in BOOLEAN
  BY DEF Usual, Flags
<1>4. \/ o = Outcome(Now, "ENOMEM")
      \/ o = Outcome(Now, "EIO")
      \/ o = Outcome(Now, "ENOENT")
      \/ o = Outcome(Now, "EEXIST")
      \/ live = Absent /\ o = Outcome(made, "EIO")
      \/ heap # HeapCap /\ live = Absent /\ fl.creat /\ o = Outcome(new, "ok")
      \/ heap # HeapCap /\ live # Absent /\ ~fl.excl /\ o = Outcome(old, "ok")
  <2>1. old = [[Now EXCEPT !.heap = @ + 1] EXCEPT !.live = IF fl.trunc THEN <<>> ELSE @,
                                             !.file = Opened(fl, 0, fl.trunc)]
    BY NowIs DEF Now
  <2>2. o \in {Outcome(Now, "ENOMEM")} \cup
             (IF heap = HeapCap THEN {}
              ELSE {Outcome(Now, "EIO")} \cup
                   (IF live = Absent /\ ~fl.creat THEN {Outcome(Now, "ENOENT")}
                    ELSE IF live = Absent THEN {Outcome(made, "EIO"), Outcome(new, "ok")}
                    ELSE IF fl.excl THEN {Outcome(Now, "EEXIST")}
                    ELSE {Outcome(old, "ok")}))
    BY <2>1, NowIs DEF LfsOpen
  <2> HIDE DEF made, cells, new, old, no
  <2> QED
    BY <2>2
<1>5. heap # HeapCap => heap + 1 \in 0 .. HeapCap
  BY <1>2, SizeAssumption
<1>6. /\ made \in States /\ made.live = <<>> /\ made.dirent = dirent /\ made.medium = <<>>
      /\ made.file = NULL /\ made.heap = heap
  BY <1>2, NowIs, EmptyIs DEF States
<1> HIDE DEF made, cells, no
<1>7. /\ new.live = <<>> /\ new.dirent = dirent /\ new.medium = <<>>
      /\ new.file = Opened(fl, 0, no) /\ new.heap = heap + 1
  BY <1>6 DEF States
<1>8. /\ old.live = cells /\ old.dirent = dirent /\ old.medium = medium
      /\ old.file = Opened(fl, 0, fl.trunc) /\ old.heap = heap + 1
  BY <1>2, NowIs DEF States
<1> HIDE DEF new, old
<1>9. ASSUME live # Absent
      PROVE  cells \in Contents /\ medium \in Contents
  BY <1>2, <1>9, NowIs, EmptyIs, ValueAssumption DEF cells, CopiesAgree
<1>10. /\ live = Absent => CopiesAgree(made) /\ CopiesAgree(new)
       /\ live # Absent => CopiesAgree(old)
  <2>1. ASSUME live = Absent PROVE dirent = 0
    BY <1>2, <2>1, NowIs DEF CopiesAgree
  <2>2. Opened(fl, 0, no) # NULL /\ Opened(fl, 0, fl.trunc) # NULL
    <3>1. Opened(fl, 0, no) \in Handle /\ Opened(fl, 0, fl.trunc) \in Handle
      BY <1>1, <1>3, SizeAssumption DEF Opened, Handle
    <3> QED
      BY <3>1, ValueAssumption
  <2> QED
    BY <1>2, <1>6, <1>7, <1>8, <1>9, <2>1, <2>2, NowIs, EmptyIs, ValueAssumption
       DEF CopiesAgree
<1>11. CASE o = Outcome(Now, "ENOMEM") \/ o = Outcome(Now, "ENOENT")
            \/ o = Outcome(Now, "EEXIST")
  BY <1>2, <1>11, NowIs DEF Outcome, Opens, OpenFails, Promise!Refusals
<1>12. CASE o = Outcome(Now, "EIO")
  BY <1>2, <1>12, NowIs DEF Outcome, Opens, OpenFails, Errors
<1>13. CASE live = Absent /\ o = Outcome(made, "EIO")
  BY <1>6, <1>10, <1>13 DEF Outcome, Opens, OpenFails, Errors
<1>14. CASE heap # HeapCap /\ live = Absent /\ fl.creat /\ o = Outcome(new, "ok")
  <2>1. o.s = new /\ o.answer = "ok"
    BY <1>14 DEF Outcome
  <2>2. o.s.file = Opened(fl, 0, no) /\ o.s.file.pos = 0 /\ o.s.file.dirty = no
    BY <1>7, <1>14, <2>1, OpenedIs
  <2>3. OpenWorks(o, fl)
    BY <2>2, <1>1, <1>2, <1>5, <1>7, <1>10, <1>14, <2>1, EmptyIs, SizeAssumption DEF OpenWorks
  <2>4. OpenKeeps(o, fl)
    BY <2>2, <1>1, <1>2, <1>7, <1>14, <2>1, NowIs, EmptyIs DEF OpenKeeps, CopiesAgree
  <2> QED
    BY <2>3, <2>4 DEF Opens
<1>15. CASE heap # HeapCap /\ live # Absent /\ ~fl.excl /\ o = Outcome(old, "ok")
  <2>1. o.s = old /\ o.answer = "ok"
    BY <1>15 DEF Outcome
  <2>2. o.s.file = Opened(fl, 0, fl.trunc) /\ o.s.file.pos = 0 /\ o.s.file.dirty = fl.trunc
    BY <1>8, <1>15, <2>1, OpenedIs
  <2>3. OpenWorks(o, fl)
    BY <2>2, <1>2, <1>3, <1>5, <1>8, <1>9, <1>10, <1>15, <2>1, SizeAssumption DEF OpenWorks
  <2>4. Len(cells) \in Nat /\ live = medium /\ dirent = Len(live)
    BY <1>2, <1>9, <1>15, NowIs, ContentsAre, SizeAssumption DEF CopiesAgree
  <2>5. OpenKeeps(o, fl)
    BY <2>2, <1>3, <1>8, <1>15, <2>1, <2>4 DEF OpenKeeps, cells
  <2> QED
    BY <2>3, <2>5 DEF Opens
<1> QED
  BY <1>4, <1>11, <1>12, <1>13, <1>14, <1>15

LEMMA OpenStep ==
    ASSUME FilesInv, NEW fl \in Usual, Open(fl)
    PROVE  Meets
<1> DEFINE outcomes == IF Fat THEN FatOpen(Now, fl) ELSE LfsOpen(Now, fl)
           request == [Request("open") EXCEPT !.flags = fl]
<1>1. file = NULL /\ Take(request, outcomes, Beyond(fl)) /\ Beyond(fl) \in BOOLEAN
  BY DEF Open, Beyond
<1>2. PICK o \in outcomes : Taken(request, o, Beyond(fl))
  BY <1>1, TakenIs
<1>3. request.op = "open" /\ last'.op = "open" /\ last'.answer = o.answer /\ last'.flags = fl
  BY <1>2 DEF Request, Taken
<1>4. Opens(o, fl)
  BY <1>1, FatOpenIs, LfsOpenIs
<1> HIDE DEF outcomes, request
<1>5. CASE OpenFails(o)
  <2>1. /\ o.s \in States /\ o.s.file = NULL /\ CopiesAgree(o.s)
        /\ o.s.heap = IF FOpenFailed(request, o.answer) THEN heap + 1 ELSE heap
        /\ \/ o.answer \in Errors
           \/ o.answer \in Promise!Refusals /\ o.s.live = live /\ o.s.medium = medium
    BY <1>3, <1>5 DEF OpenFails, FOpenFailed
  <2> QED
    BY <1>1, <1>2, <1>3, <2>1, NoFileLeft
<1>6. CASE ~OpenFails(o)
  <2> DEFINE p == o.s.file.pos
             dirty == o.s.file.dirty
  <2>1. OpenWorks(o, fl) /\ (~Beyond(fl) => OpenKeeps(o, fl))
    BY <1>4, <1>6 DEF Opens
  <2>2. /\ o.answer = "ok" /\ o.s.file = Opened(fl, p, dirty) /\ CopiesAgree(o.s)
        /\ p \in 0 .. MaxSize /\ dirty \in BOOLEAN
        /\ o.s.live \in Contents /\ o.s.dirent \in 0 .. MaxSize
        /\ o.s.medium \in Contents \cup {Absent, Torn}
        /\ o.s.heap = heap + 1 /\ heap + 1 <= HeapCap
        /\ (Fat /\ fl.append) \/ p = 0
    BY <2>1 DEF OpenWorks
  <2> DEFINE h == Opened(fl, p, dirty)
  <2>3. /\ h \in Handle /\ h.pos = p /\ h.dirty = dirty /\ ~h.err /\ ~h.cut
        /\ h.read = fl.read /\ h.write = fl.write /\ h.append = fl.append
        /\ h.failed = FALSE /\ h.changed = FALSE
    BY <2>2 DEF Opened, Handle, Usual, Flags
  <2> HIDE DEF h, p, dirty
  <2>4. h # NULL
    BY <2>3, ValueAssumption
  <2>5. /\ live' = o.s.live /\ dirent' = o.s.dirent /\ medium' = o.s.medium
        /\ heap' = heap + 1 /\ kind' = kind /\ leaks' = leaks
        /\ file' = [h EXCEPT !.failed = @ \/ o.answer \in Errors,
                             !.changed = @ \/ live' # live]
        /\ outside' = ((medium' # Absent \/ live' # Absent) /\ (outside \/ Beyond(fl)))
    BY <1>2, <2>2, <2>4 DEF Taken, FOpenFailed, h, p, dirty
  <2>6. /\ file' \in Handle /\ file'.pos = p /\ file'.dirty = dirty /\ ~file'.err /\ ~file'.cut
        /\ file'.read = fl.read /\ file'.write = fl.write /\ file'.append = fl.append
        /\ file'.failed = FALSE /\ file'.changed = (live' # live)
    <3>1. o.answer \notin Errors
      BY <2>2 DEF Errors
    <3>2. /\ file' \in Handle /\ file'.pos = p /\ file'.dirty = dirty
          /\ ~file'.err /\ ~file'.cut
          /\ file'.read = fl.read /\ file'.write = fl.write /\ file'.append = fl.append
          /\ (file'.failed <=> FALSE) /\ (file'.changed <=> live' # live)
      BY <2>3, <2>5, <3>1 DEF Handle
    <3>3. file'.failed \in BOOLEAN /\ file'.changed \in BOOLEAN
      BY <3>2 DEF Handle
    <3> QED
      BY <3>2, <3>3
  <2>7. file' # NULL /\ live' # Absent
    BY <2>2, <2>5, <2>6, ValueAssumption
  <2>8. TypeOK'
    <3>1. heap + 1 \in 0 .. HeapCap
      BY <2>2, SizeAssumption DEF FilesInv, TypeOK
    <3> QED
      BY <2>2, <2>5, <2>6, <3>1 DEF FilesInv, TypeOK
  <2>9. CopiesAgree(Now)'
    BY <2>2, <2>4, <2>5, <2>7 DEF CopiesAgree, Now, Fat, h, p, dirty
  <2>10. ContextsAccounted'
    <3>1. heap = leaks /\ leaks \in Int
      BY <1>1 DEF FilesInv, ContextsAccounted, TypeOK
    <3> QED
      BY <2>5, <2>7, <3>1 DEF FilesInv, ContextsAccounted, Fat
  <2>11. FatWriteStays'
    BY <1>3 DEF FatWriteStays
  <2>12. FirmInv'
    BY <2>8, <2>9, <2>10 DEF FirmInv
  <2>13. CASE outside'
    BY <2>11, <2>12, <2>13, KnowsNext DEF Meets, Promise!Next
  <2>14. CASE ~outside'
    <3>1. ~outside /\ ~Beyond(fl) /\ outside' = outside
      BY <1>1, <2>5, <2>7, <2>8, <2>14 DEF FilesInv, TypeOK
    <3>2. /\ p <= Len(live')
          /\ IF live # Absent /\ ~fl.trunc THEN live' = live /\ medium' = medium
             ELSE live' = <<>> /\ (live = Absent => fl.creat)
          /\ dirent' = Len(live') \/ (~Fat /\ dirty)
          /\ Fat /\ fl.append => p = Len(live')
          /\ Fat /\ ~dirty => live' = live
          /\ ~Fat /\ ~dirty => live' = medium'
      BY <2>1, <2>5, <3>1 DEF OpenKeeps, p, dirty
    <3>3. HandleKnows(Now)'
      BY <2>2, <2>5, <2>6, <2>7, <3>2 DEF HandleKnows, Now, Fat
    <3>4. Shown(file') = [pos |-> Shown(file').pos, failed |-> FALSE, changed |-> live' # live,
                          read |-> fl.read, write |-> fl.write, append |-> fl.append]
          /\ Shown(file').pos = p /\ Shown(file').append = fl.append
      BY <2>6 DEF Shown
    <3>5. fl.append \/ p = 0
      BY <2>2
    <3>6. UNCHANGED medium => UNCHANGED (IF medium = Torn THEN Contents \cup {Absent}
                                         ELSE {medium})
      OBVIOUS
    <3>7. Promise!Open
      BY <1>1, <1>3, <2>2, <2>7, <3>2, <3>4, <3>5, <3>6 DEF Promise!Open, Promise!Answers
    <3> QED
      BY <2>11, <2>12, <3>1, <3>3, <3>7, KnowsNext DEF Meets, Promise!Next
  <2> QED
    BY <2>13, <2>14
<1> QED
  BY <1>5, <1>6

------------------------------------------------------------------------------
(* The theorems *)

LEMMA FilesInit ==
    ASSUME Init
    PROVE  FilesInv /\ Promise!Init
<1>1. last.op = "boot" /\ last.answer = "ok"
  BY DEF Init, Request
<1>2. 0 \in 0 .. MaxSize /\ 0 \in 0 .. HeapCap
  BY SizeAssumption
<1>3. TypeOK
  BY <1>2 DEF Init, TypeOK
<1>4. Now.live = Absent /\ Now.dirent = 0 /\ Now.medium = Absent /\ Now.file = NULL
  BY DEF Init, Now
<1>5. CopiesAgree(Now) /\ HandleKnows(Now)
  BY <1>4, ValueAssumption DEF CopiesAgree, HandleKnows
<1>6. ContextsAccounted /\ FatWriteStays
  BY <1>1 DEF Init, ContextsAccounted, FatWriteStays
<1>7. FilesInv
  BY <1>3, <1>5, <1>6 DEF FilesInv
<1>8. Promise!Init
  BY <1>1, ValueAssumption DEF Init, Promise!Init
<1> QED
  BY <1>7, <1>8

LEMMA FilesNext ==
    ASSUME FilesInv, [Next]_vars
    PROVE  FilesInv' /\ [Promise!Next]_(Promise!vars)
<1>1. CASE Next
  <2>1. Meets
    BY <1>1, OpenStep, WriteStep, LseekStep, FtruncateStep, ReadStep, FstatStep, StatStep,
       CloseStep, UnlinkStep, PowerLossStep DEF Next
  <2> QED
    BY <2>1 DEF Meets
<1>2. CASE UNCHANGED vars
  <2>1. FilesInv'
    BY <1>2 DEF vars, FilesInv, TypeOK, CopiesAgree, HandleKnows, ContextsAccounted,
                FatWriteStays, Now, Fat
  <2>2. UNCHANGED Promise!vars
    BY <1>2 DEF vars, Promise!vars
  <2> QED
    BY <2>1, <2>2
<1> QED
  BY <1>1, <1>2

\* FilesInv: the file, its directory entry and the medium stand to each other as
\* CopiesAgree says after any sequence of calls, failures and power losses, and an
\* open handle on which no call failed knows what of them is behind.
THEOREM FilesHold == Spec => []FilesInv
<1>1. Init => FilesInv
  BY FilesInit
<1>2. FilesInv /\ [Next]_vars => FilesInv'
  BY FilesNext
<1> QED
  BY <1>1, <1>2, PTL DEF Spec

\* FatWriteStays: what write() has answered 0 to on FAT is on the medium then,
\* whatever failed before: f_write() never returns without its f_sync().
THEOREM WritesStay == Spec => []FatWriteStays
<1>1. FilesInv => FatWriteStays
  BY DEF FilesInv
<1> QED
  BY <1>1, FilesHold, PTL

\* ContextsAccounted: one context for the open file, none lost by littlefs, and on FAT
\* exactly one lost by each f_open() that failed.
THEOREM ContextsCounted == Spec => []ContextsAccounted
<1>1. FilesInv => ContextsAccounted
  BY DEF FilesInv
<1> QED
  BY <1>1, FilesHold, PTL

\* PromiseKept: VfsFiles implements PosixFile, on FAT and on littlefs.
THEOREM ImplementsPosixFile == Spec => PromiseKept
<1>1. Init => Promise!Init
  BY FilesInit
<1>2. FilesInv /\ [Next]_vars => [Promise!Next]_(Promise!vars)
  BY FilesNext
<1> QED
  BY <1>1, <1>2, FilesHold, PTL DEF Spec, PromiseKept, Promise!Spec
===============================================================================
