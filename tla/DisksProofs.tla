------------------------------ MODULE DisksProofs ------------------------------
(***************************************************************************)
(* Proofs about Disks: for any cores, partitions, sizes and blocks.        *)
(***************************************************************************)
EXTENDS Disks, FiniteSetTheorems, SequenceTheorems, TLAPS

------------------------------------------------------------------------------
(* Cells and stretches of them *)

LEMMA CellsAre ==
    ASSUME NEW d \in Devices
    PROVE  Size(d) \in Nat /\ Cells[d] = 0 .. Size(d) - 1
<1>1. Cells[d] = 0 .. Size(d) - 1
  BY DEF Cells
<1>2. CASE d \in Partitions
  <2>1. PartLength[d] \in Nat /\ PartStart[d] \in Nat /\ FlashSize \in Nat
    BY <1>2, PartAssumption
  <2>2. Size(d) \in Int
    BY <1>2, <2>1 DEF Size
  <2> QED
    BY <1>1, <1>2, <2>2, ApartAssumption
<1>3. CASE d \notin Partitions
  BY <1>1, <1>3, SizeAssumption DEF Size
<1> QED
  BY <1>2, <1>3

\* A number of units of k cells that lies within the quotient lies within the cells.
LEMMA WholeUnits ==
    ASSUME NEW size \in Nat, NEW k \in Nat \ {0}, NEW n \in 0 .. size \div k
    PROVE  n * k \in 0 .. size
<1> DEFINE q == size \div k
<1>1. q \in Nat /\ size = k * q + (size % k) /\ size % k \in 0 .. k - 1
  OBVIOUS
<1>2. k * q <= size
  BY <1>1
<1> HIDE DEF q
<1>3. n \in Nat /\ n <= q
  BY <1>1 DEF q
<1>4. n * k <= q * k
  BY <1>1, <1>3
<1>5. n * k \in Nat
  BY <1>3
<1> QED
  BY <1>1, <1>2, <1>4, <1>5

LEMMA SectorsAre ==
    ASSUME NEW d \in Devices, NEW s \in Nat, NEW n \in Nat \ {0}, s + n <= SectorCount(d)
    PROVE  \E a, b \in Cells[d] : a <= b /\ Sectors(d, s, n) = a .. b
<1> DEFINE k == SectorSize(d)
           a == s * k
           b == (s + n) * k - 1
<1>1. k \in Nat \ {0} /\ Size(d) \in Nat /\ SectorCount(d) = Size(d) \div k
  BY CellsAre, SizeAssumption DEF SectorSize, SectorCount
<1> HIDE DEF k
<1>2. s + n \in 0 .. Size(d) \div k
  BY <1>1
<1>3. (s + n) * k \in 0 .. Size(d)
  BY <1>1, <1>2, WholeUnits
<1>4. a \in Nat /\ (s + n) * k = a + n * k /\ n * k >= k
  BY <1>1
<1>5. a <= b /\ a >= 0 /\ b <= Size(d) - 1 /\ b \in Int
  BY <1>1, <1>3, <1>4
<1>6. Sectors(d, s, n) = a .. b
  BY DEF Sectors, k
<1> HIDE DEF a, b
<1>7. a \in Cells[d] /\ b \in Cells[d]
  BY <1>1, <1>4, <1>5, CellsAre
<1> QED
  BY <1>5, <1>6, <1>7

LEMMA BlockIs ==
    ASSUME NEW d \in Devices, NEW n \in 0 .. BlockCount(d) - 1
    PROVE  \E a, b \in Cells[d] : a <= b /\ Block(d, n) = a .. b
<1> DEFINE k == BlockCells[d]
           a == n * k
           b == (n + 1) * k - 1
<1>1. k \in Nat \ {0} /\ Size(d) \in Nat /\ BlockCount(d) = Size(d) \div k
  BY CellsAre, SizeAssumption DEF BlockCount
<1> HIDE DEF k
<1>2. n + 1 \in 0 .. Size(d) \div k /\ n \in Nat
  BY <1>1
<1>3. (n + 1) * k \in 0 .. Size(d)
  BY <1>1, <1>2, WholeUnits
<1>4. a \in Nat /\ (n + 1) * k = a + k
  BY <1>1, <1>2
<1>5. a <= b /\ a >= 0 /\ b <= Size(d) - 1 /\ b \in Int
  BY <1>1, <1>3, <1>4
<1>6. Block(d, n) = a .. b
  BY DEF Block, k
<1> HIDE DEF a, b
<1>7. a \in Cells[d] /\ b \in Cells[d]
  BY <1>1, <1>4, <1>5, CellsAre
<1> QED
  BY <1>5, <1>6, <1>7

LEMMA FirstIs ==
    ASSUME NEW a \in Int, NEW b \in Int, a <= b
    PROVE  First(a .. b) = a
<1>1. \A i \in a .. b : (\A j \in a .. b : i <= j) <=> i = a
  OBVIOUS
<1> QED
  BY <1>1 DEF First

------------------------------------------------------------------------------
(* What the devices hold *)

\* What cell i of device d holds.
Cell(fl, rm, im, d, i) == IF d \in Partitions THEN fl[PartStart[d] + i]
                          ELSE IF d = Heap THEN rm[i]
                          ELSE IF i < Len(im) THEN im[i + 1] ELSE 0

\* What is known of all cells.
Known(kn, fl, rm, im) == [d \in Devices |-> [i \in Cells[d] |->
                             IF i \in kn[d] THEN Cell(fl, rm, im, d, i) ELSE NULL]]

LEMMA HoldsIs ==
    ASSUME NEW d \in Devices, NEW i
    PROVE  /\ Holds(Media, d, i) = Cell(flash, ram, image, d, i)
           /\ Holds(Media, d, i)' = Cell(flash', ram', image', d, i)
<1>1. d \in Partitions \/ (d \notin Partitions /\ d = Heap /\ d # Loop)
      \/ (d \notin Partitions /\ d # Heap /\ d = Loop)
  BY DeviceAssumption DEF Devices
<1>2. CASE d \in Partitions
  BY <1>2, DeviceAssumption DEF Holds, Media, Cell
<1>3. CASE d \notin Partitions /\ d = Heap /\ d # Loop
  BY <1>3 DEF Holds, Media, Cell
<1>4. CASE d \notin Partitions /\ d # Heap /\ d = Loop
  BY <1>4 DEF Holds, Media, Cell, LoopCell
<1> QED
  BY <1>1, <1>2, <1>3, <1>4

LEMMA ContentIs ==
    Content = Known(known, flash, ram, image) /\ Content' = Known(known', flash', ram', image')
BY HoldsIs DEF Content, Known

LEMMA TargetIs ==
    ASSUME NEW d \in Partitions, NEW e \in Partitions, NEW i \in Cells[d], NEW S,
           S \subseteq Cells[e]
    PROVE  /\ PartStart[d] + i \in Flash
           /\ PartStart[d] + i \in Target(e, S) <=> d = e /\ i \in S
<1>1. /\ d \in Devices /\ e \in Devices /\ PartStart[d] \in Nat /\ PartStart[e] \in Nat
      /\ FlashSize \in Nat
  BY PartAssumption DEF Devices
<1>2. /\ Size(d) \in Nat /\ i \in 0 .. Size(d) - 1
      /\ Size(e) \in Nat /\ \A j \in S : j \in 0 .. Size(e) - 1
  BY <1>1, CellsAre
<1>3. PartStart[d] + i \in Flash
  BY <1>1, <1>2, ApartAssumption DEF Flash
<1>4. ASSUME NEW j \in S, PartStart[d] + i = PartStart[e] + j
      PROVE  d = e /\ i = j
  <2>1. d # e => \/ PartStart[d] + Size(d) <= PartStart[e]
                 \/ PartStart[e] + Size(e) <= PartStart[d]
    BY ApartAssumption
  <2>2. d = e
    BY <1>1, <1>2, <1>4, <2>1
  <2> QED
    BY <1>1, <1>2, <1>4, <2>2
<1> QED
  BY <1>3, <1>4 DEF Target

LEMMA StoreIs ==
    ASSUME NEW S, NEW x \in Bit, NEW D, NEW cells \in [D -> Bit]
    PROVE  /\ Store(cells, S, x) \in [D -> Bit]
           /\ \A i \in D : Store(cells, S, x)[i] = IF i \in S THEN x ELSE cells[i]
BY DEF Store

LEMMA ExtendedIs ==
    ASSUME NEW f \in Seq(Bit), NEW n \in Int, NEW fill \in Bit
    PROVE  /\ Extended(f, n, fill) \in Seq(Bit)
           /\ Len(Extended(f, n, fill)) = IF n > Len(f) THEN n ELSE Len(f)
           /\ \A i \in 1 .. Len(f) : Extended(f, n, fill)[i] = f[i]
<1> DEFINE m == IF n > Len(f) THEN n ELSE Len(f)
           r == [i \in 1 .. m |-> IF i <= Len(f) THEN f[i] ELSE fill]
<1>1. Len(f) \in Nat /\ \A i \in 1 .. Len(f) : f[i] \in Bit
  BY LenProperties, ElementOfSeq
<1>2. m \in Nat /\ Len(f) <= m
  BY <1>1
<1> HIDE DEF m
<1>3. r \in [1 .. m -> Bit] /\ \A i \in 1 .. Len(f) : r[i] = f[i]
  BY <1>1, <1>2
<1>4. r = Extended(f, n, fill)
  BY DEF Extended, m
<1> HIDE DEF r
<1>5. r \in Seq(Bit)
  BY <1>2, <1>3, SeqDef
<1>6. Len(r) = m
  BY <1>2, <1>3, <1>5, LenProperties
<1> QED
  BY <1>3, <1>4, <1>5, <1>6 DEF m

LEMMA LoopSeekIs ==
    ASSUME TypeOK, host = "fat" => saved = image, NEW to \in Nat
    PROVE  LET k == LoopSeek(Media, to)
           IN  /\ k.flash = flash /\ k.ram = ram
               /\ k.image \in Seq(Bit) /\ Len(k.image) <= HostRoom
               /\ k.saved \in Seq(Bit) /\ Len(k.saved) <= HostRoom
               /\ Len(image) <= Len(k.image)
               /\ \A i \in 1 .. Len(image) : k.image[i] = image[i]
               /\ host = "fat" => k.saved = k.image
               /\ host # "fat" => k.image = image /\ k.saved = saved
               /\ k.fildes = fildes
               /\ k = [flash |-> flash, ram |-> ram, image |-> k.image, saved |-> k.saved,
                       fildes |-> fildes]
<1> DEFINE n == Lower(to, HostRoom)
           longer == Extended(image, n, Junk)
           k == LoopSeek(Media, to)
<1>1. image \in Seq(Bit) /\ Len(image) \in Nat /\ Len(image) <= HostRoom /\ HostRoom \in Nat
      /\ saved \in Seq(Bit) /\ Len(saved) <= HostRoom
  BY LenProperties, SizeAssumption DEF TypeOK
<1>2. n \in Int /\ n <= HostRoom /\ Junk \in Bit
  BY <1>1 DEF Lower, Junk, Bit
<1> HIDE DEF n
<1>3. /\ longer \in Seq(Bit) /\ Len(longer) <= HostRoom /\ Len(image) <= Len(longer)
      /\ \A i \in 1 .. Len(image) : longer[i] = image[i]
  BY <1>1, <1>2, ExtendedIs
<1>4. k = IF host = "fat"
            THEN [flash |-> flash, ram |-> ram, image |-> longer, saved |-> longer,
                  fildes |-> fildes]
            ELSE [flash |-> flash, ram |-> ram, image |-> image, saved |-> saved,
                  fildes |-> fildes]
  <2>1. k = IF host = "fat" THEN [Media EXCEPT !.image = longer, !.saved = longer] ELSE Media
    <3>1. Media.image = image
      BY DEF Media
    <3> QED
      BY <3>1 DEF LoopSeek, n
  <2> HIDE DEF k, longer
  <2>2. CASE host = "fat"
    <3> DEFINE half == [flash |-> flash, ram |-> ram, image |-> longer, saved |-> saved,
                        fildes |-> fildes]
    <3>1. k = [[Media EXCEPT !.image = longer] EXCEPT !.saved = longer]
      BY <2>1, <2>2
    <3>2. [Media EXCEPT !.image = longer] = half
      BY DEF Media
    <3>3. [half EXCEPT !.saved = longer]
            = [flash |-> flash, ram |-> ram, image |-> longer, saved |-> longer,
               fildes |-> fildes]
      OBVIOUS
    <3> QED
      BY <2>2, <3>1, <3>2, <3>3
  <2>3. CASE host # "fat"
    BY <2>1, <2>3 DEF Media
  <2> QED
    BY <2>2, <2>3
<1> HIDE DEF k, longer
<1>5. CASE host = "fat"
  BY <1>3, <1>4, <1>5 DEF k
<1>6. CASE host # "fat"
  BY <1>1, <1>4, <1>6 DEF k
<1> QED
  BY <1>5, <1>6

\* A file after x has been put into its cells a .. f.
Put(file, a, f, x) ==
    LET long == Extended(file, f + 1, 0)
    IN  [i \in DOMAIN long |-> IF i - 1 \in a .. f THEN x ELSE long[i]]

LEMMA PutIs ==
    ASSUME NEW file \in Seq(Bit), Len(file) <= HostRoom, NEW a \in Nat, NEW f \in Nat,
           a <= f, f < HostRoom, NEW x \in Bit
    PROVE  LET put == Put(file, a, f, x)
           IN  /\ put \in Seq(Bit) /\ Len(put) <= HostRoom /\ Len(file) <= Len(put)
               /\ f < Len(put)
               /\ \A i \in 1 .. Len(put) : i - 1 \in a .. f => put[i] = x
               /\ \A i \in 1 .. Len(file) : i - 1 \notin a .. f => put[i] = file[i]
<1> DEFINE long == Extended(file, f + 1, 0)
           put == [i \in DOMAIN long |-> IF i - 1 \in a .. f THEN x ELSE long[i]]
<1>1. Len(file) \in Nat /\ 0 \in Bit /\ HostRoom \in Nat
  BY LenProperties, SizeAssumption DEF Bit
<1>2. /\ long \in Seq(Bit) /\ Len(long) = IF f + 1 > Len(file) THEN f + 1 ELSE Len(file)
      /\ \A i \in 1 .. Len(file) : long[i] = file[i]
  BY <1>1, ExtendedIs
<1> HIDE DEF long
<1>3. Len(long) \in Nat /\ DOMAIN long = 1 .. Len(long)
      /\ \A i \in 1 .. Len(long) : long[i] \in Bit
  BY <1>2, LenProperties, ElementOfSeq
<1>4. /\ Len(long) <= HostRoom /\ Len(file) <= Len(long) /\ f + 1 <= Len(long)
  BY <1>1, <1>2
<1>5. put \in [1 .. Len(long) -> Bit]
  BY <1>3
<1>6. \A i \in 1 .. Len(long) : put[i] = IF i - 1 \in a .. f THEN x ELSE long[i]
  BY <1>3
<1> HIDE DEF put
<1>7. put \in Seq(Bit)
  BY <1>3, <1>5, SeqDef
<1>8. Len(put) = Len(long)
  BY <1>3, <1>5, <1>7, LenProperties
<1>9. \A i \in 1 .. Len(file) : i \in 1 .. Len(long)
  BY <1>1, <1>3, <1>4
<1> QED
  BY <1>2, <1>3, <1>4, <1>6, <1>7, <1>8, <1>9 DEF put, long, Put

LEMMA LoopProgramIs ==
    ASSUME TypeOK, host = "fat" => saved = image, NEW a \in Nat, NEW b \in Nat, a <= b,
           NEW x \in Bit, NEW o \in LoopProgram(Media, a .. b, x)
    PROVE  /\ o.m.flash = flash /\ o.m.ram = ram
           /\ o.m.image \in Seq(Bit) /\ Len(o.m.image) <= HostRoom
           /\ o.m.saved \in Seq(Bit) /\ Len(o.m.saved) <= HostRoom
           /\ Len(image) <= Len(o.m.image)
           /\ \A i \in 1 .. Len(image) : i - 1 \notin a .. b => o.m.image[i] = image[i]
           /\ host = "fat" => o.m.saved = o.m.image
           /\ o.ok /\ o.whole =>
                /\ b < Len(o.m.image)
                /\ \A i \in 1 .. Len(o.m.image) : i - 1 \in a .. b => o.m.image[i] = x
           /\ o.ok \in BOOLEAN /\ o.whole \in BOOLEAN
           /\ \/ o.m.fildes = fildes
              \/ o.m.fildes = "open" /\ fildes # "stale"
              \/ o.m.fildes = "errored" /\ fildes # "stale" /\ ~o.ok
<1> DEFINE S == a .. b
           m == Media
           k == LoopSeek(m, a)
           fits == {i \in S : i < HostRoom}
           f == IF b < HostRoom THEN b ELSE HostRoom - 1
           long == Extended(k.image, a + Cardinality(fits), 0)
           put == [i \in DOMAIN long |-> IF i - 1 \in fits THEN x ELSE long[i]]
           new == [k EXCEPT !.image = put, !.saved = IF host = "fat" THEN put ELSE @,
                            !.fildes = "open"]
           marked(n) == [n EXCEPT !.fildes = IF host = "fat" THEN @ ELSE "errored"]
           bad == marked(k)
           worse == marked(new)
           yes == TRUE
           no == FALSE
<1>1. IF fildes = "stale" THEN o = Outcome(m, no)
      ELSE o \in {Outcome(m, no), Outcome(bad, no)} \cup
                (IF fits = S THEN {Outcome(new, yes), Outcome(worse, no)}
                 ELSE IF host = "littlefs" THEN {}
                 ELSE {[Outcome(IF fits = {} THEN k ELSE new, yes) EXCEPT !.whole = no]})
  <2>1. First(S) = a /\ m.fildes = fildes
    BY FirstIs DEF Media
  <2> QED
    BY <2>1 DEF LoopProgram
<1>2. /\ k.flash = flash /\ k.ram = ram
      /\ k.image \in Seq(Bit) /\ Len(k.image) <= HostRoom
      /\ k.saved \in Seq(Bit) /\ Len(k.saved) <= HostRoom
      /\ Len(image) <= Len(k.image)
      /\ \A i \in 1 .. Len(image) : k.image[i] = image[i]
      /\ host = "fat" => k.saved = k.image
      /\ k.fildes = fildes
      /\ k = [flash |-> flash, ram |-> ram, image |-> k.image, saved |-> k.saved,
              fildes |-> fildes]
  BY LoopSeekIs
<1>3. /\ m.flash = flash /\ m.ram = ram /\ m.image = image /\ m.saved = saved
      /\ m.fildes = fildes
      /\ image \in Seq(Bit) /\ Len(image) <= HostRoom
      /\ saved \in Seq(Bit) /\ Len(saved) <= HostRoom
      /\ Len(image) \in Nat /\ Len(k.image) \in Nat /\ HostRoom \in Nat
      /\ yes \in BOOLEAN /\ no \in BOOLEAN /\ yes /\ ~no
  BY <1>2, LenProperties, SizeAssumption DEF Media, TypeOK
<1> HIDE DEF m, k, yes, no
<1>4. ASSUME fits # {}
      PROVE  /\ new.fildes = "open"
             /\ new = [flash |-> flash, ram |-> ram, image |-> new.image,
                       saved |-> new.saved, fildes |-> new.fildes]
             /\ new.flash = flash /\ new.ram = ram /\ new.image \in Seq(Bit)
             /\ Len(new.image) <= HostRoom /\ new.saved \in Seq(Bit)
             /\ Len(new.saved) <= HostRoom /\ Len(image) <= Len(new.image)
             /\ \A i \in 1 .. Len(image) : i - 1 \notin S => new.image[i] = image[i]
             /\ host = "fat" => new.saved = new.image
             /\ fits = S =>
                  /\ b < Len(new.image)
                  /\ \A i \in 1 .. Len(new.image) : i - 1 \in S => new.image[i] = x
  <2>1. f \in Nat /\ a <= f /\ f < HostRoom /\ f <= b /\ fits = a .. f
    BY <1>3, <1>4
  <2> HIDE DEF f, fits
  <2>2. a + Cardinality(fits) = f + 1
    BY <2>1, FS_Interval
  <2>3. long = Extended(k.image, f + 1, 0)
    BY <2>2
  <2>4. put = Put(k.image, a, f, x)
    BY <2>1, <2>3 DEF Put
  <2> HIDE DEF put, long
  <2>5. /\ put \in Seq(Bit) /\ Len(put) <= HostRoom /\ Len(k.image) <= Len(put)
        /\ f < Len(put)
        /\ \A i \in 1 .. Len(put) : i - 1 \in a .. f => put[i] = x
        /\ \A i \in 1 .. Len(k.image) : i - 1 \notin a .. f => put[i] = k.image[i]
    <3>1. PICK file \in Seq(Bit) : file = k.image
      BY <1>2
    <3>2. Len(file) <= HostRoom /\ f \in Nat /\ a <= f /\ f < HostRoom
      BY <1>2, <2>1, <3>1
    <3> DEFINE p == Put(file, a, f, x)
    <3>3. f < Len(p)
      BY <3>2, PutIs
    <3>4. \A i \in 1 .. Len(p) : i - 1 \in a .. f => p[i] = x
      BY <3>2, PutIs
    <3>5. \A i \in 1 .. Len(file) : i - 1 \notin a .. f => p[i] = file[i]
      BY <3>2, PutIs
    <3>6. p \in Seq(Bit) /\ Len(p) <= HostRoom /\ Len(file) <= Len(p)
      BY <3>2, PutIs
    <3>7. put = p
      BY <2>4, <3>1
    <3> QED
      BY <3>1, <3>3, <3>7, <3>4, <3>5, <3>6
  <2>6. /\ new.flash = k.flash /\ new.ram = k.ram /\ new.image = put
        /\ new.saved = IF host = "fat" THEN put ELSE k.saved
        /\ new.fildes = "open"
        /\ new = [flash |-> flash, ram |-> ram, image |-> new.image,
                  saved |-> new.saved, fildes |-> new.fildes]
    <3> DEFINE sv == IF host = "fat" THEN put ELSE k.saved
               fd == "open"
               half == [flash |-> flash, ram |-> ram, image |-> put, saved |-> k.saved,
                        fildes |-> fildes]
               most == [flash |-> flash, ram |-> ram, image |-> put, saved |-> sv,
                        fildes |-> fildes]
    <3>1. new = [[[k EXCEPT !.image = put] EXCEPT !.saved = sv] EXCEPT !.fildes = fd]
      BY <1>2
    <3>2. [k EXCEPT !.image = put] = half
      BY <1>2
    <3> HIDE DEF sv, fd
    <3>3. [half EXCEPT !.saved = sv] = most
      OBVIOUS
    <3>5. [most EXCEPT !.fildes = fd] =
            [flash |-> flash, ram |-> ram, image |-> put, saved |-> sv, fildes |-> fd]
      OBVIOUS
    <3> HIDE DEF half, most
    <3>4. new = [flash |-> flash, ram |-> ram, image |-> put, saved |-> sv, fildes |-> fd]
      BY <3>1, <3>2, <3>3, <3>5
    <3> HIDE DEF new
    <3> QED
      BY <1>2, <3>4 DEF sv, fd
  <2> HIDE DEF new
  <2>7. Len(put) \in Nat
    BY <2>5, LenProperties
  <2>8. \A i \in 1 .. Len(image) : i - 1 \notin S => put[i] = image[i]
    BY <1>2, <1>3, <2>1, <2>5, <2>7
  <2>9. fits = S => f = b
    BY <1>3, <2>1
  <2> QED
    BY <1>2, <1>3, <2>1, <2>5, <2>6, <2>7, <2>8, <2>9
<1> HIDE DEF new
<1>5. \A n, ok : /\ Outcome(n, ok).m = n /\ Outcome(n, ok).ok = ok /\ Outcome(n, ok).whole = ok
                 /\ [Outcome(n, ok) EXCEPT !.whole = no] = [m |-> n, ok |-> ok, whole |-> no]
  BY DEF Outcome
<1>6. CASE o = Outcome(m, no)
  BY <1>3, <1>5, <1>6
<1> DEFINE mark == IF host = "fat" THEN fildes ELSE "errored"
<1>7. CASE fildes # "stale" /\ o = Outcome(bad, no)
  <2>1. bad = [flash |-> flash, ram |-> ram, image |-> k.image, saved |-> k.saved,
               fildes |-> mark]
    BY <1>2
  <2> HIDE DEF bad
  <2>2. o.m = bad /\ o.ok = no /\ o.whole = no
    BY <1>5, <1>7
  <2> QED
    BY <1>2, <1>3, <1>7, <2>1, <2>2
<1>8. fits = S => fits # {}
  <2>1. a \in S
    OBVIOUS
  <2> HIDE DEF fits, S
  <2> QED
    BY <2>1
<1>9. CASE fildes # "stale" /\ fits = S /\ o = Outcome(new, yes)
  <2>1. o.m = new /\ o.ok = yes /\ o.whole = yes
    BY <1>5, <1>9
  <2> QED
    BY <1>3, <1>4, <1>8, <1>9, <2>1
<1>11. CASE fildes # "stale" /\ fits = S /\ o = Outcome(worse, no)
  <2> DEFINE again == IF host = "fat" THEN new.fildes ELSE "errored"
  <2>1. worse = [flash |-> flash, ram |-> ram, image |-> new.image, saved |-> new.saved,
                 fildes |-> again]
    BY <1>4, <1>8, <1>11
  <2> HIDE DEF worse
  <2>2. o.m = worse /\ o.ok = no /\ o.whole = no
    BY <1>5, <1>11
  <2> QED
    BY <1>3, <1>4, <1>8, <1>11, <2>1, <2>2
<1>10. CASE fildes # "stale" /\ fits # S /\ o \in {[Outcome(IF fits = {} THEN k ELSE new, yes) EXCEPT !.whole = no]}
  <2> DEFINE n == IF fits = {} THEN k ELSE new
  <2>1. o = [Outcome(n, yes) EXCEPT !.whole = no]
    BY <1>10
  <2> HIDE DEF n
  <2>2. o = [m |-> n, ok |-> yes, whole |-> no]
    BY <1>5, <2>1
  <2>3. o.m = n /\ o.ok = yes /\ o.whole = no
    BY <2>2
  <2>4. CASE fits = {}
    BY <1>2, <1>3, <2>3, <2>4 DEF n
  <2>5. CASE fits # {}
    BY <1>3, <1>4, <1>10, <2>3, <2>5 DEF n
  <2> QED
    BY <2>4, <2>5
<1> HIDE DEF fits, bad, worse
<1> QED
  BY <1>1, <1>6, <1>7, <1>9, <1>10, <1>11

------------------------------------------------------------------------------
(* What a step of one core does to the media *)

\* The media change in the cells S of D at most, as far as anything is known of them.
Touches(D, S) ==
    /\ flash' \in [Flash -> Bit] /\ ram' \in [Cells[Heap] -> Bit] \cup {NULL}
    /\ image' \in Seq(Bit) /\ Len(image') <= HostRoom
    /\ saved' \in Seq(Bit) /\ Len(saved') <= HostRoom
    /\ \A d \in Devices : \A i \in known[d] :
          (d = D /\ i \in S) \/ Cell(flash', ram', image', d, i) = Cell(flash, ram, image, d, i)
    /\ \A d \in Partitions : \A i \in Cells[d] :
          (d = D /\ i \in S) \/ flash'[PartStart[d] + i] = flash[PartStart[d] + i]
    /\ ready[Heap] => ram' # NULL
    /\ Len(image) <= Len(image')
    /\ host = "fat" \/ ~ready[Loop] => saved' = image'
    /\ fildes' \in {"none", "open", "errored", "stale"}
    /\ fildes' # "none" <=> fildes # "none"
    /\ D = Loop \/ (image' = image /\ saved' = saved /\ fildes' = fildes)

LEMMA Untouched ==
    ASSUME DisksInv, NEW D, NEW S, flash' = flash, ram' = ram, image' = image, saved' = saved,
           fildes' = fildes
    PROVE  Touches(D, S)
<1>1. Len(image) \in Nat
  BY LenProperties DEF DisksInv, TypeOK
<1> QED
  BY <1>1 DEF DisksInv, TypeOK, Touches

LEMMA FlashTouched ==
    ASSUME DisksInv, NEW D \in Partitions, NEW S, S \subseteq Cells[D], NEW x \in Bit,
           flash' = Store(flash, Target(D, S), x), ram' = ram, image' = image, saved' = saved,
           fildes' = fildes
    PROVE  Touches(D, S) /\ \A i \in S : flash'[PartStart[D] + i] = x
<1>1. /\ flash' \in [Flash -> Bit]
      /\ \A i \in Flash : flash'[i] = IF i \in Target(D, S) THEN x ELSE flash[i]
  <2>1. flash \in [Flash -> Bit]
    BY DEF DisksInv, TypeOK
  <2>2. PICK f \in [Flash -> Bit] : f = flash
    BY <2>1
  <2>3. PICK T : T = Target(D, S)
    OBVIOUS
  <2>4. /\ Store(f, T, x) \in [Flash -> Bit]
        /\ \A i \in Flash : Store(f, T, x)[i] = IF i \in T THEN x ELSE f[i]
    BY DEF Store
  <2> QED
    BY <2>2, <2>3, <2>4
<1>2. \A d \in Partitions : \A i \in Cells[d] :
          /\ PartStart[d] + i \in Flash
          /\ PartStart[d] + i \in Target(D, S) <=> d = D /\ i \in S
  BY TargetIs
<1>3. \A d \in Partitions : \A i \in Cells[d] :
          (d = D /\ i \in S) \/ flash'[PartStart[d] + i] = flash[PartStart[d] + i]
  BY <1>1, <1>2
<1>4. \A i \in S : flash'[PartStart[D] + i] = x
  BY <1>1, <1>2
<1>5. \A d \in Devices : \A i \in known[d] :
          (d = D /\ i \in S) \/ Cell(flash', ram', image', d, i) = Cell(flash, ram, image, d, i)
  BY <1>3 DEF Cell, DisksInv, TypeOK
<1>6. Len(image) \in Nat
  BY LenProperties DEF DisksInv, TypeOK
<1> QED
  BY <1>1, <1>3, <1>4, <1>5, <1>6 DEF DisksInv, TypeOK, Touches

LEMMA HeapTouched ==
    ASSUME DisksInv, ready[Heap], NEW S, S \subseteq Cells[Heap], NEW x \in Bit,
           ram' = Store(ram, S, x), flash' = flash, image' = image, saved' = saved,
           fildes' = fildes
    PROVE  Touches(Heap, S) /\ \A i \in S : ram'[i] = x
<1>1. ram \in [Cells[Heap] -> Bit] /\ Heap \notin Partitions /\ Heap \in Devices
  BY DeviceAssumption DEF DisksInv, TypeOK, Devices
<1>2. /\ ram' \in [Cells[Heap] -> Bit]
      /\ \A i \in Cells[Heap] : ram'[i] = IF i \in S THEN x ELSE ram[i]
  BY <1>1, StoreIs
<1>3. ram' # NULL
  BY <1>2, NullAssumption
<1>4. known[Heap] \subseteq Cells[Heap]
  BY <1>1 DEF DisksInv, TypeOK
<1>5. \A d \in Devices : \A i \in known[d] :
          (d = Heap /\ i \in S) \/ Cell(flash', ram', image', d, i) = Cell(flash, ram, image, d, i)
  BY <1>1, <1>2, <1>4 DEF Cell
<1>6. Len(image) \in Nat
  BY LenProperties DEF DisksInv, TypeOK
<1> QED
  BY <1>1, <1>2, <1>3, <1>5, <1>6 DEF DisksInv, TypeOK, Touches

LEMMA LoopTouched ==
    ASSUME DisksInv, ready[Loop], NEW S, flash' = flash, ram' = ram,
           image' \in Seq(Bit), Len(image') <= HostRoom,
           saved' \in Seq(Bit), Len(saved') <= HostRoom, Len(image) <= Len(image'),
           \A i \in 1 .. Len(image) : i - 1 \notin S => image'[i] = image[i],
           host = "fat" => saved' = image',
           fildes' \in {fildes, "open", "errored"}
    PROVE  Touches(Loop, S)
<1>1. Len(image) \in Nat /\ Len(image') \in Nat /\ Loop \notin Partitions /\ Loop # Heap
      /\ Loop \in Devices
  BY LenProperties, DeviceAssumption DEF DisksInv, TypeOK, Devices
<1>2. ASSUME NEW i \in known[Loop], i \notin S
      PROVE  i < Len(image) /\ i < Len(image') /\ image'[i + 1] = image[i + 1]
  <2>1. i \in Nat
    <3>1. i \in Cells[Loop]
      BY <1>1 DEF DisksInv, TypeOK
    <3> QED
      BY <1>1, <3>1, CellsAre
  <2>2. i < Len(image)
    BY <1>2 DEF DisksInv
  <2>3. i + 1 \in 1 .. Len(image) /\ (i + 1) - 1 = i
    BY <1>1, <2>1, <2>2
  <2> QED
    BY <1>1, <1>2, <2>1, <2>2, <2>3
<1>3. \A d \in Devices : \A i \in known[d] :
          (d = Loop /\ i \in S) \/ Cell(flash', ram', image', d, i) = Cell(flash, ram, image, d, i)
  <2> SUFFICES ASSUME NEW d \in Devices, NEW i \in known[d], ~(d = Loop /\ i \in S)
               PROVE  Cell(flash', ram', image', d, i) = Cell(flash, ram, image, d, i)
    OBVIOUS
  <2>1. CASE d = Loop
    <3>1. i < Len(image) /\ i < Len(image') /\ image'[i + 1] = image[i + 1]
      BY <1>2, <2>1
    <3> QED
      BY <1>1, <2>1, <3>1 DEF Cell
  <2>2. CASE d # Loop
    BY <2>2 DEF Cell, Devices
  <2> QED
    BY <2>1, <2>2
<1>4. fildes' \in {"none", "open", "errored", "stale"} /\ (fildes' # "none" <=> fildes # "none")
  BY DEF DisksInv, TypeOK
<1> QED
  BY <1>1, <1>3, <1>4 DEF DisksInv, TypeOK, Touches

\* device->erase() changes the cells it is called for, and the flash only.
LEMMA EraseIs ==
    ASSUME DisksInv, NEW D \in Devices, ready[D], NEW S, S \subseteq Cells[D],
           NEW o \in Erase(Media, D, S), TakeMedia(o.m)
    PROVE  /\ Touches(D, S) /\ image' = image /\ saved' = saved /\ fildes' = fildes
           /\ o.ok /\ D \in Partitions => \A i \in S : flash'[PartStart[D] + i] = Erased
<1> DEFINE m == Media
           yes == TRUE
           no == FALSE
<1>1. /\ m.flash = flash /\ m.ram = ram /\ m.image = image /\ m.saved = saved
      /\ m.fildes = fildes
      /\ m = [flash |-> flash, ram |-> ram, image |-> image, saved |-> saved,
              fildes |-> fildes]
      /\ yes \in BOOLEAN /\ no \in BOOLEAN /\ yes /\ ~no
  BY DEF Media
<1> HIDE DEF m, yes, no
<1>2. \A n, ok : Outcome(n, ok).m = n /\ Outcome(n, ok).ok = ok
  BY DEF Outcome
<1>3. flash' = o.m.flash /\ ram' = o.m.ram /\ image' = o.m.image /\ saved' = o.m.saved
      /\ fildes' = o.m.fildes
  BY DEF TakeMedia
<1>4. Erased \in Bit
  BY DEF Erased, Bit
<1>5. ASSUME o.m = m
      PROVE  Touches(D, S) /\ image' = image /\ saved' = saved /\ fildes' = fildes
  BY <1>1, <1>3, <1>5, Untouched
<1>6. CASE D \in Partitions
  <2> DEFINE z == Store(flash, Target(D, S), Erased)
             n == [m EXCEPT !.flash = z]
  <2>1. o \in {Outcome(n, yes), Outcome(n, no), Outcome(m, no)}
    <3>1. m.flash = flash
      BY <1>1
    <3> QED
      BY <1>6, <3>1, DeviceAssumption DEF Erase, FlashErase, FlashUpdate, m, yes, no
  <2>2. n.flash = z /\ n.ram = ram /\ n.image = image /\ n.saved = saved
        /\ n.fildes = fildes
    BY <1>1
  <2> HIDE DEF n
  <2>3. CASE o \in {Outcome(n, yes), Outcome(n, no)}
    <3>1. o.m = n
      BY <1>2, <2>3
    <3>2. flash' = z /\ ram' = ram /\ image' = image /\ saved' = saved
        /\ fildes' = fildes
      BY <1>3, <2>2, <3>1
    <3> QED
      BY <1>4, <1>6, <3>2, FlashTouched
  <2>4. CASE o = Outcome(m, no)
    BY <1>1, <1>2, <1>5, <2>4
  <2> QED
    BY <2>1, <2>3, <2>4
<1>7. CASE D = Heap
  <2> DEFINE z == Store(ram, S, Erased)
             n == [m EXCEPT !.ram = z]
  <2>1. o = Outcome(n, yes)
    <3>1. m.ram = ram
      BY <1>1
    <3> QED
      BY <1>7, <3>1, DeviceAssumption DEF Erase, HeapErase, m, yes
  <2>2. n.flash = flash /\ n.ram = z /\ n.image = image /\ n.saved = saved
        /\ n.fildes = fildes
    BY <1>1
  <2> HIDE DEF n
  <2>3. flash' = flash /\ ram' = z /\ image' = image /\ saved' = saved
      /\ fildes' = fildes
    BY <1>2, <1>3, <2>1, <2>2
  <2> QED
    BY <1>4, <1>7, <2>3, HeapTouched, DeviceAssumption
<1>8. CASE D = Loop
  <2>1. o = Outcome(m, yes)
    BY <1>8, DeviceAssumption DEF Erase, m, yes
  <2> QED
    BY <1>2, <1>5, <1>8, <2>1, DeviceAssumption
<1> QED
  BY <1>6, <1>7, <1>8 DEF Devices

\* device->program() changes the cells it is called for; when it answers BD_ERROR_OK, and
\* has written all of them, they hold what it was called with.
LEMMA ProgramIs ==
    ASSUME DisksInv, NEW D \in Devices, ready[D], NEW a \in Cells[D], NEW b \in Cells[D],
           a <= b, a .. b \subseteq Cells[D], NEW x \in Bit,
           D \in Partitions => \A i \in a .. b : flash[PartStart[D] + i] = Erased,
           NEW o \in Program(Media, D, a .. b, x), TakeMedia(o.m)
    PROVE  /\ Touches(D, a .. b)
           /\ o.ok /\ o.whole =>
                \A i \in a .. b : /\ Cell(flash', ram', image', D, i) = x
                                  /\ D = Loop => i < Len(image')
           /\ fildes' = "errored" => fildes = "errored" \/ (D = Loop /\ ~o.ok)
<1> DEFINE S == a .. b
           m == Media
           yes == TRUE
           no == FALSE
<1>1. /\ m.flash = flash /\ m.ram = ram /\ m.image = image /\ m.saved = saved
      /\ m.fildes = fildes
      /\ m = [flash |-> flash, ram |-> ram, image |-> image, saved |-> saved,
              fildes |-> fildes]
      /\ yes \in BOOLEAN /\ no \in BOOLEAN /\ yes /\ ~no
  BY DEF Media
<1> HIDE DEF m, yes, no
<1>2. \A n, ok : Outcome(n, ok).m = n /\ Outcome(n, ok).ok = ok
  BY DEF Outcome
<1>3. flash' = o.m.flash /\ ram' = o.m.ram /\ image' = o.m.image /\ saved' = o.m.saved
      /\ fildes' = o.m.fildes
  BY DEF TakeMedia
<1>4. CASE D \in Partitions
  <2> DEFINE z == Store(flash, Target(D, S), 0)
             n == IF x = 0 THEN [m EXCEPT !.flash = z] ELSE m
  <2>1. o \in {Outcome(n, yes), Outcome(n, no), Outcome(m, no)}
    <3>1. m.flash = flash
      BY <1>1
    <3> QED
      BY <1>4, <3>1, DeviceAssumption DEF Program, FlashProgram, FlashUpdate, m, yes, no
  <2>2. D # Loop
    BY <1>4, DeviceAssumption
  <2>3. CASE o.m = m
    <3>1. flash' = flash /\ ram' = ram /\ image' = image /\ saved' = saved
        /\ fildes' = fildes
      BY <1>1, <1>3, <2>3
    <3>2. Touches(D, S)
      BY <3>1, Untouched
    <3> DEFINE nz == [m EXCEPT !.flash = z]
    <3>3. o.ok => x # 0 \/ nz = m
      <4> HIDE DEF nz
      <4>1. o.ok => m = n
        <5> HIDE DEF n
        <5>1. (o.m = n /\ o.ok = yes) \/ o.ok = no
          BY <1>2, <2>1
        <5> QED
          BY <1>1, <2>3, <5>1
      <4> QED
        BY <4>1 DEF nz
    <3>4. x # 0 => x = 1
      BY DEF Bit
    <3>5. nz.flash = z
      BY <1>1
    <3> HIDE DEF nz
    <3>6. o.ok /\ x = 0 => flash' = z
      BY <1>1, <3>1, <3>3, <3>5
    <3>7. x = 0 => z = Store(flash, Target(D, S), x)
      OBVIOUS
    <3> HIDE DEF z
    <3>8. ASSUME o.ok, x = 0
          PROVE  \A i \in S : flash'[PartStart[D] + i] = x
      <4>1. flash' = Store(flash, Target(D, S), x)
        BY <3>6, <3>7, <3>8
      <4> QED
        BY <1>4, <3>1, <4>1, FlashTouched
    <3>9. x = 1 => \A i \in S : flash'[PartStart[D] + i] = x
      BY <1>4, <3>1 DEF Erased
    <3>10. o.ok => \A i \in S : flash'[PartStart[D] + i] = x
      BY <3>4, <3>8, <3>9
    <3> QED
      BY <1>4, <2>2, <3>1, <3>2, <3>10 DEF Cell
  <2>4. CASE x = 0 /\ o.m = n
    <3>1. n.flash = z /\ n.ram = ram /\ n.image = image /\ n.saved = saved
        /\ n.fildes = fildes
      BY <1>1, <2>4
    <3> HIDE DEF n
    <3>2. flash' = z /\ ram' = ram /\ image' = image /\ saved' = saved
        /\ fildes' = fildes
      BY <1>3, <2>4, <3>1
    <3>3. z = Store(flash, Target(D, S), x)
      BY <2>4
    <3> HIDE DEF z
    <3>4. Touches(D, S) /\ \A i \in S : flash'[PartStart[D] + i] = x
      <4>1. flash' = Store(flash, Target(D, S), x)
        BY <3>2, <3>3
      <4> QED
        BY <1>4, <3>2, <4>1, FlashTouched
    <3> QED
      BY <1>4, <2>2, <3>2, <3>4 DEF Cell
  <2>5. o.m = m \/ (x = 0 /\ o.m = n)
    BY <1>2, <2>1
  <2> QED
    BY <2>3, <2>4, <2>5
<1>5. CASE D = Heap
  <2> DEFINE z == Store(ram, S, x)
             n == [m EXCEPT !.ram = z]
  <2>1. o = Outcome(n, yes)
    <3>1. m.ram = ram
      BY <1>1
    <3> QED
      BY <1>5, <3>1, DeviceAssumption DEF Program, HeapProgram, m, yes
  <2>2. n.flash = flash /\ n.ram = z /\ n.image = image /\ n.saved = saved
        /\ n.fildes = fildes
    BY <1>1
  <2> HIDE DEF n
  <2>3. flash' = flash /\ ram' = z /\ image' = image /\ saved' = saved
      /\ fildes' = fildes
    BY <1>2, <1>3, <2>1, <2>2
  <2>4. Touches(D, S) /\ \A i \in S : ram'[i] = x
    BY <1>5, <2>3, HeapTouched
  <2>5. D # Loop /\ D \notin Partitions
    BY <1>5, DeviceAssumption
  <2> QED
    BY <1>5, <2>3, <2>4, <2>5 DEF Cell
<1>6. CASE D = Loop
  <2>1. o \in LoopProgram(m, S, x)
    BY <1>6, DeviceAssumption DEF Program, m
  <2>2. a \in Nat /\ b \in Nat
    BY CellsAre
  <2>3. TypeOK /\ (host = "fat" => saved = image)
    BY DEF DisksInv
  <2>4. /\ o.m.flash = flash /\ o.m.ram = ram
        /\ o.m.image \in Seq(Bit) /\ Len(o.m.image) <= HostRoom
        /\ o.m.saved \in Seq(Bit) /\ Len(o.m.saved) <= HostRoom
        /\ Len(image) <= Len(o.m.image)
        /\ \A i \in 1 .. Len(image) : i - 1 \notin S => o.m.image[i] = image[i]
        /\ host = "fat" => o.m.saved = o.m.image
        /\ \/ o.m.fildes = fildes
           \/ o.m.fildes = "open"
           \/ o.m.fildes = "errored" /\ ~o.ok
        /\ o.ok /\ o.whole =>
              /\ b < Len(o.m.image)
              /\ \A i \in 1 .. Len(o.m.image) : i - 1 \in S => o.m.image[i] = x
    BY <2>1, <2>2, <2>3, LoopProgramIs DEF m
  <2>5. Touches(Loop, S)
    BY <1>3, <1>6, <2>4, LoopTouched
  <2>6. ASSUME o.ok, o.whole, NEW i \in S
        PROVE  i < Len(image') /\ image'[i + 1] = x
    <3>1. Len(image') \in Nat
      BY <1>3, <2>4, LenProperties
    <3>2. b < Len(image') /\ \A j \in 1 .. Len(image') : j - 1 \in S => image'[j] = x
      BY <1>3, <2>4, <2>6
    <3>3. i \in Nat /\ i <= b
      BY <2>2
    <3>4. i + 1 \in 1 .. Len(image') /\ (i + 1) - 1 = i
      BY <2>2, <3>1, <3>2, <3>3
    <3> QED
      BY <2>2, <3>1, <3>2, <3>3, <3>4
  <2>7. fildes' = "errored" => fildes = "errored" \/ ~o.ok
    BY <1>3, <2>4
  <2> QED
    BY <1>6, <2>5, <2>6, <2>7, DeviceAssumption DEF Cell
<1> QED
  BY <1>4, <1>5, <1>6 DEF Devices
------------------------------------------------------------------------------
(* The invariant over a step of one core *)

LEMMA IdleIs ==
    /\ Idle.at = "idle" /\ Idle.dev = NULL /\ Idle.cells = {} /\ Idle.x = 0
    /\ DOMAIN Idle.got = {}
    /\ Idle = [at |-> Idle.at, dev |-> Idle.dev, cells |-> Idle.cells, x |-> Idle.x,
               got |-> Idle.got]
<1> DEFINE none == <<>>
<1>1. DOMAIN none = {}
  OBVIOUS
<1>2. Idle = [at |-> "idle", dev |-> NULL, cells |-> {}, x |-> 0, got |-> none]
  BY DEF Idle
<1> HIDE DEF none
<1> QED
  BY <1>1, <1>2

LEMMA UsingIs ==
    ASSUME DisksInv
    PROVE  using \subseteq Devices
BY DEF DisksInv, TypeOK, Devices

\* What another core is at does not notice what happens on device D.
LEMMA OthersGoOn ==
    ASSUME DisksInv, NEW D, using' = using,
           \A d \in Devices : d # D =>
              /\ ready[d] => ready'[d]
              /\ known'[d] = known[d] /\ blank'[d] = blank[d]
              /\ \A i \in known[d] :
                    Cell(flash', ram', image', d, i) = Cell(flash, ram, image, d, i),
           \A d \in Partitions : d # D =>
              \A i \in Cells[d] : flash'[PartStart[d] + i] = flash[PartStart[d] + i],
           NEW e \in Cores, work'[e] = work[e], work[e].dev # D
    PROVE  work'[e] = Idle \/ AtWork(e)'
<1> SUFFICES ASSUME work[e] # Idle
             PROVE  AtWork(e)'
  OBVIOUS
<1>1. AtWork(e)
  BY DEF DisksInv
<1>2. PICK w : w = work[e]
  OBVIOUS
<1>3. PICK d \in Devices : d = w.dev
  BY <1>1, <1>2, UsingIs DEF AtWork
<1>4. /\ d # D
      /\ ready[d] => ready'[d]
      /\ known'[d] = known[d] /\ blank'[d] = blank[d]
  BY <1>2, <1>3
<1>5. /\ w = [at |-> w.at, dev |-> w.dev, cells |-> w.cells, x |-> w.x, got |-> w.got]
      /\ w.at \in {"erase", "program", "read"}
      /\ d \in using /\ ready[d] /\ w.x \in Bit /\ Stretch(w)
      /\ w.at # "read" => w.cells \cap known[d] = {} /\ w.cells \cap blank[d] = {}
      /\ w.at = "program" /\ d \in Partitions =>
            \A i \in w.cells : flash[PartStart[d] + i] = Erased
      /\ \A i \in DOMAIN w.got \cap known[d] : w.got[i] = Holds(Media, d, i)
  BY <1>1, <1>2, <1>3 DEF AtWork
<1>6. ASSUME NEW i \in DOMAIN w.got \cap known'[d]
      PROVE  w.got[i] = Cell(flash', ram', image', d, i)
  <2>1. i \in known[d] /\ w.got[i] = Holds(Media, d, i)
    BY <1>4, <1>5, <1>6
  <2>2. Cell(flash', ram', image', d, i) = Cell(flash, ram, image, d, i)
    BY <1>4, <2>1
  <2> QED
    BY <2>1, <2>2, HoldsIs
<1>7. w.cells \subseteq Cells[d]
  <2>1. PICK a \in Cells[d], b \in Cells[d] : w.cells = a .. b
    BY <1>3, <1>5 DEF Stretch
  <2> QED
    BY <2>1, CellsAre
<1>8. w.at = "program" /\ d \in Partitions =>
         \A i \in w.cells : flash'[PartStart[d] + i] = Erased
  BY <1>4, <1>5, <1>7
<1>9. \A i \in DOMAIN w.got \cap known'[d] : w.got[i] = Holds(Media, d, i)'
  BY <1>6, HoldsIs
<1>10. Stretch(w)'
  BY <1>5 DEF Stretch
<1> QED
  BY <1>2, <1>3, <1>4, <1>5, <1>8, <1>9, <1>10 DEF AtWork
\* A step of core c, which works on device D before it or after it.
LEMMA KeepsInv ==
    ASSUME DisksInv, NEW D \in Devices, NEW S, Touches(D, S), using' = using, host' = host,
           ready' = ready, ready[D],
           known' \in [Devices -> SUBSET Int], blank' \in [Devices -> SUBSET Int],
           \A d \in Devices : d # D => known'[d] = known[d] /\ blank'[d] = blank[d],
           known'[D] \subseteq Cells[D], blank'[D] \subseteq Cells[D],
           D \in Partitions => \A i \in blank'[D] : flash'[PartStart[D] + i] = Erased,
           D = Loop => \A i \in known'[D] : i < Len(image'),
           NEW c \in Cores, NEW nw, work' = [work EXCEPT ![c] = nw],
           \A e \in Cores : e # c => work[e].dev # D,
           nw = Idle \/ (AtWork(c)' /\ nw.dev = D)
    PROVE  DisksInv'
<1>1. /\ using \in {Partitions, {Heap}, {Loop}} /\ host \in {"fat", "littlefs"}
      /\ ready \in [Devices -> BOOLEAN]
      /\ \A d \in Devices : known[d] \subseteq Cells[d] /\ blank[d] \subseteq Cells[d]
      /\ DOMAIN work = Cores
      /\ \A d \in Partitions : \A i \in blank[d] : flash[PartStart[d] + i] = Erased
      /\ IF ready[Heap] THEN ram # NULL ELSE known[Heap] = {}
      /\ \A i \in known[Loop] : i < Len(image)
      /\ Len(image) \in Nat
      /\ \A e, f \in Cores : e # f /\ work[e] # Idle => work[e].dev # work[f].dev
      /\ \A e \in Cores : work[e] = Idle \/ AtWork(e)
  BY LenProperties DEF DisksInv, TypeOK
<1>2. DOMAIN work' = Cores /\ work'[c] = nw /\ \A e \in Cores : e # c => work'[e] = work[e]
  BY <1>1
<1>3. Heap \in Devices /\ Loop \in Devices /\ \A d \in Partitions : d \in Devices
  BY DEF Devices
<1>4. TypeOK'
  BY <1>1, <1>2 DEF TypeOK, Touches
<1>5. ASSUME NEW e \in Cores
      PROVE  work'[e] = Idle \/ AtWork(e)'
  <2>1. CASE e = c
    BY <1>2, <2>1
  <2>2. CASE e # c
    <3>1. \A d \in Devices : d # D =>
             /\ ready[d] => ready'[d]
             /\ known'[d] = known[d] /\ blank'[d] = blank[d]
             /\ \A i \in known[d] :
                   Cell(flash', ram', image', d, i) = Cell(flash, ram, image, d, i)
      BY DEF Touches
    <3>2. \A d \in Partitions : d # D =>
             \A i \in Cells[d] : flash'[PartStart[d] + i] = flash[PartStart[d] + i]
      BY DEF Touches
    <3> QED
      BY <1>2, <2>2, <3>1, <3>2, OthersGoOn
  <2> QED
    BY <2>1, <2>2
<1>6. ASSUME NEW e \in Cores, NEW f \in Cores, e # f, work'[e] # Idle
      PROVE  work'[e].dev # work'[f].dev
  <2>1. CASE e = c
    BY <1>2, <1>6, <2>1
  <2>2. CASE f = c
    <3>1. AtWork(e) /\ work[e].dev # D /\ work'[e] = work[e]
      BY <1>1, <1>2, <1>6, <2>2
    <3>2. work[e].dev \in Devices
      BY <3>1, UsingIs DEF AtWork
    <3> QED
      BY <1>2, <2>2, <3>1, <3>2, IdleIs, DeviceAssumption
  <2>3. CASE e # c /\ f # c
    BY <1>1, <1>2, <1>6, <2>3
  <2> QED
    BY <2>1, <2>2, <2>3
<1>7. ASSUME NEW d \in Partitions, NEW i \in blank'[d]
      PROVE  flash'[PartStart[d] + i] = Erased
  <2>1. CASE d = D
    BY <1>7, <2>1
  <2>2. CASE d # D
    <3>1. i \in blank[d] /\ i \in Cells[d]
      BY <1>1, <1>3, <1>7, <2>2
    <3> QED
      BY <1>1, <2>2, <3>1 DEF Touches
  <2> QED
    BY <2>1, <2>2
<1>8. IF ready'[Heap] THEN ram' # NULL ELSE known'[Heap] = {}
  BY <1>1, <1>3 DEF Touches
<1>9. ASSUME NEW i \in known'[Loop]
      PROVE  i < Len(image')
  <2>1. CASE D = Loop
    BY <1>9, <2>1
  <2>2. CASE D # Loop
    BY <1>1, <1>3, <1>9, <2>2 DEF Touches
  <2> QED
    BY <2>1, <2>2
<1>10. host' = "fat" \/ ~ready'[Loop] => saved' = image'
  BY DEF Touches
<1>11. ready'[Loop] <=> fildes' # "none"
  BY DEF DisksInv, Touches
<1> QED
  BY <1>4, <1>5, <1>6, <1>7, <1>8, <1>9, <1>10, <1>11 DEF DisksInv

------------------------------------------------------------------------------
(* What a step of one core does to what is known *)

LEMMA KeptIs ==
    ASSUME DisksInv, NEW D \in Devices, NEW S, Touches(D, S), host' = host
    PROVE  /\ Kept \ {D} \subseteq Kept'
           /\ (D # Loop \/ host = "fat" \/ (image' = image /\ saved' = saved)) => Kept' = Kept
BY DEF Kept, Touches

LEMMA ContentSame ==
    ASSUME DisksInv, NEW D \in Devices, NEW S, Touches(D, S), known' = known,
           S \cap known[D] = {}
    PROVE  Content' = Content
<1>1. ASSUME NEW d \in Devices, NEW i \in known[d]
      PROVE  Cell(flash', ram', image', d, i) = Cell(flash, ram, image, d, i)
  BY <1>1 DEF Touches
<1> QED
  BY <1>1, ContentIs DEF Known

\* The cells S of D are set to x, or to NULL when nothing is known of them any more.
LEMMA ContentSet ==
    ASSUME DisksInv, NEW D \in Devices, NEW S, Touches(D, S), NEW x,
           \A d \in Devices : d # D => known'[d] = known[d],
           \/ x = NULL /\ known'[D] = known[D] \ S
           \/ /\ known'[D] = known[D] \cup S
              /\ \A i \in S : Cell(flash', ram', image', D, i) = x
    PROVE  Content' = [d \in Devices |-> [i \in Cells[d] |->
                          IF d = D /\ i \in S THEN x ELSE Content[d][i]]]
<1>1. ASSUME NEW d \in Devices, NEW i \in Cells[d]
      PROVE  (IF i \in known'[d] THEN Cell(flash', ram', image', d, i) ELSE NULL)
               = IF d = D /\ i \in S THEN x
                 ELSE IF i \in known[d] THEN Cell(flash, ram, image, d, i) ELSE NULL
  <2>1. CASE d = D /\ i \in S
    BY <2>1
  <2>2. CASE ~(d = D /\ i \in S)
    <3>1. i \in known'[d] <=> i \in known[d]
      BY <2>2
    <3>2. i \in known[d] => Cell(flash', ram', image', d, i) = Cell(flash, ram, image, d, i)
      BY <2>2 DEF Touches
    <3> QED
      BY <2>2, <3>1, <3>2
  <2> QED
    BY <2>1, <2>2
<1>2. \A d \in Devices : \A i \in Cells[d] :
         Content[d][i] = IF i \in known[d] THEN Cell(flash, ram, image, d, i) ELSE NULL
  BY ContentIs DEF Known
<1>3. Content' = [d \in Devices |-> [i \in Cells[d] |->
                    IF i \in known'[d] THEN Cell(flash', ram', image', d, i) ELSE NULL]]
  BY ContentIs DEF Known
<1>4. \A d \in Devices : \A i \in Cells[d] :
         (IF i \in known'[d] THEN Cell(flash', ram', image', d, i) ELSE NULL)
           = IF d = D /\ i \in S THEN x ELSE Content[d][i]
  BY <1>1, <1>2
<1>5. [d \in Devices |-> [i \in Cells[d] |->
          IF i \in known'[d] THEN Cell(flash', ram', image', d, i) ELSE NULL]]
        = [d \in Devices |-> [i \in Cells[d] |->
             IF d = D /\ i \in S THEN x ELSE Content[d][i]]]
  BY <1>4
<1> QED
  BY <1>3, <1>5
------------------------------------------------------------------------------
(* The actions *)

\* A core starts work on cells of a device.
Entered(at, d, S, x) == [Idle EXCEPT !.at = at, !.dev = d, !.cells = S, !.x = x]

LEMMA Enters ==
    ASSUME NEW d \in Devices, NEW a \in Cells[d], NEW b \in Cells[d], a <= b, NEW at, NEW x,
           NEW nw, nw = Entered(at, d, a .. b, x)
    PROVE  /\ nw.at = at /\ nw.dev = d /\ nw.cells = a .. b /\ nw.x = x /\ DOMAIN nw.got = {}
           /\ nw = [at |-> nw.at, dev |-> nw.dev, cells |-> nw.cells, x |-> nw.x, got |-> nw.got]
           /\ Stretch(nw)
<1> DEFINE S == a .. b
           none == Idle.got
           n1 == [Idle EXCEPT !.at = at]
           n2 == [n1 EXCEPT !.dev = d]
           n3 == [n2 EXCEPT !.cells = S]
           n4 == [n3 EXCEPT !.x = x]
<1>1. nw = n4
  BY DEF Entered
<1> HIDE DEF S, none
<1>2. n1 = [at |-> at, dev |-> Idle.dev, cells |-> Idle.cells, x |-> Idle.x, got |-> none]
  BY IdleIs DEF none
<1> HIDE DEF n1
<1>3. n2 = [at |-> at, dev |-> d, cells |-> Idle.cells, x |-> Idle.x, got |-> none]
  BY <1>2
<1> HIDE DEF n2
<1>4. n3 = [at |-> at, dev |-> d, cells |-> S, x |-> Idle.x, got |-> none]
  BY <1>3
<1> HIDE DEF n3
<1>5. n4 = [at |-> at, dev |-> d, cells |-> S, x |-> x, got |-> none]
  BY <1>4
<1> HIDE DEF n4
<1>6. /\ nw.at = at /\ nw.dev = d /\ nw.cells = S /\ nw.x = x /\ nw.got = none
      /\ nw = [at |-> nw.at, dev |-> nw.dev, cells |-> nw.cells, x |-> nw.x, got |-> nw.got]
  BY <1>1, <1>5
<1>7. DOMAIN none = {}
  BY IdleIs DEF none
<1>8. a \in Int /\ a .. a - 1 = {}
  BY CellsAre
<1>9. Stretch(nw)
  <2>1. a <= a
    BY <1>8
  <2>2. nw.cells = a .. b /\ DOMAIN nw.got = a .. a - 1
    BY <1>6, <1>7, <1>8 DEF S
  <2> QED
    BY <1>6, <2>1, <2>2 DEF Stretch
<1> QED
  BY <1>6, <1>7, <1>9 DEF S

LEMMA BeginStep ==
    ASSUME DisksInv, NEW c \in Cores, NEW d \in Devices, NEW a \in Cells[d], NEW b \in Cells[d],
           a <= b, NEW at \in {"erase", "program"}, NEW x \in Bit,
           at = "program" /\ d \in Partitions =>
              \A i \in a .. b : flash[PartStart[d] + i] = Erased,
           Begin(c, d, a .. b, at, x)
    PROVE  DisksInv' /\ Promise!Next
<1> DEFINE S == a .. b
<1>1. PICK nw : nw = Entered(at, d, S, x)
  OBVIOUS
<1>2. /\ d \in using /\ ready[d] /\ \A e \in Cores : work[e].dev # d
      /\ work' = [work EXCEPT ![c] = nw]
      /\ known' = [known EXCEPT ![d] = @ \ S] /\ blank' = [blank EXCEPT ![d] = @ \ S]
      /\ last' = [op |-> "start", dev |-> d, cells |-> S, x |-> x, got |-> <<>>]
      /\ using' = using /\ host' = host /\ flash' = flash /\ ram' = ram /\ image' = image
      /\ saved' = saved /\ fildes' = fildes /\ ready' = ready
  BY <1>1 DEF Begin, MayEnter, Happened, Entered
<1>3. /\ nw.at = at /\ nw.dev = d /\ nw.cells = S /\ nw.x = x /\ DOMAIN nw.got = {}
      /\ nw = [at |-> nw.at, dev |-> nw.dev, cells |-> nw.cells, x |-> nw.x, got |-> nw.got]
      /\ Stretch(nw)
  BY <1>1, Enters
<1> HIDE DEF S
<1>4. /\ known \in [Devices -> SUBSET Int] /\ blank \in [Devices -> SUBSET Int]
      /\ \A e \in Devices : known[e] \subseteq Cells[e] /\ blank[e] \subseteq Cells[e]
      /\ \A e \in Partitions : \A i \in blank[e] : flash[PartStart[e] + i] = Erased
      /\ \A i \in known[Loop] : i < Len(image)
      /\ DOMAIN work = Cores
  BY DEF DisksInv, TypeOK
<1>5. /\ known' \in [Devices -> SUBSET Int] /\ blank' \in [Devices -> SUBSET Int]
      /\ known'[d] = known[d] \ S /\ blank'[d] = blank[d] \ S
      /\ \A e \in Devices : e # d => known'[e] = known[e] /\ blank'[e] = blank[e]
  BY <1>2, <1>4
<1>6. Touches(d, S)
  BY <1>2, Untouched
<1>7. work'[c] = nw
  BY <1>2, <1>4
<1>8. AtWork(c)'
  <2>1. Stretch(nw)'
    BY <1>3 DEF Stretch
  <2>2. /\ nw.cells \cap known'[d] = {} /\ nw.cells \cap blank'[d] = {}
    BY <1>3, <1>5
  <2>3. nw.at = "program" /\ d \in Partitions =>
           \A i \in nw.cells : flash'[PartStart[d] + i] = Erased
    BY <1>2, <1>3 DEF S
  <2>4. DOMAIN nw.got \cap known'[d] = {}
    BY <1>3
  <2>5. nw.at \in {"erase", "program", "read"}
    BY <1>3
  <2> QED
    BY <1>2, <1>3, <1>7, <2>1, <2>2, <2>3, <2>4, <2>5 DEF AtWork
<1>9. DisksInv'
  <2>1. known'[d] \subseteq Cells[d] /\ blank'[d] \subseteq Cells[d]
    BY <1>4, <1>5
  <2>2. d \in Partitions => \A i \in blank'[d] : flash'[PartStart[d] + i] = Erased
    BY <1>2, <1>4, <1>5
  <2>3. d = Loop => \A i \in known'[d] : i < Len(image')
    BY <1>2, <1>4, <1>5
  <2>4. \A e \in Cores : e # c => work[e].dev # d
    BY <1>2
  <2>5. nw = Idle \/ (AtWork(c)' /\ nw.dev = d)
    BY <1>3, <1>8
  <2> QED
    BY <1>2, <1>5, <1>6, <2>1, <2>2, <2>3, <2>4, <2>5, KeepsInv
<1>10. Promise!Next
  <2>1. Content' = [e \in Devices |-> [i \in Cells[e] |->
                      IF e = d /\ i \in S THEN NULL ELSE Content[e][i]]]
    BY <1>5, <1>6, ContentSet
  <2>2. last'.op = "start" /\ last'.dev = d /\ last'.cells = S
    BY <1>2
  <2>3. Kept \ {d} \subseteq Kept' /\ Spoilt' = Spoilt
    BY <1>2, <1>6, KeptIs DEF Spoilt
  <2> QED
    BY <2>1, <2>2, <2>3 DEF Promise!Next, Promise!Start, Promise!Set
<1> QED
  BY <1>9, <1>10
\* What core c is at, of the device D.
Working(c, D, w, a, k, b) ==
    /\ w = work[c] /\ D = w.dev /\ a <= k /\ k <= b
    /\ w.cells = a .. b /\ DOMAIN w.got = a .. k - 1 /\ a .. b \subseteq Cells[D]
    /\ D \in using /\ ready[D] /\ w.x \in Bit
    /\ w = [at |-> w.at, dev |-> D, cells |-> w.cells, x |-> w.x, got |-> w.got]
    /\ w.at # "read" => w.cells \cap known[D] = {} /\ w.cells \cap blank[D] = {}
    /\ w.at = "program" /\ D \in Partitions =>
          \A i \in w.cells : flash[PartStart[D] + i] = Erased
    /\ \A i \in DOMAIN w.got \cap known[D] : w.got[i] = Holds(Media, D, i)
    /\ \A e \in Cores : e # c => work[e].dev # D

LEMMA WorkingIs ==
    ASSUME DisksInv, NEW c \in Cores, work[c].at # "idle"
    PROVE  \E D \in Devices : \E w : \E a, k, b \in Cells[D] : Working(c, D, w, a, k, b)
<1>1. work[c] # Idle /\ AtWork(c)
  BY IdleIs DEF DisksInv
<1>2. PICK w : w = work[c]
  OBVIOUS
<1>3. PICK D \in Devices : D = w.dev
  BY <1>1, <1>2, UsingIs DEF AtWork
<1>4. PICK a \in Cells[D], k \in Cells[D], b \in Cells[D] :
         a <= k /\ k <= b /\ w.cells = a .. b /\ DOMAIN w.got = a .. k - 1
  BY <1>1, <1>2, <1>3 DEF AtWork, Stretch
<1>5. a .. b \subseteq Cells[D]
  BY <1>4, CellsAre
<1>6. \A e \in Cores : e # c => work[e].dev # D
  BY <1>1, <1>2, <1>3 DEF DisksInv
<1>7. Working(c, D, w, a, k, b)
  BY <1>1, <1>2, <1>3, <1>4, <1>5, <1>6 DEF AtWork, Working
<1> QED
  BY <1>7

LEMMA EraseStepHolds ==
    ASSUME DisksInv, NEW c \in Cores, EraseStep(c)
    PROVE  DisksInv' /\ (Promise!Next \/ UNCHANGED Promise!vars)
<1>1. work[c].at = "erase"
  BY DEF EraseStep
<1>2. PICK D \in Devices : \E w : \E a, k, b \in Cells[D] : Working(c, D, w, a, k, b)
  BY <1>1, WorkingIs
<1>3. PICK w : \E a, k, b \in Cells[D] : Working(c, D, w, a, k, b)
  BY <1>2
<1>4. PICK a \in Cells[D], k \in Cells[D], b \in Cells[D] : Working(c, D, w, a, k, b)
  BY <1>3
<1> DEFINE S == a .. b
           ow == [w EXCEPT !.at = "program"]
<1>5. /\ w = work[c] /\ D = w.dev /\ w.at = "erase" /\ w.cells = S /\ a <= k /\ k <= b
      /\ DOMAIN w.got = a .. k - 1 /\ S \subseteq Cells[D] /\ D \in using /\ ready[D]
      /\ w.x \in Bit /\ S \cap known[D] = {} /\ S \cap blank[D] = {}
      /\ w = [at |-> w.at, dev |-> D, cells |-> w.cells, x |-> w.x, got |-> w.got]
      /\ \A e \in Cores : e # c => work[e].dev # D
  BY <1>1, <1>4 DEF Working
<1>6. PICK o \in Erase(Media, D, S) :
         /\ TakeMedia(o.m)
         /\ IF o.ok /\ D \notin OnLittlefs
              THEN /\ work' = [work EXCEPT ![c].at = "program"]
                   /\ UNCHANGED <<last, blank>>
              ELSE /\ work' = [work EXCEPT ![c] = Idle]
                   /\ last' = [op |-> IF o.ok THEN "erased" ELSE "failed", dev |-> D,
                               cells |-> S, x |-> w.x, got |-> <<>>]
                   /\ blank' = [blank EXCEPT ![D] = IF o.ok THEN @ \cup S ELSE @]
  BY <1>5 DEF EraseStep, Return, Happened
<1> HIDE DEF S
<1>7. using' = using /\ host' = host /\ ready' = ready /\ known' = known
  BY DEF EraseStep
<1>8. /\ Touches(D, S) /\ image' = image /\ saved' = saved /\ fildes' = fildes
      /\ o.ok /\ D \in Partitions => \A i \in S : flash'[PartStart[D] + i] = Erased
  BY <1>5, <1>6, EraseIs
<1>9. /\ known \in [Devices -> SUBSET Int] /\ blank \in [Devices -> SUBSET Int]
      /\ \A e \in Devices : known[e] \subseteq Cells[e] /\ blank[e] \subseteq Cells[e]
      /\ \A e \in Partitions : \A i \in blank[e] : flash[PartStart[e] + i] = Erased
      /\ \A i \in known[Loop] : i < Len(image)
      /\ DOMAIN work = Cores
  BY DEF DisksInv, TypeOK
<1>10. Content' = Content
  BY <1>5, <1>7, <1>8, ContentSame
<1>11. Kept' = Kept /\ Spoilt' = Spoilt
  BY <1>7, <1>8, KeptIs DEF Spoilt
<1>12. D \in Partitions => \A i \in blank[D] : flash'[PartStart[D] + i] = Erased
  BY <1>5, <1>8, <1>9 DEF Touches
<1>13. D = Loop => \A i \in known'[D] : i < Len(image')
  BY <1>7, <1>8, <1>9
<1>14. CASE o.ok /\ D \notin OnLittlefs
  <2>1. work' = [work EXCEPT ![c] = ow] /\ blank' = blank /\ last' = last
    BY <1>5, <1>6, <1>14
  <2>2. /\ ow.at = "program" /\ ow.dev = D /\ ow.cells = S /\ ow.x = w.x /\ ow.got = w.got
        /\ ow = [at |-> ow.at, dev |-> ow.dev, cells |-> ow.cells, x |-> ow.x, got |-> ow.got]
    BY <1>5
  <2> HIDE DEF ow
  <2>3. PICK nw : nw = ow
    OBVIOUS
  <2>4. work'[c] = nw
    BY <1>9, <2>1, <2>3
  <2>5. Stretch(nw)'
    BY <1>5, <2>2, <2>3 DEF Stretch, S
  <2>6. DOMAIN nw.got \cap known'[D] = {}
    <3>1. a \in Int /\ k \in Int /\ b \in Int
      BY CellsAre
    <3>2. DOMAIN nw.got \subseteq S
      BY <1>5, <2>2, <2>3, <3>1 DEF S
    <3> QED
      BY <1>5, <1>7, <3>2
  <2>7. AtWork(c)'
    BY <1>5, <1>7, <1>8, <1>14, <2>1, <2>2, <2>3, <2>4, <2>5, <2>6 DEF AtWork
  <2>8. nw = Idle \/ (AtWork(c)' /\ nw.dev = D)
    BY <2>2, <2>3, <2>7
  <2>9. work' = [work EXCEPT ![c] = nw]
    BY <2>1, <2>3
  <2>10. known'[D] \subseteq Cells[D] /\ blank'[D] \subseteq Cells[D]
    BY <1>7, <1>9, <2>1
  <2>11. \A d \in Devices : d # D => known'[d] = known[d] /\ blank'[d] = blank[d]
    BY <1>7, <2>1
  <2>12. known' \in [Devices -> SUBSET Int] /\ blank' \in [Devices -> SUBSET Int]
    BY <1>7, <1>9, <2>1
  <2>13. D \in Partitions => \A i \in blank'[D] : flash'[PartStart[D] + i] = Erased
    BY <1>12, <2>1
  <2>14. DisksInv'
    <3>1. ready[D] /\ Touches(D, S) /\ \A e \in Cores : e # c => work[e].dev # D
      BY <1>5, <1>8
    <3> QED
      BY <1>7, <1>13, <2>8, <2>9, <2>10, <2>11, <2>12, <2>13, <3>1, KeepsInv
  <2> QED
    BY <1>10, <1>11, <2>1, <2>14 DEF Promise!vars
<1>15. CASE ~(o.ok /\ D \notin OnLittlefs)
  <2>1. /\ work' = [work EXCEPT ![c] = Idle]
        /\ last' = [op |-> IF o.ok THEN "erased" ELSE "failed", dev |-> D,
                    cells |-> S, x |-> w.x, got |-> <<>>]
        /\ blank' = [blank EXCEPT ![D] = IF o.ok THEN @ \cup S ELSE @]
    BY <1>6, <1>15
  <2>2. /\ blank' \in [Devices -> SUBSET Int] /\ blank'[D] \subseteq Cells[D]
        /\ \A d \in Devices : d # D => blank'[d] = blank[d]
        /\ blank'[D] = blank[D] \/ (o.ok /\ blank'[D] = blank[D] \cup S)
    <3>1. S \subseteq Int /\ \A d \in Devices : blank[d] \subseteq Int
      BY <1>9 DEF S
    <3>2. blank[D] \cup S \subseteq Int /\ blank[D] \cup S \subseteq Cells[D]
      BY <1>5, <1>9, <3>1
    <3> QED
      BY <1>9, <2>1, <3>2
  <2>3. D \in Partitions => \A i \in blank'[D] : flash'[PartStart[D] + i] = Erased
    BY <1>8, <1>12, <2>2
  <2>4. DisksInv'
    <3>1. known'[D] \subseteq Cells[D] /\ known' \in [Devices -> SUBSET Int]
          /\ \A d \in Devices : d # D => known'[d] = known[d] /\ blank'[d] = blank[d]
      BY <1>7, <1>9, <2>2
    <3>2. ready[D] /\ Touches(D, S) /\ \A e \in Cores : e # c => work[e].dev # D
      BY <1>5, <1>8
    <3>3. PICK nw : nw = Idle
      OBVIOUS
    <3>4. work' = [work EXCEPT ![c] = nw]
      BY <2>1, <3>3
    <3>5. blank' \in [Devices -> SUBSET Int] /\ blank'[D] \subseteq Cells[D]
      BY <2>2
    <3> QED
      BY <1>7, <1>13, <2>3, <3>1, <3>2, <3>3, <3>4, <3>5, KeepsInv
  <2>5. last'.op \in {"erased", "failed"} /\ last'.dev = D
    BY <2>1
  <2> QED
    BY <1>10, <1>11, <2>4, <2>5 DEF Promise!Next, Promise!Unknown, Promise!Failed
<1> QED
  BY <1>14, <1>15
LEMMA ProgramStepHolds ==
    ASSUME DisksInv, NEW c \in Cores, ProgramStep(c)
    PROVE  DisksInv' /\ (Promise!Next \/ UNCHANGED Promise!vars)
<1>1. work[c].at = "program"
  BY DEF ProgramStep
<1>2. PICK D \in Devices : \E w : \E a, k, b \in Cells[D] : Working(c, D, w, a, k, b)
  BY <1>1, WorkingIs
<1>3. PICK w : \E a, k, b \in Cells[D] : Working(c, D, w, a, k, b)
  BY <1>2
<1>4. PICK a \in Cells[D], k \in Cells[D], b \in Cells[D] : Working(c, D, w, a, k, b)
  BY <1>3
<1> DEFINE S == a .. b
<1>5. /\ w = work[c] /\ D = w.dev /\ w.at = "program" /\ w.cells = S /\ a <= k /\ k <= b
      /\ S \subseteq Cells[D] /\ ready[D] /\ w.x \in Bit /\ S \cap known[D] = {}
      /\ D \in Partitions => \A i \in S : flash[PartStart[D] + i] = Erased
      /\ \A e \in Cores : e # c => work[e].dev # D
  BY <1>1, <1>4 DEF Working
<1>6. PICK x \in Bit : x = w.x
  BY <1>5
<1>7. PICK o \in Program(Media, D, S, x) :
         /\ TakeMedia(o.m)
         /\ known' = [known EXCEPT ![D] = IF o.ok /\ o.whole THEN @ \cup S ELSE @]
         /\ last' = [op |-> IF ~o.ok THEN "failed" ELSE IF o.whole THEN "written" ELSE "short",
                     dev |-> D, cells |-> S, x |-> x, got |-> <<>>]
  BY <1>5, <1>6 DEF ProgramStep, Happened
<1>8. /\ using' = using /\ host' = host /\ ready' = ready /\ blank' = blank
      /\ work' = [work EXCEPT ![c] = Idle]
  BY DEF ProgramStep, Return
<1>9. a <= b
  BY <1>5, CellsAre
<1>10. /\ Touches(D, S)
       /\ o.ok /\ o.whole =>
            \A i \in S : /\ Cell(flash', ram', image', D, i) = x
                         /\ D = Loop => i < Len(image')
       /\ fildes' = "errored" => fildes = "errored" \/ (D = Loop /\ ~o.ok)
  BY <1>5, <1>7, <1>9, ProgramIs
<1> HIDE DEF S
<1>11. /\ known \in [Devices -> SUBSET Int] /\ blank \in [Devices -> SUBSET Int]
       /\ \A e \in Devices : known[e] \subseteq Cells[e] /\ blank[e] \subseteq Cells[e]
       /\ \A e \in Partitions : \A i \in blank[e] : flash[PartStart[e] + i] = Erased
       /\ \A i \in known[Loop] : i < Len(image)
       /\ Len(image) \in Nat /\ Len(image') \in Nat
  BY <1>10, LenProperties DEF DisksInv, TypeOK, Touches
<1>12. /\ \A d \in Devices : d # D => known'[d] = known[d]
       /\ known'[D] = known[D] \/ (o.ok /\ o.whole /\ known'[D] = known[D] \cup S)
       /\ known' \in [Devices -> SUBSET Int] /\ known'[D] \subseteq Cells[D]
  <2>1. S \subseteq Int /\ \A d \in Devices : known[d] \subseteq Int
    BY <1>11 DEF S
  <2>2. known[D] \cup S \subseteq Int /\ known[D] \cup S \subseteq Cells[D]
    BY <1>5, <1>11, <2>1
  <2> QED
    BY <1>7, <1>11, <2>2
<1>13. D = Loop => \A i \in known'[D] : i < Len(image')
  <2> SUFFICES ASSUME D = Loop, NEW i \in known'[D]
               PROVE  i < Len(image')
    OBVIOUS
  <2>1. CASE i \in known[D]
    <3>1. i \in Int /\ i < Len(image) /\ Len(image) <= Len(image')
      BY <1>10, <1>11, <2>1 DEF Touches
    <3> QED
      BY <1>11, <3>1
  <2>2. CASE i \notin known[D]
    BY <1>10, <1>12, <2>2
  <2> QED
    BY <2>1, <2>2
<1>14. D \in Partitions => \A i \in blank'[D] : flash'[PartStart[D] + i] = Erased
  <2> SUFFICES ASSUME D \in Partitions, NEW i \in blank[D]
               PROVE  flash'[PartStart[D] + i] = Erased
    BY <1>8
  <2>1. i \in Cells[D] /\ flash[PartStart[D] + i] = Erased
    BY <1>11
  <2>2. i \notin S
    BY <1>4, <1>5 DEF Working
  <2> QED
    BY <1>10, <2>1, <2>2 DEF Touches
<1>15. DisksInv'
  <2>1. blank'[D] \subseteq Cells[D] /\ blank' \in [Devices -> SUBSET Int]
        /\ \A d \in Devices : d # D => known'[d] = known[d] /\ blank'[d] = blank[d]
    BY <1>8, <1>11, <1>12
  <2>2. ready[D] /\ Touches(D, S) /\ \A e \in Cores : e # c => work[e].dev # D
    BY <1>5, <1>10
  <2>3. PICK nw : nw = Idle
    OBVIOUS
  <2>4. work' = [work EXCEPT ![c] = nw]
    BY <1>8, <2>3
  <2>5. known' \in [Devices -> SUBSET Int] /\ known'[D] \subseteq Cells[D]
    BY <1>12
  <2>6. using' = using /\ host' = host /\ ready' = ready
    BY <1>8
  <2> QED
    BY <1>13, <1>14, <2>1, <2>2, <2>3, <2>4, <2>5, <2>6, KeepsInv
<1>16. /\ Kept \ {D} \subseteq Kept'
       /\ Spoilt' \subseteq Spoilt \cup {D} /\ (o.ok => Spoilt' \subseteq Spoilt)
  <2>1. Kept \ {D} \subseteq Kept'
    BY <1>8, <1>10, KeptIs
  <2>2. /\ fildes' = "errored" => fildes = "errored" \/ D = Loop
        /\ o.ok => (fildes' = "errored" => fildes = "errored")
    BY <1>10
  <2> QED
    BY <2>1, <2>2 DEF Spoilt
<1>17. CASE o.ok /\ o.whole
  <2>1. known'[D] = known[D] \cup S
    BY <1>7, <1>11, <1>17
  <2>2. Content' = [d \in Devices |-> [i \in Cells[d] |->
                      IF d = D /\ i \in S THEN x ELSE Content[d][i]]]
    BY <1>10, <1>12, <1>17, <2>1, ContentSet
  <2>3. last'.op = "written" /\ last'.dev = D /\ last'.cells = S /\ last'.x = x
    BY <1>7, <1>17
  <2> QED
    BY <1>15, <1>16, <1>17, <2>2, <2>3 DEF Promise!Next, Promise!Written, Promise!Set
<1>18. CASE ~(o.ok /\ o.whole)
  <2>1. known' = known
    BY <1>7, <1>11, <1>18
  <2>2. Content' = Content
    BY <1>5, <1>10, <2>1, ContentSame
  <2>3. last'.dev = D /\ last'.op = IF o.ok THEN "short" ELSE "failed"
    BY <1>7, <1>18
  <2> QED
    BY <1>15, <1>16, <2>2, <2>3 DEF Promise!Next, Promise!Unknown, Promise!Failed
<1> QED
  BY <1>17, <1>18
LEMMA ReadsFrom ==
    ASSUME NEW d, NEW S
    PROVE  [Idle EXCEPT !.at = "read", !.dev = d, !.cells = S] = Entered("read", d, S, 0)
<1> DEFINE read == "read"
           zero == 0
           none == Idle.got
           n1 == [Idle EXCEPT !.at = read]
           n2 == [n1 EXCEPT !.dev = d]
           n3 == [n2 EXCEPT !.cells = S]
           n4 == [n3 EXCEPT !.x = zero]
<1>1. n3 = [Idle EXCEPT !.at = "read", !.dev = d, !.cells = S]
  OBVIOUS
<1>2. n4 = Entered("read", d, S, 0)
  BY DEF Entered
<1>3. Idle.x = zero
  BY IdleIs
<1> HIDE DEF read, zero, none
<1>4. n1 = [at |-> read, dev |-> Idle.dev, cells |-> Idle.cells, x |-> Idle.x, got |-> none]
  BY IdleIs DEF none
<1> HIDE DEF n1
<1>5. n2 = [at |-> read, dev |-> d, cells |-> Idle.cells, x |-> Idle.x, got |-> none]
  BY <1>4
<1> HIDE DEF n2
<1>6. n3 = [at |-> read, dev |-> d, cells |-> S, x |-> Idle.x, got |-> none]
  BY <1>5
<1> HIDE DEF n3
<1>7. n4 = [at |-> read, dev |-> d, cells |-> S, x |-> zero, got |-> none]
  BY <1>6
<1> HIDE DEF n4
<1>8. n3 = n4
  BY <1>3, <1>6, <1>7
<1> QED
  BY <1>1, <1>2, <1>8

LEMMA ReadCallHolds ==
    ASSUME DisksInv, NEW c \in Cores, NEW d \in Devices, NEW a \in Cells[d], NEW b \in Cells[d],
           a <= b, ReadCall(c, d, a .. b)
    PROVE  DisksInv' /\ UNCHANGED Promise!vars
<1> DEFINE S == a .. b
           read == "read"
           zero == 0
<1>1. PICK nw : nw = Entered(read, d, S, zero)
  OBVIOUS
<1>2. /\ d \in using /\ ready[d] /\ \A e \in Cores : work[e].dev # d
      /\ known' = known /\ blank' = blank /\ last' = last
      /\ using' = using /\ host' = host /\ flash' = flash /\ ram' = ram /\ image' = image
      /\ saved' = saved /\ fildes' = fildes /\ ready' = ready
  BY DEF ReadCall, MayEnter
<1>3. work' = [work EXCEPT ![c] = nw]
  BY <1>1, ReadsFrom DEF ReadCall
<1>4. zero \in Bit /\ read \in {"erase", "program", "read"} /\ read \notin {"erase", "program"}
  BY DEF Bit
<1> HIDE DEF read, zero
<1>5. /\ nw.at = read /\ nw.dev = d /\ nw.cells = S /\ nw.x = zero /\ DOMAIN nw.got = {}
      /\ nw = [at |-> nw.at, dev |-> nw.dev, cells |-> nw.cells, x |-> nw.x, got |-> nw.got]
      /\ Stretch(nw)
  BY <1>1, Enters
<1> HIDE DEF S
<1>6. /\ known \in [Devices -> SUBSET Int] /\ blank \in [Devices -> SUBSET Int]
      /\ \A e \in Devices : known[e] \subseteq Cells[e] /\ blank[e] \subseteq Cells[e]
      /\ \A e \in Partitions : \A i \in blank[e] : flash[PartStart[e] + i] = Erased
      /\ \A i \in known[Loop] : i < Len(image)
      /\ DOMAIN work = Cores
  BY DEF DisksInv, TypeOK
<1>7. Touches(d, S)
  BY <1>2, Untouched
<1>8. work'[c] = nw
  BY <1>3, <1>6
<1>9. AtWork(c)'
  <2>1. Stretch(nw)'
    BY <1>5 DEF Stretch
  <2>2. nw.at = "read"
    BY <1>5 DEF read
  <2>3. nw.at \in {"erase", "program", "read"} /\ nw.at # "program"
    BY <2>2
  <2> QED
    BY <1>2, <1>4, <1>5, <1>8, <2>1, <2>2, <2>3 DEF AtWork
<1>10. DisksInv'
  <2>1. known'[d] \subseteq Cells[d] /\ blank'[d] \subseteq Cells[d]
    BY <1>2, <1>6
  <2>2. d \in Partitions => \A i \in blank'[d] : flash'[PartStart[d] + i] = Erased
    BY <1>2, <1>6
  <2>3. d = Loop => \A i \in known'[d] : i < Len(image')
    BY <1>2, <1>6
  <2>4. \A e \in Cores : e # c => work[e].dev # d
    BY <1>2
  <2>5. nw = Idle \/ (AtWork(c)' /\ nw.dev = d)
    BY <1>5, <1>9
  <2>6. known' \in [Devices -> SUBSET Int] /\ blank' \in [Devices -> SUBSET Int]
        /\ \A e \in Devices : e # d => known'[e] = known[e] /\ blank'[e] = blank[e]
    BY <1>2, <1>6
  <2>7. using' = using /\ host' = host /\ ready' = ready /\ ready[d]
    BY <1>2
  <2> QED
    BY <1>3, <1>7, <2>1, <2>2, <2>3, <2>4, <2>5, <2>6, <2>7, KeepsInv
<1>11. Content' = Content /\ Kept' = Kept /\ Spoilt' = Spoilt
  BY <1>2, ContentIs DEF Kept, Spoilt
<1> QED
  BY <1>2, <1>10, <1>11 DEF Promise!vars

\* What a core that reads has copied is what is known of the cells.
LEMMA CopyHolds ==
    ASSUME DisksInv, NEW c \in Cores, Copy(c)
    PROVE  DisksInv' /\ (Promise!Next \/ UNCHANGED Promise!vars)
<1>1. work[c].at = "read"
  BY DEF Copy
<1>2. PICK D \in Devices : \E w : \E a, k, b \in Cells[D] : Working(c, D, w, a, k, b)
  BY <1>1, WorkingIs
<1>3. PICK w : \E a, k, b \in Cells[D] : Working(c, D, w, a, k, b)
  BY <1>2
<1>4. PICK a \in Cells[D], k \in Cells[D], b \in Cells[D] : Working(c, D, w, a, k, b)
  BY <1>3
<1> DEFINE S == a .. b
           G == a .. k
           m == IF D = Loop THEN LoopSeek(Media, a) ELSE Media
           got == [j \in G |-> IF j = k THEN Holds(m, D, k) ELSE w.got[j]]
           ow == [w EXCEPT !.got = got]
<1>5. /\ w = work[c] /\ D = w.dev /\ w.at = "read" /\ w.cells = S /\ a <= k /\ k <= b
      /\ DOMAIN w.got = a .. k - 1 /\ D \in using /\ ready[D] /\ w.x \in Bit
      /\ w = [at |-> w.at, dev |-> D, cells |-> w.cells, x |-> w.x, got |-> w.got]
      /\ \A i \in DOMAIN w.got \cap known[D] : w.got[i] = Holds(Media, D, i)
      /\ \A e \in Cores : e # c => work[e].dev # D
  BY <1>1, <1>4 DEF Working
<1>6. a \in Nat /\ k \in Nat /\ b \in Nat /\ a <= b /\ S \subseteq Cells[D]
  BY <1>5, CellsAre
<1>7. First(S \ DOMAIN w.got) = k /\ First(S) = a /\ DOMAIN w.got \cup {k} = G
  <2>1. S \ DOMAIN w.got = k .. b
    BY <1>5, <1>6
  <2>2. First(k .. b) = k /\ First(S) = a
    BY <1>5, <1>6, FirstIs
  <2>3. DOMAIN w.got \cup {k} = G
    BY <1>5, <1>6
  <2> QED
    BY <2>1, <2>2, <2>3
<1>8. /\ TakeMedia(m)
      /\ IF G = S
           THEN /\ work' = [work EXCEPT ![c] = Idle]
                /\ last' = [op |-> "read", dev |-> D, cells |-> S, x |-> 0, got |-> got]
           ELSE work' = [work EXCEPT ![c].got = got] /\ last' = last
      /\ using' = using /\ host' = host /\ ready' = ready /\ known' = known /\ blank' = blank
  <2> DEFINE v == work[c]
             i0 == First(v.cells \ DOMAIN v.got)
             m0 == IF v.dev = Loop THEN LoopSeek(Media, First(v.cells)) ELSE Media
             G0 == DOMAIN v.got \cup {i0}
             got0 == [j \in G0 |-> IF j = i0 THEN Holds(m0, v.dev, i0) ELSE v.got[j]]
  <2>1. /\ TakeMedia(m0)
        /\ IF DOMAIN got0 = v.cells
             THEN /\ work' = [work EXCEPT ![c] = Idle]
                  /\ last' = [op |-> "read", dev |-> v.dev, cells |-> v.cells, x |-> 0,
                              got |-> got0]
             ELSE work' = [work EXCEPT ![c].got = got0] /\ last' = last
        /\ using' = using /\ host' = host /\ ready' = ready /\ known' = known
        /\ blank' = blank
    BY DEF Copy, Return, Happened
  <2>2. v = w /\ i0 = k /\ m0 = m /\ G0 = G
    BY <1>5, <1>7
  <2> HIDE DEF v, i0, m0, G0, G, m
  <2>3. got0 = got
    BY <1>5, <2>2
  <2>4. DOMAIN got0 = G0
    OBVIOUS
  <2> HIDE DEF got0, got
  <2>5. (G = S) <=> (DOMAIN got0 = v.cells)
    BY <1>5, <2>2, <2>4
  <2>6. TakeMedia(m)
    BY <2>1, <2>2
  <2> QED
    BY <1>5, <2>1, <2>2, <2>3, <2>5, <2>6
<1> HIDE DEF S, G, m
<1>9. /\ known \in [Devices -> SUBSET Int] /\ blank \in [Devices -> SUBSET Int]
      /\ \A e \in Devices : known[e] \subseteq Cells[e] /\ blank[e] \subseteq Cells[e]
      /\ \A e \in Partitions : \A i \in blank[e] : flash[PartStart[e] + i] = Erased
      /\ \A i \in known[Loop] : i < Len(image)
      /\ DOMAIN work = Cores /\ host \in {"fat", "littlefs"} /\ TypeOK
      /\ host = "fat" => saved = image
  BY DEF DisksInv, TypeOK
<1>10. /\ flash' = m.flash /\ ram' = m.ram /\ image' = m.image /\ saved' = m.saved
       /\ fildes' = m.fildes
  BY <1>8 DEF TakeMedia
<1>11. /\ Touches(D, {}) /\ fildes' = fildes
       /\ D # Loop \/ host = "fat" \/ (image' = image /\ saved' = saved)
  <2>1. CASE D = Loop
    <3>1. m = LoopSeek(Media, a)
      BY <2>1 DEF m
    <3>2. /\ m.flash = flash /\ m.ram = ram
          /\ m.image \in Seq(Bit) /\ Len(m.image) <= HostRoom
          /\ m.saved \in Seq(Bit) /\ Len(m.saved) <= HostRoom
          /\ Len(image) <= Len(m.image)
          /\ \A i \in 1 .. Len(image) : m.image[i] = image[i]
          /\ host = "fat" => m.saved = m.image
          /\ host # "fat" => m.image = image /\ m.saved = saved
          /\ m.fildes = fildes
      BY <1>6, <1>9, <3>1, LoopSeekIs
    <3>3. PICK none : none = {}
      OBVIOUS
    <3>4. \A i \in 1 .. Len(image) : i - 1 \notin none => image'[i] = image[i]
      BY <1>10, <3>2
    <3>5. /\ flash' = flash /\ ram' = ram /\ image' \in Seq(Bit) /\ Len(image') <= HostRoom
          /\ saved' \in Seq(Bit) /\ Len(saved') <= HostRoom /\ Len(image) <= Len(image')
          /\ host = "fat" => saved' = image'
          /\ fildes' \in {fildes, "open", "errored"}
      BY <1>10, <3>2
    <3>6. Touches(Loop, none)
      BY <1>5, <2>1, <3>4, <3>5, LoopTouched
    <3> QED
      BY <1>10, <2>1, <3>2, <3>3, <3>6
  <2>2. CASE D # Loop
    <3>1. m = Media
      BY <2>2 DEF m
    <3>2. flash' = flash /\ ram' = ram /\ image' = image /\ saved' = saved
          /\ fildes' = fildes
      BY <1>10, <3>1 DEF Media
    <3> QED
      BY <2>2, <3>2, Untouched
  <2> QED
    BY <2>1, <2>2
<1>12. Content' = Content /\ Kept' = Kept /\ Spoilt' = Spoilt
  <2>1. PICK none : none = {}
    OBVIOUS
  <2>2. Touches(D, none) /\ none \cap known[D] = {}
    BY <1>11, <2>1
  <2> QED
    BY <1>8, <1>11, <2>2, ContentSame, KeptIs DEF Spoilt
<1>13. Holds(m, D, k) = Cell(flash', ram', image', D, k)
  <2>1. CASE D \in Partitions
    BY <1>10, <2>1, DeviceAssumption DEF Holds, Cell
  <2>2. CASE D = Heap
    BY <1>10, <2>2, DeviceAssumption DEF Holds, Cell
  <2>3. CASE D = Loop
    BY <1>10, <2>3, DeviceAssumption DEF Holds, Cell, LoopCell
  <2> QED
    BY <2>1, <2>2, <2>3 DEF Devices
<1>14. \A i \in G \cap known[D] : /\ got[i] = Cell(flash', ram', image', D, i)
                                  /\ got[i] = Cell(flash, ram, image, D, i)
  <2> SUFFICES ASSUME NEW i \in G, i \in known[D]
               PROVE  /\ got[i] = Cell(flash', ram', image', D, i)
                      /\ got[i] = Cell(flash, ram, image, D, i)
    OBVIOUS
  <2>1. Cell(flash', ram', image', D, i) = Cell(flash, ram, image, D, i)
    BY <1>11 DEF Touches
  <2>2. CASE i = k
    BY <1>13, <2>1, <2>2
  <2>3. CASE i # k
    <3>1. i \in DOMAIN w.got
      BY <1>7, <2>3
    <3>2. w.got[i] = Cell(flash, ram, image, D, i)
      BY <1>5, <3>1, HoldsIs
    <3> QED
      BY <2>1, <2>3, <3>2
  <2> QED
    BY <2>2, <2>3
<1>15. DOMAIN got = G
  OBVIOUS
<1> HIDE DEF got
<1>16. D \in Partitions => \A i \in blank'[D] : flash'[PartStart[D] + i] = Erased
  BY <1>8, <1>9, <1>11 DEF Touches
<1>17. D = Loop => \A i \in known'[D] : i < Len(image')
  <2>1. Len(image) \in Nat /\ Len(image') \in Nat /\ Len(image) <= Len(image')
    BY <1>9, <1>11, LenProperties DEF TypeOK, Touches
  <2>2. \A i \in known[Loop] : i \in Int
    BY <1>9 DEF Devices
  <2> QED
    BY <1>8, <1>9, <2>1, <2>2
<1>18. \A nw : /\ nw = Idle \/ (AtWork(c)' /\ nw.dev = D)
               /\ work' = [work EXCEPT ![c] = nw]
               => DisksInv'
  <2> SUFFICES ASSUME NEW nw, nw = Idle \/ (AtWork(c)' /\ nw.dev = D),
                      work' = [work EXCEPT ![c] = nw]
               PROVE  DisksInv'
    OBVIOUS
  <2>1. known'[D] \subseteq Cells[D] /\ blank'[D] \subseteq Cells[D]
    BY <1>8, <1>9
  <2>2. known' \in [Devices -> SUBSET Int] /\ blank' \in [Devices -> SUBSET Int]
        /\ \A e \in Devices : e # D => known'[e] = known[e] /\ blank'[e] = blank[e]
    BY <1>8, <1>9
  <2>3. using' = using /\ host' = host /\ ready' = ready
    BY <1>8
  <2>4. ready[D] /\ \A e \in Cores : e # c => work[e].dev # D
    BY <1>5
  <2>5. PICK none : none = {} /\ Touches(D, none)
    BY <1>11
  <2> QED
    BY <1>16, <1>17, <2>1, <2>2, <2>3, <2>4, <2>5, KeepsInv
<1>19. CASE G = S
  <2>1. /\ work' = [work EXCEPT ![c] = Idle]
        /\ last' = [op |-> "read", dev |-> D, cells |-> S, x |-> 0, got |-> got]
    BY <1>8, <1>19
  <2>2. DisksInv'
    BY <1>18, <2>1
  <2>3. last'.op = "read" /\ last'.dev = D /\ last'.cells = S /\ last'.got = got
    BY <2>1
  <2>4. \A i \in S : Content[D][i] \in {NULL, got[i]}
    <3>1. \A i \in S : Content[D][i] = IF i \in known[D] THEN Cell(flash, ram, image, D, i)
                                       ELSE NULL
      BY <1>6, ContentIs DEF Known
    <3> QED
      BY <1>14, <1>19, <3>1
  <2> QED
    BY <1>12, <2>2, <2>3, <2>4 DEF Promise!Next, Promise!Read
<1>20. CASE G # S
  <2>1. work' = [work EXCEPT ![c] = ow] /\ last' = last
    BY <1>5, <1>8, <1>20
  <2>2. /\ ow.at = "read" /\ ow.dev = D /\ ow.cells = S /\ ow.x = w.x /\ ow.got = got
        /\ ow = [at |-> ow.at, dev |-> ow.dev, cells |-> ow.cells, x |-> ow.x, got |-> ow.got]
    BY <1>5
  <2> HIDE DEF ow
  <2>3. work'[c] = ow
    BY <1>9, <2>1
  <2>4. k + 1 \in Cells[D] /\ k + 1 <= b /\ a <= k + 1 /\ G = a .. (k + 1) - 1
    <3>1. k # b
      BY <1>20 DEF G, S
    <3> QED
      BY <1>5, <1>6, <3>1, CellsAre DEF G
  <2>5. Stretch(work'[c])
    BY <1>15, <2>2, <2>3, <2>4 DEF Stretch, S
  <2>6. \A i \in DOMAIN got \cap known'[D] : got[i] = Holds(Media, D, i)'
    BY <1>8, <1>14, <1>15, HoldsIs
  <2>7. AtWork(c)'
    BY <1>5, <1>8, <2>2, <2>3, <2>5, <2>6 DEF AtWork, Stretch
  <2>8. DisksInv'
    BY <1>18, <2>1, <2>2, <2>7
  <2> QED
    BY <1>12, <2>1, <2>8 DEF Promise!vars
<1> QED
  BY <1>19, <1>20

LEMMA CopyFailsHolds ==
    ASSUME DisksInv, NEW c \in Cores, CopyFails(c)
    PROVE  DisksInv' /\ Promise!Next
<1>1. work[c].at = "read" /\ work[c].dev = Loop
  BY DEF CopyFails
<1>2. PICK D \in Devices : \E w : \E a, k, b \in Cells[D] : Working(c, D, w, a, k, b)
  BY <1>1, WorkingIs
<1>3. PICK w : \E a, k, b \in Cells[D] : Working(c, D, w, a, k, b)
  BY <1>2
<1>4. D = Loop /\ ready[D] /\ \A e \in Cores : e # c => work[e].dev # D
  BY <1>1, <1>3 DEF Working
<1>5. /\ using' = using /\ host' = host /\ flash' = flash /\ ram' = ram /\ image' = image
      /\ saved' = saved /\ fildes' = fildes /\ ready' = ready /\ known' = known
      /\ blank' = blank
  BY DEF CopyFails
<1>6. PICK nw : nw = Idle
  OBVIOUS
<1>7. work' = [work EXCEPT ![c] = nw] /\ last'.op = "failed"
  BY <1>6 DEF CopyFails, Return, Happened
<1>8. /\ known \in [Devices -> SUBSET Int] /\ blank \in [Devices -> SUBSET Int]
      /\ \A e \in Devices : known[e] \subseteq Cells[e] /\ blank[e] \subseteq Cells[e]
      /\ \A i \in known[Loop] : i < Len(image)
  BY DEF DisksInv, TypeOK
<1>9. PICK S : S = {} /\ Touches(D, S)
  BY <1>5, Untouched
<1>10. DisksInv'
  <2>1. known'[D] \subseteq Cells[D] /\ blank'[D] \subseteq Cells[D]
    BY <1>5, <1>8
  <2>2. known' \in [Devices -> SUBSET Int] /\ blank' \in [Devices -> SUBSET Int]
        /\ \A e \in Devices : e # D => known'[e] = known[e] /\ blank'[e] = blank[e]
    BY <1>5, <1>8
  <2>3. D = Loop => \A i \in known'[D] : i < Len(image')
    BY <1>5, <1>8
  <2>4. D \in Partitions => \A i \in blank'[D] : flash'[PartStart[D] + i] = Erased
    BY <1>4, DeviceAssumption
  <2>5. using' = using /\ host' = host /\ ready' = ready
    BY <1>5
  <2> QED
    BY <1>4, <1>6, <1>7, <1>9, <2>1, <2>2, <2>3, <2>4, <2>5, KeepsInv
<1>11. Content' = Content /\ Kept' = Kept /\ Spoilt' = Spoilt
  BY <1>5, ContentIs DEF Kept, Spoilt
<1> QED
  BY <1>7, <1>10, <1>11 DEF Promise!Next, Promise!Failed
\* device->init() leaves what is known as it is: memory that heap.c allocates has been
\* free, and an image that loopback.c opens has been closed or has come through a reset.
LEMMA InitKeeps ==
    ASSUME DisksInv, using' = using, host' = host, flash' = flash, image' = image, saved' = saved,
           known' = known, blank' = blank, work' = work,
           ready' \in [Devices -> BOOLEAN], \A d \in Devices : ready[d] => ready'[d],
           ram' = ram \/ (~ready[Heap] /\ ram' \in [Cells[Heap] -> Bit]),
           ready'[Heap] => ram' # NULL,
           fildes' \in {fildes, "open"}, ready'[Loop] <=> fildes' # "none",
           last'.op = "init"
    PROVE  DisksInv' /\ Promise!Next
<1>1. /\ using \in {Partitions, {Heap}, {Loop}} /\ host \in {"fat", "littlefs"}
      /\ flash \in [Flash -> Bit] /\ ram \in [Cells[Heap] -> Bit] \cup {NULL}
      /\ image \in Seq(Bit) /\ Len(image) <= HostRoom
      /\ saved \in Seq(Bit) /\ Len(saved) <= HostRoom
      /\ known \in [Devices -> SUBSET Int] /\ blank \in [Devices -> SUBSET Int]
      /\ \A d \in Devices : known[d] \subseteq Cells[d] /\ blank[d] \subseteq Cells[d]
      /\ DOMAIN work = Cores
      /\ \A d \in Partitions : \A i \in blank[d] : flash[PartStart[d] + i] = Erased
      /\ IF ready[Heap] THEN ram # NULL ELSE known[Heap] = {}
      /\ \A i \in known[Loop] : i < Len(image)
      /\ \A e, f \in Cores : e # f /\ work[e] # Idle => work[e].dev # work[f].dev
      /\ host = "fat" \/ ~ready[Loop] => saved = image
      /\ \A e \in Cores : work[e] = Idle \/ AtWork(e)
  BY DEF DisksInv, TypeOK
<1>2. Heap \in Devices /\ Loop \in Devices /\ Heap \notin Partitions
  BY DeviceAssumption DEF Devices
<1>3. ASSUME NEW d \in Devices, NEW i \in known[d]
      PROVE  Cell(flash', ram', image', d, i) = Cell(flash, ram, image, d, i)
  <2>1. CASE d = Heap
    BY <1>1, <1>3, <2>1
  <2>2. CASE d # Heap
    BY <2>2 DEF Cell
  <2> QED
    BY <2>1, <2>2
<1>4. ASSUME NEW e \in Cores
      PROVE  work'[e] = Idle \/ AtWork(e)'
  <2> SUFFICES ASSUME work[e] # Idle
               PROVE  AtWork(e)'
    OBVIOUS
  <2>1. work[e].dev \in Devices
    BY <1>1, UsingIs DEF AtWork
  <2>2. PICK D : D \notin Devices
    BY DeviceAssumption
  <2> QED
    BY <1>3, <2>1, <2>2, OthersGoOn
<1>5. TypeOK'
  BY <1>1 DEF DisksInv, TypeOK
<1>6. DisksInv'
  BY <1>1, <1>2, <1>4, <1>5 DEF DisksInv
<1>7. Content' = Content
  BY <1>3, ContentIs DEF Known
<1>8. Kept' = Kept /\ Spoilt' \subseteq Spoilt
  BY DEF Kept, Spoilt
<1> QED
  BY <1>6, <1>7, <1>8 DEF Promise!Next, Promise!Setup

\* The invariant over device->deinit() of a device on which nobody works.
LEMMA DeinitInv ==
    ASSUME DisksInv, NEW d \in Devices, \A e \in Cores : work[e].dev # d,
           using' = using, host' = host, flash' = flash, blank' = blank, work' = work,
           NEW r \in BOOLEAN, ready' = [ready EXCEPT ![d] = r],
           NEW K, known' = [known EXCEPT ![d] = K], K \subseteq known[d],
           \/ ram' = ram /\ d # Heap
           \/ d = Heap /\ ram' = NULL /\ K = {} /\ ~r,
           d # Loop => image' = image /\ saved' = saved /\ fildes' = fildes,
           d = Loop => /\ image' \in Seq(Bit) /\ Len(image') <= HostRoom
                       /\ saved' \in Seq(Bit) /\ Len(saved') <= HostRoom
                       /\ fildes' \in {"none", "stale"} /\ (r <=> fildes' = "stale")
                       /\ \A i \in K : i < Len(image')
                       /\ host = "fat" \/ ~r => saved' = image'
    PROVE  DisksInv'
<1>1. /\ using \in {Partitions, {Heap}, {Loop}} /\ host \in {"fat", "littlefs"}
      /\ flash \in [Flash -> Bit] /\ ram \in [Cells[Heap] -> Bit] \cup {NULL}
      /\ image \in Seq(Bit) /\ Len(image) <= HostRoom
      /\ saved \in Seq(Bit) /\ Len(saved) <= HostRoom /\ ready \in [Devices -> BOOLEAN]
      /\ known \in [Devices -> SUBSET Int] /\ blank \in [Devices -> SUBSET Int]
      /\ \A e \in Devices : known[e] \subseteq Cells[e] /\ blank[e] \subseteq Cells[e]
      /\ DOMAIN work = Cores
      /\ \A e \in Partitions : \A i \in blank[e] : flash[PartStart[e] + i] = Erased
      /\ IF ready[Heap] THEN ram # NULL ELSE known[Heap] = {}
      /\ \A i \in known[Loop] : i < Len(image)
      /\ \A e, f \in Cores : e # f /\ work[e] # Idle => work[e].dev # work[f].dev
      /\ host = "fat" \/ ~ready[Loop] => saved = image
      /\ ready[Loop] <=> fildes # "none"
      /\ fildes \in {"none", "open", "errored", "stale"}
      /\ \A e \in Cores : work[e] = Idle \/ AtWork(e)
  BY DEF DisksInv, TypeOK
<1>2. Heap \in Devices /\ Loop \in Devices /\ Heap \notin Partitions /\ Heap # Loop
      /\ Partitions \subseteq Devices
  BY DeviceAssumption DEF Devices
<1>3. /\ ready' \in [Devices -> BOOLEAN] /\ ready'[d] = r /\ known'[d] = K
      /\ \A e \in Devices : e # d => ready'[e] = ready[e] /\ known'[e] = known[e]
      /\ known' \in [Devices -> SUBSET Int]
  BY <1>1
<1>4. ASSUME NEW e \in Devices, e # d, NEW i
      PROVE  Cell(flash', ram', image', e, i) = Cell(flash, ram, image, e, i)
  BY <1>4 DEF Cell, Devices
<1>5. ASSUME NEW e \in Cores
      PROVE  work'[e] = Idle \/ AtWork(e)'
  <2>1. \A f \in Devices : f # d =>
           /\ ready[f] => ready'[f]
           /\ known'[f] = known[f] /\ blank'[f] = blank[f]
           /\ \A i \in known[f] :
                 Cell(flash', ram', image', f, i) = Cell(flash, ram, image, f, i)
    BY <1>3, <1>4
  <2> QED
    BY <2>1, OthersGoOn
<1>6. TypeOK'
  <2>1. \A e \in Devices : known'[e] \subseteq Cells[e]
    BY <1>1, <1>3
  <2>2. /\ image' \in Seq(Bit) /\ Len(image') <= HostRoom
        /\ saved' \in Seq(Bit) /\ Len(saved') <= HostRoom
        /\ fildes' \in {"none", "open", "errored", "stale"}
    BY <1>1
  <2> QED
    BY <1>1, <1>3, <2>1, <2>2 DEF TypeOK
<1>7. IF ready'[Heap] THEN ram' # NULL ELSE known'[Heap] = {}
  BY <1>1, <1>2, <1>3
<1>8. host' = "fat" \/ ~ready'[Loop] => saved' = image'
  BY <1>1, <1>2, <1>3
<1>9. \A i \in known'[Loop] : i < Len(image')
  BY <1>1, <1>2, <1>3
<1>10. ready'[Loop] <=> fildes' # "none"
  BY <1>1, <1>2, <1>3
<1> QED
  BY <1>1, <1>2, <1>5, <1>6, <1>7, <1>8, <1>9, <1>10 DEF DisksInv

\* device->deinit() of a device of flash.c or heap.c.
LEMMA DeinitKeeps ==
    ASSUME DisksInv, NEW d \in Devices, d # Loop, \A e \in Cores : work[e].dev # d,
           using' = using, host' = host, flash' = flash, image' = image, blank' = blank,
           work' = work, saved' = saved, fildes' = fildes,
           NEW r \in BOOLEAN, ~r, ready' = [ready EXCEPT ![d] = r],
           \/ ram' = ram /\ known' = [known EXCEPT ![d] = known[d]] /\ d # Heap
           \/ d = Heap /\ ram' = NULL /\ known' = [known EXCEPT ![d] = {}],
           last'.op = "deinit", last'.dev = d
    PROVE  DisksInv' /\ Promise!Next
<1>1. PICK K : /\ known' = [known EXCEPT ![d] = K] /\ K \subseteq known[d]
               /\ \/ ram' = ram /\ d # Heap /\ K = known[d]
                  \/ d = Heap /\ ram' = NULL /\ K = {}
  OBVIOUS
<1>2. DisksInv'
  BY <1>1, DeinitInv
<1>3. /\ \A e \in Devices : e # d => known'[e] = known[e]
      /\ known'[d] = K /\ d \in Partitions \cup {Heap}
  BY <1>1 DEF DisksInv, TypeOK, Devices
<1>4. Kept' = Kept /\ Spoilt' = Spoilt
  BY DEF Kept, Spoilt
<1>5. ASSUME NEW e \in Devices, e # Heap \/ d # Heap
      PROVE  Content'[e] = Content[e]
  <2>1. \A i : Cell(flash', ram', image', e, i) = Cell(flash, ram, image, e, i)
    BY <1>1, <1>5 DEF Cell
  <2>2. known'[e] = known[e]
    BY <1>1, <1>3, <1>5
  <2> QED
    BY <2>1, <2>2, ContentIs DEF Known
<1>6. d # Heap => d \in Kept'
  BY <1>3, <1>4 DEF Kept
<1>7. d = Heap => Content'[d] = Promise!Nothing(d)
  BY <1>1, <1>3, ContentIs DEF Known, Promise!Nothing
<1>8. Promise!Deinit
  BY <1>4, <1>5, <1>6, <1>7 DEF Promise!Deinit
<1> QED
  BY <1>2, <1>8 DEF Promise!Next

\* What is known of the image stays when the image does.
LEMMA ImageStays ==
    ASSUME flash' = flash, ram' = ram, image' = image, known' = known
    PROVE  Content' = Content
BY ContentIs

LEMMA LoopClosedHolds ==
    ASSUME DisksInv, LoopClosed
    PROVE  DisksInv' /\ Promise!Next
<1> DEFINE r == FALSE
           K == IF Closed = image THEN known[Loop] ELSE {}
<1>1. PICK d \in Devices : d = Loop
  BY DEF Devices
<1>2. /\ using' = using /\ host' = host /\ flash' = flash /\ ram' = ram /\ blank' = blank
      /\ work' = work /\ known' = [known EXCEPT ![d] = K] /\ ready' = [ready EXCEPT ![d] = r]
      /\ image' = Closed /\ saved' = Closed /\ fildes' = "none"
      /\ last'.op = "deinit" /\ last'.dev = d /\ \A e \in Cores : work[e].dev # d
  BY <1>1 DEF LoopClosed, Deinitialised, MayEnter, Happened
<1>3. /\ image \in Seq(Bit) /\ Len(image) <= HostRoom
      /\ saved \in Seq(Bit) /\ Len(saved) <= HostRoom
      /\ \A i \in known[Loop] : i < Len(image)
      /\ known \in [Devices -> SUBSET Int]
      /\ d # Heap
  BY <1>1, DeviceAssumption DEF DisksInv, TypeOK
<1>4. /\ Closed \in Seq(Bit) /\ Len(Closed) <= HostRoom
      /\ K \subseteq known[d] /\ \A i \in K : i < Len(Closed)
      /\ r \in BOOLEAN /\ ~r
  BY <1>1, <1>3 DEF Closed
<1>5. Closed # image => Spoilt = {Loop}
  BY DEF Closed, Spoilt
<1> HIDE DEF r
<1>6. DisksInv'
  <2>1. PICK L : L = K
    OBVIOUS
  <2> HIDE DEF K
  <2>2. /\ known' = [known EXCEPT ![d] = L] /\ L \subseteq known[d]
        /\ fildes' \in {"none", "stale"} /\ (r <=> fildes' = "stale")
        /\ \A i \in L : i < Len(image')
    BY <1>2, <1>4, <2>1
  <2> QED
    BY <1>1, <1>2, <1>3, <1>4, <2>2, DeinitInv
<1>7. Kept \subseteq Kept' /\ Loop \in Kept' /\ Spoilt' \subseteq Spoilt
  BY <1>2 DEF Kept, Spoilt
<1>8. CASE Closed = image
  <2>1. known' = known
    BY <1>1, <1>2, <1>3, <1>8
  <2>2. Content' = Content
    BY <1>2, <1>8, <2>1, ImageStays
  <2> QED
    BY <1>1, <1>2, <1>6, <1>7, <2>2 DEF Promise!Next, Promise!Deinit
<1>9. CASE Closed # image
  <2>1. known'[Loop] = {} /\ \A e \in Devices : e # Loop => known'[e] = known[e]
    BY <1>1, <1>2, <1>3, <1>9
  <2>2. Content'[Loop] = Promise!Nothing(Loop)
    BY <1>1, <2>1, ContentIs DEF Known, Promise!Nothing
  <2>3. ASSUME NEW e \in Devices, e # Loop
        PROVE  Content'[e] = Content[e]
    <3>1. \A i : Cell(flash', ram', image', e, i) = Cell(flash, ram, image, e, i)
      BY <1>2, <2>3 DEF Cell, Devices
    <3> QED
      BY <2>1, <2>3, <3>1, ContentIs DEF Known
  <2> QED
    BY <1>1, <1>2, <1>5, <1>6, <1>7, <1>9, <2>2, <2>3 DEF Promise!Next, Promise!Deinit
<1> QED
  BY <1>8, <1>9

LEMMA CloseFailedHolds ==
    ASSUME DisksInv, CloseFailed
    PROVE  DisksInv' /\ Promise!Next
<1> DEFINE r == TRUE
<1>1. PICK d \in Devices : d = Loop
  BY DEF Devices
<1>0. PICK left \in {saved, image} :
         Deinitialised(Loop, FALSE, ram, image, left, "stale", known[Loop])
  BY DEF CloseFailed
<1>2. /\ using' = using /\ host' = host /\ flash' = flash /\ ram' = ram
      /\ blank' = blank /\ work' = work /\ known' = [known EXCEPT ![d] = known[d]]
      /\ ready' = [ready EXCEPT ![d] = r]
      /\ image' = image /\ saved' = left /\ fildes' = "stale"
      /\ last'.op = "deinit failed" /\ \A e \in Cores : work[e].dev # d
  BY <1>0, <1>1 DEF Deinitialised, MayEnter, Happened
<1>3. /\ image \in Seq(Bit) /\ Len(image) <= HostRoom
      /\ saved \in Seq(Bit) /\ Len(saved) <= HostRoom
      /\ \A i \in known[Loop] : i < Len(image)
      /\ known \in [Devices -> SUBSET Int]
      /\ host = "fat" => saved = image
      /\ d # Heap /\ r \in BOOLEAN /\ r
  BY <1>1, DeviceAssumption DEF DisksInv, TypeOK
<1> HIDE DEF r
<1>4. DisksInv'
  <2>1. PICK K : K = known[d]
    OBVIOUS
  <2> QED
    BY <1>1, <1>2, <1>3, <2>1, DeinitInv
<1>5. Content' = Content
  BY <1>2, <1>3, ImageStays
<1>6. Kept \subseteq Kept' /\ Spoilt' \subseteq Spoilt
  BY <1>2 DEF Kept, Spoilt
<1> QED
  BY <1>2, <1>4, <1>5, <1>6 DEF Promise!Next, Promise!Setup

LEMMA SetupHolds ==
    ASSUME DisksInv,
           \/ \E d \in Partitions : FlashInit(d) \/ FlashDeinit(d)
           \/ HeapInit \/ HeapDeinit \/ LoopInit \/ LoopDeinit
    PROVE  DisksInv' /\ Promise!Next
<1>1. /\ ready \in [Devices -> BOOLEAN] /\ ram \in [Cells[Heap] -> Bit] \cup {NULL}
      /\ IF ready[Heap] THEN ram # NULL ELSE known[Heap] = {}
      /\ known \in [Devices -> SUBSET Int]
      /\ host = "fat" \/ ~ready[Loop] => saved = image
      /\ ready[Loop] <=> fildes # "none"
      /\ Heap \in Devices /\ Loop \in Devices /\ Heap \notin Partitions /\ Loop \notin Partitions
      /\ Heap # Loop /\ Partitions \subseteq Devices /\ TRUE \in BOOLEAN /\ FALSE \in BOOLEAN
  BY DeviceAssumption DEF DisksInv, TypeOK, Devices
<1>2. ASSUME NEW d \in Partitions, FlashInit(d)
      PROVE  DisksInv' /\ Promise!Next
  <2>1. /\ using' = using /\ host' = host /\ flash' = flash /\ image' = image
        /\ saved' = saved /\ known' = known /\ blank' = blank /\ work' = work /\ ram' = ram
        /\ ready' = [ready EXCEPT ![d] = TRUE] /\ last'.op = "init" /\ fildes' = fildes
    BY <1>2 DEF FlashInit, Initialised, Happened
  <2>2. /\ ready' \in [Devices -> BOOLEAN] /\ ready'[Heap] = ready[Heap]
        /\ ready'[Loop] = ready[Loop]
        /\ \A e \in Devices : ready[e] => ready'[e]
    BY <1>1, <2>1
  <2> QED
    BY <1>1, <2>1, <2>2, InitKeeps
<1>3. ASSUME NEW d \in Partitions, FlashDeinit(d)
      PROVE  DisksInv' /\ Promise!Next
  <2>1. PICK r \in BOOLEAN : ~r
    OBVIOUS
  <2>2. /\ using' = using /\ host' = host /\ flash' = flash /\ image' = image
        /\ saved' = saved /\ blank' = blank /\ work' = work /\ ram' = ram
        /\ fildes' = fildes /\ known' = [known EXCEPT ![d] = known[d]]
        /\ ready' = [ready EXCEPT ![d] = FALSE] /\ last'.op = "deinit" /\ last'.dev = d
        /\ \A e \in Cores : work[e].dev # d
    BY <1>3 DEF FlashDeinit, Deinitialised, MayEnter, Happened
  <2>3. d # Heap /\ d # Loop /\ d \in Devices /\ ready' = [ready EXCEPT ![d] = r]
    BY <1>1, <2>1, <2>2
  <2> QED
    BY <2>1, <2>2, <2>3, DeinitKeeps
<1>4. ASSUME HeapInit
      PROVE  DisksInv' /\ Promise!Next
  <2>1. /\ using' = using /\ host' = host /\ flash' = flash /\ image' = image
        /\ saved' = saved /\ known' = known /\ blank' = blank /\ work' = work
        /\ fildes' = fildes /\ last'.op = "init"
    BY <1>4 DEF HeapInit, Initialised, Happened
  <2>2. CASE Initialised(Heap, ready[Heap], ram, image, fildes)
    <3>1. ram' = ram /\ ready' = [ready EXCEPT ![Heap] = ready[Heap]]
      BY <2>2 DEF Initialised
    <3>2. ready' = ready
      BY <1>1, <3>1
    <3> QED
      BY <1>1, <2>1, <3>1, <3>2, InitKeeps
  <2>3. CASE /\ ~ready[Heap]
             /\ \E b \in Bit :
                   Initialised(Heap, TRUE, [i \in Cells[Heap] |-> b], image, fildes)
    <3>1. PICK b \in Bit : /\ ram' = [i \in Cells[Heap] |-> b]
                           /\ ready' = [ready EXCEPT ![Heap] = TRUE]
      BY <2>3 DEF Initialised
    <3>2. ram' \in [Cells[Heap] -> Bit]
      BY <3>1
    <3>3. ram' # NULL
      BY <3>2, NullAssumption
    <3>4. /\ ready' \in [Devices -> BOOLEAN] /\ \A e \in Devices : ready[e] => ready'[e]
          /\ ready'[Loop] = ready[Loop]
      BY <1>1, <3>1
    <3> QED
      BY <1>1, <2>1, <2>3, <3>2, <3>3, <3>4, InitKeeps
  <2> QED
    BY <1>4, <2>2, <2>3 DEF HeapInit
<1>5. ASSUME HeapDeinit
      PROVE  DisksInv' /\ Promise!Next
  <2>1. PICK r \in BOOLEAN : ~r
    OBVIOUS
  <2>2. PICK d \in Devices : d = Heap /\ d # Loop
    BY <1>1
  <2>3. /\ using' = using /\ host' = host /\ flash' = flash /\ image' = image
        /\ saved' = saved /\ blank' = blank /\ work' = work /\ ram' = NULL
        /\ fildes' = fildes /\ known' = [known EXCEPT ![d] = {}]
        /\ ready' = [ready EXCEPT ![d] = FALSE] /\ last'.op = "deinit" /\ last'.dev = d
        /\ \A e \in Cores : work[e].dev # d
    BY <1>5, <2>2 DEF HeapDeinit, Deinitialised, MayEnter, Happened
  <2>4. ready' = [ready EXCEPT ![d] = r]
    BY <2>1, <2>3
  <2> QED
    BY <2>1, <2>2, <2>3, <2>4, DeinitKeeps
<1>6. ASSUME LoopInit
      PROVE  DisksInv' /\ Promise!Next
  <2>1. /\ using' = using /\ host' = host /\ flash' = flash /\ ram' = ram
        /\ saved' = saved /\ known' = known /\ blank' = blank /\ work' = work
        /\ last'.op = "init"
    BY <1>6 DEF LoopInit, Initialised, Happened
  <2>2. /\ image' = image /\ ready' \in [Devices -> BOOLEAN] /\ ready'[Heap] = ready[Heap]
        /\ fildes' \in {fildes, "open"} /\ (ready'[Loop] <=> fildes' # "none")
        /\ \A e \in Devices : ready[e] => ready'[e]
    <3>1. CASE Initialised(Loop, ready[Loop], ram, image, fildes)
      <4>1. image' = image /\ ready' = [ready EXCEPT ![Loop] = ready[Loop]] /\ fildes' = fildes
        BY <3>1 DEF Initialised
      <4> QED
        BY <1>1, <4>1
    <3>2. CASE ~ready[Loop] /\ Initialised(Loop, TRUE, ram, saved, "open")
      <4>1. image' = saved /\ ready' = [ready EXCEPT ![Loop] = TRUE] /\ fildes' = "open"
        BY <3>2 DEF Initialised
      <4> QED
        BY <1>1, <3>2, <4>1
    <3> QED
      BY <1>6, <3>1, <3>2 DEF LoopInit
  <2> QED
    BY <1>1, <2>1, <2>2, InitKeeps
<1>7. ASSUME LoopDeinit
      PROVE  DisksInv' /\ Promise!Next
  BY <1>7, LoopClosedHolds, CloseFailedHolds DEF LoopDeinit
<1> QED
  BY <1>2, <1>3, <1>4, <1>5, <1>6, <1>7

\* A power loss costs the cells of the calls it interrupts, of which nothing is known.
LEMMA PowerLossHolds ==
    ASSUME DisksInv, PowerLoss
    PROVE  DisksInv' /\ Promise!Next
<1> DEFINE torn == UNION {Target(work[c].dev, work[c].cells) :
                            c \in {x \in Cores : /\ work[x].at \in {"erase", "program"}
                                                 /\ work[x].dev \in Partitions}}
<1>1. PICK b \in Bit : flash' = Store(flash, torn, b)
  BY DEF PowerLoss
<1>2. /\ ram' = NULL /\ image' = saved /\ ready' = [d \in Devices |-> d \in Partitions]
      /\ known' = [d \in Devices |-> IF d \in Kept THEN known[d] ELSE {}]
      /\ blank' = [d \in Devices |-> {}] /\ work' = [c \in Cores |-> Idle]
      /\ using' = using /\ host' = host /\ saved' = saved /\ last'.op = "reset"
      /\ fildes' = "none"
  BY DEF PowerLoss, Happened
<1>3. /\ using \in {Partitions, {Heap}, {Loop}} /\ host \in {"fat", "littlefs"}
      /\ flash \in [Flash -> Bit] /\ saved \in Seq(Bit) /\ Len(saved) <= HostRoom
      /\ known \in [Devices -> SUBSET Int]
      /\ \A d \in Devices : known[d] \subseteq Cells[d]
      /\ \A i \in known[Loop] : i < Len(image)
      /\ host = "fat" => saved = image
  BY DEF DisksInv, TypeOK
<1>4. /\ Heap \in Devices /\ Loop \in Devices /\ Heap \notin Partitions /\ Heap # Loop
      /\ Partitions \subseteq Devices /\ Loop \notin Partitions
  BY DeviceAssumption DEF Devices
<1>5. /\ flash' \in [Flash -> Bit]
      /\ \A i \in Flash : i \notin torn => flash'[i] = flash[i]
  <2>1. PICK T : T = torn
    OBVIOUS
  <2> DEFINE z == Store(flash, T, b)
  <2> HIDE DEF torn
  <2>2. z \in [Flash -> Bit] /\ \A i \in Flash : z[i] = IF i \in T THEN b ELSE flash[i]
    <3>1. flash \in [Flash -> Bit]
      BY <1>3
    <3> QED
      BY <3>1, StoreIs
  <2>3. flash' = z
    BY <1>1, <2>1
  <2> HIDE DEF z
  <2> QED
    BY <2>1, <2>2, <2>3
<1>6. ASSUME NEW d \in Partitions, NEW i \in known[d]
      PROVE  flash'[PartStart[d] + i] = flash[PartStart[d] + i]
  <2>1. i \in Cells[d] /\ d \in Devices
    BY <1>3, <1>4, <1>6
  <2>2. ASSUME NEW c \in Cores, work[c].at \in {"erase", "program"}, work[c].dev \in Partitions
        PROVE  PartStart[d] + i \notin Target(work[c].dev, work[c].cells)
    <3>1. work[c].at # "idle" /\ work[c].at # "read"
      BY <2>2
    <3>2. PICK D \in Devices : \E w : \E a, k, e \in Cells[D] : Working(c, D, w, a, k, e)
      BY <3>1, WorkingIs
    <3>3. PICK w : \E a, k, e \in Cells[D] : Working(c, D, w, a, k, e)
      BY <3>2
    <3>4. /\ D = work[c].dev /\ D \in Partitions /\ w.cells = work[c].cells
          /\ w.cells \subseteq Cells[D] /\ w.cells \cap known[D] = {}
      BY <2>2, <3>1, <3>3 DEF Working
    <3>5. PICK S : S = w.cells
      OBVIOUS
    <3>6. PartStart[d] + i \in Target(D, S) <=> d = D /\ i \in S
      BY <2>1, <3>4, <3>5, TargetIs
    <3>7. PartStart[d] + i \notin Target(D, S)
      BY <1>6, <3>4, <3>5, <3>6
    <3> QED
      BY <3>4, <3>5, <3>7
  <2>3. PartStart[d] + i \notin torn
    BY <2>2
  <2>4. PartStart[d] + i \in Flash
    <3>1. PICK S : S \subseteq Cells[d]
      OBVIOUS
    <3> QED
      BY <2>1, <3>1, TargetIs
  <2> QED
    BY <1>5, <2>3, <2>4
<1> HIDE DEF torn
<1>7. Loop \in Kept => saved = image
  BY <1>3, <1>4 DEF Kept
<1>8. DisksInv'
  <2>1. TypeOK'
    <3>1. /\ known' \in [Devices -> SUBSET Int] /\ blank' \in [Devices -> SUBSET Int]
          /\ \A d \in Devices : known'[d] \subseteq Cells[d] /\ blank'[d] \subseteq Cells[d]
      BY <1>2, <1>3
    <3> QED
      BY <1>2, <1>3, <1>5, <3>1 DEF TypeOK
  <2>2. \A c \in Cores : work'[c] = Idle
    BY <1>2
  <2>3. \A d \in Partitions : blank'[d] = {}
    BY <1>2, <1>4
  <2>4. ~ready'[Heap] /\ known'[Heap] = {}
    BY <1>2, <1>4 DEF Kept
  <2>5. \A i \in known'[Loop] : i < Len(image')
    BY <1>2, <1>3, <1>4, <1>7
  <2>6. ~ready'[Loop]
    BY <1>2, <1>4
  <2> QED
    BY <1>2, <2>1, <2>2, <2>3, <2>4, <2>5, <2>6 DEF DisksInv
<1>9. Kept \subseteq Kept' /\ Spoilt' \subseteq Spoilt
  BY <1>2 DEF Kept, Spoilt
<1>10. ASSUME NEW d \in Kept
       PROVE  d \in Devices => Content'[d] = Content[d]
  <2> SUFFICES ASSUME d \in Devices
               PROVE  Content'[d] = Content[d]
    OBVIOUS
  <2>1. known'[d] = known[d]
    BY <1>2, <1>10
  <2>2. ASSUME NEW i \in known[d]
        PROVE  Cell(flash', ram', image', d, i) = Cell(flash, ram, image, d, i)
    <3>1. CASE d \in Partitions
      BY <1>6, <2>2, <3>1 DEF Cell
    <3>2. CASE d \notin Partitions
      <4>1. d = Loop
        BY <1>10, <3>2 DEF Kept
      <4> QED
        BY <1>2, <1>4, <1>7, <1>10, <3>2, <4>1 DEF Cell
    <3> QED
      BY <3>1, <3>2
  <2> QED
    BY <2>1, <2>2, ContentIs DEF Known
<1>11. Kept \subseteq Devices
  BY <1>4 DEF Kept
<1>12. ASSUME NEW d \in Devices \ Kept
       PROVE  Content'[d] = Promise!Nothing(d)
  <2>1. known'[d] = {}
    BY <1>2, <1>12
  <2> QED
    BY <2>1, ContentIs DEF Known, Promise!Nothing
<1>13. Promise!PowerLoss
  BY <1>2, <1>9, <1>10, <1>11, <1>12 DEF Promise!PowerLoss
<1> QED
  BY <1>8, <1>13 DEF Promise!Next

------------------------------------------------------------------------------
(* The specification *)

LEMMA DisksInit ==
    ASSUME Init
    PROVE  DisksInv /\ Promise!Init
<1>1. /\ using \in {Partitions, {Heap}, {Loop}} /\ host \in {"fat", "littlefs"}
      /\ flash \in [Flash -> Bit]
      /\ ram = NULL /\ saved = image /\ fildes = "none"
      /\ ready = [d \in Devices |-> d \in Partitions]
      /\ known = [d \in Devices |-> {}] /\ blank = [d \in Devices |-> {}]
      /\ work = [c \in Cores |-> Idle]
  BY DEF Init
<1>2. image \in Seq(Bit) /\ Len(image) <= HostRoom
  BY SizeAssumption DEF Init
<1>3. Heap \in Devices /\ Loop \in Devices /\ Heap \notin Partitions
      /\ Partitions \subseteq Devices
  BY DeviceAssumption DEF Devices
<1>4. TypeOK
  <2>1. known \in [Devices -> SUBSET Int] /\ blank \in [Devices -> SUBSET Int]
        /\ \A d \in Devices : known[d] \subseteq Cells[d] /\ blank[d] \subseteq Cells[d]
    BY <1>1
  <2>2. ready \in [Devices -> BOOLEAN] /\ DOMAIN work = Cores
    BY <1>1
  <2> QED
    BY <1>1, <1>2, <2>1, <2>2 DEF TypeOK
<1>5. DisksInv
  <2>1. \A c \in Cores : work[c] = Idle
    BY <1>1
  <2>2. \A d \in Devices : known[d] = {} /\ blank[d] = {}
    BY <1>1
  <2>3. ~ready[Heap] /\ ~ready[Loop]
    BY <1>1, <1>3, DeviceAssumption
  <2> QED
    BY <1>1, <1>3, <1>4, <2>1, <2>2, <2>3 DEF DisksInv
<1>6. Content = [d \in Devices |-> Promise!Nothing(d)] /\ Spoilt = {}
  BY <1>1 DEF Content, Spoilt, Promise!Nothing
<1> QED
  BY <1>5, <1>6 DEF Promise!Init

LEMMA CallHolds ==
    ASSUME DisksInv, NEW c \in Cores, NEW d \in using, NEW x \in Bit,
           \/ \E s \in 0 .. SectorCount(d) - 1, n \in 1 .. 2 : DiskWrite(c, d, s, n, x)
           \/ \E b \in 0 .. BlockCount(d) - 1 :
                 LfsErase(c, d, b) \/ \E i \in Cells[d] : LfsProgram(c, d, b, i, x)
    PROVE  DisksInv' /\ Promise!Next
<1>1. d \in Devices
  BY UsingIs
<1>2. ASSUME NEW s \in 0 .. SectorCount(d) - 1, NEW n \in 1 .. 2, DiskWrite(c, d, s, n, x)
      PROVE  DisksInv' /\ Promise!Next
  <2>1. s + n <= SectorCount(d) /\ Begin(c, d, Sectors(d, s, n), "erase", x)
    BY <1>2 DEF DiskWrite
  <2>2. PICK a \in Cells[d], b \in Cells[d] : a <= b /\ Sectors(d, s, n) = a .. b
    BY <1>1, <2>1, SectorsAre
  <2>3. PICK at \in {"erase", "program"} : at = "erase"
    OBVIOUS
  <2>4. Begin(c, d, a .. b, at, x) /\ at # "program"
    BY <2>1, <2>2, <2>3
  <2> QED
    BY <1>1, <2>2, <2>4, BeginStep
<1>3. ASSUME NEW n \in 0 .. BlockCount(d) - 1, LfsErase(c, d, n)
      PROVE  DisksInv' /\ Promise!Next
  <2>1. Begin(c, d, Block(d, n), "erase", Erased)
    BY <1>3 DEF LfsErase
  <2>2. PICK a \in Cells[d], b \in Cells[d] : a <= b /\ Block(d, n) = a .. b
    BY <1>1, BlockIs
  <2>3. PICK at \in {"erase", "program"}, y \in Bit : at = "erase" /\ y = Erased
    BY DEF Bit, Erased
  <2>4. Begin(c, d, a .. b, at, y) /\ at # "program"
    BY <2>1, <2>2, <2>3
  <2> QED
    BY <1>1, <2>2, <2>4, BeginStep
<1>4. ASSUME NEW n \in 0 .. BlockCount(d) - 1, NEW i \in Cells[d], LfsProgram(c, d, n, i, x)
      PROVE  DisksInv' /\ Promise!Next
  <2>1. i \in blank[d] /\ Begin(c, d, {i}, "program", x)
    BY <1>4 DEF LfsProgram
  <2>2. i \in Int /\ {i} = i .. i /\ i <= i
    BY <1>1, CellsAre
  <2>3. PICK at \in {"erase", "program"} : at = "program"
    OBVIOUS
  <2>4. PICK a \in Cells[d], b \in Cells[d] : a = i /\ b = i
    OBVIOUS
  <2>5. Begin(c, d, a .. b, at, x) /\ a <= b
    BY <2>1, <2>2, <2>3, <2>4
  <2>6. d \in Partitions => \A j \in a .. b : flash[PartStart[d] + j] = Erased
    BY <2>1, <2>2, <2>4 DEF DisksInv
  <2> QED
    BY <1>1, <2>5, <2>6, BeginStep
<1> QED
  BY <1>2, <1>3, <1>4

LEMMA ReadHolds ==
    ASSUME DisksInv, NEW c \in Cores, NEW d \in using,
           \/ \E s \in 0 .. SectorCount(d) - 1 : DiskRead(c, d, s)
           \/ \E i \in Cells[d] : LfsRead(c, d, i)
    PROVE  DisksInv' /\ UNCHANGED Promise!vars
<1>1. d \in Devices
  BY UsingIs
<1>2. ASSUME NEW s \in 0 .. SectorCount(d) - 1, DiskRead(c, d, s)
      PROVE  DisksInv' /\ UNCHANGED Promise!vars
  <2>1. SectorCount(d) \in Int
    <3>1. SectorSize(d) \in Nat \ {0}
      BY <1>1, SizeAssumption DEF SectorSize
    <3> QED
      BY <1>1, <3>1, CellsAre DEF SectorCount
  <2>2. s \in Nat /\ s + 1 <= SectorCount(d) /\ 1 \in Nat \ {0}
    BY <2>1
  <2>3. PICK n \in Nat \ {0} : n = 1
    OBVIOUS
  <2>4. PICK a \in Cells[d], b \in Cells[d] : a <= b /\ Sectors(d, s, n) = a .. b
    BY <1>1, <2>2, <2>3, SectorsAre
  <2>5. ReadCall(c, d, a .. b)
    BY <1>2, <2>3, <2>4 DEF DiskRead
  <2> QED
    BY <1>1, <2>4, <2>5, ReadCallHolds
<1>3. ASSUME NEW i \in Cells[d], LfsRead(c, d, i)
      PROVE  DisksInv' /\ UNCHANGED Promise!vars
  <2>1. i \in Int /\ {i} = i .. i /\ i <= i
    BY <1>1, CellsAre
  <2>2. ReadCall(c, d, i .. i)
    BY <1>3, <2>1 DEF LfsRead
  <2> QED
    BY <1>1, <2>1, <2>2, ReadCallHolds
<1> QED
  BY <1>2, <1>3

LEMMA StepHolds ==
    ASSUME DisksInv, Next
    PROVE  DisksInv' /\ (Promise!Next \/ UNCHANGED Promise!vars)
<1>1. ASSUME NEW c \in Cores, NEW d \in using, NEW x \in Bit,
             \/ \E s \in 0 .. SectorCount(d) - 1, n \in 1 .. 2 : DiskWrite(c, d, s, n, x)
             \/ \E b \in 0 .. BlockCount(d) - 1 :
                   LfsErase(c, d, b) \/ \E i \in Cells[d] : LfsProgram(c, d, b, i, x)
      PROVE  DisksInv' /\ (Promise!Next \/ UNCHANGED Promise!vars)
  BY <1>1, CallHolds
<1>2. ASSUME NEW c \in Cores, NEW d \in using,
             \/ \E s \in 0 .. SectorCount(d) - 1 : DiskRead(c, d, s)
             \/ \E i \in Cells[d] : LfsRead(c, d, i)
      PROVE  DisksInv' /\ (Promise!Next \/ UNCHANGED Promise!vars)
  BY <1>2, ReadHolds
<1>3. ASSUME NEW c \in Cores, EraseStep(c) \/ ProgramStep(c) \/ Copy(c) \/ CopyFails(c)
      PROVE  DisksInv' /\ (Promise!Next \/ UNCHANGED Promise!vars)
  BY <1>3, EraseStepHolds, ProgramStepHolds, CopyHolds, CopyFailsHolds
<1>4. CASE \/ \E d \in Partitions : FlashInit(d) \/ FlashDeinit(d)
           \/ HeapInit \/ HeapDeinit \/ LoopInit \/ LoopDeinit
  BY <1>4, SetupHolds
<1>5. CASE PowerLoss
  BY <1>5, PowerLossHolds
<1> QED
  BY <1>1, <1>2, <1>3, <1>4, <1>5 DEF Next

LEMMA StutterHolds ==
    ASSUME DisksInv, UNCHANGED vars
    PROVE  DisksInv' /\ UNCHANGED Promise!vars
<1>1. /\ using' = using /\ host' = host /\ flash' = flash /\ ram' = ram /\ image' = image
      /\ saved' = saved /\ fildes' = fildes /\ ready' = ready /\ known' = known
      /\ blank' = blank /\ work' = work /\ last' = last
  BY DEF vars
<1>2. Content' = Content /\ Kept' = Kept /\ Spoilt' = Spoilt
  BY <1>1, ContentIs DEF Kept, Spoilt
<1>3. TypeOK'
  BY <1>1 DEF DisksInv, TypeOK
<1>4. ASSUME NEW e \in Cores
      PROVE  work'[e] = Idle \/ AtWork(e)'
  <2>1. CASE work[e] = Idle
    BY <1>1, <2>1
  <2>2. CASE work[e] # Idle
    <3>1. work[e].dev \in Devices
      BY <2>2, UsingIs DEF DisksInv, AtWork
    <3>2. PICK D : D \notin Devices
      BY DeviceAssumption
    <3>3. /\ \A d \in Devices : d # D =>
               /\ ready[d] => ready'[d]
               /\ known'[d] = known[d] /\ blank'[d] = blank[d]
               /\ \A i \in known[d] :
                     Cell(flash', ram', image', d, i) = Cell(flash, ram, image, d, i)
          /\ \A d \in Partitions : d # D =>
               \A i \in Cells[d] : flash'[PartStart[d] + i] = flash[PartStart[d] + i]
      BY <1>1
    <3>4. using' = using /\ work'[e] = work[e] /\ work[e].dev # D
      BY <1>1, <3>1, <3>2
    <3> QED
      BY <3>3, <3>4, OthersGoOn
  <2> QED
    BY <2>1, <2>2
<1>5. DisksInv'
  BY <1>1, <1>3, <1>4 DEF DisksInv
<1> QED
  BY <1>1, <1>2, <1>5 DEF Promise!vars

\* Two cores never work on the same device, nothing is known of the cells that a call is
\* to change, what littlefs programs into flash has been erased, and what a read has
\* copied so far is what is known of the cells: DisksInv holds for any cores, partitions
\* that lie apart, sizes and blocks.
THEOREM DisksHold == Spec => []DisksInv
<1>1. Init => DisksInv
  BY DisksInit
<1>2. DisksInv /\ [Next]_vars => DisksInv'
  BY StepHolds, StutterHolds
<1> QED
  BY <1>1, <1>2, PTL DEF Spec

\* The devices of flash.c, heap.c and loopback.c, under disk_write, disk_read and the
\* callbacks of littlefs by any cores, with failing calls and power losses at any step,
\* implement the store of sectors: what has been acknowledged is read back.
THEOREM ImplementsSectorStore == Spec => StoreKept
<1>1. Init => Promise!Init
  BY DisksInit
<1>2. DisksInv /\ [Next]_vars => [Promise!Next]_(Promise!vars)
  BY StepHolds, StutterHolds
<1> QED
  BY <1>1, <1>2, DisksHold, PTL DEF Spec, StoreKept, Promise!Spec
===============================================================================
