--------------------------- MODULE VfsMountsProofs ---------------------------
(***************************************************************************)
(* Proofs about VfsStartUp and the mount table under it, for any start-up, *)
(* any paths, file systems and devices, and tables of any size.            *)
(***************************************************************************)
EXTENDS VfsStartUp, SequenceTheorems, WellFoundedInduction, TLAPS

------------------------------------------------------------------------------
(* The layers below *)

Sound(l) == l \in Lower /\ Consistent(l)

\* Who is not f goes on to serve.
OthersServe(l, k, f) ==
    \A g \in FileSystems \ {f}, e \in Devices : Serves(l, g, e) => Serves(k, g, e)

\* What a call on f may make of the layers below.
Keeps(l, k, f) == Sound(k) /\ OthersServe(l, k, f)

LEMMA LowestIs ==
    ASSUME NEW S \in SUBSET Nat, S # {}
    PROVE  Lowest(S) \in S /\ \A j \in S : Lowest(S) <= j
<1>1. PICK i \in S : \A j \in S : ~ (<<j, i>> \in OpToRel(<, Nat))
  BY NatLessThanWellFounded, WFMin
<1>2. \A j \in S : ~ (j < i)
  BY <1>1 DEF OpToRel
<1>3. \A j \in S : i <= j
  BY <1>2
<1> QED
  BY <1>3 DEF Lowest

LEMMA KeepsTransitive ==
    ASSUME NEW l, NEW k, NEW m, NEW f, Keeps(l, k, f), Keeps(k, m, f)
    PROVE  Keeps(l, m, f)
BY DEF Keeps, OthersServe

\* Nobody serves by what lies on a device or by whether that is ready.
LEMMA DeviceKeeps ==
    ASSUME NEW l, Sound(l), NEW f \in FileSystems, NEW dev \in Devices
    PROVE  /\ Keeps(l, l, f)
           /\ Keeps(l, [l EXCEPT !.ready[dev] = TRUE], f)
           /\ \A m \in Media : Keeps(l, [l EXCEPT !.media[dev] = m], f)
<1> DEFINE r == [l EXCEPT !.ready[dev] = TRUE]
           w(m) == [l EXCEPT !.media[dev] = m]
<1>1. /\ r \in Lower /\ r.ffs = l.ffs /\ r.registered = l.registered /\ r.id = l.id
      /\ r.up = l.up
  BY DEF Sound, Lower
<1>2. ASSUME NEW m \in Media
      PROVE  /\ w(m) \in Lower /\ w(m).ffs = l.ffs /\ w(m).registered = l.registered
             /\ w(m).id = l.id /\ w(m).up = l.up
  BY DEF Sound, Lower
<1> HIDE DEF r, w
<1>3. Keeps(l, r, f)
  BY <1>1 DEF Keeps, OthersServe, Serves, Sound, Consistent
<1>4. ASSUME NEW m \in Media PROVE Keeps(l, w(m), f)
  BY <1>2 DEF Keeps, OthersServe, Serves, Sound, Consistent
<1> QED
  BY <1>3, <1>4 DEF Keeps, OthersServe, r, w

LEMMA FatMountKeeps ==
    ASSUME NEW l, Sound(l), NEW f \in FatFileSystems, NEW dev \in Devices,
           NEW pending \in BOOLEAN, NEW o \in FatMount(l, f, dev, pending)
    PROVE  /\ Keeps(l, o.low, f) /\ o.answer \in Answers
           /\ o.answer = "ok" => Serves(o.low, f, dev)
<1> DEFINE unused == {v \in Volumes : l.ffs[v] = NULL}
           v == Lowest(unused)
           taken == [l EXCEPT !.id[f] = v, !.ffs[v] = dev, !.registered[v] = f]
           answers == {x \in {"ok", "EIO"} :
                          IF pending THEN x = "ok" ELSE x = "ok" => l.media[dev] \in FatMedia}
<1>0. o \in IF unused = {} THEN {Outcome(l, "ENOMEM")} ELSE {Outcome(taken, a) : a \in answers}
  BY DEF FatMount
<1> HIDE DEF answers
<1>1. CASE unused = {}
  <2>1. o = Outcome(l, "ENOMEM")
    BY <1>0, <1>1
  <2> QED
    BY <2>1, DeviceKeeps, FatAssumption DEF Outcome, Answers
<1>2. CASE unused # {}
  <2>1. v \in Volumes /\ l.ffs[v] = NULL
    BY <1>2, LowestIs DEF Volumes
  <2>2. o.low = taken /\ o.answer \in {"ok", "EIO"}
    <3>1. PICK a \in answers : o = Outcome(taken, a)
      BY <1>0, <1>2
    <3>2. answers \subseteq {"ok", "EIO"}
      BY DEF answers
    <3> HIDE DEF taken
    <3> QED
      BY <3>1, <3>2 DEF Outcome
  <2> HIDE DEF v
  <2>3. /\ taken \in Lower /\ taken.up = l.up
        /\ taken.id = [l.id EXCEPT ![f] = v]
        /\ taken.ffs = [l.ffs EXCEPT ![v] = dev]
        /\ taken.registered = [l.registered EXCEPT ![v] = f]
    BY <2>1 DEF Sound, Lower
  <2> HIDE DEF taken
  <2>4. Consistent(taken)
    BY <2>1, <2>3, NullAssumption, FatAssumption DEF Sound, Consistent, Lower
  <2>5. OthersServe(l, taken, f)
    BY <2>1, <2>3, NullAssumption DEF OthersServe, Serves, Sound, Lower
  <2>6. Serves(taken, f, dev)
    <3>1. v # -1
      BY <2>1 DEF Volumes
    <3>2. taken.id[f] = v /\ taken.ffs[v] = dev /\ taken.registered[v] = f
      BY <2>1, <2>3 DEF Sound, Lower
    <3> QED
      BY <3>1, <3>2 DEF Serves
  <2> QED
    BY <2>2, <2>3, <2>4, <2>5, <2>6 DEF Keeps, Sound, Answers
<1> QED
  BY <1>1, <1>2

\* Without a volume of its own, f may take the one of another.
LEMMA FatUnmountKeeps ==
    ASSUME NEW l, Sound(l), NEW f \in FatFileSystems
    PROVE  LET u == FatUnmount(l, f)
           IN  /\ Sound(u.low) /\ u.answer \in Answers
               /\ \A dev : Serves(l, f, dev) => Keeps(l, u.low, f) /\ u.answer = "ok"
<1> DEFINE v == l.id[f]
           cleared == [l EXCEPT !.ffs[v] = NULL, !.registered[v] = NULL]
<1>1. CASE v = -1
  BY <1>1 DEF FatUnmount, Outcome, Answers, Serves
<1>2. CASE v # -1
  <2>1. v \in Volumes
    BY <1>2 DEF Sound, Lower
  <2>2. FatUnmount(l, f) = Outcome(cleared, "ok")
    BY <1>2 DEF FatUnmount
  <2>3. /\ cleared \in Lower /\ cleared.up = l.up /\ cleared.id = l.id
        /\ cleared.ffs = [l.ffs EXCEPT ![v] = NULL]
        /\ cleared.registered = [l.registered EXCEPT ![v] = NULL]
    BY <2>1 DEF Sound, Lower
  <2> HIDE DEF cleared
  <2>4. Consistent(cleared)
    BY <2>1, <2>3 DEF Sound, Consistent, Lower
  <2>5. ASSUME NEW dev, Serves(l, f, dev) PROVE OthersServe(l, cleared, f)
    BY <2>1, <2>3, <2>5 DEF OthersServe, Serves, Sound, Lower, Volumes
  <2> QED
    BY <2>2, <2>3, <2>4, <2>5 DEF Outcome, Keeps, Sound, Answers
<1> QED
  BY <1>1, <1>2

LEMMA FatFormatKeeps ==
    ASSUME NEW l, Sound(l), NEW f \in FatFileSystems, NEW dev \in Devices,
           NEW o \in FatFormat(l, f, dev)
    PROVE  Keeps(l, o.low, f) /\ o.answer \in Answers
<1> DEFINE b == Blanked(l, dev)
<1>0. f \in FileSystems
  BY FatAssumption
<1>1. Keeps(l, l, f) /\ Keeps(l, b, f) /\ Sound(b)
  BY <1>0, DeviceKeeps DEF Blanked, Media, Keeps
<1> HIDE DEF b
<1>2. CASE o \in {Outcome(l, "EIO"), Outcome(b, "EIO"), Outcome(b, "ENOMEM")}
  BY <1>1, <1>2 DEF Outcome, Answers
<1>3. CASE o \in FatMount(b, f, dev, TRUE)
  BY <1>1, <1>3, FatMountKeeps, KeepsTransitive
<1>4. ASSUME NEW q \in FatMount(b, f, dev, TRUE), q.answer = "ok",
             \/ o = Outcome(FatUnmount(q.low, f).low, "EIO")
             \/ o = Outcome([FatUnmount(q.low, f).low EXCEPT !.media[dev] = "half"], "EIO")
             \/ o = Outcome([FatUnmount(q.low, f).low EXCEPT !.media[dev] = "fat"], "ok")
      PROVE  Keeps(l, o.low, f) /\ o.answer \in Answers
  <2> DEFINE u == FatUnmount(q.low, f).low
  <2>1. Keeps(l, q.low, f) /\ Serves(q.low, f, dev)
    BY <1>1, <1>4, FatMountKeeps, KeepsTransitive
  <2>2. Keeps(l, u, f)
    BY <2>1, FatUnmountKeeps, KeepsTransitive DEF Keeps
  <2> HIDE DEF u
  <2>3. /\ Keeps(l, [u EXCEPT !.media[dev] = "half"], f)
        /\ Keeps(l, [u EXCEPT !.media[dev] = "fat"], f)
    BY <1>0, <2>2, DeviceKeeps, KeepsTransitive DEF Keeps, Media
  <2> QED
    BY <1>4, <2>2, <2>3 DEF Outcome, Answers, u
<1> QED
  BY <1>2, <1>3, <1>4 DEF FatFormat, Then, b

\* littlefs uses no volume.
LEMMA BuffersKeep ==
    ASSUME NEW l, Sound(l), NEW f \in FileSystems \ FatFileSystems, NEW b \in BOOLEAN
    PROVE  LET k == [l EXCEPT !.up[f] = b]
           IN  /\ Keeps(l, k, f)
               /\ b => \A dev : Serves(k, f, dev)
<1> DEFINE k == [l EXCEPT !.up[f] = b]
<1>1. /\ k \in Lower /\ k.ffs = l.ffs /\ k.registered = l.registered /\ k.id = l.id
      /\ k.up = [l.up EXCEPT ![f] = b] /\ l.up \in [FileSystems \ FatFileSystems -> BOOLEAN]
  BY DEF Sound, Lower
<1> HIDE DEF k
<1>2. Keeps(l, k, f)
  BY <1>1 DEF Keeps, OthersServe, Serves, Sound, Consistent
<1>3. b => \A dev : Serves(k, f, dev)
  BY <1>1 DEF Serves
<1> QED
  BY <1>2, <1>3 DEF k

LEMMA InitializeKeeps ==
    ASSUME NEW l, Sound(l), NEW f \in FileSystems, NEW dev \in Devices,
           NEW o \in Initialize(l, dev)
    PROVE  Keeps(l, o.low, f) /\ o.answer \in Answers
<1> DEFINE r == [l EXCEPT !.ready[dev] = TRUE]
<1>1. o = Outcome(r, "ok") \/ o = Outcome(l, "EIO")
  BY DEF Initialize
<1>2. Keeps(l, r, f) /\ Keeps(l, l, f)
  BY DeviceKeeps
<1> HIDE DEF r
<1> QED
  BY <1>1, <1>2 DEF Outcome, Answers

LEMMA MountKeeps ==
    ASSUME NEW l, Sound(l), NEW f \in FileSystems, NEW dev \in Devices,
           NEW o \in Mount(l, f, dev)
    PROVE  /\ Keeps(l, o.low, f) /\ o.answer \in Answers
           /\ o.answer = "ok" => Serves(o.low, f, dev)
<1>1. CASE f \in FatFileSystems
  BY <1>1, FatMountKeeps DEF Mount
<1>2. CASE f \notin FatFileSystems
  <2> DEFINE down == [l EXCEPT !.up[f] = FALSE]
             up == [l EXCEPT !.up[f] = TRUE]
  <2>1. o \in {Outcome(l, "EIO"), Outcome(down, "EIO"), Outcome(up, "ok")}
    BY <1>2 DEF Mount, LfsMount
  <2>2. Keeps(l, l, f) /\ Keeps(l, down, f) /\ Keeps(l, up, f)
    BY <1>2, DeviceKeeps, BuffersKeep
  <2>3. Serves(up, f, dev)
    BY <1>2, BuffersKeep
  <2> HIDE DEF down, up
  <2> QED
    BY <2>1, <2>2, <2>3 DEF Outcome, Answers
<1> QED
  BY <1>1, <1>2

LEMMA UnmountKeeps ==
    ASSUME NEW l, Sound(l), NEW f \in FileSystems
    PROVE  LET u == Unmount(l, f)
           IN  /\ Sound(u.low) /\ u.answer \in Answers
               /\ \A dev : Serves(l, f, dev) => Keeps(l, u.low, f) /\ u.answer = "ok"
<1>1. CASE f \in FatFileSystems
  BY <1>1, FatUnmountKeeps DEF Unmount
<1>2. CASE f \notin FatFileSystems
  <2> DEFINE k == [l EXCEPT !.up[f] = FALSE]
  <2>1. Unmount(l, f) = IF l.up[f] THEN Outcome(k, "ok") ELSE Outcome(l, "undefined")
    BY <1>2 DEF Unmount, LfsUnmount
  <2>2. \A dev : Serves(l, f, dev) => l.up[f]
    BY <1>2 DEF Serves
  <2>3. Keeps(l, k, f) /\ Sound(k)
    BY <1>2, BuffersKeep DEF Keeps
  <2> HIDE DEF k
  <2> QED
    BY <2>1, <2>2, <2>3 DEF Outcome, Answers
<1> QED
  BY <1>1, <1>2

LEMMA FormatKeeps ==
    ASSUME NEW l, Sound(l), NEW f \in FileSystems, NEW dev \in Devices,
           NEW o \in Format(l, f, dev)
    PROVE  Keeps(l, o.low, f) /\ o.answer \in Answers
<1>1. CASE f \in FatFileSystems
  BY <1>1, FatFormatKeeps DEF Format
<1>2. CASE f \notin FatFileSystems
  <2> DEFINE down == [l EXCEPT !.up[f] = FALSE]
  <2>1. Keeps(l, l, f) /\ Keeps(l, down, f) /\ Sound(down)
    BY <1>2, DeviceKeeps, BuffersKeep DEF Keeps
  <2> HIDE DEF down
  <2>2. \A m \in Media : Keeps(l, [down EXCEPT !.media[dev] = m], f)
    BY <2>1, DeviceKeeps, KeepsTransitive
  <2>3. o \in {Outcome(l, "EIO"), Outcome(down, "EIO"), Outcome(Blanked(down, dev), "EIO"),
               Outcome([down EXCEPT !.media[dev] = "littlefs"], "ok"),
               Outcome([down EXCEPT !.media[dev] = "littlefs"], "EIO")}
    BY <1>2 DEF Format, LfsFormat, down
  <2> QED
    BY <2>1, <2>2, <2>3 DEF Outcome, Answers, Blanked, Media
<1> QED
  BY <1>1, <1>2

------------------------------------------------------------------------------
(* The lower half of fs_mount, fs_format and fs_reformat *)

LEMMA InitializeMountKeeps ==
    ASSUME NEW l, Sound(l), NEW f \in FileSystems, NEW dev \in Devices,
           NEW o \in Then(Initialize(l, dev), LAMBDA k : Mount(k, f, dev))
    PROVE  /\ Keeps(l, o.low, f) /\ o.answer \in Answers
           /\ o.answer = "ok" => Serves(o.low, f, dev)
<1>1. CASE o \in Initialize(l, dev) /\ o.answer # "ok"
  BY <1>1, InitializeKeeps
<1>2. ASSUME NEW q \in Initialize(l, dev), o \in Mount(q.low, f, dev)
      PROVE  /\ Keeps(l, o.low, f) /\ o.answer \in Answers
             /\ o.answer = "ok" => Serves(o.low, f, dev)
  <2>1. Keeps(l, q.low, f) /\ Sound(q.low)
    BY InitializeKeeps DEF Keeps
  <2> QED
    BY <1>2, <2>1, MountKeeps, KeepsTransitive
<1> QED
  BY <1>1, <1>2 DEF Then

LEMMA InitializeFormatKeeps ==
    ASSUME NEW l, Sound(l), NEW f \in FileSystems, NEW dev \in Devices,
           NEW o \in Then(Initialize(l, dev), LAMBDA k : Format(k, f, dev))
    PROVE  Keeps(l, o.low, f) /\ o.answer \in Answers
<1>1. CASE o \in Initialize(l, dev) /\ o.answer # "ok"
  BY <1>1, InitializeKeeps
<1>2. ASSUME NEW q \in Initialize(l, dev), o \in Format(q.low, f, dev)
      PROVE  Keeps(l, o.low, f) /\ o.answer \in Answers
  <2>1. Keeps(l, q.low, f) /\ Sound(q.low)
    BY InitializeKeeps DEF Keeps
  <2> QED
    BY <1>2, <2>1, FormatKeeps, KeepsTransitive
<1> QED
  BY <1>1, <1>2 DEF Then

LEMMA ReformatKeeps ==
    ASSUME NEW l, Sound(l), NEW f \in FileSystems, NEW dev \in Devices,
           NEW o \in Then({Unmount(l, f)}, LAMBDA k :
                          Then(Format(k, f, dev), LAMBDA m : Mount(m, f, dev)))
    PROVE  /\ Sound(o.low) /\ o.answer \in Answers
           /\ Serves(l, f, dev) => Keeps(l, o.low, f)
           /\ o.answer = "ok" => Serves(o.low, f, dev)
<1> DEFINE u == Unmount(l, f)
<1>1. /\ Sound(u.low) /\ u.answer \in Answers
      /\ Serves(l, f, dev) => Keeps(l, u.low, f)
  BY UnmountKeeps
<1> DEFINE Goal == /\ Sound(o.low) /\ o.answer \in Answers
                   /\ Serves(l, f, dev) => Keeps(l, o.low, f)
                   /\ o.answer = "ok" => Serves(o.low, f, dev)
<1>2. CASE o = u /\ u.answer # "ok"
  BY <1>1, <1>2
<1>3. CASE o \in Then(Format(u.low, f, dev), LAMBDA m : Mount(m, f, dev))
  <2>1. ASSUME o \in Format(u.low, f, dev), o.answer # "ok" PROVE Goal
    BY <1>1, <2>1, FormatKeeps, KeepsTransitive DEF Keeps
  <2>2. ASSUME NEW q \in Format(u.low, f, dev), o \in Mount(q.low, f, dev) PROVE Goal
    <3>1. Keeps(u.low, q.low, f) /\ Sound(q.low)
      BY <1>1, FormatKeeps DEF Keeps
    <3>2. /\ Keeps(q.low, o.low, f) /\ Sound(o.low) /\ o.answer \in Answers
          /\ o.answer = "ok" => Serves(o.low, f, dev)
      BY <2>2, <3>1, MountKeeps DEF Keeps
    <3> QED
      BY <1>1, <3>1, <3>2, KeepsTransitive
  <2> QED
    BY <1>3, <2>1, <2>2 DEF Then
<1> QED
  BY <1>2, <1>3 DEF Then

------------------------------------------------------------------------------
(* The mount table *)

LEMMA MountsInit ==
    ASSUME NEW media \in [Devices -> Media], NEW ready \in [Devices -> BOOLEAN],
           mpFs \in [Slots -> {ELSEWHERE, NULL}],
           mpDevice = [i \in Slots |-> NULL],
           mpDir = [i \in Slots |-> NULL],
           low = [ffs |-> [v \in Volumes |-> NULL],
                  registered |-> [v \in Volumes |-> NULL],
                  id |-> [f \in FatFileSystems |-> -1],
                  up |-> [f \in FileSystems \ FatFileSystems |-> FALSE],
                  media |-> media, ready |-> ready],
           torn = {},
           last = [op |-> "boot", path |-> NULL, answer |-> "ok"]
    PROVE  MountsInv
<1>1. low \in Lower
  BY DEF Lower
<1>2. RegistryConsistent
  BY DEF RegistryConsistent, Consistent
<1>3. InUse = {}
  BY DEF InUse
<1>4. TypeOK
  BY <1>1 DEF TypeOK, Answers
<1> QED
  BY <1>2, <1>3, <1>4 DEF MountsInv, SlotsInv, MountedInPlace

\* The slots that are in use, and what serves in them, go on as they are.
LEMMA SameSlots ==
    ASSUME MountsInv, ~Lost, UNCHANGED <<mpFs, mpDevice, mpDir, torn>>,
           NEW f \in FileSystems, \A i \in InUse : mpFs[i] # f, Keeps(low, low', f),
           last'.path \in Paths \cup {NULL}, last'.answer \in Answers
    PROVE  MountsInv'
<1>1. InUse' = InUse
  BY DEF InUse
<1>2. TypeOK' /\ RegistryConsistent'
  BY DEF MountsInv, TypeOK, Keeps, Sound, RegistryConsistent
<1>3. SlotsInv'
  BY <1>1 DEF MountsInv, SlotsInv
<1>4. MountedInPlace'
  <2> SUFFICES ASSUME torn = {}, NEW i \in InUse PROVE Serves(low', mpFs[i], mpDevice[i])
    BY <1>1 DEF MountedInPlace
  <2>1. mpFs[i] \in FileSystems \ {f} /\ mpDevice[i] \in Devices
    BY DEF MountsInv, TypeOK, SlotsInv, InUse
  <2> QED
    BY <2>1 DEF MountsInv, MountedInPlace, Keeps, OthersServe
<1> QED
  BY <1>2, <1>3, <1>4 DEF MountsInv

LEMMA FormatStep ==
    ASSUME MountsInv, NEW f \in FileSystems, NEW dev \in Devices, FsFormat(f, dev)
    PROVE  MountsInv'
<1>1. Sound(low)
  BY DEF MountsInv, TypeOK, Sound, RegistryConsistent
<1>2. PICK o \in Then(Initialize(low, dev), LAMBDA l : Format(l, f, dev)) :
        low' = o.low /\ Returned("fs_format", NULL, o.answer)
  BY DEF FsFormat
<1>3. Keeps(low, low', f) /\ last'.path \in Paths \cup {NULL} /\ last'.answer \in Answers
  BY <1>1, <1>2, InitializeFormatKeeps DEF Returned
<1> QED
  BY <1>3, SameSlots DEF FsFormat, Fresh

LEMMA MountStep ==
    ASSUME MountsInv, NEW d \in Dirs, NEW f \in FileSystems, NEW dev \in Devices,
           FsMount(d, f, dev)
    PROVE  MountsInv'
<1> DEFINE i == Lowest(Free)
<1>1. Sound(low)
  BY DEF MountsInv, TypeOK, Sound, RegistryConsistent
<1>2. PICK o \in Then(Initialize(low, dev), LAMBDA l : Mount(l, f, dev)) :
        /\ low' = o.low
        /\ IF o.answer = "ok" /\ Free # {}
             THEN /\ mpFs' = [mpFs EXCEPT ![i] = f]
                  /\ mpDevice' = [mpDevice EXCEPT ![i] = dev]
                  /\ \E reused \in SUBSET {j \in Free : mpDir[j] # NULL} :
                        mpDir' = [j \in Slots |->
                                     IF j \in {i} \cup reused THEN d ELSE mpDir[j]]
                  /\ Returned("fs_mount", d, "ok")
             ELSE /\ UNCHANGED <<mpFs, mpDevice, mpDir>>
                  /\ Returned("fs_mount", d, IF o.answer = "ok" THEN "EFAULT" ELSE o.answer)
  BY DEF FsMount
<1>3. /\ Keeps(low, low', f) /\ o.answer \in Answers
      /\ o.answer = "ok" => Serves(low', f, dev)
  BY <1>1, <1>2, InitializeMountKeeps
<1>4. ~Lost /\ Fresh(f, dev) /\ d \notin Mounted /\ UNCHANGED torn
  BY DEF FsMount
<1>5. CASE ~(o.answer = "ok" /\ Free # {})
  <2>1. /\ UNCHANGED <<mpFs, mpDevice, mpDir>>
        /\ last'.path \in Paths \cup {NULL} /\ last'.answer \in Answers
    BY <1>2, <1>3, <1>5, DirsAssumption DEF Returned, Answers
  <2> QED
    BY <1>3, <1>4, <2>1, SameSlots DEF Fresh
<1>6. CASE o.answer = "ok" /\ Free # {}
  <2>1. PICK reused \in SUBSET {j \in Free : mpDir[j] # NULL} :
           mpDir' = [j \in Slots |-> IF j \in {i} \cup reused THEN d ELSE mpDir[j]]
    BY <1>2, <1>6
  <2>2. /\ mpFs' = [mpFs EXCEPT ![i] = f] /\ mpDevice' = [mpDevice EXCEPT ![i] = dev]
        /\ last'.path = d /\ last'.answer = "ok"
    BY <1>2, <1>6 DEF Returned
  <2>3. i \in Free /\ \A j \in Free : i <= j
    BY <1>6, LowestIs DEF Free, Slots
  <2> HIDE DEF i
  <2>4. /\ mpFs \in [Slots -> FileSystems \cup {ELSEWHERE, NULL}]
        /\ mpDevice \in [Slots -> Devices \cup {NULL}]
        /\ mpDir \in [Slots -> Dirs \cup {NULL, Garbage}]
        /\ i \in Slots /\ mpFs[i] = NULL
    BY <2>3 DEF MountsInv, TypeOK, Free
  <2>5. TypeOK'
    BY <1>3, <1>4, <2>1, <2>2, <2>4, DirsAssumption DEF MountsInv, TypeOK, Answers, Keeps, Sound
  <2>6. RegistryConsistent'
    BY <1>3 DEF Keeps, Sound, RegistryConsistent
  <2>7. InUse' = InUse \cup {i}
    BY <2>2, <2>4, NullAssumption, ElsewhereAssumption DEF InUse
  <2>8. SlotsInv'
    <3>1. /\ mpFs'[i] = f /\ mpDevice'[i] = dev /\ mpDir'[i] = d
          /\ \A j \in Slots \ {i} : mpFs'[j] = mpFs[j] /\ mpDevice'[j] = mpDevice[j]
          /\ \A j \in Slots : mpDir'[j] = mpDir[j] \/ (j \in Free /\ mpDir'[j] = d)
      BY <2>1, <2>2, <2>3, <2>4
    <3>2. \A j \in InUse : j \in Slots /\ j # i /\ j \notin Free /\ mpFs[j] # f /\ mpDir[j] # d
      BY <1>4, <2>4 DEF InUse, Free, Fresh, Mounted
    <3>3. \A j \in Slots : mpFs[j] = ELSEWHERE => mpDir[j] = NULL /\ mpDir'[j] = NULL
      BY <2>4, <3>1, ElsewhereAssumption DEF MountsInv, SlotsInv, Free
    <3>4. \A j \in Slots : mpDir'[j] = d => i <= j
      BY <2>3, <2>4, <3>1, <3>2, <3>3, NullAssumption, DirsAssumption
         DEF InUse, Free, Mounted
    <3>5. \A j \in InUse : /\ mpDevice[j] \in Devices /\ mpDir[j] \in Dirs
                           /\ \A k \in InUse : mpFs[k] = mpFs[j] => k = j
                           /\ \A k \in Slots : mpDir[k] = mpDir[j] => j <= k
      BY DEF MountsInv, SlotsInv
    <3>6. \A j \in InUse' : j = i \/ j \in InUse
      BY <2>7
    <3>7. \A j \in InUse' : /\ mpDevice'[j] \in Devices /\ mpDir'[j] \in Dirs
                            /\ \A k \in InUse' : mpFs'[k] = mpFs'[j] => k = j
                            /\ \A k \in Slots : mpDir'[k] = mpDir'[j] => j <= k
      BY <3>1, <3>2, <3>4, <3>5, <3>6
    <3>8. \A j \in Slots : mpFs'[j] = ELSEWHERE => mpDir'[j] = NULL
      BY <3>1, <3>3, ElsewhereAssumption
    <3> QED
      BY <3>7, <3>8 DEF SlotsInv
  <2>9. MountedInPlace'
    <3> SUFFICES ASSUME torn = {}, NEW j \in InUse'
                 PROVE  Serves(low', mpFs'[j], mpDevice'[j])
      BY <1>4 DEF MountedInPlace
    <3>1. CASE j = i
      BY <1>3, <1>6, <2>2, <2>4, <3>1
    <3>2. CASE j # i
      <4>1. j \in InUse /\ mpFs'[j] = mpFs[j] /\ mpDevice'[j] = mpDevice[j]
        BY <2>2, <2>4, <2>7, <3>2 DEF InUse
      <4>2. mpFs[j] \in FileSystems \ {f} /\ mpDevice[j] \in Devices
        BY <1>4, <4>1 DEF MountsInv, TypeOK, SlotsInv, InUse, Fresh
      <4> QED
        BY <1>3, <1>4, <4>1, <4>2 DEF MountsInv, MountedInPlace, Keeps, OthersServe
    <3> QED
      BY <3>1, <3>2
  <2> QED
    BY <2>5, <2>6, <2>8, <2>9 DEF MountsInv
<1> QED
  BY <1>5, <1>6

\* A call that changes only the answer.
LEMMA AnswerStep ==
    ASSUME MountsInv, ~Lost, UNCHANGED <<mpFs, mpDevice, mpDir, low, torn>>,
           last'.path \in Paths \cup {NULL}, last'.answer \in Answers
    PROVE  MountsInv'
BY DEF MountsInv, TypeOK, SlotsInv, InUse, RegistryConsistent, MountedInPlace

LEMMA UnmountStep ==
    ASSUME MountsInv, NEW p \in Paths, FsUnmount(p)
    PROVE  MountsInv'
<1> DEFINE i == FindMountpoint(p)
           u == Unmount(low, mpFs[i])
<1>1. ~Lost
  BY DEF FsUnmount
<1>2. CASE Unresolved("fs_unmount", p)
  <2>1. /\ UNCHANGED <<mpFs, mpDevice, mpDir, low, torn>>
        /\ last'.path = p /\ last'.answer \in Answers
    BY <1>2 DEF Unresolved, Returned, Answers
  <2> QED
    BY <1>1, <2>1, AnswerStep
<1>3. CASE ~Unresolved("fs_unmount", p)
  <2>1. /\ i \in InUse /\ low' = u.low
        /\ last' = [op |-> "fs_unmount", path |-> p, answer |-> u.answer]
        /\ mpFs' = [mpFs EXCEPT ![i] = NULL]
        /\ mpDevice' = [mpDevice EXCEPT ![i] = NULL]
        /\ torn' = torn
    BY <1>3 DEF FsUnmount, Returned
  <2>2. PICK gone \in SUBSET ({i} \cup {j \in Free : mpDir[j] # NULL}) :
           mpDir' = [j \in Slots |-> IF j \in gone THEN Garbage ELSE mpDir[j]]
    BY <1>3 DEF FsUnmount
  <2>3. /\ mpFs \in [Slots -> FileSystems \cup {ELSEWHERE, NULL}]
        /\ mpDevice \in [Slots -> Devices \cup {NULL}]
        /\ mpDir \in [Slots -> Dirs \cup {NULL, Garbage}]
        /\ i \in Slots /\ mpFs[i] \in FileSystems
    BY <2>1 DEF MountsInv, TypeOK, InUse
  <2>4. /\ Sound(u.low) /\ u.answer \in Answers
        /\ Serves(low, mpFs[i], mpDevice[i]) => Keeps(low, u.low, mpFs[i])
    BY <2>3, UnmountKeeps DEF MountsInv, TypeOK, Sound, RegistryConsistent
  <2> HIDE DEF i, u
  <2>5. TypeOK' /\ RegistryConsistent'
    BY <2>1, <2>2, <2>3, <2>4 DEF MountsInv, TypeOK, Sound, RegistryConsistent
  <2>6. InUse' = InUse \ {i}
    BY <2>1, <2>3 DEF InUse
  <2>7. \A j \in InUse' : /\ j \in InUse /\ j # i
                          /\ mpFs'[j] = mpFs[j] /\ mpDevice'[j] = mpDevice[j]
                          /\ mpDir'[j] = mpDir[j]
    BY <2>1, <2>2, <2>3, <2>6 DEF InUse, Free
  <2>8. SlotsInv'
    <3>1. \A j \in Slots : mpDir'[j] = Garbage \/ mpDir'[j] = mpDir[j]
      BY <2>2
    <3>2. Garbage \notin Dirs
      BY GarbageAssumption, DirsAssumption
    <3>3. \A j \in InUse' : /\ mpDevice'[j] \in Devices /\ mpDir'[j] \in Dirs
                            /\ \A k \in InUse' : mpFs'[k] = mpFs'[j] => k = j
                            /\ \A k \in Slots : mpDir'[k] = mpDir'[j] => j <= k
      BY <2>7, <3>1, <3>2 DEF MountsInv, SlotsInv
    <3>4. \A j \in Slots : mpFs'[j] = ELSEWHERE => mpDir'[j] = NULL
      BY <2>1, <2>2, <2>3, ElsewhereAssumption DEF MountsInv, SlotsInv, InUse, Free
    <3> QED
      BY <3>3, <3>4 DEF SlotsInv
  <2>9. MountedInPlace'
    <3> SUFFICES ASSUME torn = {}, NEW j \in InUse'
                 PROVE  Serves(low', mpFs'[j], mpDevice'[j])
      BY <2>1 DEF MountedInPlace
    <3>1. \A k \in InUse : Serves(low, mpFs[k], mpDevice[k])
      BY <1>1 DEF MountsInv, MountedInPlace
    <3>2. mpFs[j] \in FileSystems \ {mpFs[i]} /\ mpDevice[j] \in Devices
      BY <2>1, <2>3, <2>7 DEF MountsInv, SlotsInv, InUse
    <3> QED
      BY <2>1, <2>4, <2>7, <3>1, <3>2 DEF Keeps, OthersServe
  <2> QED
    BY <2>5, <2>8, <2>9 DEF MountsInv
<1> QED
  BY <1>2, <1>3

LEMMA ReformatStep ==
    ASSUME MountsInv, NEW p \in Paths, FsReformat(p)
    PROVE  MountsInv'
<1> DEFINE i == FindMountpoint(p)
           f == mpFs[i]
           dev == mpDevice[i]
<1>1. ~Lost
  BY DEF FsReformat
<1>2. CASE Unresolved("fs_reformat", p)
  <2>1. /\ UNCHANGED <<mpFs, mpDevice, mpDir, low, torn>>
        /\ last'.path = NULL /\ last'.answer \in Answers
    BY <1>2 DEF Unresolved, Returned, Answers
  <2> QED
    BY <1>1, <2>1, AnswerStep
<1>3. CASE ~Unresolved("fs_reformat", p)
  <2>1. i \in InUse /\ UNCHANGED <<mpFs, mpDevice, mpDir>>
    BY <1>3 DEF FsReformat
  <2>2. PICK o \in Then({Unmount(low, f)}, LAMBDA k :
                        Then(Format(k, f, dev), LAMBDA l : Mount(l, f, dev))) :
           /\ low' = o.low /\ Returned("fs_reformat", NULL, o.answer)
           /\ torn' = IF o.answer = "ok" THEN torn ELSE torn \cup {f}
    BY <1>3 DEF FsReformat
  <2>3. f \in FileSystems /\ dev \in Devices
    BY <2>1 DEF MountsInv, TypeOK, SlotsInv, InUse
  <2> HIDE DEF i, f, dev
  <2>4. /\ Sound(low') /\ o.answer \in Answers
        /\ Serves(low, f, dev) => Keeps(low, low', f)
        /\ o.answer = "ok" => Serves(low', f, dev)
    <3>1. Sound(low)
      BY DEF MountsInv, TypeOK, Sound, RegistryConsistent
    <3>2. /\ Sound(o.low) /\ o.answer \in Answers
          /\ Serves(low, f, dev) => Keeps(low, o.low, f)
          /\ o.answer = "ok" => Serves(o.low, f, dev)
      BY <2>2, <2>3, <3>1, ReformatKeeps
    <3> QED
      BY <2>2, <3>2
  <2>5. last'.path = NULL /\ last'.answer = o.answer
    BY <2>2 DEF Returned
  <2>6. TypeOK' /\ RegistryConsistent'
    BY <2>1, <2>2, <2>3, <2>4, <2>5 DEF MountsInv, TypeOK, Sound, RegistryConsistent
  <2>7. SlotsInv'
    BY <2>1 DEF MountsInv, SlotsInv, InUse
  <2>8. MountedInPlace'
    <3> SUFFICES ASSUME torn' = {}, NEW j \in InUse PROVE Serves(low', mpFs[j], mpDevice[j])
      BY <2>1 DEF MountedInPlace, InUse
    <3>1. torn = {} /\ o.answer = "ok"
      BY <2>2
    <3>2. \A k \in InUse : Serves(low, mpFs[k], mpDevice[k])
      BY <1>1, <3>1 DEF MountsInv, MountedInPlace
    <3>3. CASE j = i
      BY <2>4, <3>1, <3>3 DEF f, dev
    <3>4. CASE j # i
      <4>1. mpFs[j] \in FileSystems \ {f} /\ mpDevice[j] \in Devices
        BY <2>1, <3>4 DEF MountsInv, TypeOK, SlotsInv, InUse, f
      <4> QED
        BY <2>1, <2>4, <3>2, <4>1 DEF Keeps, OthersServe, f, dev
    <3> QED
      BY <3>3, <3>4
  <2> QED
    BY <2>6, <2>7, <2>8 DEF MountsInv
<1> QED
  BY <1>2, <1>3

LEMMA MountsStep == MountsInv /\ [Next]_vars => MountsInv'
<1> SUFFICES ASSUME MountsInv, [Next]_vars PROVE MountsInv'
  OBVIOUS
<1>1. CASE UNCHANGED vars
  BY <1>1 DEF vars, MountsInv, TypeOK, SlotsInv, InUse, RegistryConsistent, MountedInPlace, Lost
<1>2. ASSUME NEW f \in FileSystems, NEW dev \in Devices,
             FsFormat(f, dev) \/ \E d \in Dirs : FsMount(d, f, dev)
      PROVE  MountsInv'
  BY <1>2, FormatStep, MountStep
<1>3. ASSUME NEW p \in Paths, FsUnmount(p) \/ FsReformat(p)
      PROVE  MountsInv'
  BY <1>3, UnmountStep, ReformatStep
<1>4. ASSUME NEW p \in Paths, FsInfo(p) \/ PathCall(p)
      PROVE  MountsInv'
  <2>1. /\ ~Lost /\ UNCHANGED <<mpFs, mpDevice, mpDir, low, torn>>
        /\ last'.path = NULL /\ last'.answer \in Answers
    BY <1>4 DEF FsInfo, PathCall, Unresolved, Returned, Answers
  <2> QED
    BY <2>1, AnswerStep
<1>5. CASE Undefined
  BY <1>1, <1>5 DEF Undefined
<1> QED
  BY <1>1, <1>2, <1>3, <1>4, <1>5 DEF Next

------------------------------------------------------------------------------
(* The start-up and the application after it *)

PlanInv == plan \in Seq(Calls(Len(plan)))

StartInv == MountsInv /\ PlanInv

LEMMA StartInvInit == StartInit => StartInv
<1> SUFFICES ASSUME StartInit PROVE StartInv
  OBVIOUS
<1>1. /\ mpFs \in [Slots -> {ELSEWHERE, NULL}]
      /\ mpDevice = [i \in Slots |-> NULL]
      /\ mpDir = [i \in Slots |-> NULL]
      /\ torn = {}
      /\ last = [op |-> "boot", path |-> NULL, answer |-> "ok"]
  BY DEF StartInit
<1>2. CASE Init /\ plan = <<>>
  <2>1. MountsInv
    BY <1>1, <1>2, MountsInit, [d \in Devices |-> "blank"] \in [Devices -> Media]
       DEF Init, Media
  <2> QED
    BY <1>2, <2>1 DEF StartInv, PlanInv
<1>3. CASE ~(Init /\ plan = <<>>)
  <2>1. PICK media \in [Devices -> Media], ready \in [Devices -> BOOLEAN] :
           low = [ffs |-> [v \in Volumes |-> NULL],
                  registered |-> [v \in Volumes |-> NULL],
                  id |-> [f \in FatFileSystems |-> -1],
                  up |-> [f \in FileSystems \ FatFileSystems |-> FALSE],
                  media |-> media, ready |-> ready]
    BY <1>3 DEF StartInit
  <2>2. MountsInv
    BY <1>1, <2>1, MountsInit
  <2>3. PlanInv
    BY <1>3, StartUpsAssumption DEF StartInit, PlanInv
  <2> QED
    BY <2>2, <2>3 DEF StartInv
<1> QED
  BY <1>2, <1>3

\* A call of a start-up is one of the calls of the mount table.
LEMMA StartIsNext ==
    ASSUME PlanInv, [StartNext]_startVars
    PROVE  [Next]_vars /\ PlanInv'
<1>1. CASE StartMount
  <2>1. plan[step] \in Calls(Len(plan))
    BY <1>1 DEF StartMount, Running, PlanInv
  <2>2. Next
    BY <1>1, <2>1 DEF StartMount, Next, Calls
  <2> QED
    BY <1>1, <2>2 DEF StartMount, PlanInv
<1>2. CASE StartFormat
  <2>1. plan[step] \in Calls(Len(plan))
    BY <1>2 DEF StartFormat, Running, PlanInv
  <2>2. Next
    BY <1>2, <2>1 DEF StartFormat, Next, Calls
  <2> QED
    BY <1>2, <2>2 DEF StartFormat, PlanInv
<1>3. CASE StartReturn
  BY <1>3 DEF StartReturn, PlanInv
<1>4. CASE Application
  BY <1>4 DEF Application, PlanInv
<1>5. CASE UNCHANGED startVars
  BY <1>5 DEF startVars, vars, PlanInv
<1> QED
  BY <1>1, <1>2, <1>3, <1>4, <1>5 DEF StartNext

LEMMA StartInvStep == StartInv /\ [StartNext]_startVars => StartInv'
BY StartIsNext, MountsStep DEF StartInv

\* The inductive invariant, after any start-up and any calls.
THEOREM MountsHold == StartSpec => []MountsInv
<1>1. StartInv => MountsInv
  BY DEF StartInv
<1> QED
  BY StartInvInit, StartInvStep, <1>1, PTL DEF StartSpec

\* FatFs never has a volume without a device, nor the glue a device without a volume.
THEOREM RegistryHolds == StartSpec => []RegistryConsistent
<1>1. MountsInv => RegistryConsistent
  BY DEF MountsInv
<1> QED
  BY MountsHold, <1>1, PTL

\* What is mounted can serve its calls, unless an fs_reformat failed.
THEOREM ServesInPlace == StartSpec => []MountedInPlace
<1>1. MountsInv => MountedInPlace
  BY DEF MountsInv
<1> QED
  BY MountsHold, <1>1, PTL

LEMMA Resolves ==
    ASSUME MountsInv, NEW i \in InUse
    PROVE  FindMountpoint(mpDir[i]) = i
<1> DEFINE d == mpDir[i]
           hits == {k \in Slots : mpDir[k] \in Prefixes[d]}
           longest == {k \in hits : \A j \in hits : Length[mpDir[j]] <= Length[mpDir[k]]}
<1>1. i \in Slots /\ d \in Dirs /\ \A j \in Slots : mpDir[j] = d => i <= j
  BY DEF MountsInv, SlotsInv, InUse
<1>2. d \in Prefixes[d] /\ \A e \in Prefixes[d] \ {d} : e \in Dirs /\ Length[e] < Length[d]
  BY <1>1, PrefixAssumption, DirsAssumption
<1>3. \A e \in Dirs : Length[e] \in Nat
  BY PrefixAssumption
<1>4. longest = {k \in Slots : mpDir[k] = d}
  BY <1>1, <1>2, <1>3
<1>5. Lowest(longest) = i
  <2>1. longest \in SUBSET Nat /\ i \in longest /\ \A j \in longest : i <= j
    BY <1>1, <1>4 DEF Slots
  <2> HIDE DEF longest
  <2>2. Lowest(longest) \in longest /\ \A j \in longest : Lowest(longest) <= j
    BY <2>1, LowestIs
  <2>3. i \in Nat /\ Lowest(longest) \in Nat
    BY <2>1, <2>2
  <2> QED
    BY <2>1, <2>2, <2>3
<1> QED
  BY <1>1, <1>2, <1>5 DEF FindMountpoint

\* A mounted directory resolves to its own slot, whatever freed strings read as.
THEOREM MountedResolve == StartSpec => []MountedDirResolves
<1>1. MountsInv => MountedDirResolves
  BY Resolves DEF MountedDirResolves
<1> QED
  BY MountsHold, <1>1, PTL

\* All variables stay in their ranges, those of the start-up included.
THEOREM TypeCorrect == StartSpec => []StartTypeOK
<1> DEFINE Inv == PlanInv /\ StartTypeOK
<1>1. StartInit => Inv
  <2> SUFFICES ASSUME StartInit PROVE Inv
    OBVIOUS
  <2>1. PlanInv /\ TypeOK
    BY StartInvInit DEF StartInv, MountsInv
  <2>2. Len(plan) \in Nat
    BY <2>1 DEF PlanInv
  <2>3. cut \subseteq Devices
    BY DEF StartInit
  <2> QED
    BY <2>1, <2>2, <2>3 DEF StartInit, StartTypeOK
<1>2. Inv /\ MountsInv /\ MountsInv' /\ [StartNext]_startVars => Inv'
  <2> SUFFICES ASSUME Inv, MountsInv, MountsInv', [StartNext]_startVars PROVE Inv'
    OBVIOUS
  <2>1. PlanInv' /\ TypeOK'
    BY StartIsNext DEF MountsInv
  <2>2. CASE StartMount \/ StartFormat
    <3>1. plan' = plan /\ plan # <<>> /\ plan[step] \in Calls(Len(plan)) /\ Len(plan) \in Nat
      BY <2>2 DEF StartMount, StartFormat, Running, Starting, PlanInv
    <3>2. step' \in {plan[step].ok, plan[step].failed}
      BY <2>2 DEF StartMount, StartFormat, Advance
    <3>3. step' \in {Failed} \cup 1 .. Len(plan) + 1
      BY <3>1, <3>2 DEF Calls, Failed
    <3>4. unread' \subseteq Devices
      BY <2>2, <3>1 DEF StartMount, StartFormat, Calls, StartTypeOK
    <3>5. cut' \subseteq Devices
      <4>1. cut' \in {cut, cut \ {plan[step].dev}, cut \cup {plan[step].dev}}
        BY <2>2 DEF StartMount, StartFormat
      <4>2. plan[step].dev \in Devices /\ cut \subseteq Devices
        BY <3>1 DEF Calls, StartTypeOK
      <4> QED
        BY <4>1, <4>2
    <3> QED
      BY <2>1, <3>1, <3>3, <3>4, <3>5 DEF StartTypeOK
  <2>3. CASE StartReturn \/ Application \/ UNCHANGED startVars
    BY <2>1, <2>3 DEF StartReturn, Application, startVars, StartTypeOK
  <2> QED
    BY <2>2, <2>3 DEF StartNext
<1>3. Inv => StartTypeOK
  OBVIOUS
<1> QED
  BY MountsHold, <1>1, <1>2, <1>3, PTL DEF StartSpec

------------------------------------------------------------------------------
(* The refinement of Namespace *)

\* A mounted directory leads to the file system of its slot.
LEMMA OnDirIs ==
    ASSUME MountsInv
    PROVE  /\ OnDir = [d \in Dirs |-> OnDir[d]]
           /\ \A i \in InUse : mpDir[i] \in Dirs /\ OnDir[mpDir[i]] = mpFs[i]
           /\ \A d \in Dirs : d \notin Mounted => OnDir[d] = NULL
<1>1. \A i, j \in InUse : mpDir[i] = mpDir[j] => i = j
  BY DEF MountsInv, SlotsInv, InUse, Slots
<1>2. ASSUME NEW i \in InUse PROVE mpDir[i] \in Dirs /\ OnDir[mpDir[i]] = mpFs[i]
  <2>1. mpDir[i] \in Dirs
    BY DEF MountsInv, SlotsInv
  <2>2. OnDir[mpDir[i]] = mpFs[CHOOSE j \in InUse : mpDir[j] = mpDir[i]]
    BY <2>1 DEF OnDir
  <2>3. (CHOOSE j \in InUse : mpDir[j] = mpDir[i]) = i
    BY <1>1
  <2> QED
    BY <2>1, <2>2, <2>3
<1> QED
  BY <1>2 DEF OnDir, Mounted

LEMMA OnDirNext ==
    ASSUME MountsInv'
    PROVE  /\ OnDir' = [d \in Dirs |-> OnDir'[d]]
           /\ \A i \in InUse' : mpDir'[i] \in Dirs /\ OnDir'[mpDir'[i]] = mpFs'[i]
           /\ \A d \in Dirs : d \notin Mounted' => OnDir'[d] = NULL
<1>1. \A i, j \in InUse' : mpDir'[i] = mpDir'[j] => i = j
  BY DEF MountsInv, SlotsInv, InUse, Slots
<1>2. ASSUME NEW i \in InUse' PROVE mpDir'[i] \in Dirs /\ OnDir'[mpDir'[i]] = mpFs'[i]
  <2>1. mpDir'[i] \in Dirs
    BY DEF MountsInv, SlotsInv
  <2>2. OnDir'[mpDir'[i]] = mpFs'[CHOOSE j \in InUse' : mpDir'[j] = mpDir'[i]]
    BY <2>1 DEF OnDir
  <2>3. (CHOOSE j \in InUse' : mpDir'[j] = mpDir'[i]) = i
    BY <1>1
  <2> QED
    BY <2>1, <2>2, <2>3
<1> QED
  BY <1>2 DEF OnDir, Mounted

LEMMA PromiseMount ==
    ASSUME MountsInv, MountsInv', NEW d \in Dirs, NEW f \in FileSystems, NEW dev \in Devices,
           FsMount(d, f, dev)
    PROVE  Promise!Next
<1>1. CASE UNCHANGED <<mpFs, mpDir>>
  BY <1>1 DEF Promise!Next, Promise!Other, OnDir, InUse
<1>2. CASE ~UNCHANGED <<mpFs, mpDir>>
  <2> DEFINE i == Lowest(Free)
  <2>1. Free # {} /\ mpFs' = [mpFs EXCEPT ![i] = f] /\ last'.path = d
    BY <1>2 DEF FsMount, Returned
  <2>2. PICK reused \in SUBSET {j \in Free : mpDir[j] # NULL} :
           mpDir' = [j \in Slots |-> IF j \in {i} \cup reused THEN d ELSE mpDir[j]]
    BY <1>2 DEF FsMount
  <2>3. i \in Free
    BY <2>1, LowestIs DEF Free, Slots
  <2> HIDE DEF i
  <2>4. /\ mpFs \in [Slots -> FileSystems \cup {ELSEWHERE, NULL}]
        /\ i \in Slots /\ i \notin InUse
    BY <2>3 DEF MountsInv, TypeOK, Free, InUse
  <2>5. /\ InUse' = InUse \cup {i} /\ mpDir'[i] = d /\ mpFs'[i] = f
        /\ \A j \in InUse : mpDir'[j] = mpDir[j] /\ mpFs'[j] = mpFs[j]
    BY <2>1, <2>2, <2>4, NullAssumption, ElsewhereAssumption DEF InUse, Free
  <2>6. Mounted' = Mounted \cup {d} /\ d \notin Mounted
    BY <2>5 DEF Mounted, FsMount
  <2>7. \A e \in Dirs \ {d} : OnDir'[e] = OnDir[e]
    <3> SUFFICES ASSUME NEW e \in Dirs \ {d} PROVE OnDir'[e] = OnDir[e]
      OBVIOUS
    <3>1. CASE e \in Mounted
      <4>1. PICK j \in InUse : mpDir[j] = e
        BY <3>1 DEF Mounted
      <4> QED
        BY <2>5, <4>1, OnDirIs, OnDirNext
    <3>2. CASE e \notin Mounted
      BY <2>6, <3>2, OnDirIs, OnDirNext
    <3> QED
      BY <3>1, <3>2
  <2>8. OnDir[d] = NULL /\ OnDir'[d] = f
    BY <2>5, <2>6, OnDirIs, OnDirNext
  <2>9. \A e \in Dirs : OnDir[e] # f
    <3> SUFFICES ASSUME NEW e \in Dirs, OnDir[e] = f PROVE FALSE
      OBVIOUS
    <3>1. PICK j \in InUse : mpDir[j] = e
      BY OnDirIs, NullAssumption DEF Mounted
    <3> QED
      BY <3>1, OnDirIs DEF FsMount, Fresh
  <2>10. OnDir' = [OnDir EXCEPT ![d] = f]
    BY <2>7, <2>8, OnDirIs, OnDirNext
  <2> QED
    BY <2>1, <2>8, <2>9, <2>10 DEF Promise!Next, Promise!Mount
<1> QED
  BY <1>1, <1>2

LEMMA PromiseUnmount ==
    ASSUME Careful, MountsInv, MountsInv', NEW p \in Paths, FsUnmount(p)
    PROVE  Promise!Next
<1> DEFINE i == FindMountpoint(p)
<1>1. PICK k \in InUse : mpDir[k] = p
  BY DEF FsUnmount, MayName, Mounted
<1>2. i = k
  BY <1>1, Resolves
<1>3. p \in Dirs
  BY <1>1 DEF MountsInv, SlotsInv
<1>4. ~Unresolved("fs_unmount", p)
  BY <1>1, <1>2 DEF Unresolved
<1>5. mpFs' = [mpFs EXCEPT ![i] = NULL] /\ last'.path = p
  BY <1>4 DEF FsUnmount, Returned
<1>6. PICK gone \in SUBSET ({i} \cup {j \in Free : mpDir[j] # NULL}) :
         mpDir' = [j \in Slots |-> IF j \in gone THEN Garbage ELSE mpDir[j]]
  BY <1>4 DEF FsUnmount
<1> HIDE DEF i
<1>7. mpFs \in [Slots -> FileSystems \cup {ELSEWHERE, NULL}] /\ i \in Slots
  BY <1>2 DEF MountsInv, TypeOK, InUse
<1>8. /\ InUse' = InUse \ {i}
      /\ \A j \in InUse' : mpDir'[j] = mpDir[j] /\ mpFs'[j] = mpFs[j]
  BY <1>5, <1>6, <1>7 DEF InUse, Free
<1>9. \A j \in InUse : mpDir[j] = p => j = i
  BY <1>1, <1>2, Resolves
<1>10. \A e \in Dirs \ {p} : OnDir'[e] = OnDir[e]
  <2> SUFFICES ASSUME NEW e \in Dirs \ {p} PROVE OnDir'[e] = OnDir[e]
    OBVIOUS
  <2>1. CASE e \in Mounted
    <3>1. PICK j \in InUse : mpDir[j] = e
      BY <2>1 DEF Mounted
    <3>2. j \in InUse'
      BY <1>1, <1>2, <1>8, <3>1
    <3> QED
      BY <1>8, <3>1, <3>2, OnDirIs, OnDirNext
  <2>2. CASE e \notin Mounted
    <3>1. e \notin Mounted'
      BY <1>8, <2>2 DEF Mounted
    <3> QED
      BY <2>2, <3>1, OnDirIs, OnDirNext
  <2> QED
    BY <2>1, <2>2
<1>11. OnDir[p] # NULL /\ OnDir'[p] = NULL
  <2>1. OnDir[p] # NULL
    BY <1>1, OnDirIs DEF InUse
  <2>2. p \notin Mounted'
    BY <1>8, <1>9 DEF Mounted
  <2> QED
    BY <1>3, <2>1, <2>2, OnDirNext
<1>12. OnDir' = [OnDir EXCEPT ![p] = NULL]
  BY <1>10, <1>11, OnDirIs, OnDirNext
<1> QED
  BY <1>3, <1>5, <1>11, <1>12 DEF Promise!Next, Promise!Unmount

LEMMA PromiseStep ==
    ASSUME Careful, MountsInv, MountsInv', [Next]_vars
    PROVE  [Promise!Next]_(Promise!vars)
<1>1. ASSUME NEW f \in FileSystems, NEW dev \in Devices, NEW d \in Dirs, FsMount(d, f, dev)
      PROVE  Promise!Next
  BY <1>1, PromiseMount
<1>2. ASSUME NEW p \in Paths, FsUnmount(p) PROVE Promise!Next
  BY <1>2, PromiseUnmount
<1>3. CASE UNCHANGED <<mpFs, mpDir>>
  BY <1>3 DEF Promise!Next, Promise!Other, OnDir, InUse
<1>4. ASSUME NEW p \in Paths, FsReformat(p) \/ FsInfo(p) \/ PathCall(p)
      PROVE  UNCHANGED <<mpFs, mpDir>>
  BY <1>4 DEF FsReformat, FsInfo, PathCall, Unresolved
<1>5. ASSUME NEW f \in FileSystems, NEW dev \in Devices, FsFormat(f, dev)
      PROVE  UNCHANGED <<mpFs, mpDir>>
  BY <1>5 DEF FsFormat
<1>6. CASE Undefined \/ UNCHANGED vars
  BY <1>3, <1>6 DEF Undefined, vars
<1> QED
  BY <1>1, <1>2, <1>3, <1>4, <1>5, <1>6 DEF Next

\* For applications that pass mounted directories, the mount table is a name space in
\* which fs_mount adds what it is given and fs_unmount takes away what it is given.
THEOREM IsNamespace == ASSUME Careful PROVE StartSpec => NamespaceKept
<1>1. StartInit => Promise!Init
  <2> SUFFICES ASSUME StartInit PROVE Promise!Init
    OBVIOUS
  <2>1. InUse = {} /\ last.path = NULL
    BY DEF StartInit, InUse
  <2> QED
    BY <2>1 DEF Promise!Init, OnDir
<1>2. PlanInv /\ MountsInv /\ MountsInv' /\ [StartNext]_startVars
         => [Promise!Next]_(Promise!vars)
  BY StartIsNext, PromiseStep
<1>3. StartInv => PlanInv
  BY DEF StartInv
<1> QED
  BY StartInvInit, StartInvStep, MountsHold, <1>1, <1>2, <1>3, PTL
     DEF StartSpec, NamespaceKept, Promise!Spec

------------------------------------------------------------------------------
(* The lists of calls of the repository's fs_inits *)

FatMounts(calls) == {n \in MountCalls(calls) : calls[n].fs \in FatFileSystems}

Same(a, b) == a.dir = b.dir /\ a.fs = b.fs /\ a.dev = b.dev

\* Does every call that mounts what the n-th mounts come before step k?
Past(calls, n, k) == \A m \in MountCalls(calls) : Same(calls[m], calls[n]) => m < k

\* Does step k format a device that another step has mounted or tried to?
Reformats(calls, k) ==
    /\ k \in DOMAIN calls /\ calls[k].op = "format"
    /\ \E n \in MountCalls(calls) : calls[n].dev = calls[k].dev /\ calls[n].failed # Failed

\* Every call goes on to a later step or gives up; two directories, two mounts of a FAT
\* file system at most, and one file system for a device; the way past the calls that mount the same leads over one of
\* them that succeeded, and the way to a format over a mount that failed.
Ordered(calls) ==
    /\ calls \in Seq(Calls(Len(calls)))
    /\ \A a, b, c \in FatMounts(calls) : ~(a < b /\ b < c)
    /\ \A m, n \in MountCalls(calls) : calls[m].dev = calls[n].dev => calls[m].fs = calls[n].fs
    /\ ~Reformats(calls, 1)
    /\ \A k \in DOMAIN calls :
          /\ calls[k].dir \in {Root, Sub}
          /\ calls[k].ok > k /\ (calls[k].failed > k \/ calls[k].failed = Failed)
          /\ ~Reformats(calls, calls[k].ok)
          /\ Reformats(calls, calls[k].failed) =>
                 calls[k].op = "mount" /\ calls[k].dev = calls[calls[k].failed].dev
          /\ \A n \in MountCalls(calls) :
                /\ Past(calls, n, calls[k].failed) => Past(calls, n, k)
                /\ Past(calls, n, calls[k].ok) =>
                       Past(calls, n, k) \/ (k \in MountCalls(calls) /\ Same(calls[k], calls[n]))

LEMMA ThreeInSeq ==
    ASSUME NEW S, NEW a \in S, NEW b \in S, NEW c \in S
    PROVE  <<a, b, c>> \in Seq(S)
OBVIOUS

LEMMA SixInSeq ==
    ASSUME NEW S, NEW a \in S, NEW b \in S, NEW c \in S, NEW x \in S, NEW y \in S, NEW z \in S
    PROVE  <<a, b, c, x, y, z>> \in Seq(S)
OBVIOUS

LEMMA ThreeAndThree ==
    ASSUME NEW a, NEW b, NEW c, NEW x, NEW y, NEW z
    PROVE  <<a, b, c>> \o <<x, y, z>> = <<a, b, c, x, y, z>>
<1> DEFINE S == {a, b, c, x, y, z}
           s == <<a, b, c>>
           t == <<x, y, z>>
           u == <<a, b, c, x, y, z>>
<1>1. s \in Seq(S) /\ t \in Seq(S) /\ u \in Seq(S)
  BY ThreeInSeq, SixInSeq
<1>2. Len(s) = 3 /\ Len(t) = 3 /\ Len(u) = 6
  OBVIOUS
<1>3. /\ s[1] = a /\ s[2] = b /\ s[3] = c /\ t[1] = x /\ t[2] = y /\ t[3] = z
      /\ u[1] = a /\ u[2] = b /\ u[3] = c /\ u[4] = x /\ u[5] = y /\ u[6] = z
  OBVIOUS
<1> HIDE DEF S, s, t, u
<1>4. /\ s \o t \in Seq(S) /\ Len(s \o t) = 6
      /\ \A i \in 1 .. 6 : (s \o t)[i] = IF i <= 3 THEN s[i] ELSE t[i - 3]
  <2>1. /\ s \o t \in Seq(S) /\ Len(s \o t) = Len(s) + Len(t)
        /\ \A i \in 1 .. Len(s) + Len(t) :
              (s \o t)[i] = IF i <= Len(s) THEN s[i] ELSE t[i - Len(s)]
    BY <1>1, ConcatProperties
  <2> QED
    BY <1>2, <2>1
<1>5. ASSUME NEW i \in 1 .. 6 PROVE (s \o t)[i] = u[i]
  <2>1. (s \o t)[i] = IF i <= 3 THEN s[i] ELSE t[i - 3]
    BY <1>4
  <2>2. i \in {1, 2, 3, 4, 5, 6}
    OBVIOUS
  <2> QED
    BY <1>3, <2>1, <2>2
<1>6. s \o t = u
  BY <1>1, <1>2, <1>4, <1>5
<1> QED
  BY <1>6 DEF s, t, u

LEMMA GroupOrdered ==
    ASSUME NEW d \in {Root, Sub}, NEW f \in FileSystems, NEW dev \in Devices
    PROVE  Ordered(MountOrFormat(1, d, f, dev))
<1> DEFINE c == MountOrFormat(1, d, f, dev)
<1>1. /\ Len(c) = 3 /\ DOMAIN c = {1, 2, 3}
      /\ c[1] = Call("mount", d, f, dev, 4, 2)
      /\ c[2] = Call("format", d, f, dev, 3, Failed)
      /\ c[3] = Call("mount", d, f, dev, 4, Failed)
  BY DEF MountOrFormat
<1>2. c \in Seq(Calls(Len(c)))
  <2>1. \A i \in {1, 2, 3} : c[i] \in Calls(3)
    BY <1>1, StartUpAssumption DEF Call, Calls, Failed
  <2>2. c = <<c[1], c[2], c[3]>>
    BY DEF MountOrFormat
  <2> HIDE DEF c
  <2>3. <<c[1], c[2], c[3]>> \in Seq(Calls(3))
    BY <2>1, ThreeInSeq
  <2> QED
    BY <1>1, <2>2, <2>3
<1> HIDE DEF c
<1>3. MountCalls(c) = {1, 3} /\ FatMounts(c) \subseteq {1, 3}
  BY <1>1 DEF MountCalls, FatMounts, Call
<1>4. \A k : Reformats(c, k) => k = 2
  BY <1>1 DEF Reformats, Call
<1>5. \A n \in {1, 3}, k \in 0 .. 4 : Past(c, n, k) <=> k = 4
  BY <1>1, <1>3 DEF Past, Same, Call
<1>6. \A k \in DOMAIN c :
        /\ c[k].dir \in {Root, Sub}
        /\ c[k].ok > k /\ (c[k].failed > k \/ c[k].failed = Failed)
        /\ ~Reformats(c, c[k].ok)
        /\ Reformats(c, c[k].failed) =>
               c[k].op = "mount" /\ c[k].dev = c[c[k].failed].dev
  BY <1>1, <1>4 DEF Call, Failed
<1>7. \A k \in DOMAIN c, n \in MountCalls(c) :
        /\ Past(c, n, c[k].failed) => Past(c, n, k)
        /\ Past(c, n, c[k].ok) =>
               Past(c, n, k) \/ (k \in MountCalls(c) /\ Same(c[k], c[n]))
  BY <1>1, <1>3, <1>5 DEF Call, Failed, Same
<1>8. ~Reformats(c, 1) /\ \A i, j, k \in FatMounts(c) : ~(i < j /\ j < k)
  BY <1>3, <1>4
<1>9. \A m, n \in MountCalls(c) : c[m].dev = c[n].dev => c[m].fs = c[n].fs
  BY <1>1, <1>3 DEF Call
<1>10. Ordered(c)
  BY <1>2, <1>6, <1>7, <1>8, <1>9 DEF Ordered
<1> QED
  BY <1>10 DEF c

LEMMA GroupsOrdered ==
    ASSUME NEW d \in {Root, Sub}, NEW f \in FileSystems, NEW dev \in Devices,
           NEW e \in {Root, Sub}, NEW g \in FileSystems, NEW odev \in Devices,
           dev # odev, ~(f \in FatFileSystems /\ g \in FatFileSystems)
    PROVE  Ordered(MountOrFormat(1, d, f, dev) \o MountOrFormat(4, e, g, odev))
<1> DEFINE c == MountOrFormat(1, d, f, dev) \o MountOrFormat(4, e, g, odev)
<1>0. c = << Call("mount", d, f, dev, 4, 2), Call("format", d, f, dev, 3, Failed),
             Call("mount", d, f, dev, 4, Failed),
             Call("mount", e, g, odev, 7, 5), Call("format", e, g, odev, 6, Failed),
             Call("mount", e, g, odev, 7, Failed) >>
  BY ThreeAndThree DEF MountOrFormat
<1> HIDE DEF c
<1>1. /\ Len(c) = 6 /\ DOMAIN c = {1, 2, 3, 4, 5, 6}
      /\ c[1] = Call("mount", d, f, dev, 4, 2)
      /\ c[2] = Call("format", d, f, dev, 3, Failed)
      /\ c[3] = Call("mount", d, f, dev, 4, Failed)
      /\ c[4] = Call("mount", e, g, odev, 7, 5)
      /\ c[5] = Call("format", e, g, odev, 6, Failed)
      /\ c[6] = Call("mount", e, g, odev, 7, Failed)
  BY <1>0
<1>2. c \in Seq(Calls(Len(c)))
  <2>1. \A i \in {1, 2, 3, 4, 5, 6} : c[i] \in Calls(6)
    BY <1>1, StartUpAssumption DEF Call, Calls, Failed
  <2>2. c = <<c[1], c[2], c[3], c[4], c[5], c[6]>>
    BY <1>0, <1>1
  <2>3. <<c[1], c[2], c[3], c[4], c[5], c[6]>> \in Seq(Calls(6))
    BY <2>1, SixInSeq
  <2> QED
    BY <1>1, <2>2, <2>3
<1>3. /\ MountCalls(c) = {1, 3, 4, 6}
      /\ FatMounts(c) \subseteq {1, 3} \/ FatMounts(c) \subseteq {4, 6}
  BY <1>1 DEF MountCalls, FatMounts, Call
<1>4. \A k : Reformats(c, k) => k = 2 \/ k = 5
  BY <1>1 DEF Reformats, Call
<1>5. /\ \A n \in {1, 3}, k \in 0 .. 7 : Past(c, n, k) <=> k >= 4
      /\ \A n \in {4, 6}, k \in 0 .. 7 : Past(c, n, k) <=> k = 7
  BY <1>1, <1>3 DEF Past, Same, Call
<1>6. \A k \in DOMAIN c :
        /\ c[k].dir \in {Root, Sub}
        /\ c[k].ok > k /\ (c[k].failed > k \/ c[k].failed = Failed)
        /\ ~Reformats(c, c[k].ok)
        /\ Reformats(c, c[k].failed) =>
               c[k].op = "mount" /\ c[k].dev = c[c[k].failed].dev
  BY <1>1, <1>4 DEF Call, Failed
<1>7. \A k \in DOMAIN c, n \in MountCalls(c) :
        /\ Past(c, n, c[k].failed) => Past(c, n, k)
        /\ Past(c, n, c[k].ok) =>
               Past(c, n, k) \/ (k \in MountCalls(c) /\ Same(c[k], c[n]))
  BY <1>1, <1>3, <1>5 DEF Call, Failed, Same
<1>8. ~Reformats(c, 1) /\ \A i, j, k \in FatMounts(c) : ~(i < j /\ j < k)
  BY <1>3, <1>4
<1>9. \A m, n \in MountCalls(c) : c[m].dev = c[n].dev => c[m].fs = c[n].fs
  BY <1>1, <1>3 DEF Call
<1>10. Ordered(c)
  BY <1>2, <1>6, <1>7, <1>8, <1>9 DEF Ordered
<1> QED
  BY <1>10 DEF c

LEMMA DefaultOrdered ==
    ASSUME NEW dev \in Devices
    PROVE  Ordered(DefaultInit(dev))
<1> DEFINE c == DefaultInit(dev)
<1>1. /\ Len(c) = 3 /\ DOMAIN c = {1, 2, 3}
      /\ c[1] = Call("mount", Root, Lfs, dev, 4, 2)
      /\ c[2] = Call("format", Root, Lfs, dev, 3, 3)
      /\ c[3] = Call("mount", Root, Lfs, dev, 4, Failed)
      /\ c = <<c[1], c[2], c[3]>>
  BY DEF DefaultInit
<1> HIDE DEF c
<1>2. c \in Seq(Calls(Len(c)))
  <2>1. \A i \in {1, 2, 3} : c[i] \in Calls(3)
    BY <1>1, StartUpAssumption DEF Call, Calls, Failed
  <2>2. <<c[1], c[2], c[3]>> \in Seq(Calls(3))
    BY <2>1, ThreeInSeq
  <2> QED
    BY <1>1, <2>2
<1>3. MountCalls(c) = {1, 3} /\ FatMounts(c) \subseteq {1, 3}
  BY <1>1 DEF MountCalls, FatMounts, Call
<1>4. \A k : Reformats(c, k) => k = 2
  BY <1>1 DEF Reformats, Call
<1>5. \A n \in {1, 3}, k \in 0 .. 4 : Past(c, n, k) <=> k = 4
  BY <1>1, <1>3 DEF Past, Same, Call
<1>6. \A k \in DOMAIN c :
        /\ c[k].dir \in {Root, Sub}
        /\ c[k].ok > k /\ (c[k].failed > k \/ c[k].failed = Failed)
        /\ ~Reformats(c, c[k].ok)
        /\ Reformats(c, c[k].failed) =>
               c[k].op = "mount" /\ c[k].dev = c[c[k].failed].dev
  BY <1>1, <1>4 DEF Call, Failed
<1>7. \A k \in DOMAIN c, n \in MountCalls(c) :
        /\ Past(c, n, c[k].failed) => Past(c, n, k)
        /\ Past(c, n, c[k].ok) =>
               Past(c, n, k) \/ (k \in MountCalls(c) /\ Same(c[k], c[n]))
  BY <1>1, <1>3, <1>5 DEF Call, Failed, Same
<1>8. ~Reformats(c, 1) /\ \A i, j, k \in FatMounts(c) : ~(i < j /\ j < k)
  BY <1>3, <1>4
<1>9. \A m, n \in MountCalls(c) : c[m].dev = c[n].dev => c[m].fs = c[n].fs
  BY <1>1, <1>3 DEF Call
<1>10. Ordered(c)
  BY <1>2, <1>6, <1>7, <1>8, <1>9 DEF Ordered
<1> QED
  BY <1>10 DEF c

LEMMA UsbLoggerOrdered ==
    ASSUME NEW fat \in FatFileSystems, NEW dev \in Devices, NEW odev \in Devices, dev # odev
    PROVE  Ordered(UsbLoggerInit(fat, dev, odev))
<1> DEFINE c == UsbLoggerInit(fat, dev, odev)
<1>1. /\ Len(c) = 3 /\ DOMAIN c = {1, 2, 3}
      /\ c[1] = Call("format", Sub, Lfs, dev, 2, Failed)
      /\ c[2] = Call("format", Sub, fat, odev, 3, Failed)
      /\ c[3] = Call("mount", Sub, Lfs, dev, 4, Failed)
      /\ c = <<c[1], c[2], c[3]>>
  BY DEF UsbLoggerInit
<1> HIDE DEF c
<1>2. c \in Seq(Calls(Len(c)))
  <2>1. \A i \in {1, 2, 3} : c[i] \in Calls(3)
    BY <1>1, StartUpAssumption, FatAssumption DEF Call, Calls, Failed
  <2>2. <<c[1], c[2], c[3]>> \in Seq(Calls(3))
    BY <2>1, ThreeInSeq
  <2> QED
    BY <1>1, <2>2
<1>3. MountCalls(c) = {3} /\ FatMounts(c) \subseteq {3}
  BY <1>1 DEF MountCalls, FatMounts, Call
<1>4. \A k : ~Reformats(c, k)
  BY <1>1, <1>3 DEF Reformats, Call
<1>5. \A k \in 0 .. 4 : Past(c, 3, k) <=> k = 4
  BY <1>1, <1>3 DEF Past, Same, Call
<1>6. \A k \in DOMAIN c :
        /\ c[k].dir \in {Root, Sub}
        /\ c[k].ok > k /\ (c[k].failed > k \/ c[k].failed = Failed)
        /\ ~Reformats(c, c[k].ok)
        /\ Reformats(c, c[k].failed) =>
               c[k].op = "mount" /\ c[k].dev = c[c[k].failed].dev
  BY <1>1, <1>4 DEF Call, Failed
<1>7. \A k \in DOMAIN c, n \in MountCalls(c) :
        /\ Past(c, n, c[k].failed) => Past(c, n, k)
        /\ Past(c, n, c[k].ok) =>
               Past(c, n, k) \/ (k \in MountCalls(c) /\ Same(c[k], c[n]))
  BY <1>1, <1>3, <1>5 DEF Call, Failed, Same
<1>8. ~Reformats(c, 1) /\ \A i, j, k \in FatMounts(c) : ~(i < j /\ j < k)
  BY <1>3, <1>4
<1>9. \A m, n \in MountCalls(c) : c[m].dev = c[n].dev => c[m].fs = c[n].fs
  BY <1>1, <1>3 DEF Call
<1>10. Ordered(c)
  BY <1>2, <1>6, <1>7, <1>8, <1>9 DEF Ordered
<1> QED
  BY <1>10 DEF c

LEMMA FsInitsOrdered ==
    ASSUME NEW fat \in FatFileSystems, NEW onboard \in Devices, NEW other \in Devices,
           onboard # other, NEW calls \in FsInits(fat, onboard, other)
    PROVE  Ordered(calls)
<1>1. fat \in FileSystems /\ Lfs \in FileSystems /\ Lfs \notin FatFileSystems
  BY StartUpAssumption, FatAssumption
<1>2. \A d \in {Root, Sub}, f \in FileSystems, dev \in Devices :
        Ordered(MountOrFormat(1, d, f, dev))
  BY GroupOrdered
<1>3. /\ Ordered(LittlefsInit(onboard)) /\ Ordered(FatInit(fat, onboard))
      /\ Ordered(LoggerInit(fat, other))
  BY <1>1, <1>2 DEF LittlefsInit, FatInit, LoggerInit
<1>4. /\ Ordered(FatSdInit(fat, onboard, other)) /\ Ordered(HeapInit(fat, onboard, other))
      /\ Ordered(LoopbackInit(fat, onboard, other)) /\ Ordered(HelloInit(fat, onboard, other))
  BY <1>1, GroupsOrdered DEF FatSdInit, HeapInit, LoopbackInit, HelloInit
<1> QED
  BY <1>3, <1>4, DefaultOrdered, UsbLoggerOrdered DEF FsInits

------------------------------------------------------------------------------
(* What the calls of a start-up do to volumes and media *)

\* What a file system mounts.
Mountable(f) == IF f \in FatFileSystems THEN FatMedia ELSE {"littlefs"}

\* A mount leaves the media alone, takes one volume at most, and succeeds only on a
\* medium of its own kind.
MountsOnly(l, k, f, dev, answer) ==
    /\ k.media = l.media /\ answer \in {"ok", "EIO", "ENOMEM"}
    /\ answer = "ok" => l.media[dev] \in Mountable(f)
    /\ answer = "ENOMEM" => f \in FatFileSystems /\ \A v \in Volumes : l.ffs[v] # NULL
    /\ \/ k.ffs = l.ffs
       \/ f \in FatFileSystems /\ \E v \in Volumes : k.ffs = [l.ffs EXCEPT ![v] = dev]

\* A format gives back the volume it took, and changes one medium.
FormatsOnly(l, k, dev) ==
    k.ffs = l.ffs /\ \A e \in Devices \ {dev} : k.media[e] = l.media[e]

LEMMA InitializeEffect ==
    ASSUME NEW l, Sound(l), NEW dev \in Devices, NEW o \in Initialize(l, dev)
    PROVE  o.low.ffs = l.ffs /\ o.low.media = l.media /\ o.answer \in {"ok", "EIO"}
<1> DEFINE r == [l EXCEPT !.ready[dev] = TRUE]
<1>1. o = Outcome(r, "ok") \/ o = Outcome(l, "EIO")
  BY DEF Initialize
<1>2. r.ffs = l.ffs /\ r.media = l.media
  BY DEF Sound, Lower
<1> HIDE DEF r
<1> QED
  BY <1>1, <1>2 DEF Outcome

LEMMA FatMountEffect ==
    ASSUME NEW l, Sound(l), NEW f \in FatFileSystems, NEW dev \in Devices,
           NEW o \in FatMount(l, f, dev, FALSE)
    PROVE  MountsOnly(l, o.low, f, dev, o.answer)
<1> DEFINE unused == {v \in Volumes : l.ffs[v] = NULL}
           v == Lowest(unused)
           taken == [l EXCEPT !.id[f] = v, !.ffs[v] = dev, !.registered[v] = f]
<1>1. CASE unused = {}
  <2>1. o = Outcome(l, "ENOMEM")
    BY <1>1 DEF FatMount
  <2> QED
    BY <1>1, <2>1 DEF Outcome, MountsOnly
<1>2. CASE unused # {}
  <2>1. v \in Volumes
    BY <1>2, LowestIs DEF Volumes
  <2>2. /\ o.low = taken /\ o.answer \in {"ok", "EIO"}
        /\ o.answer = "ok" => l.media[dev] \in FatMedia
    <3>1. PICK a \in {"ok", "EIO"} :
             o = Outcome(taken, a) /\ (a = "ok" => l.media[dev] \in FatMedia)
      BY <1>2 DEF FatMount
    <3> HIDE DEF taken
    <3> QED
      BY <3>1 DEF Outcome
  <2> HIDE DEF v
  <2>3. taken.media = l.media /\ taken.ffs = [l.ffs EXCEPT ![v] = dev]
    BY <2>1 DEF Sound, Lower
  <2> HIDE DEF taken
  <2> QED
    BY <2>1, <2>2, <2>3 DEF MountsOnly, Mountable
<1> QED
  BY <1>1, <1>2

LEMMA MountEffect ==
    ASSUME NEW l, Sound(l), NEW f \in FileSystems, NEW dev \in Devices,
           NEW o \in Mount(l, f, dev)
    PROVE  MountsOnly(l, o.low, f, dev, o.answer)
<1>1. CASE f \in FatFileSystems
  BY <1>1, FatMountEffect DEF Mount
<1>2. CASE f \notin FatFileSystems
  <2> DEFINE down == [l EXCEPT !.up[f] = FALSE]
             up == [l EXCEPT !.up[f] = TRUE]
  <2>1. \/ o = Outcome(l, "EIO") \/ o = Outcome(down, "EIO")
        \/ o = Outcome(up, "ok") /\ l.media[dev] = "littlefs"
    BY <1>2 DEF Mount, LfsMount
  <2>2. /\ down.ffs = l.ffs /\ down.media = l.media
        /\ up.ffs = l.ffs /\ up.media = l.media
    BY DEF Sound, Lower
  <2> HIDE DEF down, up
  <2>3. /\ o.low.ffs = l.ffs /\ o.low.media = l.media /\ o.answer \in {"ok", "EIO"}
        /\ o.answer = "ok" => l.media[dev] = "littlefs"
    BY <2>1, <2>2 DEF Outcome
  <2> QED
    BY <1>2, <2>3 DEF MountsOnly, Mountable
<1> QED
  BY <1>1, <1>2

\* mount() of fat.c has taken volume v.
Taken(l, f, dev, v) == [l EXCEPT !.id[f] = v, !.ffs[v] = dev, !.registered[v] = f]

LEMMA TakenGivenBack ==
    ASSUME NEW l, Sound(l), NEW f \in FatFileSystems, NEW dev \in Devices,
           NEW v \in Volumes, l.ffs[v] = NULL
    PROVE  LET u == FatUnmount(Taken(l, f, dev, v), f).low
               fat == [u EXCEPT !.media[dev] = "fat"]
               half == [u EXCEPT !.media[dev] = "half"]
           IN  /\ FormatsOnly(l, u, dev)
               /\ FormatsOnly(l, fat, dev) /\ FormatsOnly(l, half, dev)
<1> DEFINE taken == Taken(l, f, dev, v)
           u == FatUnmount(taken, f).low
           fat == [u EXCEPT !.media[dev] = "fat"]
           half == [u EXCEPT !.media[dev] = "half"]
<1>1. /\ taken \in Lower /\ taken.id = [l.id EXCEPT ![f] = v]
      /\ taken.ffs = [l.ffs EXCEPT ![v] = dev] /\ taken.media = l.media
  BY DEF Sound, Lower, Taken
<1>2. l.id \in [FatFileSystems -> {-1} \cup Volumes] /\ l.ffs \in [Volumes -> Devices \cup {NULL}]
  BY DEF Sound, Lower
<1> HIDE DEF taken
<1>3. taken.id[f] = v /\ v # -1
  BY <1>1, <1>2 DEF Volumes
<1>4. u = [taken EXCEPT !.ffs[v] = NULL, !.registered[v] = NULL]
  BY <1>3 DEF FatUnmount, Outcome
<1> HIDE DEF u
<1>5. u.ffs = [taken.ffs EXCEPT ![v] = NULL] /\ u.media = taken.media /\ u \in Lower
  BY <1>1, <1>4 DEF Lower
<1>6. u.ffs = l.ffs
  BY <1>1, <1>2, <1>5
<1>7. /\ fat.ffs = u.ffs /\ \A e \in Devices \ {dev} : fat.media[e] = u.media[e]
      /\ half.ffs = u.ffs /\ \A e \in Devices \ {dev} : half.media[e] = u.media[e]
  BY <1>5 DEF Lower
<1> HIDE DEF fat, half
<1>8. FormatsOnly(l, u, dev) /\ FormatsOnly(l, fat, dev) /\ FormatsOnly(l, half, dev)
  BY <1>1, <1>5, <1>6, <1>7 DEF FormatsOnly
<1> QED
  BY <1>8 DEF taken, u, fat, half

LEMMA FatPendingMount ==
    ASSUME NEW l, NEW f \in FatFileSystems, NEW dev \in Devices,
           NEW o \in FatMount(l, f, dev, TRUE)
    PROVE  \/ o.low = l /\ o.answer = "ENOMEM"
           \/ \E v \in Volumes :
                 /\ l.ffs[v] = NULL
                 /\ o.low = Taken(l, f, dev, v) /\ o.answer = "ok"
<1> DEFINE unused == {v \in Volumes : l.ffs[v] = NULL}
           v == Lowest(unused)
<1>1. CASE unused = {}
  BY <1>1 DEF FatMount, Outcome
<1>2. CASE unused # {}
  <2>1. v \in Volumes /\ l.ffs[v] = NULL
    BY <1>2, LowestIs DEF Volumes
  <2>2. o = Outcome(Taken(l, f, dev, v), "ok")
    BY <1>2 DEF FatMount, Taken
  <2> HIDE DEF v
  <2> QED
    BY <2>1, <2>2 DEF Outcome
<1> QED
  BY <1>1, <1>2

\* The volume that f_mkfs was given was a free one, and is free again.
LEMMA FatFormatEffect ==
    ASSUME NEW l, Sound(l), NEW f \in FatFileSystems, NEW dev \in Devices,
           NEW o \in FatFormat(l, f, dev)
    PROVE  FormatsOnly(l, o.low, dev)
<1> DEFINE b == Blanked(l, dev)
<1>1. FormatsOnly(l, b, dev) /\ FormatsOnly(l, l, dev) /\ Sound(b)
  <2>1. Keeps(l, b, f)
    BY DeviceKeeps, FatAssumption DEF Blanked, Media
  <2> QED
    BY <2>1 DEF Blanked, Sound, Lower, Keeps, FormatsOnly
<1> HIDE DEF b
<1>2. CASE o \in {Outcome(l, "EIO"), Outcome(b, "EIO"), Outcome(b, "ENOMEM")}
  <2>1. o.low = l \/ o.low = b
    BY <1>2 DEF Outcome
  <2> QED
    BY <1>1, <2>1
<1>3. CASE o \in FatMount(b, f, dev, TRUE) /\ o.answer # "ok"
  <2>1. o.low = b
    BY <1>3, FatPendingMount
  <2> QED
    BY <1>1, <2>1
<1>4. ASSUME NEW q \in FatMount(b, f, dev, TRUE), q.answer = "ok",
             \/ o = Outcome(FatUnmount(q.low, f).low, "EIO")
             \/ o = Outcome([FatUnmount(q.low, f).low EXCEPT !.media[dev] = "half"], "EIO")
             \/ o = Outcome([FatUnmount(q.low, f).low EXCEPT !.media[dev] = "fat"], "ok")
      PROVE  FormatsOnly(l, o.low, dev)
  <2>1. PICK v \in Volumes : b.ffs[v] = NULL /\ q.low = Taken(b, f, dev, v)
    BY <1>4, FatPendingMount
  <2> DEFINE u == FatUnmount(q.low, f).low
  <2>2. /\ FormatsOnly(b, u, dev)
        /\ FormatsOnly(b, [u EXCEPT !.media[dev] = "half"], dev)
        /\ FormatsOnly(b, [u EXCEPT !.media[dev] = "fat"], dev)
    BY <1>1, <2>1, TakenGivenBack
  <2>3. \/ o.low = u \/ o.low = [u EXCEPT !.media[dev] = "half"]
        \/ o.low = [u EXCEPT !.media[dev] = "fat"]
    BY <1>4 DEF Outcome
  <2> HIDE DEF u
  <2> QED
    BY <1>1, <2>2, <2>3 DEF FormatsOnly
<1> QED
  BY <1>2, <1>3, <1>4 DEF FatFormat, Then, b

LEMMA FormatEffect ==
    ASSUME NEW l, Sound(l), NEW f \in FileSystems, NEW dev \in Devices,
           NEW o \in Format(l, f, dev)
    PROVE  FormatsOnly(l, o.low, dev)
<1>1. CASE f \in FatFileSystems
  BY <1>1, FatFormatEffect DEF Format
<1>2. CASE f \notin FatFileSystems
  <2> DEFINE down == [l EXCEPT !.up[f] = FALSE]
             with(m) == [down EXCEPT !.media[dev] = m]
  <2>1. /\ down.ffs = l.ffs /\ down.media = l.media /\ l.media \in [Devices -> Media]
        /\ DOMAIN down = DOMAIN l /\ "media" \in DOMAIN down
    BY DEF Sound, Lower
  <2>2. \/ o = Outcome(l, "EIO") \/ o = Outcome(down, "EIO")
        \/ \E m \in Media, a \in {"ok", "EIO"} : o = Outcome(with(m), a)
    <3>1. o \in {Outcome(l, "EIO"), Outcome(down, "EIO"), Outcome(Blanked(down, dev), "EIO"),
                 Outcome([down EXCEPT !.media[dev] = "littlefs"], "ok"),
                 Outcome([down EXCEPT !.media[dev] = "littlefs"], "EIO")}
      BY <1>2 DEF Format, LfsFormat
    <3> HIDE DEF down
    <3> QED
      BY <3>1 DEF Blanked, Media
  <2>3. ASSUME NEW m \in Media
        PROVE  /\ with(m).ffs = l.ffs
               /\ \A e \in Devices \ {dev} : with(m).media[e] = l.media[e]
    BY DEF Sound, Lower
  <2> HIDE DEF down, with
  <2> QED
    BY <2>1, <2>2, <2>3 DEF Outcome, FormatsOnly
<1> QED
  BY <1>1, <1>2

\* A format that succeeds leaves the file system whole.
LEMMA FormatWhole ==
    ASSUME NEW l, Sound(l), NEW f \in FileSystems, NEW dev \in Devices,
           NEW o \in Format(l, f, dev), o.answer = "ok"
    PROVE  o.low.media[dev] = KindOf(f)
<1> DEFINE with(k, m) == [k EXCEPT !.media[dev] = m]
<1>1. ASSUME NEW k \in Lower, NEW m PROVE with(k, m).media[dev] = m
  BY DEF Lower
<1>2. CASE f \in FatFileSystems
  <2> DEFINE b == Blanked(l, dev)
  <2>1. Sound(b)
    BY DeviceKeeps DEF Blanked, Media, Keeps
  <2>2. PICK q \in FatMount(b, f, dev, TRUE) :
           o.low = with(FatUnmount(q.low, f).low, "fat")
    <3> HIDE DEF b, with
    <3>1. o \in Then(FatMount(b, f, dev, TRUE),
                    LAMBDA k : LET u == FatUnmount(k, f).low
                               IN  {Outcome(u, "EIO"),
                                    Outcome([u EXCEPT !.media[dev] = "half"], "EIO"),
                                    Outcome([u EXCEPT !.media[dev] = "fat"], "ok")})
      <4>1. o \notin {Outcome(l, "EIO"), Outcome(b, "EIO"), Outcome(b, "ENOMEM")}
        BY DEF Outcome
      <4> QED
        BY <1>2, <4>1 DEF Format, FatFormat, b
    <3>2. PICK q \in FatMount(b, f, dev, TRUE) :
             \/ o = q /\ q.answer # "ok"
             \/ o \in {Outcome(FatUnmount(q.low, f).low, "EIO"),
                       Outcome([FatUnmount(q.low, f).low EXCEPT !.media[dev] = "half"], "EIO"),
                       Outcome([FatUnmount(q.low, f).low EXCEPT !.media[dev] = "fat"], "ok")}
      BY <3>1 DEF Then
    <3>3. o = Outcome([FatUnmount(q.low, f).low EXCEPT !.media[dev] = "fat"], "ok")
      BY <3>2 DEF Outcome
    <3> QED
      BY <3>3 DEF Outcome, with
  <2> HIDE DEF b, with
  <2>3. Sound(q.low)
    BY <1>2, <2>1, FatMountKeeps DEF Keeps
  <2>4. FatUnmount(q.low, f).low \in Lower
    BY <1>2, <2>3, FatUnmountKeeps DEF Sound
  <2> QED
    BY <1>1, <1>2, <2>2, <2>4 DEF KindOf
<1>3. CASE f \notin FatFileSystems
  <2> DEFINE down == [l EXCEPT !.up[f] = FALSE]
  <2>1. down \in Lower
    BY <1>3, BuffersKeep DEF Keeps, Sound
  <2>2. o.low = with(down, "littlefs")
    <3>1. o \in {Outcome(l, "EIO"), Outcome(down, "EIO"), Outcome(Blanked(down, dev), "EIO"),
                 Outcome(with(down, "littlefs"), "ok"), Outcome(with(down, "littlefs"), "EIO")}
      BY <1>3 DEF Format, LfsFormat
    <3> HIDE DEF down, with
    <3> QED
      BY <3>1 DEF Outcome
  <2> HIDE DEF down, with
  <2> QED
    BY <1>1, <1>3, <2>1, <2>2 DEF KindOf
<1> QED
  BY <1>2, <1>3

LEMMA InitializeMountEffect ==
    ASSUME NEW l, Sound(l), NEW f \in FileSystems, NEW dev \in Devices,
           NEW o \in Then(Initialize(l, dev), LAMBDA k : Mount(k, f, dev))
    PROVE  MountsOnly(l, o.low, f, dev, o.answer)
<1>1. CASE o \in Initialize(l, dev) /\ o.answer # "ok"
  BY <1>1, InitializeEffect DEF MountsOnly
<1>2. ASSUME NEW q \in Initialize(l, dev), o \in Mount(q.low, f, dev)
      PROVE  MountsOnly(l, o.low, f, dev, o.answer)
  <2>1. Sound(q.low) /\ q.low.ffs = l.ffs /\ q.low.media = l.media
    BY InitializeKeeps, InitializeEffect DEF Keeps
  <2>2. MountsOnly(q.low, o.low, f, dev, o.answer)
    BY <1>2, <2>1, MountEffect
  <2> QED
    BY <2>1, <2>2 DEF MountsOnly
<1> QED
  BY <1>1, <1>2 DEF Then

LEMMA InitializeFormatEffect ==
    ASSUME NEW l, Sound(l), NEW f \in FileSystems, NEW dev \in Devices,
           NEW o \in Then(Initialize(l, dev), LAMBDA k : Format(k, f, dev))
    PROVE  /\ FormatsOnly(l, o.low, dev)
           /\ o.answer = "ok" => o.low.media[dev] = KindOf(f)
<1>1. CASE o \in Initialize(l, dev) /\ o.answer # "ok"
  BY <1>1, InitializeEffect DEF FormatsOnly
<1>2. ASSUME NEW q \in Initialize(l, dev), o \in Format(q.low, f, dev)
      PROVE  /\ FormatsOnly(l, o.low, dev)
             /\ o.answer = "ok" => o.low.media[dev] = KindOf(f)
  <2>1. Sound(q.low) /\ q.low.ffs = l.ffs /\ q.low.media = l.media
    BY InitializeKeeps, InitializeEffect DEF Keeps
  <2>2. FormatsOnly(q.low, o.low, dev)
    BY <1>2, <2>1, FormatEffect
  <2>3. o.answer = "ok" => o.low.media[dev] = KindOf(f)
    BY <1>2, <2>1, FormatWhole
  <2> QED
    BY <2>1, <2>2, <2>3 DEF FormatsOnly
<1> QED
  BY <1>1, <1>2 DEF Then

------------------------------------------------------------------------------
(* The start-ups of the repository *)

OwnStartUps ==
    \A fat \in FatFileSystems, flash, other \in Devices :
        flash # other => StartUps(fat, flash, other) \subseteq FsInits(fat, flash, other)

\* What a call mounts is mounted, on a medium of its kind.
InPlace(call) ==
    \E i \in InUse : /\ mpDir[i] = call.dir /\ mpFs[i] = call.fs /\ mpDevice[i] = call.dev
                     /\ low.media[call.dev] \in Mountable(call.fs)

OrderInv == Starting => Ordered(plan)

PlaceInv == \A n \in MountCalls(plan) : Past(plan, n, step) => InPlace(plan[n])

\* Half a FAT on a device is that of a format that was cut short.
CutInv ==
    Starting => \A d \in Devices : low.media[d] = "half" => d \in cut

\* A start-up uses the slots of its two directories, and one volume for each call so far
\* that mounts a FAT file system.
RoomInv ==
    Starting =>
        /\ \A i \in Slots : mpFs[i] # ELSEWHERE
        /\ \A i \in InUse : mpDir[i] \in {Root, Sub}
        /\ step # Failed =>
              \A v \in Volumes : low.ffs[v] # NULL =>
                  /\ \E a \in FatMounts(plan) : a < step
                  /\ \A w \in Volumes : low.ffs[w] # NULL =>
                         w = v \/ \E a, b \in FatMounts(plan) : a < b /\ b < step
        /\ last.op = "fs_mount" => last.answer \notin {"ENOMEM", "EFAULT"}

UnreadInv ==
    Reformats(plan, step) =>
        \A n \in MountCalls(plan) :
            plan[n].dev = plan[step].dev =>
                plan[n].dev \in unread \/ low.media[plan[n].dev] # KindOf(plan[n].fs)

LEMMA OrderInit ==
    OwnStartUps /\ StartInit => OrderInv /\ PlaceInv /\ CutInv /\ RoomInv /\ UnreadInv
<1> SUFFICES ASSUME OwnStartUps, StartInit
             PROVE  OrderInv /\ PlaceInv /\ CutInv /\ RoomInv /\ UnreadInv
  OBVIOUS
<1>0. CutInv
  BY DEF StartInit, CutInv, Starting
<1>1. OrderInv
  BY FsInitsOrdered DEF OwnStartUps, StartInit, OrderInv, Starting
<1>2. CASE ~Starting
  BY <1>0, <1>2 DEF OrderInv, PlaceInv, RoomInv, UnreadInv, Starting, MountCalls, Reformats
<1>3. CASE Starting
  <2>1. /\ mpFs = [i \in Slots |-> NULL] /\ low.ffs = [v \in Volumes |-> NULL]
        /\ step = 1 /\ last.op = "boot"
    BY <1>3 DEF StartInit, Starting
  <2>2. Ordered(plan) /\ plan \in Seq(Calls(Len(plan)))
    BY <1>1, <1>3 DEF OrderInv, Ordered
  <2>3. PlaceInv
    BY <2>1, <2>2 DEF PlaceInv, Past, Same, MountCalls
  <2>4. UnreadInv
    BY <2>1, <2>2 DEF UnreadInv, Ordered
  <2>5. RoomInv
    BY <2>1, ElsewhereAssumption DEF RoomInv, InUse
  <2> QED
    BY <1>0, <1>1, <2>3, <2>4, <2>5
<1> QED
  BY <1>2, <1>3

LEMMA MountCallEffect ==
    ASSUME MountsInv, NEW d \in Dirs, NEW f \in FileSystems, NEW dev \in Devices,
           FsMount(d, f, dev)
    PROVE  /\ d \notin Mounted /\ Fresh(f, dev) /\ last'.op = "fs_mount"
           /\ \E a :
                 /\ MountsOnly(low, low', f, dev, a)
                 /\ \/ /\ a = "ok" /\ last'.answer = "ok"
                       /\ \E i \in Free :
                             /\ InUse' = InUse \cup {i}
                             /\ mpDir'[i] = d /\ mpFs'[i] = f /\ mpDevice'[i] = dev
                             /\ \A j \in Slots \ {i} : mpFs'[j] = mpFs[j]
                             /\ \A j \in InUse : /\ mpDir'[j] = mpDir[j]
                                                 /\ mpDevice'[j] = mpDevice[j]
                    \/ /\ a # "ok" /\ last'.answer = a
                       /\ UNCHANGED <<mpFs, mpDevice, mpDir>>
                    \/ /\ a = "ok" /\ Free = {} /\ last'.answer = "EFAULT"
                       /\ UNCHANGED <<mpFs, mpDevice, mpDir>>
<1> DEFINE i == Lowest(Free)
<1>1. Sound(low)
  BY DEF MountsInv, TypeOK, Sound, RegistryConsistent
<1>2. PICK o \in Then(Initialize(low, dev), LAMBDA l : Mount(l, f, dev)) :
        /\ low' = o.low
        /\ IF o.answer = "ok" /\ Free # {}
             THEN /\ mpFs' = [mpFs EXCEPT ![i] = f]
                  /\ mpDevice' = [mpDevice EXCEPT ![i] = dev]
                  /\ \E reused \in SUBSET {j \in Free : mpDir[j] # NULL} :
                        mpDir' = [j \in Slots |->
                                     IF j \in {i} \cup reused THEN d ELSE mpDir[j]]
                  /\ Returned("fs_mount", d, "ok")
             ELSE /\ UNCHANGED <<mpFs, mpDevice, mpDir>>
                  /\ Returned("fs_mount", d, IF o.answer = "ok" THEN "EFAULT" ELSE o.answer)
  BY DEF FsMount
<1>3. MountsOnly(low, low', f, dev, o.answer)
  BY <1>1, <1>2, InitializeMountEffect
<1>4. d \notin Mounted /\ Fresh(f, dev)
  BY DEF FsMount
<1>5. CASE o.answer = "ok" /\ Free # {}
  <2>1. PICK reused \in SUBSET {j \in Free : mpDir[j] # NULL} :
           mpDir' = [j \in Slots |-> IF j \in {i} \cup reused THEN d ELSE mpDir[j]]
    BY <1>2, <1>5
  <2>2. /\ mpFs' = [mpFs EXCEPT ![i] = f] /\ mpDevice' = [mpDevice EXCEPT ![i] = dev]
        /\ last'.op = "fs_mount" /\ last'.answer = "ok"
    BY <1>2, <1>5 DEF Returned
  <2>3. i \in Free
    BY <1>5, LowestIs DEF Free, Slots
  <2> HIDE DEF i
  <2>4. /\ mpFs \in [Slots -> FileSystems \cup {ELSEWHERE, NULL}]
        /\ mpDevice \in [Slots -> Devices \cup {NULL}]
        /\ i \in Slots /\ mpFs[i] = NULL
    BY <2>3 DEF MountsInv, TypeOK, Free
  <2>5. InUse' = InUse \cup {i}
    BY <2>2, <2>4, NullAssumption, ElsewhereAssumption DEF InUse
  <2>6. /\ mpDir'[i] = d /\ mpFs'[i] = f /\ mpDevice'[i] = dev
        /\ \A j \in Slots \ {i} : mpFs'[j] = mpFs[j] /\ mpDevice'[j] = mpDevice[j]
        /\ \A j \in InUse : mpDir'[j] = mpDir[j] /\ mpDevice'[j] = mpDevice[j]
    BY <2>1, <2>2, <2>4 DEF InUse, Free
  <2> QED
    BY <1>3, <1>4, <1>5, <2>2, <2>3, <2>5, <2>6
<1>6. CASE o.answer # "ok"
  <2>1. /\ UNCHANGED <<mpFs, mpDevice, mpDir>>
        /\ last'.op = "fs_mount" /\ last'.answer = o.answer
    BY <1>2, <1>6 DEF Returned
  <2> QED
    BY <1>3, <1>4, <1>6, <2>1
<1>7. CASE o.answer = "ok" /\ Free = {}
  <2>1. /\ UNCHANGED <<mpFs, mpDevice, mpDir>>
        /\ last'.op = "fs_mount" /\ last'.answer = "EFAULT"
    BY <1>2, <1>7 DEF Returned
  <2> QED
    BY <1>3, <1>4, <1>7, <2>1
<1> QED
  BY <1>5, <1>6, <1>7

LEMMA FormatCallEffect ==
    ASSUME MountsInv, NEW f \in FileSystems, NEW dev \in Devices, FsFormat(f, dev)
    PROVE  /\ FormatsOnly(low, low', dev) /\ Fresh(f, dev) /\ last'.op = "fs_format"
           /\ last'.answer = "ok" => low'.media[dev] = KindOf(f)
           /\ UNCHANGED <<mpFs, mpDevice, mpDir>>
<1>1. Sound(low)
  BY DEF MountsInv, TypeOK, Sound, RegistryConsistent
<1>2. PICK o \in Then(Initialize(low, dev), LAMBDA l : Format(l, f, dev)) :
        low' = o.low /\ Returned("fs_format", NULL, o.answer)
  BY DEF FsFormat
<1> QED
  BY <1>1, <1>2, InitializeFormatEffect DEF FsFormat, Returned

\* The call that a start-up comes to, and where it may go on.
LEMMA CallIs ==
    ASSUME OrderInv, PlanInv, StartMount \/ StartFormat
    PROVE  LET call == plan[step]
           IN  /\ Starting /\ step \in DOMAIN plan /\ Ordered(plan) /\ plan' = plan
               /\ step \in Nat \ {0} /\ call.ok \in Nat /\ call.failed \in Nat
               /\ call.dir \in Dirs /\ call.fs \in FileSystems /\ call.dev \in Devices
               /\ StartMount => FsMount(call.dir, call.fs, call.dev) /\ call.op = "mount"
               /\ StartFormat => FsFormat(call.fs, call.dev) /\ call.op = "format"
               /\ step' = call.ok \/ step' = call.failed
               /\ StartMount => (step' = IF last'.answer = "ok" THEN call.ok ELSE call.failed)
<1>1. Starting /\ step \in DOMAIN plan /\ plan' = plan
  BY DEF StartMount, StartFormat, Running
<1>2. plan[step] \in Calls(Len(plan)) /\ step \in 1 .. Len(plan) /\ Len(plan) \in Nat
  BY <1>1 DEF PlanInv
<1>3. Ordered(plan)
  BY <1>1 DEF OrderInv
<1> QED
  BY <1>1, <1>2, <1>3 DEF StartMount, StartFormat, Calls, Advance, SeenAsFailed

LEMMA PlaceStep ==
    ASSUME OrderInv, PlanInv, MountsInv, PlaceInv, StartMount \/ StartFormat
    PROVE  PlaceInv'
<1> DEFINE call == plan[step]
<1> SUFFICES ASSUME NEW n \in MountCalls(plan), Past(plan, n, step') PROVE InPlace(plan[n])'
  BY CallIs DEF PlaceInv, Past, MountCalls, Same
<1>0. /\ step \in DOMAIN plan /\ Ordered(plan) /\ plan' = plan
      /\ call.dir \in Dirs /\ call.fs \in FileSystems /\ call.dev \in Devices
      /\ StartMount => FsMount(call.dir, call.fs, call.dev)
      /\ StartFormat => FsFormat(call.fs, call.dev) /\ call.op = "format"
      /\ step' = call.ok \/ step' = call.failed
      /\ StartMount => (step' = IF last'.answer = "ok" THEN call.ok ELSE call.failed)
  BY CallIs
<1>1. /\ step' = call.failed => Past(plan, n, step)
      /\ step' = call.ok => Past(plan, n, step) \/ (step \in MountCalls(plan) /\ Same(call, plan[n]))
  BY <1>0 DEF Ordered
<1>2. CASE Past(plan, n, step)
  <2>1. PICK i \in InUse : /\ mpDir[i] = plan[n].dir /\ mpFs[i] = plan[n].fs
                           /\ mpDevice[i] = plan[n].dev
                           /\ low.media[plan[n].dev] \in Mountable(plan[n].fs)
    BY <1>2 DEF PlaceInv, InPlace
  <2>2. i \in Slots /\ mpDevice[i] \in Devices
    BY DEF MountsInv, SlotsInv, InUse
  <2>3. CASE StartMount
    <3>1. /\ i \in InUse' /\ mpDir'[i] = mpDir[i] /\ mpFs'[i] = mpFs[i]
          /\ mpDevice'[i] = mpDevice[i] /\ low'.media = low.media
      <4>1. PICK a : /\ MountsOnly(low, low', call.fs, call.dev, a)
                     /\ \/ \E k \in Free :
                             /\ InUse' = InUse \cup {k}
                             /\ \A j \in Slots \ {k} : mpFs'[j] = mpFs[j]
                             /\ \A j \in InUse : /\ mpDir'[j] = mpDir[j]
                                                 /\ mpDevice'[j] = mpDevice[j]
                        \/ UNCHANGED <<mpFs, mpDevice, mpDir>>
        BY <1>0, <2>3, MountCallEffect
      <4>2. low'.media = low.media
        BY <4>1 DEF MountsOnly
      <4>3. i \notin Free
        BY <2>1 DEF InUse, Free
      <4> QED
        BY <2>2, <4>1, <4>2, <4>3 DEF InUse
    <3> QED
      BY <2>1, <3>1, <1>0 DEF InPlace
  <2>4. CASE StartFormat
    <3>1. /\ FormatsOnly(low, low', call.dev) /\ Fresh(call.fs, call.dev)
          /\ UNCHANGED <<mpFs, mpDevice, mpDir>>
      BY <1>0, <2>4, FormatCallEffect
    <3>2. mpDevice[i] # call.dev
      BY <3>1 DEF Fresh
    <3> QED
      BY <1>0, <2>1, <2>2, <3>1, <3>2 DEF InPlace, FormatsOnly, InUse
  <2> QED
    BY <2>3, <2>4
<1>3. CASE ~Past(plan, n, step)
  <2>1. /\ step' = call.ok /\ step' # call.failed
        /\ step \in MountCalls(plan) /\ Same(call, plan[n])
    BY <1>0, <1>1, <1>3
  <2>2. StartMount /\ last'.answer = "ok"
    BY <1>0, <2>1 DEF MountCalls
  <2>3. PICK i \in InUse' : /\ mpDir'[i] = call.dir /\ mpFs'[i] = call.fs
                            /\ mpDevice'[i] = call.dev
                            /\ low'.media[call.dev] \in Mountable(call.fs)
    <3>1. PICK a : /\ MountsOnly(low, low', call.fs, call.dev, a)
                   /\ \/ /\ a = "ok"
                         /\ \E i \in Free :
                             /\ InUse' = InUse \cup {i} /\ mpDir'[i] = call.dir
                             /\ mpFs'[i] = call.fs /\ mpDevice'[i] = call.dev
                      \/ a # "ok" /\ last'.answer = a
                      \/ last'.answer = "EFAULT"
      BY <1>0, <2>2, MountCallEffect
    <3> QED
      BY <2>2, <3>1 DEF MountsOnly
  <2> QED
    BY <1>0, <2>1, <2>3 DEF InPlace, Same
<1> QED
  BY <1>2, <1>3

LEMMA CutStep ==
    ASSUME OrderInv, PlanInv, MountsInv, CutInv, StartMount \/ StartFormat
    PROVE  CutInv'
<1> DEFINE call == plan[step]
<1>0. /\ Starting /\ plan' = plan
      /\ call.dir \in Dirs /\ call.fs \in FileSystems /\ call.dev \in Devices
      /\ StartMount => FsMount(call.dir, call.fs, call.dev)
      /\ StartFormat => FsFormat(call.fs, call.dev)
  BY CallIs
<1>1. CASE StartMount
  <2>1. low'.media = low.media
    BY <1>0, <1>1, MountCallEffect DEF MountsOnly
  <2> QED
    BY <1>0, <1>1, <2>1 DEF CutInv, StartMount
<1>2. CASE StartFormat
  <2>1. /\ \A e \in Devices \ {call.dev} : low'.media[e] = low.media[e]
        /\ last'.answer = "ok" => low'.media[call.dev] = KindOf(call.fs)
    BY <1>0, <1>2, FormatCallEffect DEF FormatsOnly
  <2>2. KindOf(call.fs) # "half"
    BY DEF KindOf
  <2>3. cut' = IF last'.answer = "ok" THEN cut \ {call.dev} ELSE cut \cup {call.dev}
    BY <1>2 DEF StartFormat
  <2> QED
    BY <1>0, <2>1, <2>2, <2>3 DEF CutInv
<1> QED
  BY <1>1, <1>2

LEMMA RoomStep ==
    ASSUME MaxVolume >= 2, MaxMountpoint >= 2,
           OrderInv, PlanInv, MountsInv, RoomInv, StartMount \/ StartFormat
    PROVE  RoomInv'
<1> DEFINE call == plan[step]
<1>0. /\ Starting /\ step \in DOMAIN plan /\ Ordered(plan) /\ plan' = plan /\ step \in Nat \ {0}
      /\ call.ok \in Nat /\ call.failed \in Nat
      /\ call.dir \in Dirs /\ call.fs \in FileSystems /\ call.dev \in Devices
      /\ StartMount => FsMount(call.dir, call.fs, call.dev) /\ call.op = "mount"
      /\ StartFormat => FsFormat(call.fs, call.dev)
      /\ step' = call.ok \/ step' = call.failed
  BY CallIs
<1>1. /\ call.dir \in {Root, Sub} /\ step' \in Nat
      /\ step' # Failed => step < step'
  BY <1>0 DEF Ordered
<1>2. /\ \A i \in Slots : mpFs[i] # ELSEWHERE
      /\ \A i \in InUse : mpDir[i] \in {Root, Sub}
      /\ \A v \in Volumes : low.ffs[v] # NULL =>
            /\ \E a \in FatMounts(plan) : a < step
            /\ \A w \in Volumes : low.ffs[w] # NULL =>
                  w = v \/ \E a, b \in FatMounts(plan) : a < b /\ b < step
  BY <1>0 DEF RoomInv, Failed
<1>3. FatMounts(plan)' = FatMounts(plan) /\ FatMounts(plan) \subseteq Nat
  <2>1. plan \in Seq(Calls(Len(plan)))
    BY DEF PlanInv
  <2> QED
    BY <1>0, <2>1 DEF FatMounts, MountCalls
<1>4. ASSUME low'.ffs = low.ffs, step' # Failed, NEW v \in Volumes, low'.ffs[v] # NULL
      PROVE  /\ \E a \in FatMounts(plan) : a < step'
             /\ \A w \in Volumes : low'.ffs[w] # NULL =>
                   w = v \/ \E a, b \in FatMounts(plan) : a < b /\ b < step'
  <2>1. PICK a \in FatMounts(plan) : a < step
    BY <1>2, <1>4
  <2>2. ASSUME NEW w \in Volumes, low'.ffs[w] # NULL, w # v
        PROVE  \E c, b \in FatMounts(plan) : c < b /\ b < step'
    <3>1. PICK c \in FatMounts(plan), b \in FatMounts(plan) : c < b /\ b < step
      BY <1>2, <1>4, <2>2
    <3>2. b < step'
      BY <1>0, <1>1, <1>3, <1>4, <3>1
    <3> QED
      BY <3>1, <3>2
  <2>3. a < step'
    BY <1>0, <1>1, <1>3, <1>4, <2>1
  <2> QED
    BY <2>1, <2>2, <2>3
<1>5. CASE StartFormat
  <2>1. low'.ffs = low.ffs /\ last'.op = "fs_format" /\ UNCHANGED <<mpFs, mpDevice, mpDir>>
    BY <1>0, <1>5, FormatCallEffect DEF FormatsOnly
  <2> QED
    BY <1>2, <1>3, <1>4, <2>1 DEF RoomInv, InUse
<1>6. CASE StartMount
  <2>1. PICK answer :
           /\ MountsOnly(low, low', call.fs, call.dev, answer)
           /\ \/ /\ answer = "ok" /\ last'.answer = "ok"
                 /\ \E i \in Free :
                       /\ InUse' = InUse \cup {i}
                       /\ mpDir'[i] = call.dir /\ mpFs'[i] = call.fs
                       /\ \A j \in Slots \ {i} : mpFs'[j] = mpFs[j]
                       /\ \A j \in InUse : mpDir'[j] = mpDir[j]
              \/ /\ answer # "ok" /\ last'.answer = answer
                 /\ UNCHANGED <<mpFs, mpDevice, mpDir>>
              \/ /\ answer = "ok" /\ Free = {} /\ last'.answer = "EFAULT"
                 /\ UNCHANGED <<mpFs, mpDevice, mpDir>>
    BY <1>0, <1>6, MountCallEffect
  <2>2. call.dir \notin Mounted
    BY <1>0, <1>6, MountCallEffect
  <2>3. Free # {}
    <3> SUFFICES ASSUME Free = {} PROVE FALSE
      OBVIOUS
    <3>1. 0 \in Slots /\ 1 \in Slots
      BY SizeAssumption DEF Slots
    <3>2. 0 \in InUse /\ 1 \in InUse
      BY <1>2, <3>1 DEF Free, InUse
    <3>3. mpDir[0] # mpDir[1]
      BY <3>1, <3>2 DEF MountsInv, SlotsInv
    <3> QED
      BY <1>1, <1>2, <2>2, <3>2, <3>3 DEF Mounted
  <2>4. answer # "ENOMEM"
    <3> SUFFICES ASSUME answer = "ENOMEM" PROVE FALSE
      OBVIOUS
    <3>1. 0 \in Volumes /\ 1 \in Volumes
      BY SizeAssumption DEF Volumes
    <3>2. low.ffs[0] # NULL /\ low.ffs[1] # NULL
      BY <2>1, <3>1 DEF MountsOnly
    <3>3. PICK a \in FatMounts(plan), b \in FatMounts(plan) : a < b /\ b < step
      BY <1>2, <3>1, <3>2
    <3>4. call.fs \in FatFileSystems
      BY <2>1 DEF MountsOnly
    <3>5. step \in FatMounts(plan)
      BY <1>0, <1>6, <3>4 DEF FatMounts, MountCalls
    <3> QED
      BY <1>0, <3>3, <3>5 DEF Ordered
  <2>5. last'.answer \notin {"ENOMEM", "EFAULT"}
    BY <2>1, <2>3, <2>4 DEF MountsOnly
  <2>6. /\ \A i \in Slots : mpFs'[i] # ELSEWHERE
        /\ \A i \in InUse' : mpDir'[i] \in {Root, Sub}
    <3>1. CASE UNCHANGED <<mpFs, mpDevice, mpDir>>
      BY <1>2, <3>1 DEF InUse
    <3>2. CASE ~UNCHANGED <<mpFs, mpDevice, mpDir>>
      BY <1>0, <1>1, <1>2, <2>1, <3>2, ElsewhereAssumption
    <3> QED
      BY <3>1, <3>2
  <2>7. ASSUME step' # Failed, NEW v \in Volumes, low'.ffs[v] # NULL
        PROVE  /\ \E a \in FatMounts(plan) : a < step'
               /\ \A w \in Volumes : low'.ffs[w] # NULL =>
                     w = v \/ \E a, b \in FatMounts(plan) : a < b /\ b < step'
    <3>1. CASE low'.ffs = low.ffs
      BY <1>4, <2>7, <3>1
    <3>2. CASE low'.ffs # low.ffs
      <4>1. call.fs \in FatFileSystems /\ \E x \in Volumes : low'.ffs = [low.ffs EXCEPT ![x] = call.dev]
        BY <2>1, <3>2 DEF MountsOnly
      <4>2. PICK x \in Volumes : low'.ffs = [low.ffs EXCEPT ![x] = call.dev]
        BY <4>1
      <4>3. \A w \in Volumes \ {x} : low'.ffs[w] # NULL => low.ffs[w] # NULL
        BY <4>2 DEF MountsInv, TypeOK, Lower
      <4>4. step \in FatMounts(plan) /\ step < step'
        BY <1>0, <1>1, <1>6, <2>7, <4>1 DEF FatMounts, MountCalls
      <4>5. ASSUME NEW w \in Volumes, low'.ffs[w] # NULL, w # v
            PROVE  \E a, b \in FatMounts(plan) : a < b /\ b < step'
        <5>1. low.ffs[w] # NULL \/ low.ffs[v] # NULL
          BY <2>7, <4>3, <4>5
        <5>2. PICK a \in FatMounts(plan) : a < step
          BY <1>2, <5>1
        <5> QED
          BY <4>4, <5>2
      <4> QED
        BY <4>4, <4>5
    <3> QED
      BY <3>1, <3>2
  <2> QED
    BY <1>3, <2>5, <2>6, <2>7 DEF RoomInv
<1> QED
  BY <1>5, <1>6

LEMMA UnreadStep ==
    ASSUME OrderInv, PlanInv, MountsInv, RoomInv', StartMount \/ StartFormat
    PROVE  UnreadInv'
<1> DEFINE call == plan[step]
<1>0. /\ Starting /\ step \in DOMAIN plan /\ Ordered(plan) /\ plan' = plan
      /\ call.dir \in Dirs /\ call.fs \in FileSystems /\ call.dev \in Devices
      /\ StartMount => FsMount(call.dir, call.fs, call.dev)
      /\ StartFormat => call.op = "format"
      /\ step' = call.ok \/ step' = call.failed
      /\ StartMount => (step' = IF last'.answer = "ok" THEN call.ok ELSE call.failed)
  BY CallIs
<1> SUFFICES ASSUME Reformats(plan, step'), NEW n \in MountCalls(plan),
                    plan[n].dev = plan[step'].dev
             PROVE  plan[n].dev \in unread' \/ low'.media[plan[n].dev] # KindOf(plan[n].fs)
  BY <1>0 DEF UnreadInv
<1>1. call.op = "mount" /\ call.dev = plan[step'].dev /\ step' # call.ok
  BY <1>0 DEF Ordered
<1>2. StartMount /\ last'.answer # "ok"
  BY <1>0, <1>1
<1>3. /\ last'.op = "fs_mount" /\ last'.answer \in {"EIO", "ENOMEM", "EFAULT"}
      /\ low'.media = low.media
  <2>1. last'.op = "fs_mount" /\ \E a : /\ MountsOnly(low, low', call.fs, call.dev, a)
                                        /\ last'.answer \in {"ok", a, "EFAULT"}
    BY <1>0, <1>2, MountCallEffect
  <2> QED
    BY <1>2, <2>1 DEF MountsOnly
<1>4. last'.answer = "EIO"
  BY <1>0, <1>3 DEF RoomInv, Starting
<1>5. plan[n].fs = call.fs /\ plan[n].dev = call.dev
  <2>1. step \in MountCalls(plan)
    BY <1>0, <1>1 DEF MountCalls
  <2> QED
    BY <1>0, <1>1, <2>1 DEF Ordered
<1> QED
  BY <1>2, <1>3, <1>4, <1>5 DEF StartMount

\* The other steps: the start-up returns, or the application runs without one.
LEMMA OtherSteps ==
    ASSUME StartReturn \/ Application \/ UNCHANGED startVars
    PROVE  /\ OrderInv => OrderInv'
           /\ PlaceInv => PlaceInv'
           /\ CutInv => CutInv'
           /\ RoomInv => RoomInv'
           /\ UnreadInv => UnreadInv'
<1>1. CASE plan' = <<>>
  BY <1>1 DEF OrderInv, PlaceInv, CutInv, RoomInv, UnreadInv, Starting, MountCalls, Reformats
<1>2. CASE UNCHANGED startVars
  BY <1>2 DEF startVars, OrderInv, PlaceInv, CutInv, RoomInv, UnreadInv, Starting, InPlace, InUse
<1> QED
  BY <1>1, <1>2 DEF StartReturn, Application, Starting

\* When an fs_init of the repository returns true, its file systems are where it put them,
\* and whole but for what a format was cut short on.
THEOREM StartsInPlace == ASSUME OwnStartUps PROVE StartSpec => []StartedInPlace
<1> DEFINE Inv == OrderInv /\ PlaceInv /\ CutInv
<1>1. StartInit => Inv
  BY OrderInit
<1>2. Inv /\ StartInv /\ [StartNext]_startVars => Inv'
  <2> SUFFICES ASSUME Inv, StartInv, [StartNext]_startVars PROVE Inv'
    OBVIOUS
  <2>1. CASE StartMount \/ StartFormat
    <3>1. PlaceInv' /\ CutInv'
      BY <2>1, PlaceStep, CutStep DEF StartInv
    <3>2. OrderInv'
      BY <2>1, CallIs DEF StartInv, OrderInv, Starting
    <3> QED
      BY <3>1, <3>2
  <2>2. CASE StartReturn \/ Application \/ UNCHANGED startVars
    BY <2>2, OtherSteps
  <2> QED
    BY <2>1, <2>2 DEF StartNext
<1>3. Inv /\ StartInv => StartedInPlace
  <2> SUFFICES ASSUME Inv, StartInv, Succeeded, NEW n \in MountCalls(plan)
               PROVE  LET i == FindMountpoint(plan[n].dir)
                          dev == plan[n].dev
                      IN  /\ i \in InUse
                          /\ mpFs[i] = plan[n].fs /\ mpDevice[i] = dev
                          /\ \/ low.media[dev] = KindOf(plan[n].fs)
                             \/ /\ plan[n].fs \in FatFileSystems
                                /\ low.media[dev] = "half" /\ dev \in cut
    BY DEF StartedInPlace
  <2>1. Past(plan, n, step) /\ plan[n].dev \in Devices
    <3>1. plan \in Seq(Calls(Len(plan))) /\ step = Len(plan) + 1
      BY DEF StartInv, PlanInv, Succeeded
    <3>2. DOMAIN plan = 1 .. Len(plan) /\ Len(plan) \in Nat /\ plan[n] \in Calls(Len(plan))
      BY <3>1 DEF MountCalls
    <3>3. \A m \in DOMAIN plan : m < step
      BY <3>1, <3>2
    <3> QED
      BY <3>2, <3>3 DEF Past, MountCalls, Calls
  <2>2. InPlace(plan[n])
    BY <2>1 DEF PlaceInv
  <2>3. \/ low.media[plan[n].dev] = KindOf(plan[n].fs)
        \/ plan[n].fs \in FatFileSystems /\ low.media[plan[n].dev] = "half"
    BY <2>2 DEF InPlace, Mountable, FatMedia, KindOf
  <2>4. low.media[plan[n].dev] = "half" => plan[n].dev \in cut
    BY <2>1 DEF CutInv, Succeeded
  <2> QED
    BY <2>2, <2>3, <2>4, Resolves DEF InPlace, StartInv
<1> QED
  BY <1>1, <1>2, <1>3, StartInvInit, StartInvStep, PTL DEF StartSpec

\* The invariant behind the room and the media of a start-up.
RoomyInv == StartInv /\ OrderInv /\ RoomInv /\ UnreadInv

LEMMA RoomyStep ==
    ASSUME MaxVolume >= 2, MaxMountpoint >= 2, RoomyInv, [StartNext]_startVars
    PROVE  RoomyInv'
<1>1. StartInv'
  BY StartInvStep DEF RoomyInv
<1>2. CASE StartMount \/ StartFormat
  <2>1. OrderInv'
    BY <1>2, CallIs DEF RoomyInv, StartInv, OrderInv, Starting
  <2>2. RoomInv'
    BY <1>2, RoomStep DEF RoomyInv, StartInv
  <2>3. UnreadInv'
    BY <1>2, <2>2, UnreadStep DEF RoomyInv, StartInv
  <2> QED
    BY <1>1, <2>1, <2>2, <2>3 DEF RoomyInv
<1>3. CASE StartReturn \/ Application \/ UNCHANGED startVars
  BY <1>1, <1>3, OtherSteps DEF RoomyInv
<1> QED
  BY <1>2, <1>3 DEF StartNext

\* No fs_init of the repository runs out of mount points or FAT volumes, with two of each.
THEOREM HasRoom ==
    ASSUME OwnStartUps, MaxVolume >= 2, MaxMountpoint >= 2
    PROVE  StartSpec => StartHasRoom
<1>1. StartInit => RoomyInv
  BY OrderInit, StartInvInit DEF RoomyInv
<1>2. RoomyInv /\ [StartNext]_startVars => RoomyInv'
  BY RoomyStep
<1>3. RoomyInv /\ RoomyInv' /\ [StartNext]_startVars =>
        [Starting /\ last'.op = "fs_mount"
            => last'.answer \notin {"ENOMEM", "EFAULT"}]_startVars
  <2> SUFFICES ASSUME RoomInv, RoomInv', PlanInv, OrderInv, StartNext, Starting,
                      last'.op = "fs_mount"
               PROVE  last'.answer \notin {"ENOMEM", "EFAULT"}
    BY DEF RoomyInv, StartInv
  <2>1. CASE StartMount \/ StartFormat
    BY <2>1, CallIs DEF RoomInv, Starting
  <2>2. CASE StartReturn
    BY <2>2 DEF StartReturn, RoomInv, vars
  <2> QED
    BY <2>1, <2>2 DEF StartNext, Application
<1> QED
  BY <1>1, <1>2, <1>3, PTL DEF StartSpec, StartHasRoom

\* No fs_init of the repository takes away the file system that it asked a device for,
\* unless it could not read it.
THEOREM KeepsUnlessUnread ==
    ASSUME OwnStartUps, MaxVolume >= 2, MaxMountpoint >= 2
    PROVE  StartSpec => KeptUnlessUnread
<1> DEFINE Kept ==
      \A n \in DOMAIN plan :
          LET dev == plan[n].dev
          IN  /\ plan[n].op = "mount" /\ plan[n].failed # Failed
              /\ low.media[dev] = KindOf(plan[n].fs)
              /\ low'.media[dev] # low.media[dev]
              => dev \in unread
<1>1. StartInit => RoomyInv
  BY OrderInit, StartInvInit DEF RoomyInv
<1>2. RoomyInv /\ [StartNext]_startVars => RoomyInv'
  BY RoomyStep
<1>3. RoomyInv /\ [StartNext]_startVars => [Kept]_startVars
  <2> SUFFICES ASSUME RoomyInv, StartNext, NEW n \in DOMAIN plan,
                      plan[n].op = "mount", plan[n].failed # Failed,
                      low.media[plan[n].dev] = KindOf(plan[n].fs),
                      low'.media[plan[n].dev] # low.media[plan[n].dev]
               PROVE  plan[n].dev \in unread
    OBVIOUS
  <2>0. MountsInv /\ PlanInv /\ OrderInv /\ UnreadInv
    BY DEF RoomyInv, StartInv
  <2>1. plan[n] \in Calls(Len(plan)) /\ n \in MountCalls(plan)
    BY <2>0 DEF PlanInv, MountCalls
  <2>2. CASE StartMount
    <3>1. low'.media = low.media
      BY <2>0, <2>2, CallIs, MountCallEffect DEF MountsOnly
    <3> QED
      BY <3>1
  <2>3. CASE StartFormat
    <3>1. /\ step \in DOMAIN plan /\ plan[step].op = "format"
          /\ FormatsOnly(low, low', plan[step].dev)
      BY <2>0, <2>3, CallIs, FormatCallEffect
    <3>2. plan[n].dev = plan[step].dev
      BY <2>1, <3>1 DEF FormatsOnly, Calls
    <3>3. Reformats(plan, step)
      BY <2>1, <3>1, <3>2 DEF Reformats
    <3> QED
      BY <2>0, <2>1, <3>2, <3>3 DEF UnreadInv
  <2>4. CASE StartReturn
    BY <2>4 DEF StartReturn, vars
  <2>5. CASE Application
    BY <2>5, DOMAIN <<>> = {} DEF Application, Starting
  <2> QED
    BY <2>2, <2>3, <2>4, <2>5 DEF StartNext
<1> QED
  BY <1>1, <1>2, <1>3, PTL DEF StartSpec, KeptUnlessUnread
=============================================================================
