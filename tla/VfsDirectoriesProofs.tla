------------------------- MODULE VfsDirectoriesProofs -------------------------
(***************************************************************************)
(* Proofs about VfsDirectories for any number of cores, directories and    *)
(* file systems and any bound on the table.                                *)
(***************************************************************************)
EXTENDS VfsDirectories, TLAPS

\* The locals of a call that has just loaded its slot are a frame.
LEMMA LoadedType ==
    ASSUME TypeOK, NEW d \in Dirs
    PROVE  /\ Loaded(d) \in Frame
           /\ Loaded(d).fd = fdOf[d] /\ fdOf[d] \in Index
           /\ Loaded(d).dir = slotDir[fdOf[d]]
BY CapAssumption DEF TypeOK, Loaded, Locals, Frame, Column, Index

\* A frame stays one when its directory changes, and keeps its other locals.
LEMMA FrameUpdate ==
    ASSUME frame \in [Cores -> Frame], NEW c \in Cores, NEW d \in Dirs \cup {NULL},
           frame' = [frame EXCEPT ![c].dir = d]
    PROVE  /\ frame' \in [Cores -> Frame]
           /\ frame'[c].dir = d
           /\ \A x \in Cores : /\ frame'[x].fd = frame[x].fd
                               /\ frame'[x].filesystem = frame[x].filesystem
                               /\ x # c => frame'[x] = frame[x]
BY DEF Frame

\* A column stays one when its slots from the n-th on are cleared.
LEMMA FirstOfType ==
    ASSUME NEW S, NEW column \in Column(S), NEW n
    PROVE  /\ FirstOf(column, n) \in Column(S)
           /\ \A i \in Index : FirstOf(column, n)[i] = IF i < n THEN column[i] ELSE NULL
BY DEF Column, FirstOf

\* A growth of the table keeps what the old slots hold.
LEMMA Growth ==
    ASSUME TypeOK, NEW c \in Cores, Grow(c)
    PROVE  LET n == frame[c].fd
           IN  /\ pc[c] = "assign" /\ n = max /\ n \in Index
               /\ max \in Nat /\ max' = 2 * max /\ max < max'
               /\ \A x \in Cores : x # c => pc'[x] = pc[x]
               /\ \A i \in Index : i < n => slotFs'[i] = slotFs[i] /\ slotDir'[i] = slotDir[i]
               /\ \A i \in Index : slotFs'[i] # NULL => slotFs'[i] = slotFs[i]
               /\ \/ /\ pc'[c] = "free_old" /\ copy'.fs = slotFs /\ copy'.dir = slotDir
                     /\ UNCHANGED <<slotDir, slotFs>>
                  \/ pc'[c] = "alloc" /\ slotFs'[n] = NULL
                  \/ pc'[c] = "return"
               /\ UNCHANGED <<mutex, obj, frame, fdOf, held, raced>>
<1> DEFINE n == frame[c].fd
<1>1. /\ pc[c] = "assign" /\ n = max /\ n \in Index
      /\ max \in Nat /\ max' = 2 * max /\ max < max'
      /\ UNCHANGED <<mutex, obj, frame, fdOf, held, raced>>
  BY CapAssumption DEF Grow, TypeOK, Index
<1>2. \A x \in Cores : x # c => pc'[x] = pc[x]
  BY DEF Grow, Goto, TypeOK
<1>3. CASE /\ copy' = [dir |-> slotDir, fs |-> slotFs] /\ Goto(c, "free_old")
           /\ UNCHANGED <<slotDir, slotFs>>
  BY <1>1, <1>2, <1>3 DEF Goto, TypeOK
<1>4. CASE /\ slotDir' = FirstOf(slotDir, n) /\ slotFs' = FirstOf(slotFs, n)
           /\ Goto(c, "alloc")
  <2>1. \A i \in Index : /\ slotFs'[i] = IF i < n THEN slotFs[i] ELSE NULL
                         /\ slotDir'[i] = IF i < n THEN slotDir[i] ELSE NULL
    BY <1>4, FirstOfType DEF TypeOK
  <2>2. pc'[c] = "alloc" /\ ~(n < n)
    BY <1>1, <1>4 DEF Goto, TypeOK
  <2> QED
    BY <1>1, <1>2, <2>1, <2>2
<1>5. CASE Goto(c, "return") /\ UNCHANGED <<slotDir, slotFs>>
  BY <1>1, <1>2, <1>5 DEF Goto, TypeOK
<1> QED
  BY <1>3, <1>4, <1>5 DEF Grow

LEMMA TypeInit == Init => TypeOK
BY NullAssumption, CapAssumption
   DEF Init, TypeOK, Column, EmptyColumn, Frame, NoFrame, Locals, Index, OpenPcs, ClosePcs

LEMMA TypeStep == TypeOK /\ [Next]_vars => TypeOK'
<1> SUFFICES ASSUME TypeOK, [Next]_vars PROVE TypeOK'
  OBVIOUS
<1> USE CapAssumption DEF Goto, Enter, OpenPcs, ClosePcs, Index
<1>1. CASE UNCHANGED vars
  BY <1>1 DEF vars, TypeOK
<1>2. ASSUME NEW c \in Cores, Return(c) PROVE TypeOK'
  BY <1>2, NullAssumption DEF Return, TypeOK, NoFrame, Locals, Frame
<1>3. ASSUME NEW c \in Cores, FirstTable(c) PROVE TypeOK'
  BY <1>3 DEF FirstTable, TypeOK
<1>4. ASSUME NEW c \in Cores, Scan(c) PROVE TypeOK'
  <2>1. /\ pc' \in [Cores -> {"idle", "dir_read", "return"} \cup OpenPcs \cup ClosePcs]
        /\ frame[c].fd \in Nat /\ frame[c].fd < max
        /\ \A d \in Cores : d # c => pc'[d] = pc[d]
    BY <1>4 DEF Scan, TypeOK, Frame
  <2>2. /\ frame' \in [Cores -> Frame]
        /\ \A d \in Cores : d # c => frame'[d] = frame[d]
        /\ pc'[c] # "assign" => frame'[c] = frame[c]
    <3>1. frame[c].fd + 1 \in 0 .. TableCap
      BY <2>1 DEF TypeOK
    <3>2. [frame EXCEPT ![c].fd = frame[c].fd + 1] \in [Cores -> Frame]
      BY <3>1 DEF TypeOK, Frame
    <3> QED
      BY <1>4, <2>1, <3>2 DEF Scan, TypeOK
  <2> QED
    BY <1>4, <2>1, <2>2 DEF Scan, TypeOK
<1>5. ASSUME NEW c \in Cores, Grow(c) PROVE TypeOK'
  <2>1. /\ max' \in 0 .. TableCap /\ frame[c].fd \in Index
        /\ UNCHANGED <<mutex, obj, fdOf, frame, held, raced>>
    BY <1>5 DEF Grow, TypeOK
  <2>2. /\ slotDir' \in Column(Dirs) /\ slotFs' \in Column(FileSystems)
        /\ base' \in {"valid", "freed", "used", "null"}
        /\ copy' \in [dir : Column(Dirs), fs : Column(FileSystems)]
    BY <1>5, FirstOfType DEF Grow, TypeOK
  <2>3. /\ pc' \in [Cores -> {"idle", "dir_read", "return"} \cup OpenPcs \cup ClosePcs]
        /\ \A x \in Cores : x # c => pc'[x] = pc[x]
    BY <1>5 DEF Grow, TypeOK
  <2> QED
    BY <2>1, <2>2, <2>3 DEF TypeOK
<1>17. ASSUME NEW c \in Cores, FreeOld(c) PROVE TypeOK'
  BY <1>17 DEF FreeOld, TypeOK
<1>6. ASSUME NEW c \in Cores, Switch(c) PROVE TypeOK'
  <2>1. slotDir' \in Column(Dirs) /\ slotFs' \in Column(FileSystems)
    BY <1>6, FirstOfType DEF Switch, TypeOK
  <2> QED
    BY <1>6, <2>1 DEF Switch, TypeOK, Column, EmptyColumn
<1>7. ASSUME NEW c \in Cores, Alloc(c) PROVE TypeOK'
  <2>1. raced' \subseteq Races
    BY <1>7 DEF Alloc, TypeOK, Races
  <2>2. ASSUME NEW d \in Dirs,
               obj' = [obj EXCEPT ![d] = "raw"],
               slotDir' = [slotDir EXCEPT ![frame[c].fd] = d],
               frame' = [frame EXCEPT ![c].dir = d],
               pc' = [pc EXCEPT ![c] = "dir_open"]
        PROVE  TypeOK'
    <3>1. frame' \in [Cores -> Frame] /\ \A x \in Cores : frame'[x].fd = frame[x].fd
      BY <2>2, FrameUpdate DEF TypeOK
    <3> QED
      BY <1>7, <2>1, <2>2, <3>1 DEF Alloc, TypeOK, Column
  <2>3. CASE /\ slotDir' = [slotDir EXCEPT ![frame[c].fd] = NULL]
             /\ pc' = [pc EXCEPT ![c] = "return"]
             /\ UNCHANGED <<obj, frame>>
    BY <1>7, <2>1, <2>3 DEF Alloc, TypeOK, Column
  <2> QED
    BY <1>7, <2>2, <2>3 DEF Alloc
<1>8. ASSUME NEW c \in Cores, DirOpen(c) PROVE TypeOK'
  BY <1>8 DEF DirOpen, TypeOK, Column
<1>9. ASSUME NEW c \in Cores, StoreFs(c) PROVE TypeOK'
  BY <1>9 DEF StoreFs, TypeOK, Column, Frame
<1>10. ASSUME NEW c \in Cores, ~Lost, StoreFd(c) PROVE TypeOK'
  <2>1. frame[c].fd \in Index /\ frame[c].dir \in Dirs
    BY <1>10 DEF StoreFd, Lost, Harmed, TypeOK, Frame
  <2> QED
    BY <1>10, <2>1 DEF StoreFd, TypeOK
<1>11. ASSUME NEW c \in Cores, DirRead(c) PROVE TypeOK'
  BY <1>11 DEF DirRead, TypeOK
<1>12. ASSUME NEW c \in Cores, DirClose(c) PROVE TypeOK'
  <2>1. frame' \in [Cores -> Frame] /\ \A x \in Cores : frame'[x].fd = frame[x].fd
    BY <1>12, FrameUpdate DEF DirClose, TypeOK
  <2> QED
    BY <1>12, <2>1, ZenonT(40) DEF DirClose, TypeOK
<1>13. ASSUME NEW c \in Cores, ClearFs(c) PROVE TypeOK'
  BY <1>13 DEF ClearFs, TypeOK, Column, Races, Access
<1>14. ASSUME NEW c \in Cores, FreeDir(c) \/ ClearDir(c) PROVE TypeOK'
  BY <1>14, ZenonT(60) DEF FreeDir, ClearDir, TypeOK, Column, Access
<1>15. ASSUME NEW c \in Cores, NEW p \in Paths, OpenEnter(c, p) PROVE TypeOK'
  BY <1>15, MountedAssumption DEF OpenEnter, TypeOK, Locals, Frame, Functions
<1>16. ASSUME NEW c \in Cores, NEW d \in Dirs, ReadEnter(c, d) \/ CloseEnter(c, d)
       PROVE  TypeOK'
  <2>1. frame' = [frame EXCEPT ![c] = Loaded(d)]
    BY <1>16 DEF ReadEnter, CloseEnter
  <2>2. frame' \in [Cores -> Frame] /\ frame'[c].fd \in Index
        /\ \A x \in Cores : x # c => frame'[x] = frame[x]
    BY <2>1, LoadedType DEF TypeOK
  <2>3. mutex' \in [Functions -> Cores \cup {NULL}]
    BY <1>16 DEF ReadEnter, CloseEnter, TypeOK, Functions
  <2> QED
    BY <1>16, <2>2, <2>3 DEF ReadEnter, CloseEnter, TypeOK, Access
<1> QED
  BY <1>1, <1>2, <1>3, <1>4, <1>5, <1>6, <1>7, <1>8, <1>9, <1>10, <1>11, <1>12, <1>13,
     <1>14, <1>15, <1>16, <1>17 DEF Next, Step, Undefined

\* Every variable keeps its type: the table of open directories stays within its
\* bound, and a call works on a slot of it whenever it touches one.
THEOREM TypeCorrect == Spec => []TypeOK
BY TypeInit, TypeStep, PTL DEF Spec

------------------------------------------------------------------------------
LEMMA SlotsInit == Init => SlotsInv
<1> SUFFICES ASSUME Init PROVE SlotsInv
  OBVIOUS
<1>1. TypeOK
  BY TypeInit
<1>2. CallInv /\ HeldInv
  BY DEF Init, CallInv, HeldInv, Opening, OpenPcs, ClosePcs
<1>3. TakenInv /\ ClosingInv /\ OpeningInv
  BY DEF Init, TakenInv, ClosingInv, OpeningInv, Taken, Closing, Filling, Moving
<1> QED
  BY <1>1, <1>2, <1>3 DEF SlotsInv

LEMMA SlotsStep == ASSUME SlotsInv, [Next]_vars PROVE SlotsInv'
<1>0. TypeOK /\ TypeOK'
  BY TypeStep DEF SlotsInv
<1> USE CapAssumption DEF Goto, Enter, OpenPcs, ClosePcs, Index, Opening, Closing, Filling, IsHeld, Taken,
        Moving
<1>1. CASE UNCHANGED vars
  BY <1>1, <1>0 DEF vars, SlotsInv, CallInv, HeldInv, TakenInv, ClosingInv, OpeningInv
<1>2. ASSUME NEW c \in Cores, Return(c) PROVE SlotsInv'
  <2>1. CallInv'
    BY <1>2 DEF Return, Functions, SlotsInv, CallInv
  <2>2. HeldInv'
    BY <1>2 DEF Return, Functions, SlotsInv, HeldInv
  <2>3. TakenInv'
    BY <1>2 DEF Return, SlotsInv, TakenInv
  <2>4. ClosingInv'
    BY <1>2 DEF Return, SlotsInv, ClosingInv
  <2>5. OpeningInv'
    BY <1>2 DEF Return, SlotsInv, OpeningInv
  <2> QED
    BY <1>0, <2>1, <2>2, <2>3, <2>4, <2>5 DEF SlotsInv
<1>3. ASSUME NEW c \in Cores, FirstTable(c) PROVE SlotsInv'
  <2>1. CallInv'
    BY <1>3 DEF FirstTable, SlotsInv, TypeOK, Frame, CallInv, TakenInv, OpeningInv
  <2>2. HeldInv'
    BY <1>3 DEF FirstTable, SlotsInv, TypeOK, Frame, HeldInv
  <2>3. TakenInv'
    BY <1>3 DEF FirstTable, SlotsInv, TypeOK, TakenInv, OpeningInv
  <2>4. ClosingInv'
    BY <1>3 DEF FirstTable, SlotsInv, TypeOK, ClosingInv
  <2>5. OpeningInv'
    BY <1>3 DEF FirstTable, SlotsInv, TypeOK, TakenInv, OpeningInv
  <2> QED
    BY <1>0, <2>1, <2>2, <2>3, <2>4, <2>5 DEF SlotsInv
<1>4. ASSUME NEW c \in Cores, Scan(c) PROVE SlotsInv'
  <2>a. /\ pc[c] = "assign" /\ frame[c].fd < max
        /\ \A x \in Cores : x # c => pc'[x] = pc[x] /\ frame'[x] = frame[x]
        /\ \/ pc'[c] = "assign" /\ frame'[c].fd = frame[c].fd + 1
           \/ /\ pc'[c] = "alloc" /\ frame'[c].fd = frame[c].fd
              /\ slotFs[frame[c].fd] = NULL
        /\ frame'[c].filesystem = frame[c].filesystem
        /\ UNCHANGED <<max, slotFs, copy, mutex, fdOf, held>>
    BY <1>4, <1>0 DEF Scan, TypeOK, Frame
  <2>1. CallInv'
    BY <2>a, <1>0 DEF SlotsInv, CallInv, TypeOK, Frame
  <2>2. HeldInv'
    BY <2>a DEF SlotsInv, HeldInv
  <2>b. \A i : Taken(i)' => Taken(i)
    BY <2>a
  <2> HIDE DEF Taken
  <2>3. TakenInv'
    BY <2>a, <2>b DEF SlotsInv, TakenInv
  <2>4. ClosingInv'
    BY <2>a DEF SlotsInv, ClosingInv
  <2>5. OpeningInv'
    BY <2>a, <2>b DEF SlotsInv, OpeningInv
  <2> QED
    BY <1>0, <2>1, <2>2, <2>3, <2>4, <2>5 DEF SlotsInv
<1>5. ASSUME NEW c \in Cores, Grow(c) PROVE SlotsInv'
  <2> DEFINE n == frame[c].fd
  <2>a. /\ pc[c] = "assign" /\ n = max /\ max > 0 /\ max' = 2 * max
        /\ pc'[c] \in {"free_old", "alloc", "return"}
        /\ pc'[c] = "free_old" => copy'.fs = slotFs
        /\ pc'[c] = "alloc" => slotFs'[n] = NULL
        /\ \A i \in Index : i < n => slotFs'[i] = slotFs[i]
        /\ \A x \in Cores : x # c => pc'[x] = pc[x]
        /\ UNCHANGED <<mutex, frame, fdOf, held>>
    <3>1. max > 0
      BY <1>5 DEF Grow
    <3> QED
      BY <1>5, <1>0, <3>1, Growth
  <2>b. \A i : Taken(i)' => Taken(i)
    BY <2>a
  <2>c. \A x \in Cores : x # c => ~Opening(x)
    BY <2>a, <1>0, NullAssumption DEF SlotsInv, CallInv
  <2>d. max \in Nat /\ max < max'
    BY <2>a, <1>0 DEF TypeOK
  <2>1. CallInv'
    BY <2>a, <2>d, <1>0 DEF SlotsInv, CallInv, TypeOK, Frame
  <2>2. HeldInv'
    BY <2>a DEF SlotsInv, HeldInv
  <2> HIDE DEF Taken
  <2>3. TakenInv'
    <3>1. \A i \in Index : Taken(i)' => i < max /\ slotFs[i] # NULL
      BY <2>b DEF SlotsInv, TakenInv
    <3> QED
      BY <2>a, <2>c, <2>d, <3>1 DEF TakenInv
  <2>4. ClosingInv'
    BY <2>a DEF SlotsInv, ClosingInv
  <2>5. OpeningInv'
    BY <2>a, <2>b, <2>c, <2>d DEF SlotsInv, OpeningInv
  <2> QED
    BY <1>0, <2>1, <2>2, <2>3, <2>4, <2>5 DEF SlotsInv
<1>19. ASSUME NEW c \in Cores, FreeOld(c) PROVE SlotsInv'
  <2>a. /\ pc[c] = "free_old" /\ pc'[c] = "switch"
        /\ \A x \in Cores : x # c => pc'[x] = pc[x]
        /\ UNCHANGED <<max, slotFs, copy, mutex, frame, fdOf, held>>
    BY <1>19, <1>0 DEF FreeOld, TypeOK
  <2>1. CallInv' /\ HeldInv'
    BY <2>a DEF SlotsInv, CallInv, HeldInv
  <2>2. TakenInv' /\ ClosingInv' /\ OpeningInv'
    BY <2>a DEF SlotsInv, TakenInv, ClosingInv, OpeningInv
  <2> QED
    BY <1>0, <2>1, <2>2 DEF SlotsInv
<1>6. ASSUME NEW c \in Cores, Switch(c) PROVE SlotsInv'
  <2> DEFINE n == frame[c].fd
  <2>a. /\ pc[c] = "switch" /\ pc'[c] = "alloc" /\ n \in Index
        /\ \A x \in Cores : x # c => pc'[x] = pc[x]
        /\ UNCHANGED <<max, mutex, frame, fdOf, held>>
        /\ \A i \in Index : slotFs'[i] = IF i < n THEN copy.fs[i] ELSE NULL
    BY <1>6, <1>0 DEF Switch, TypeOK, FirstOf
  <2>b. \A i : Taken(i)' => Taken(i)
    BY <2>a
  <2>c. \A x \in Cores : x # c => ~Opening(x)
    BY <2>a, <1>0, NullAssumption DEF SlotsInv, CallInv
  <2>1. CallInv'
    BY <2>a DEF SlotsInv, CallInv
  <2>2. HeldInv'
    BY <2>a DEF SlotsInv, HeldInv
  <2> HIDE DEF Taken
  <2>3. TakenInv'
    <3>1. \A i \in Index : Taken(i)' =>
             /\ i < max /\ slotFs[i] # NULL
             /\ i < n /\ copy.fs[i] = slotFs[i]
      BY <2>a, <2>b DEF SlotsInv, TakenInv
    <3>2. \A x \in Cores : ~Moving(x)'
      BY <2>a, <2>c
    <3> QED
      BY <2>a, <3>1, <3>2 DEF TakenInv
  <2>4. ClosingInv'
    BY <2>a DEF SlotsInv, ClosingInv
  <2>5. OpeningInv'
    <3>1. n < max
      BY <2>a DEF SlotsInv, OpeningInv
    <3>2. slotFs'[n] = NULL
      BY <2>a, <1>0 DEF TypeOK
    <3> QED
      BY <2>a, <2>c, <3>1, <3>2 DEF OpeningInv
  <2> QED
    BY <1>0, <2>1, <2>2, <2>3, <2>4, <2>5 DEF SlotsInv
<1>7. ASSUME NEW c \in Cores, ~Lost, Alloc(c) PROVE SlotsInv'
  <2>a. /\ pc[c] = "alloc"
        /\ \A x \in Cores : frame'[x].fd = frame[x].fd /\ frame'[x].filesystem = frame[x].filesystem
        /\ \A x \in Cores : x # c => pc'[x] = pc[x] /\ frame'[x] = frame[x]
        /\ UNCHANGED <<max, slotFs, copy, mutex, fdOf, held>>
    <3>1. UNCHANGED frame \/ \E d \in Dirs : frame' = [frame EXCEPT ![c].dir = d]
      BY <1>7 DEF Alloc
    <3>2. \A x \in Cores : /\ frame'[x].fd = frame[x].fd
                           /\ frame'[x].filesystem = frame[x].filesystem
                           /\ x # c => frame'[x] = frame[x]
      BY <3>1, <1>0, FrameUpdate DEF TypeOK
    <3>3. \A x \in Cores : x # c => pc'[x] = pc[x]
      BY <1>7, <1>0 DEF Alloc, TypeOK
    <3>4. pc[c] = "alloc" /\ UNCHANGED <<max, slotFs, copy, mutex, fdOf, held>>
      BY <1>7 DEF Alloc
    <3> QED
      BY <3>2, <3>3, <3>4
  <2>b. \/ pc'[c] = "dir_open" /\ frame'[c].dir \in Dirs /\ obj[frame'[c].dir] = "free"
        \/ pc'[c] = "return"
    <3>1. ASSUME NEW d \in Dirs, obj[d] = "free", frame' = [frame EXCEPT ![c].dir = d],
                 pc' = [pc EXCEPT ![c] = "dir_open"]
          PROVE  pc'[c] = "dir_open" /\ frame'[c].dir \in Dirs /\ obj[frame'[c].dir] = "free"
      BY <3>1, <1>0, FrameUpdate DEF TypeOK
    <3>2. CASE pc' = [pc EXCEPT ![c] = "return"]
      BY <3>2, <1>0 DEF TypeOK
    <3> QED
      BY <1>7, <3>1, <3>2 DEF Alloc
  <2>c. \A d \in Dirs : obj[d] = "free" => \A x \in Cores : d \notin held[x]
    BY <1>7 DEF Lost, Harmed
  <2>d. \A i : Taken(i)' => Taken(i)
    BY <2>a, <2>b
  <2>1. CallInv'
    BY <2>a, <2>b DEF SlotsInv, CallInv
  <2>2. HeldInv'
    BY <2>a DEF SlotsInv, HeldInv
  <2> HIDE DEF Taken
  <2>3. TakenInv'
    BY <2>a, <2>b, <2>d DEF SlotsInv, TakenInv
  <2>4. ClosingInv'
    BY <2>a, <2>b DEF SlotsInv, ClosingInv
  <2>5. OpeningInv'
    BY <2>a, <2>b, <2>c, <2>d DEF SlotsInv, OpeningInv
  <2> QED
    BY <1>0, <2>1, <2>2, <2>3, <2>4, <2>5 DEF SlotsInv
<1>8. ASSUME NEW c \in Cores, DirOpen(c) PROVE SlotsInv'
  <2>1. CallInv'
    BY <1>8 DEF DirOpen, SlotsInv, TypeOK, CallInv
  <2>2. HeldInv'
    BY <1>8 DEF DirOpen, SlotsInv, TypeOK, HeldInv
  <2>3. TakenInv'
    BY <1>8 DEF DirOpen, SlotsInv, TypeOK, TakenInv
  <2>4. ClosingInv'
    BY <1>8 DEF DirOpen, SlotsInv, TypeOK, ClosingInv
  <2>5. OpeningInv'
    BY <1>8 DEF DirOpen, SlotsInv, TypeOK, OpeningInv
  <2> QED
    BY <1>0, <2>1, <2>2, <2>3, <2>4, <2>5 DEF SlotsInv
<1>9. ASSUME NEW c \in Cores, StoreFs(c) PROVE SlotsInv'
  <2> DEFINE n == frame[c].fd
  <2>a. /\ pc[c] = "store_fs" /\ pc'[c] = "store_fd" /\ n \in Index
        /\ \A x \in Cores : x # c => pc'[x] = pc[x]
        /\ UNCHANGED <<max, copy, mutex, frame, fdOf, held>>
        /\ slotFs'[n] = frame[c].filesystem
        /\ \A i \in Index : i # n => slotFs'[i] = slotFs[i]
    BY <1>9, <1>0 DEF StoreFs, TypeOK, Column
  <2>b. \A i : Taken(i)' <=> Taken(i)
    BY <2>a
  <2>c. \A x \in Cores : x # c => ~Opening(x)
    BY <2>a, <1>0, NullAssumption DEF SlotsInv, CallInv
  <2>1. CallInv'
    BY <2>a DEF SlotsInv, CallInv
  <2>2. HeldInv'
    BY <2>a DEF SlotsInv, HeldInv
  <2> HIDE DEF Taken
  <2>d. n < max /\ ~Taken(n)
    BY <2>a DEF SlotsInv, OpeningInv, TakenInv
  <2>3. TakenInv'
    BY <2>a, <2>b, <2>c, <2>d DEF SlotsInv, TakenInv
  <2>4. ClosingInv'
    BY <2>a DEF SlotsInv, ClosingInv
  <2>5. OpeningInv'
    BY <2>a, <2>b, <2>c, <2>d DEF SlotsInv, OpeningInv
  <2> QED
    BY <1>0, <2>1, <2>2, <2>3, <2>4, <2>5 DEF SlotsInv
<1>10. ASSUME NEW c \in Cores, ~Lost, StoreFd(c) PROVE SlotsInv'
  <2> DEFINE n == frame[c].fd
            d == frame[c].dir
  <2>a. /\ pc[c] = "store_fd" /\ pc'[c] = "return" /\ n \in Index
        /\ \A x \in Cores : x # c => pc'[x] = pc[x] /\ held'[x] = held[x]
        /\ held'[c] = held[c] \cup {d}
        /\ fdOf'[d] = n /\ \A e \in Dirs : e # d => fdOf'[e] = fdOf[e]
        /\ UNCHANGED <<max, slotFs, copy, mutex, frame>>
    BY <1>10, <1>0 DEF StoreFd, TypeOK
  <2>b. /\ d \in Dirs /\ n < max /\ slotFs[n] # NULL /\ ~Taken(n)
        /\ \A x \in Cores : d \notin held[x]
    BY <2>a DEF SlotsInv, OpeningInv, CallInv
  <2>c. \A x \in Cores : held[x] \subseteq Dirs
    BY <1>0 DEF TypeOK
  <2>d. \A x \in Cores : \A e \in held'[x] :
            \/ e = d /\ x = c /\ fdOf'[e] = n
            \/ e \in held[x] /\ e # d /\ fdOf'[e] = fdOf[e] /\ fdOf[e] # n
    BY <2>a, <2>b, <2>c
  <2>e. \A x \in Cores : x # c => ~Opening(x)
    BY <2>a, <1>0, NullAssumption DEF SlotsInv, CallInv
  <2>f. \A i : Taken(i)' => Taken(i) \/ i = n
    BY <2>a, <2>d
  <2>1. CallInv'
    BY <2>a DEF SlotsInv, CallInv
  <2>2. HeldInv'
    BY <2>d DEF SlotsInv, HeldInv
  <2>4. ClosingInv'
    BY <2>a, <2>b, <2>d DEF SlotsInv, ClosingInv
  <2> HIDE DEF Taken
  <2>3. TakenInv'
    BY <2>a, <2>b, <2>e, <2>f DEF SlotsInv, TakenInv
  <2>5. OpeningInv'
    BY <2>a, <2>e DEF SlotsInv, OpeningInv
  <2> QED
    BY <1>0, <2>1, <2>2, <2>3, <2>4, <2>5 DEF SlotsInv
<1>11. ASSUME NEW c \in Cores, DirRead(c) PROVE SlotsInv'
  <2>1. CallInv'
    BY <1>11 DEF DirRead, SlotsInv, CallInv
  <2>2. HeldInv'
    BY <1>11 DEF DirRead, SlotsInv, HeldInv
  <2>3. TakenInv'
    BY <1>11 DEF DirRead, SlotsInv, TakenInv
  <2>4. ClosingInv'
    BY <1>11 DEF DirRead, SlotsInv, ClosingInv
  <2>5. OpeningInv'
    BY <1>11 DEF DirRead, SlotsInv, OpeningInv
  <2> QED
    BY <1>0, <2>1, <2>2, <2>3, <2>4, <2>5 DEF SlotsInv
<1>12. ASSUME NEW c \in Cores, DirClose(c) PROVE SlotsInv'
  <2>1. CallInv'
    BY <1>12 DEF DirClose, SlotsInv, CallInv
  <2>2. HeldInv'
    BY <1>12 DEF DirClose, SlotsInv, HeldInv
  <2>3. TakenInv'
    BY <1>12 DEF DirClose, SlotsInv, TakenInv
  <2>4. ClosingInv'
    BY <1>12 DEF DirClose, SlotsInv, ClosingInv
  <2>5. OpeningInv'
    BY <1>12 DEF DirClose, SlotsInv, OpeningInv
  <2> QED
    BY <1>0, <2>1, <2>2, <2>3, <2>4, <2>5 DEF SlotsInv
<1>13. ASSUME NEW c \in Cores, ClearFs(c) PROVE SlotsInv'
  <2>1. CallInv'
    BY <1>13 DEF ClearFs, SlotsInv, CallInv
  <2>2. HeldInv'
    BY <1>13 DEF ClearFs, SlotsInv, HeldInv
  <2>3. TakenInv'
    BY <1>13 DEF ClearFs, SlotsInv, TypeOK, CallInv, TakenInv, ClosingInv, OpeningInv
  <2>4. ClosingInv'
    BY <1>13 DEF ClearFs, SlotsInv, TypeOK, CallInv, TakenInv, ClosingInv, OpeningInv
  <2>5. OpeningInv'
    BY <1>13 DEF ClearFs, SlotsInv, TakenInv, ClosingInv, OpeningInv
  <2> QED
    BY <1>0, <2>1, <2>2, <2>3, <2>4, <2>5 DEF SlotsInv
<1>14. ASSUME NEW c \in Cores, FreeDir(c) PROVE SlotsInv'
  <2>1. CallInv'
    BY <1>14 DEF FreeDir, SlotsInv, CallInv
  <2>2. HeldInv'
    BY <1>14 DEF FreeDir, SlotsInv, HeldInv
  <2>3. TakenInv'
    BY <1>14 DEF FreeDir, SlotsInv, TakenInv
  <2>4. ClosingInv'
    BY <1>14 DEF FreeDir, SlotsInv, ClosingInv
  <2>5. OpeningInv'
    BY <1>14 DEF FreeDir, SlotsInv, OpeningInv
  <2> QED
    BY <1>0, <2>1, <2>2, <2>3, <2>4, <2>5 DEF SlotsInv
<1>15. ASSUME NEW c \in Cores, ClearDir(c) PROVE SlotsInv'
  <2>1. CallInv'
    BY <1>15 DEF ClearDir, SlotsInv, CallInv
  <2>2. HeldInv'
    BY <1>15 DEF ClearDir, SlotsInv, HeldInv
  <2>3. TakenInv'
    BY <1>15 DEF ClearDir, SlotsInv, TakenInv
  <2>4. ClosingInv'
    BY <1>15 DEF ClearDir, SlotsInv, ClosingInv
  <2>5. OpeningInv'
    BY <1>15 DEF ClearDir, SlotsInv, OpeningInv
  <2> QED
    BY <1>0, <2>1, <2>2, <2>3, <2>4, <2>5 DEF SlotsInv
<1>16. ASSUME NEW c \in Cores, NEW p \in Paths, OpenEnter(c, p) PROVE SlotsInv'
  <2>1. CallInv'
    BY <1>16, <1>0, NullAssumption DEF OpenEnter, Locals, SlotsInv, TypeOK, CallInv
  <2>2. HeldInv'
    BY <1>16, <1>0, NullAssumption DEF OpenEnter, Locals, SlotsInv, TypeOK, HeldInv
  <2>3. TakenInv'
    BY <1>16 DEF OpenEnter, SlotsInv, TakenInv
  <2>4. ClosingInv'
    BY <1>16 DEF OpenEnter, SlotsInv, ClosingInv
  <2>5. OpeningInv'
    BY <1>16 DEF OpenEnter, SlotsInv, OpeningInv
  <2> QED
    BY <1>0, <2>1, <2>2, <2>3, <2>4, <2>5 DEF SlotsInv
<1>17. ASSUME NEW c \in Cores, NEW d \in Dirs, ReadEnter(c, d) PROVE SlotsInv'
  <2>1. CallInv'
    BY <1>17 DEF ReadEnter, SlotsInv, CallInv
  <2>2. HeldInv'
    BY <1>17 DEF ReadEnter, SlotsInv, HeldInv
  <2>3. TakenInv'
    BY <1>17 DEF ReadEnter, SlotsInv, TakenInv
  <2>4. ClosingInv'
    BY <1>17 DEF ReadEnter, SlotsInv, ClosingInv
  <2>5. OpeningInv'
    BY <1>17 DEF ReadEnter, SlotsInv, OpeningInv
  <2> QED
    BY <1>0, <2>1, <2>2, <2>3, <2>4, <2>5 DEF SlotsInv
<1>18. ASSUME NEW c \in Cores, NEW d \in Dirs, CloseEnter(c, d) PROVE SlotsInv'
  <2>a. /\ pc[c] = "idle" /\ d \in held[c]
        /\ frame'[c].fd = fdOf[d] /\ fdOf[d] \in Index
        /\ \A x \in Cores : x # c => /\ pc'[x] = pc[x] /\ frame'[x] = frame[x]
                                     /\ held'[x] = held[x]
        /\ held'[c] = held[c] \ {d}
        /\ mutex'["closedir"] = c /\ mutex'["opendir"] = mutex["opendir"]
        /\ UNCHANGED <<max, slotFs, copy, fdOf>>
    BY <1>18, <1>0, LoadedType DEF CloseEnter, TypeOK, Functions
  <2>b. Taken(fdOf[d])
    BY <2>a
  <2>c. fdOf[d] < max /\ slotFs[fdOf[d]] # NULL
    BY <2>a, <2>b DEF SlotsInv, TakenInv
  <2>d. pc'[c] = "dir_close"
    BY <1>18, <1>0, <2>c DEF CloseEnter, TypeOK
  <2>e. \A x \in Cores : x # c => pc[x] \notin ClosePcs
    BY <1>18, NullAssumption DEF CloseEnter, SlotsInv, CallInv
  <2>f. \A i : Taken(i)' <=> Taken(i)
    BY <2>a, <2>d, <2>e
  <2>1. CallInv'
    BY <2>a, <2>c, <2>d, <2>e DEF SlotsInv, CallInv
  <2>2. HeldInv'
    BY <2>a DEF SlotsInv, HeldInv
  <2>4. ClosingInv'
    BY <2>a, <2>d, <2>e DEF SlotsInv, ClosingInv, HeldInv
  <2>g. \A x \in Cores : Moving(x)' => Moving(x) /\ frame'[x] = frame[x]
    BY <2>a, <2>d
  <2> HIDE DEF Taken
  <2>3. TakenInv'
    BY <2>a, <2>f, <2>g DEF SlotsInv, TakenInv
  <2>5. OpeningInv'
    BY <2>a, <2>d, <2>f DEF SlotsInv, OpeningInv
  <2> QED
    BY <1>0, <2>1, <2>2, <2>3, <2>4, <2>5 DEF SlotsInv
<1> QED
  BY <1>1, <1>2, <1>3, <1>4, <1>5, <1>6, <1>7, <1>8, <1>9, <1>10,
     <1>11, <1>12, <1>13, <1>14, <1>15, <1>16, <1>17, <1>18, <1>19
  DEF Next, Step, Undefined

------------------------------------------------------------------------------
LEMMA DirsInit == Init => DirsInv
BY DEF Init, DirsInv, HeldDirInv, FillingDirInv, FreeingDirInv, LeavingInv, HeapInv, ReadingInv,
       Filling, Freeing, Moving

\* While nobody is overtaken the heap and the slots stay in step.
LEMMA DirsStep ==
    ASSUME SlotsInv, DirsInv, [Next]_vars, "overtaken" \notin raced'
    PROVE  DirsInv'
<1>0. TypeOK /\ TypeOK' /\ SlotsInv'
  BY TypeStep, SlotsStep DEF SlotsInv
<1> USE CapAssumption DEF Goto, Enter, OpenPcs, ClosePcs, Index, Opening, Closing, Filling, Freeing, IsHeld,
        Taken, Moving
<1>1. CASE UNCHANGED vars
  BY <1>1 DEF vars, DirsInv, HeldDirInv, FillingDirInv, FreeingDirInv, LeavingInv, HeapInv, ReadingInv
<1>2. ASSUME NEW c \in Cores, Return(c) PROVE DirsInv'
  <2>1. HeldDirInv'
    BY <1>2 DEF Return, DirsInv, HeldDirInv
  <2>2. FillingDirInv'
    BY <1>2 DEF Return, DirsInv, FillingDirInv
  <2>3. FreeingDirInv'
    BY <1>2 DEF Return, DirsInv, FreeingDirInv
  <2>4. LeavingInv'
    BY <1>2 DEF Return, DirsInv, LeavingInv
  <2>5. HeapInv'
    BY <1>2 DEF Return, DirsInv, HeapInv
  <2>6. ReadingInv'
    BY <1>2 DEF Return, DirsInv, ReadingInv
  <2> QED
    BY <2>1, <2>2, <2>3, <2>4, <2>5, <2>6 DEF DirsInv
<1>3. ASSUME NEW c \in Cores, FirstTable(c) PROVE DirsInv'
  <2>1. HeldDirInv'
    BY <1>3, <1>0 DEF FirstTable, DirsInv, TypeOK, HeldDirInv
  <2>2. FillingDirInv'
    BY <1>3, <1>0 DEF FirstTable, DirsInv, TypeOK, FillingDirInv
  <2>3. FreeingDirInv'
    BY <1>3, <1>0 DEF FirstTable, DirsInv, TypeOK, FreeingDirInv
  <2>4. LeavingInv'
    BY <1>3, <1>0 DEF FirstTable, DirsInv, TypeOK, LeavingInv
  <2>5. HeapInv'
    BY <1>3, <1>0 DEF FirstTable, DirsInv, TypeOK, HeapInv
  <2>6. ReadingInv'
    BY <1>3, <1>0 DEF FirstTable, DirsInv, TypeOK, ReadingInv
  <2> QED
    BY <2>1, <2>2, <2>3, <2>4, <2>5, <2>6 DEF DirsInv
<1>4. ASSUME NEW c \in Cores, Scan(c) PROVE DirsInv'
  <2>1. HeldDirInv'
    BY <1>4, <1>0 DEF Scan, DirsInv, TypeOK, HeldDirInv
  <2>2. FillingDirInv'
    BY <1>4, <1>0 DEF Scan, DirsInv, TypeOK, FillingDirInv
  <2>3. FreeingDirInv'
    BY <1>4, <1>0 DEF Scan, DirsInv, TypeOK, CallInv, FreeingDirInv
  <2>4. LeavingInv'
    BY <1>4, <1>0 DEF Scan, DirsInv, TypeOK, CallInv, LeavingInv
  <2>5. HeapInv'
    BY <1>4, <1>0 DEF Scan, DirsInv, TypeOK, CallInv, HeapInv
  <2>6. ReadingInv'
    BY <1>4, <1>0 DEF Scan, DirsInv, TypeOK, ReadingInv
  <2> QED
    BY <2>1, <2>2, <2>3, <2>4, <2>5, <2>6 DEF DirsInv
<1>5. ASSUME NEW c \in Cores, Grow(c) PROVE DirsInv'
  <2> DEFINE n == frame[c].fd
  <2>a. /\ pc[c] = "assign" /\ n = max
        /\ pc'[c] \in {"free_old", "alloc", "return"}
        /\ pc'[c] = "free_old" => copy'.dir = slotDir
        /\ \A x \in Cores : x # c => pc'[x] = pc[x]
        /\ \A i \in Index : i < n => slotDir'[i] = slotDir[i]
        /\ UNCHANGED <<obj, frame, fdOf, held>>
    BY <1>5, <1>0, Growth
  <2>b. \A x \in Cores : x # c => ~Opening(x)
    BY <2>a, <1>0, NullAssumption DEF SlotsInv, CallInv
  <2>c. \A x \in Cores : \A d \in held[x] : fdOf[d] \in Index /\ fdOf[d] < n
    BY <2>a, <1>0 DEF TypeOK, SlotsInv, TakenInv
  <2>d. \A x \in Cores : Freeing(x) => frame[x].fd \in Index /\ frame[x].fd < n
    BY <2>a, <1>0 DEF TypeOK, SlotsInv, CallInv
  <2>1. HeldDirInv'
    BY <2>a, <2>b, <2>c DEF DirsInv, HeldDirInv
  <2>2. FillingDirInv'
    BY <2>a, <2>b DEF FillingDirInv
  <2>3. FreeingDirInv'
    BY <2>a, <2>b, <2>d DEF DirsInv, FreeingDirInv
  <2>4. LeavingInv'
    BY <2>a, <2>b DEF DirsInv, LeavingInv
  <2>5. HeapInv'
    BY <2>a, <2>b, <2>d DEF DirsInv, HeapInv
  <2>6. ReadingInv'
    BY <2>a DEF DirsInv, ReadingInv
  <2> QED
    BY <2>1, <2>2, <2>3, <2>4, <2>5, <2>6 DEF DirsInv
<1>19. ASSUME NEW c \in Cores, FreeOld(c) PROVE DirsInv'
  <2>a. /\ pc[c] = "free_old" /\ pc'[c] = "switch"
        /\ \A x \in Cores : x # c => pc'[x] = pc[x]
        /\ UNCHANGED <<slotDir, copy, obj, frame, fdOf, held>>
    BY <1>19, <1>0 DEF FreeOld, TypeOK
  <2>1. HeldDirInv' /\ FillingDirInv' /\ FreeingDirInv'
    BY <2>a DEF DirsInv, HeldDirInv, FillingDirInv, FreeingDirInv
  <2>2. LeavingInv' /\ HeapInv' /\ ReadingInv'
    BY <2>a DEF DirsInv, LeavingInv, HeapInv, ReadingInv
  <2> QED
    BY <2>1, <2>2 DEF DirsInv
<1>6. ASSUME NEW c \in Cores, Switch(c) PROVE DirsInv'
  <2> DEFINE n == frame[c].fd
  <2>a. /\ pc[c] = "switch" /\ pc'[c] = "alloc"
        /\ \A x \in Cores : x # c => pc'[x] = pc[x]
        /\ UNCHANGED <<obj, frame, fdOf, held>>
        /\ \A i \in Index : slotDir'[i] = IF i < n THEN copy.dir[i] ELSE NULL
    BY <1>6, <1>0 DEF Switch, TypeOK, FirstOf
  <2>b. \A x \in Cores : x # c => ~Opening(x)
    BY <2>a, <1>0, NullAssumption DEF SlotsInv, CallInv
  <2>c. \A x \in Cores : \A d \in held[x] : slotDir'[fdOf[d]] = d
    <3>1. \A x \in Cores : \A d \in held[x] : Taken(fdOf[d]) /\ fdOf[d] \in Index
      BY <1>0 DEF TypeOK
    <3>2. \A x \in Cores : \A d \in held[x] : fdOf[d] < n
      BY <2>a, <3>1 DEF SlotsInv, TakenInv
    <3> QED
      BY <2>a, <3>1, <3>2 DEF DirsInv, HeldDirInv
  <2>d. \A x \in Cores : Freeing(x) => slotDir'[frame[x].fd] = slotDir[frame[x].fd]
    BY <2>a, <1>0 DEF DirsInv, FreeingDirInv, TypeOK
  <2>1. HeldDirInv'
    BY <2>a, <2>b, <2>c DEF DirsInv, HeldDirInv
  <2>2. FillingDirInv'
    BY <2>a, <2>b DEF FillingDirInv
  <2>3. FreeingDirInv'
    BY <2>a, <2>b, <2>d DEF DirsInv, FreeingDirInv
  <2>4. LeavingInv'
    BY <2>a DEF DirsInv, LeavingInv
  <2>5. HeapInv'
    BY <2>a, <2>b, <2>d DEF DirsInv, HeapInv
  <2>6. ReadingInv'
    BY <2>a DEF DirsInv, ReadingInv
  <2> QED
    BY <2>1, <2>2, <2>3, <2>4, <2>5, <2>6 DEF DirsInv
<1>7. ASSUME NEW c \in Cores, Alloc(c) PROVE DirsInv'
  <2> DEFINE n == frame[c].fd
  <2>a. /\ pc[c] = "alloc" /\ n \in Index
        /\ \A x \in Cores : x # c => pc'[x] = pc[x]
        /\ \A i \in Index : i # n => slotDir'[i] = slotDir[i]
        /\ UNCHANGED <<max, copy, fdOf, held>>
    <3>1. pc[c] = "alloc" /\ UNCHANGED <<max, copy, fdOf, held>>
      BY <1>7 DEF Alloc
    <3>2. \A x \in Cores : x # c => pc'[x] = pc[x]
      BY <1>7, <1>0 DEF Alloc, TypeOK
    <3>3. \A i \in Index : i # n => slotDir'[i] = slotDir[i]
      BY <1>7, <1>0 DEF Alloc, TypeOK, Column
    <3> QED
      BY <1>0, <3>1, <3>2, <3>3 DEF TypeOK
  <2>b. \A x \in Cores : x # c => ~Opening(x)
    BY <2>a, <1>0, NullAssumption DEF SlotsInv, CallInv
  <2>c. ~Taken(n) /\ \A x \in Cores : pc[x] \in ClosePcs => frame[x].fd # n
    <3>1. ~Taken(n)
      BY <2>a DEF SlotsInv, OpeningInv, TakenInv
    <3>2. ~BehindIn(n)
      BY <1>7 DEF Alloc
    <3> QED
      BY <3>1, <3>2 DEF BehindIn
  <2>d. \A x \in Cores : /\ \A d \in held[x] : slotDir'[fdOf[d]] = slotDir[fdOf[d]]
                         /\ Freeing(x) => slotDir'[frame[x].fd] = slotDir[frame[x].fd]
    BY <2>a, <2>c, <1>0 DEF TypeOK
  <2>A. CASE UNCHANGED <<obj, frame>> /\ pc' = [pc EXCEPT ![c] = "return"]
    <3>0. pc'[c] = "return"
      BY <2>A, <1>0 DEF TypeOK
    <3>1. HeldDirInv'
      BY <2>A, <2>a, <2>d, <3>0 DEF DirsInv, HeldDirInv
    <3>2. FillingDirInv'
      BY <2>A, <2>a, <2>b, <3>0 DEF FillingDirInv
    <3>3. FreeingDirInv'
      BY <2>A, <2>a, <2>b, <2>d, <3>0 DEF DirsInv, FreeingDirInv
    <3>4. LeavingInv'
      BY <2>A, <2>a, <2>b, <3>0 DEF DirsInv, LeavingInv
    <3>5. HeapInv'
      BY <2>A, <2>a, <2>b, <2>d, <3>0 DEF DirsInv, HeapInv
    <3>6. ReadingInv'
      BY <2>A, <2>a, <3>0 DEF DirsInv, ReadingInv
    <3> QED
      BY <3>1, <3>2, <3>3, <3>4, <3>5, <3>6 DEF DirsInv
  <2>B. ASSUME NEW d \in Dirs, obj[d] = "free", obj' = [obj EXCEPT ![d] = "raw"],
               slotDir' = [slotDir EXCEPT ![n] = d], frame' = [frame EXCEPT ![c].dir = d],
               pc' = [pc EXCEPT ![c] = "dir_open"]
        PROVE  DirsInv'
    <3>0. /\ pc'[c] = "dir_open" /\ frame'[c].dir = d /\ slotDir'[n] = d /\ obj'[d] = "raw"
          /\ \A x \in Cores : frame'[x].fd = frame[x].fd /\ (x # c => frame'[x] = frame[x])
          /\ \A e \in Dirs : e # d => obj'[e] = obj[e]
      BY <2>B, <2>a, <1>0, FrameUpdate DEF TypeOK, Column
    <3>a. \A x \in Cores : /\ d \notin held[x]
                           /\ held[x] \subseteq Dirs
                           /\ Freeing(x) => slotDir[frame[x].fd] # d
      BY <2>B, <1>0 DEF DirsInv, HeldDirInv, FreeingDirInv, TypeOK
    <3>1. HeldDirInv'
      BY <2>a, <2>d, <3>0, <3>a DEF DirsInv, HeldDirInv
    <3>2. FillingDirInv'
      BY <2>a, <2>b, <3>0 DEF FillingDirInv
    <3>3. FreeingDirInv'
      BY <2>a, <2>b, <2>d, <3>0, <3>a DEF DirsInv, FreeingDirInv
    <3>4. LeavingInv'
      BY <2>a, <2>b, <2>c, <3>0 DEF DirsInv, LeavingInv
    <3>5. HeapInv'
      <4> SUFFICES ASSUME NEW e \in Dirs, obj'[e] # "free"
                   PROVE  \/ IsHeld(e)'
                          \/ \E x \in Cores : (Filling(x) /\ frame[x].dir = e)'
                          \/ \E x \in Cores : (Freeing(x) /\ slotDir[frame[x].fd] = e)'
        BY DEF HeapInv
      <4>1. CASE e = d
        BY <4>1, <3>0
      <4>2. CASE e # d
        BY <4>2, <2>a, <2>b, <2>d, <3>0 DEF DirsInv, HeapInv
      <4> QED
        BY <4>1, <4>2
    <3>6. ReadingInv'
      BY <2>a, <3>0 DEF DirsInv, ReadingInv
    <3> QED
      BY <3>1, <3>2, <3>3, <3>4, <3>5, <3>6 DEF DirsInv
  <2> QED
    BY <1>7, <2>A, <2>B DEF Alloc
<1>8. ASSUME NEW c \in Cores, DirOpen(c) PROVE DirsInv'
  <2> DEFINE n == frame[c].fd
            d == frame[c].dir
  <2>a. /\ pc[c] = "dir_open" /\ n \in Index /\ d \in Dirs
        /\ \A x \in Cores : x # c => pc'[x] = pc[x]
        /\ \A i \in Index : i # n => slotDir'[i] = slotDir[i]
        /\ \A e \in Dirs : e # d => obj'[e] = obj[e]
        /\ \/ pc'[c] = "store_fs" /\ obj'[d] = "open" /\ slotDir' = slotDir
           \/ pc'[c] = "return" /\ obj'[d] = "free"
        /\ UNCHANGED <<copy, frame, fdOf, held>>
    <3>1. pc[c] = "dir_open" /\ UNCHANGED <<copy, frame, fdOf, held>>
      BY <1>8 DEF DirOpen
    <3>2. n \in Index /\ d \in Dirs
      BY <1>0, <3>1 DEF TypeOK, SlotsInv, OpeningInv
    <3>3. CASE obj' = [obj EXCEPT ![d] = "open"] /\ Goto(c, "store_fs") /\ UNCHANGED slotDir
      BY <1>0, <3>1, <3>2, <3>3 DEF TypeOK
    <3>4. CASE /\ obj' = [obj EXCEPT ![d] = "free"]
               /\ slotDir' = [slotDir EXCEPT ![n] = NULL]
               /\ Goto(c, "return")
      BY <1>0, <3>1, <3>2, <3>4 DEF TypeOK, Column
    <3> QED
      BY <1>8, <3>3, <3>4 DEF DirOpen
  <2>b. \A x \in Cores : x # c => ~Opening(x)
    BY <2>a, <1>0, NullAssumption DEF SlotsInv, CallInv
  <2>c. /\ slotDir[n] = d
        /\ \A x \in Cores : /\ d \notin held[x] /\ held[x] \subseteq Dirs
                            /\ Freeing(x) => slotDir[frame[x].fd] # d
    BY <2>a, <1>0 DEF SlotsInv, OpeningInv, DirsInv, FillingDirInv, FreeingDirInv, TypeOK
  <2>d. \A x \in Cores : /\ \A e \in held[x] : slotDir'[fdOf[e]] = slotDir[fdOf[e]]
                         /\ Freeing(x) => slotDir'[frame[x].fd] = slotDir[frame[x].fd]
    BY <2>a, <2>c, <1>0 DEF TypeOK, DirsInv, HeldDirInv
  <2>1. HeldDirInv'
    BY <2>a, <2>c, <2>d DEF DirsInv, HeldDirInv
  <2>2. FillingDirInv'
    BY <2>a, <2>b, <2>c DEF FillingDirInv
  <2>3. FreeingDirInv'
    BY <2>a, <2>b, <2>c, <2>d DEF DirsInv, FreeingDirInv
  <2>4. LeavingInv'
    BY <2>a, <2>b DEF DirsInv, LeavingInv
  <2>5. HeapInv'
    BY <2>a, <2>b, <2>d DEF DirsInv, HeapInv
  <2>6. ReadingInv'
    BY <2>a DEF DirsInv, ReadingInv
  <2> QED
    BY <2>1, <2>2, <2>3, <2>4, <2>5, <2>6 DEF DirsInv
<1>9. ASSUME NEW c \in Cores, StoreFs(c) PROVE DirsInv'
  <2>1. HeldDirInv'
    BY <1>9 DEF StoreFs, DirsInv, HeldDirInv
  <2>2. FillingDirInv'
    BY <1>9 DEF StoreFs, DirsInv, FillingDirInv
  <2>3. FreeingDirInv'
    BY <1>9 DEF StoreFs, DirsInv, FreeingDirInv
  <2>4. LeavingInv'
    BY <1>9 DEF StoreFs, DirsInv, LeavingInv
  <2>5. HeapInv'
    BY <1>9 DEF StoreFs, DirsInv, HeapInv
  <2>6. ReadingInv'
    BY <1>9 DEF StoreFs, DirsInv, ReadingInv
  <2> QED
    BY <2>1, <2>2, <2>3, <2>4, <2>5, <2>6 DEF DirsInv
<1>10. ASSUME NEW c \in Cores, ~Lost, StoreFd(c) PROVE DirsInv'
  <2>1. HeldDirInv'
    BY <1>10 DEF StoreFd, DirsInv, SlotsInv, TypeOK, CallInv, HeldDirInv, FillingDirInv, OpeningInv
  <2>2. FillingDirInv'
    BY <1>10 DEF StoreFd, DirsInv, SlotsInv, TypeOK, CallInv, FillingDirInv
  <2>3. FreeingDirInv'
    BY <1>10 DEF StoreFd, DirsInv, FreeingDirInv
  <2>4. LeavingInv'
    BY <1>10, <1>0 DEF StoreFd, DirsInv, TypeOK, LeavingInv
  <2>5. HeapInv'
    BY <1>10, <1>0 DEF StoreFd, DirsInv, TypeOK, HeapInv
  <2>6. ReadingInv'
    BY <1>10, <1>0 DEF StoreFd, DirsInv, TypeOK, ReadingInv
  <2> QED
    BY <2>1, <2>2, <2>3, <2>4, <2>5, <2>6 DEF DirsInv
<1>11. ASSUME NEW c \in Cores, DirRead(c) PROVE DirsInv'
  <2>1. HeldDirInv'
    BY <1>11 DEF DirRead, DirsInv, HeldDirInv
  <2>2. FillingDirInv'
    BY <1>11 DEF DirRead, DirsInv, FillingDirInv
  <2>3. FreeingDirInv'
    BY <1>11 DEF DirRead, DirsInv, FreeingDirInv
  <2>4. LeavingInv'
    BY <1>11 DEF DirRead, DirsInv, LeavingInv
  <2>5. HeapInv'
    BY <1>11 DEF DirRead, DirsInv, HeapInv
  <2>6. ReadingInv'
    BY <1>11 DEF DirRead, DirsInv, ReadingInv
  <2> QED
    BY <2>1, <2>2, <2>3, <2>4, <2>5, <2>6 DEF DirsInv
<1>12. ASSUME NEW c \in Cores, DirClose(c) PROVE DirsInv'
  <2> DEFINE d == frame[c].dir
  <2>a. /\ pc[c] = "dir_close" /\ pc'[c] = "clear_fs" /\ d = slotDir[frame[c].fd] /\ d \in Dirs
        /\ \A x \in Cores : d \notin held[x] /\ (Filling(x) => frame[x].dir # d)
    BY <1>12, <1>0 DEF DirClose, TypeOK, DirsInv, FreeingDirInv
  <2>b. /\ obj'[d] = "raw" /\ \A e \in Dirs : e # d => obj'[e] = obj[e]
        /\ \A x \in Cores : /\ x # c => pc'[x] = pc[x] /\ frame'[x] = frame[x]
                            /\ frame'[x].fd = frame[x].fd
                            /\ held[x] \subseteq Dirs
        /\ UNCHANGED <<slotDir, copy, fdOf, held>>
    BY <1>12, <1>0, <2>a, FrameUpdate DEF DirClose, TypeOK
  <2>1. HeldDirInv'
    BY <2>a, <2>b DEF DirsInv, HeldDirInv
  <2>2. FillingDirInv'
    BY <2>a, <2>b, <1>0 DEF DirsInv, FillingDirInv, SlotsInv, OpeningInv
  <2>3. FreeingDirInv'
    BY <2>a, <2>b DEF DirsInv, FreeingDirInv
  <2>4. LeavingInv'
    BY <2>a, <2>b DEF DirsInv, LeavingInv
  <2>5. HeapInv'
    BY <2>a, <2>b DEF DirsInv, HeapInv
  <2>6. ReadingInv'
    BY <2>a, <2>b DEF DirsInv, ReadingInv
  <2> QED
    BY <2>1, <2>2, <2>3, <2>4, <2>5, <2>6 DEF DirsInv
<1>13. ASSUME NEW c \in Cores, ClearFs(c) PROVE DirsInv'
  <2> DEFINE n == frame[c].fd
  <2>a. /\ pc[c] = "clear_fs" /\ pc'[c] = "free"
        /\ \A x \in Cores : x # c => pc'[x] = pc[x]
        /\ UNCHANGED <<slotDir, copy, obj, frame, fdOf, held>>
    BY <1>13, <1>0 DEF ClearFs, TypeOK
  <2>b. \A x \in Cores : x # c => pc[x] \notin ClosePcs
    BY <2>a, <1>0, NullAssumption DEF SlotsInv, CallInv
  <2>1. HeldDirInv'
    BY <2>a DEF DirsInv, HeldDirInv
  <2>2. FillingDirInv'
    BY <2>a DEF DirsInv, FillingDirInv
  <2>3. FreeingDirInv'
    BY <2>a DEF DirsInv, FreeingDirInv
  <2>4. LeavingInv'
    <3>1. Taken(n) /\ n \in Index
      BY <2>a, <1>0 DEF TypeOK
    <3>2. \A x \in Cores : Filling(x) => frame[x].fd # n
      BY <3>1 DEF SlotsInv, TakenInv, OpeningInv
    <3>3. \A x \in Cores : \A d \in held[x] : fdOf[d] # n
      BY <2>a DEF SlotsInv, ClosingInv
    <3> QED
      BY <2>a, <2>b, <3>2, <3>3 DEF LeavingInv
  <2>5. HeapInv'
    BY <2>a DEF DirsInv, HeapInv
  <2>6. ReadingInv'
    BY <2>a DEF DirsInv, ReadingInv
  <2> QED
    BY <2>1, <2>2, <2>3, <2>4, <2>5, <2>6 DEF DirsInv
<1>14. ASSUME NEW c \in Cores, FreeDir(c) PROVE DirsInv'
  <2> DEFINE d == slotDir[frame[c].fd]
  <2>a. /\ pc[c] = "free" /\ pc'[c] = "clear_dir" /\ d \in Dirs
        /\ \A x \in Cores : d \notin held[x] /\ (Filling(x) => frame[x].dir # d)
    BY <1>14, <1>0 DEF FreeDir, TypeOK, DirsInv, FreeingDirInv
  <2>b. /\ obj'[d] = "free" /\ \A e \in Dirs : e # d => obj'[e] = obj[e]
        /\ \A x \in Cores : (x # c => pc'[x] = pc[x]) /\ held[x] \subseteq Dirs
        /\ UNCHANGED <<slotDir, copy, frame, fdOf, held>>
    BY <1>14, <1>0, <2>a DEF FreeDir, TypeOK
  <2>c. \A x \in Cores : x # c => pc[x] \notin ClosePcs
    BY <2>a, <1>0, NullAssumption DEF SlotsInv, CallInv
  <2>1. HeldDirInv'
    BY <2>a, <2>b DEF DirsInv, HeldDirInv
  <2>2. FillingDirInv'
    BY <2>a, <2>b, <1>0 DEF DirsInv, FillingDirInv, SlotsInv, OpeningInv
  <2>3. FreeingDirInv'
    BY <2>a, <2>b, <2>c DEF FreeingDirInv
  <2>4. LeavingInv'
    BY <2>a, <2>b DEF DirsInv, LeavingInv
  <2>5. HeapInv'
    BY <2>a, <2>b, <2>c DEF DirsInv, HeapInv
  <2>6. ReadingInv'
    BY <2>a, <2>b DEF DirsInv, ReadingInv
  <2> QED
    BY <2>1, <2>2, <2>3, <2>4, <2>5, <2>6 DEF DirsInv
<1>15. ASSUME NEW c \in Cores, ClearDir(c) PROVE DirsInv'
  <2> DEFINE n == frame[c].fd
  <2>a. /\ pc[c] = "clear_dir" /\ pc'[c] = "return"
        /\ \A x \in Cores : x # c => pc'[x] = pc[x]
        /\ \A i \in Index : i # n => slotDir'[i] = slotDir[i]
        /\ UNCHANGED <<obj, copy, frame, fdOf, held>>
    BY <1>15, <1>0 DEF ClearDir, TypeOK
  <2>b. ~Taken(n) /\ \A x \in Cores : Filling(x) => frame[x].fd # n
    BY <2>a DEF DirsInv, LeavingInv
  <2>c. \A x \in Cores : /\ ~Freeing(x)
                         /\ \A d \in held[x] : slotDir'[fdOf[d]] = slotDir[fdOf[d]]
                         /\ Filling(x) => slotDir'[frame[x].fd] = slotDir[frame[x].fd]
    BY <2>a, <2>b, <1>0, NullAssumption DEF SlotsInv, CallInv, TypeOK
  <2>1. HeldDirInv'
    BY <2>a, <2>c DEF DirsInv, HeldDirInv
  <2>2. FillingDirInv'
    BY <2>a, <2>c DEF DirsInv, FillingDirInv
  <2>3. FreeingDirInv'
    BY <2>a, <2>c DEF FreeingDirInv
  <2>4. LeavingInv'
    BY <2>a DEF DirsInv, LeavingInv
  <2>5. HeapInv'
    BY <2>a, <2>c DEF DirsInv, HeapInv
  <2>6. ReadingInv'
    BY <2>a DEF DirsInv, ReadingInv
  <2> QED
    BY <2>1, <2>2, <2>3, <2>4, <2>5, <2>6 DEF DirsInv
<1>16. ASSUME NEW c \in Cores, NEW p \in Paths, OpenEnter(c, p) PROVE DirsInv'
  <2>1. HeldDirInv'
    BY <1>16 DEF OpenEnter, DirsInv, HeldDirInv
  <2>2. FillingDirInv'
    BY <1>16 DEF OpenEnter, DirsInv, FillingDirInv
  <2>3. FreeingDirInv'
    BY <1>16 DEF OpenEnter, DirsInv, FreeingDirInv
  <2>4. LeavingInv'
    BY <1>16 DEF OpenEnter, DirsInv, LeavingInv
  <2>5. HeapInv'
    BY <1>16 DEF OpenEnter, DirsInv, HeapInv
  <2>6. ReadingInv'
    BY <1>16 DEF OpenEnter, DirsInv, ReadingInv
  <2> QED
    BY <2>1, <2>2, <2>3, <2>4, <2>5, <2>6 DEF DirsInv
<1>17. ASSUME NEW c \in Cores, NEW d \in Dirs, ReadEnter(c, d) PROVE DirsInv'
  <2>1. HeldDirInv'
    BY <1>17 DEF ReadEnter, DirsInv, HeldDirInv
  <2>2. FillingDirInv'
    BY <1>17 DEF ReadEnter, DirsInv, FillingDirInv
  <2>3. FreeingDirInv'
    BY <1>17 DEF ReadEnter, DirsInv, FreeingDirInv
  <2>4. LeavingInv'
    BY <1>17 DEF ReadEnter, DirsInv, LeavingInv
  <2>5. HeapInv'
    BY <1>17 DEF ReadEnter, DirsInv, HeapInv
  <2>6. ReadingInv'
    BY <1>17, <1>0 DEF ReadEnter, Loaded, Locals, DirsInv, TypeOK, ReadingInv, HeldDirInv
  <2> QED
    BY <2>1, <2>2, <2>3, <2>4, <2>5, <2>6 DEF DirsInv
<1>18. ASSUME NEW c \in Cores, NEW d \in Dirs, CloseEnter(c, d) PROVE DirsInv'
  <2>a. /\ pc[c] = "idle" /\ d \in held[c]
        /\ frame'[c].fd = fdOf[d] /\ frame'[c].dir = slotDir[fdOf[d]]
        /\ \A x \in Cores : x # c => /\ pc'[x] = pc[x] /\ frame'[x] = frame[x]
                                     /\ held'[x] = held[x]
        /\ held'[c] = held[c] \ {d}
        /\ UNCHANGED <<slotDir, slotFs, copy, obj, fdOf>>
    BY <1>18, <1>0, LoadedType DEF CloseEnter, TypeOK
  <2>b. Taken(fdOf[d]) /\ fdOf[d] \in Index
    BY <2>a, <1>0 DEF TypeOK
  <2>c. pc'[c] = "dir_close"
    BY <1>18, <2>b DEF CloseEnter, TypeOK, SlotsInv, TakenInv
  <2>d. \A x \in Cores : x # c => pc[x] \notin ClosePcs
    BY <1>18, NullAssumption DEF CloseEnter, SlotsInv, CallInv
  <2>e. \A x \in Cores : d \notin held'[x] /\ held'[x] \subseteq held[x]
    BY <2>a DEF SlotsInv, HeldInv
  <2>1. HeldDirInv'
    BY <2>a, <2>c, <2>e DEF DirsInv, HeldDirInv
  <2>2. FillingDirInv'
    BY <2>a, <2>c DEF DirsInv, FillingDirInv
  <2>3. FreeingDirInv'
    <3>1. slotDir[fdOf[d]] = d /\ obj[d] # "free"
      BY <2>a DEF DirsInv, HeldDirInv
    <3>2. \A x \in Cores : x # c =>
             /\ Filling(x) => frame[x].dir # d
             /\ Moving(x) => fdOf[d] < frame[x].fd /\ copy.dir[fdOf[d]] = d
      BY <2>a, <2>b DEF SlotsInv, OpeningInv, TakenInv, DirsInv, HeldDirInv
    <3> QED
      BY <2>a, <2>c, <2>d, <2>e, <3>1, <3>2 DEF FreeingDirInv
  <2>4. LeavingInv'
    BY <2>c, <2>d, <2>a DEF LeavingInv
  <2>5. HeapInv'
    <3>1. slotDir[fdOf[d]] = d
      BY <2>a DEF DirsInv, HeldDirInv
    <3> QED
      BY <2>a, <2>c, <2>d, <3>1 DEF DirsInv, HeapInv
  <2>6. ReadingInv'
    BY <2>a, <2>c DEF DirsInv, ReadingInv
  <2> QED
    BY <2>1, <2>2, <2>3, <2>4, <2>5, <2>6 DEF DirsInv
<1> QED
  BY <1>1, <1>2, <1>3, <1>4, <1>5, <1>6, <1>7, <1>8, <1>9, <1>10,
     <1>11, <1>12, <1>13, <1>14, <1>15, <1>16, <1>17, <1>18, <1>19
  DEF Next, Step, Undefined

------------------------------------------------------------------------------
\* Without a race every slot that has a file system is somebody's.
LEMMA AccountedStep ==
    ASSUME SlotsInv, SlotsAccounted, [Next]_vars, raced' = {}
    PROVE  SlotsAccounted'
<1>0. TypeOK /\ TypeOK' /\ SlotsInv'
  BY TypeStep, SlotsStep DEF SlotsInv
<1> USE CapAssumption DEF Goto, Enter, OpenPcs, ClosePcs, Index, Opening, Closing, Taken, Moving
<1>1. CASE UNCHANGED vars
  BY <1>1 DEF vars, SlotsAccounted
<1>2. ASSUME NEW c \in Cores, Return(c) PROVE SlotsAccounted'
  BY <1>2 DEF Return, SlotsAccounted
<1>3. ASSUME NEW c \in Cores, FirstTable(c) PROVE SlotsAccounted'
  BY <1>3, <1>0 DEF FirstTable, TypeOK, SlotsAccounted
<1>4. ASSUME NEW c \in Cores, Scan(c) PROVE SlotsAccounted'
  BY <1>4, <1>0 DEF Scan, CallInv, TypeOK, SlotsAccounted
<1>5. ASSUME NEW c \in Cores, Grow(c) PROVE SlotsAccounted'
  <2> DEFINE n == frame[c].fd
  <2>a. /\ pc[c] = "assign" /\ pc'[c] \in {"free_old", "alloc", "return"}
        /\ pc'[c] = "free_old" => copy'.fs = slotFs'
        /\ \A x \in Cores : x # c => pc'[x] = pc[x]
        /\ \A i \in Index : slotFs'[i] # NULL => slotFs'[i] = slotFs[i]
        /\ UNCHANGED <<mutex, frame, fdOf, held>>
    BY <1>5, <1>0, Growth
  <2>b. \A x \in Cores : x # c => ~Opening(x)
    BY <2>a, <1>0, NullAssumption DEF SlotsInv, CallInv
  <2>c. \A i \in Index : Taken(i) => Taken(i)'
    BY <2>a
  <2> HIDE DEF Taken
  <2> QED
    BY <2>a, <2>b, <2>c DEF SlotsAccounted
<1>19. ASSUME NEW c \in Cores, FreeOld(c) PROVE SlotsAccounted'
  <2>a. /\ pc[c] = "free_old" /\ pc'[c] = "switch"
        /\ \A x \in Cores : x # c => pc'[x] = pc[x]
        /\ UNCHANGED <<slotFs, copy, frame, fdOf, held>>
    BY <1>19, <1>0 DEF FreeOld, TypeOK
  <2> QED
    BY <2>a DEF SlotsAccounted
<1>6. ASSUME NEW c \in Cores, Switch(c) PROVE SlotsAccounted'
  <2> DEFINE n == frame[c].fd
  <2>a. /\ pc[c] = "switch" /\ pc'[c] = "alloc" /\ n \in Index
        /\ \A x \in Cores : x # c => pc'[x] = pc[x]
        /\ UNCHANGED <<frame, fdOf, held>>
        /\ \A i \in Index : slotFs'[i] = IF i < n THEN copy.fs[i] ELSE NULL
    BY <1>6, <1>0 DEF Switch, TypeOK, FirstOf
  <2>b. \A x \in Cores : x # c => ~Opening(x)
    BY <2>a, <1>0, NullAssumption DEF SlotsInv, CallInv
  <2>c. \A i \in Index : slotFs'[i] # NULL => Taken(i)
    BY <2>a, <2>b DEF SlotsAccounted
  <2>d. \A i \in Index : Taken(i) => Taken(i)'
    BY <2>a
  <2> HIDE DEF Taken
  <2> QED
    BY <2>a, <2>b, <2>c, <2>d DEF SlotsAccounted
<1>7. ASSUME NEW c \in Cores, Alloc(c) PROVE SlotsAccounted'
  <2>a. /\ pc[c] = "alloc" /\ pc'[c] \in {"dir_open", "return"}
        /\ \A x \in Cores : x # c => pc'[x] = pc[x]
        /\ UNCHANGED <<slotFs, copy, fdOf, held>>
    <3>1. pc'[c] \in {"dir_open", "return"} /\ \A x \in Cores : x # c => pc'[x] = pc[x]
      BY <1>7, <1>0 DEF Alloc, TypeOK
    <3> QED
      BY <1>7, <3>1 DEF Alloc
  <2>b. \A x \in Cores : frame'[x].fd = frame[x].fd
    <3>1. UNCHANGED frame \/ \E d \in Dirs : frame' = [frame EXCEPT ![c].dir = d]
      BY <1>7 DEF Alloc
    <3> QED
      BY <3>1, <1>0, FrameUpdate DEF TypeOK
  <2>c. \A i \in Index : Taken(i) => Taken(i)'
    BY <2>a, <2>b
  <2> HIDE DEF Taken
  <2> QED
    BY <2>a, <2>b, <2>c DEF SlotsAccounted
<1>8. ASSUME NEW c \in Cores, DirOpen(c) PROVE SlotsAccounted'
  <2>a. /\ pc[c] = "dir_open" /\ pc'[c] \in {"store_fs", "return"}
        /\ \A x \in Cores : x # c => pc'[x] = pc[x]
        /\ UNCHANGED <<slotFs, copy, frame, fdOf, held>>
    <3>1. pc'[c] \in {"store_fs", "return"} /\ \A x \in Cores : x # c => pc'[x] = pc[x]
      BY <1>8, <1>0 DEF DirOpen, TypeOK
    <3> QED
      BY <1>8, <3>1 DEF DirOpen
  <2>b. \A i \in Index : Taken(i) => Taken(i)'
    BY <2>a
  <2> HIDE DEF Taken
  <2> QED
    BY <2>a, <2>b DEF SlotsAccounted
<1>9. ASSUME NEW c \in Cores, StoreFs(c) PROVE SlotsAccounted'
  BY <1>9 DEF StoreFs, SlotsInv, CallInv, TypeOK, SlotsAccounted
<1>10. ASSUME NEW c \in Cores, ~Lost, StoreFd(c) PROVE SlotsAccounted'
  <2> DEFINE n == frame[c].fd
            d == frame[c].dir
  <2>a. /\ pc[c] = "store_fd" /\ pc'[c] = "return" /\ n \in Index
        /\ d \in Dirs /\ \A x \in Cores : d \notin held[x]
    BY <1>10 DEF StoreFd, TypeOK, SlotsInv, OpeningInv, Filling, IsHeld
  <2>b. /\ \A x \in Cores : x # c => pc'[x] = pc[x]
        /\ d \in held'[c] /\ \A x \in Cores : held[x] \subseteq held'[x] /\ held[x] \subseteq Dirs
        /\ fdOf'[d] = n /\ \A e \in Dirs : e # d => fdOf'[e] = fdOf[e]
        /\ UNCHANGED <<slotFs, copy, frame>>
    BY <1>10, <1>0, <2>a DEF StoreFd, TypeOK
  <2>c. Taken(n)'
    BY <2>b
  <2>d. \A i \in Index : Taken(i) => Taken(i)'
    BY <2>a, <2>b
  <2> HIDE DEF Taken
  <2> QED
    BY <2>a, <2>b, <2>c, <2>d DEF SlotsAccounted
<1>11. ASSUME NEW c \in Cores, DirRead(c) PROVE SlotsAccounted'
  BY <1>11 DEF DirRead, SlotsAccounted
<1>12. ASSUME NEW c \in Cores, DirClose(c) PROVE SlotsAccounted'
  BY <1>12 DEF DirClose, SlotsAccounted
<1>13. ASSUME NEW c \in Cores, ClearFs(c) PROVE SlotsAccounted'
  <2> DEFINE n == frame[c].fd
  <2>a. /\ pc[c] = "clear_fs" /\ pc'[c] = "free" /\ n \in Index
        /\ \A x \in Cores : x # c => pc'[x] = pc[x]
        /\ slotFs'[n] = NULL /\ \A i \in Index : i # n => slotFs'[i] = slotFs[i]
        /\ UNCHANGED <<frame, fdOf, held>>
    BY <1>13, <1>0 DEF ClearFs, TypeOK, Column
  <2>b. \A x \in Cores : ~Moving(x)
    BY <1>13 DEF ClearFs
  <2>c. \A i \in Index : Taken(i) /\ i # n => Taken(i)'
    BY <2>a
  <2> HIDE DEF Taken
  <2> QED
    BY <2>a, <2>b, <2>c DEF SlotsAccounted
<1>14. ASSUME NEW c \in Cores, FreeDir(c) PROVE SlotsAccounted'
  BY <1>14 DEF FreeDir, SlotsAccounted
<1>15. ASSUME NEW c \in Cores, ClearDir(c) PROVE SlotsAccounted'
  BY <1>15 DEF ClearDir, SlotsAccounted
<1>16. ASSUME NEW c \in Cores, NEW p \in Paths, OpenEnter(c, p) PROVE SlotsAccounted'
  BY <1>16 DEF OpenEnter, CallInv, SlotsAccounted
<1>17. ASSUME NEW c \in Cores, NEW d \in Dirs, ReadEnter(c, d) PROVE SlotsAccounted'
  BY <1>17 DEF ReadEnter, CallInv, SlotsAccounted
<1>18. ASSUME NEW c \in Cores, NEW d \in Dirs, CloseEnter(c, d) PROVE SlotsAccounted'
  BY <1>18, <1>0 DEF CloseEnter, Loaded, Locals, TypeOK, SlotsAccounted
<1> QED
  BY <1>1, <1>2, <1>3, <1>4, <1>5, <1>6, <1>7, <1>8, <1>9, <1>10,
     <1>11, <1>12, <1>13, <1>14, <1>15, <1>16, <1>17, <1>18, <1>19
  DEF Next, Step, Undefined

LEMMA DirectoriesInit == Init => DirectoriesInv
<1>1. Init => SlotsAccounted
  BY DEF Init, SlotsAccounted, EmptyColumn
<1> QED
  BY SlotsInit, DirsInit, <1>1 DEF DirectoriesInv

LEMMA DirectoriesStep == DirectoriesInv /\ [Next]_vars => DirectoriesInv'
<1> SUFFICES ASSUME DirectoriesInv, [Next]_vars PROVE DirectoriesInv'
  OBVIOUS
<1>1. raced \subseteq raced'
  BY DEF Next, Step, Undefined, vars, Return, FirstTable, Scan, Grow, FreeOld, Switch, Alloc, DirOpen,
         StoreFs, StoreFd, DirRead, DirClose, ClearFs, FreeDir, ClearDir, OpenEnter,
         ReadEnter, CloseEnter
<1>2. SlotsInv'
  BY SlotsStep DEF DirectoriesInv
<1>3. "overtaken" \notin raced' => DirsInv'
  BY <1>1, DirsStep DEF DirectoriesInv
<1>4. raced' = {} => SlotsAccounted'
  BY <1>1, AccountedStep DEF DirectoriesInv
<1> QED
  BY <1>2, <1>3, <1>4 DEF DirectoriesInv

\* The inductive invariant holds in every reachable state.
THEOREM DirectoriesHold == Spec => []DirectoriesInv
BY DirectoriesInit, DirectoriesStep, PTL DEF Spec

\* However opendir, readdir and closedir of any number of cores interleave, and whatever
\* stores are lost while the table moves, a directory is freed under its owner in one
\* way only: an opendir took the slot between the two stores of a closedir.  That a core
\* uses a table that realloc has freed is the other way to lose it all, and excepted.
THEOREM OneWayToHarm == Spec => []HarmNeedsOvertaking
<1>1. DirectoriesInv => HarmNeedsOvertaking
  <2> SUFFICES ASSUME DirectoriesInv, "overtaken" \notin raced, NEW c \in Cores
               PROVE  /\ \A d \in held[c] : obj[d] = "open"
                      /\ pc[c] \in {"dir_open", "store_fs", "store_fd", "dir_close", "dir_read"} =>
                            frame[c].dir \in Dirs /\ obj[frame[c].dir] # "free"
    BY NullAssumption DEF HarmNeedsOvertaking, Harmed
  <2>1. \A d \in held[c] : d \in Dirs /\ obj[d] = "open"
    BY DEF DirectoriesInv, SlotsInv, TypeOK, DirsInv, HeldDirInv
  <2>2. CASE Filling(c)
    BY <2>1, <2>2 DEF DirectoriesInv, SlotsInv, OpeningInv, DirsInv, FillingDirInv, Filling
  <2>3. CASE pc[c] = "dir_close"
    BY <2>1, <2>3 DEF DirectoriesInv, DirsInv, FreeingDirInv, Freeing
  <2>4. CASE pc[c] = "dir_read"
    BY <2>1, <2>4 DEF DirectoriesInv, DirsInv, ReadingInv
  <2> QED
    BY <2>1, <2>2, <2>3, <2>4 DEF Filling
<1> QED
  BY DirectoriesHold, <1>1, PTL

\* Unless either of the two happened, the DIR of every core stays open in a slot of its
\* own, also when the table has moved.
THEOREM HeldStaysIntact == Spec => []HeldIntact
<1>1. DirectoriesInv => HeldIntact
  <2> SUFFICES ASSUME DirectoriesInv, "overtaken" \notin raced,
                      NEW c \in Cores, NEW d \in held[c]
               PROVE  /\ fdOf[d] < max
                      /\ slotDir[fdOf[d]] = d /\ slotFs[fdOf[d]] # NULL
                      /\ \A x \in Cores \ {c} : d \notin held[x]
    BY DEF HeldIntact
  <2>1. fdOf[d] \in Index /\ Taken(fdOf[d])
    BY DEF DirectoriesInv, SlotsInv, TypeOK, Taken
  <2>2. fdOf[d] < max /\ slotFs[fdOf[d]] # NULL
    BY <2>1 DEF DirectoriesInv, SlotsInv, TakenInv
  <2>3. slotDir[fdOf[d]] = d
    BY DEF DirectoriesInv, DirsInv, HeldDirInv
  <2>4. \A x \in Cores \ {c} : d \notin held[x]
    BY DEF DirectoriesInv, SlotsInv, HeldInv
  <2> QED
    BY <2>2, <2>3, <2>4
<1> QED
  BY DirectoriesHold, <1>1, PTL

\* Nor does any failed or interrupted call leave a directory on the heap that is
\* nobody's, or without any race a slot that is.
THEOREM NoLeak == Spec => []NothingLeaks
<1>1. DirectoriesInv => NothingLeaks
  <2> SUFFICES ASSUME DirectoriesInv, "overtaken" \notin raced, \A c \in Cores : pc[c] = "idle"
               PROVE  LET kept == UNION {held[c] : c \in Cores}
                      IN  /\ {d \in Dirs : obj[d] # "free"} = kept
                          /\ raced = {} => {i \in Index : slotFs[i] # NULL} = {fdOf[d] : d \in kept}
    BY DEF NothingLeaks
  <2> DEFINE kept == UNION {held[c] : c \in Cores}
  <2>1. \A c \in Cores : held[c] \subseteq Dirs /\ \A d \in held[c] : fdOf[d] \in Index
    BY DEF DirectoriesInv, SlotsInv, TypeOK
  <2>2. {d \in Dirs : obj[d] # "free"} = kept
    <3>1. \A d \in Dirs : obj[d] # "free" => d \in kept
      BY DEF DirectoriesInv, DirsInv, HeapInv, IsHeld, Filling, Freeing
    <3>2. \A d \in kept : d \in Dirs /\ obj[d] # "free"
      BY <2>1 DEF DirectoriesInv, DirsInv, HeldDirInv
    <3> QED
      BY <3>1, <3>2
  <2>3. ASSUME raced = {} PROVE {i \in Index : slotFs[i] # NULL} = {fdOf[d] : d \in kept}
    <3>1. \A i \in Index : slotFs[i] # NULL => \E d \in kept : fdOf[d] = i
      BY <2>3 DEF DirectoriesInv, SlotsAccounted, Taken, Closing
    <3>2. \A d \in kept : fdOf[d] \in Index /\ Taken(fdOf[d])
      BY <2>1 DEF Taken
    <3>3. \A d \in kept : slotFs[fdOf[d]] # NULL
      BY <3>2 DEF DirectoriesInv, SlotsInv, TakenInv
    <3> QED
      BY <3>1, <3>2, <3>3
  <2> QED
    BY <2>2, <2>3
<1> QED
  BY DirectoriesHold, <1>1, PTL

------------------------------------------------------------------------------
LEMMA PromiseInit == Init => Promise!Init
BY DEF Init, Promise!Init, Bound, Owned

\* A step that leaves the held DIRs, and the file systems of their slots, is no
\* step of DescriptorMap.
LEMMA PromiseStutter ==
    ASSUME UNCHANGED <<held, fdOf>>,
           \A i \in Index : (\E c \in Cores : i \in Owned[c]) => slotFs'[i] = slotFs[i]
    PROVE  UNCHANGED Promise!vars
<1>1. UNCHANGED Owned
  BY DEF Owned
<1> QED
  BY <1>1 DEF Promise!vars, Bound

LEMMA PromiseStep ==
    ASSUME SlotsInv, [Next]_vars
    PROVE  [Promise!Next]_(Promise!vars)
<1>0. TypeOK /\ TypeOK'
  BY TypeStep DEF SlotsInv
<1>a. \A i \in Index : (\E x \in Cores : i \in Owned[x]) <=> \E x \in Cores : \E d \in held[x] : fdOf[d] = i
  BY DEF Owned
<1> USE DEF Goto, Enter
<1>1. CASE UNCHANGED vars
  BY <1>1, PromiseStutter DEF vars
<1>2. ASSUME NEW c \in Cores,
             \/ Return(c) \/ FirstTable(c) \/ Scan(c) \/ FreeOld(c) \/ Alloc(c) \/ DirOpen(c)
             \/ DirRead(c) \/ DirClose(c) \/ FreeDir(c) \/ ClearDir(c)
      PROVE  UNCHANGED Promise!vars
  BY <1>2, PromiseStutter
     DEF Return, FirstTable, Scan, FreeOld, Alloc, DirOpen, DirRead, DirClose, FreeDir, ClearDir
<1>3. ASSUME NEW c \in Cores, NEW p \in Paths, OpenEnter(c, p)
      PROVE  UNCHANGED Promise!vars
  BY <1>3, PromiseStutter DEF OpenEnter
<1>4. ASSUME NEW c \in Cores, NEW d \in Dirs, ReadEnter(c, d)
      PROVE  UNCHANGED Promise!vars
  BY <1>4, PromiseStutter DEF ReadEnter
<1>5. ASSUME NEW c \in Cores, Switch(c) PROVE UNCHANGED Promise!vars
  <2>1. \A i \in Index : (\E x \in Cores : i \in Owned[x]) =>
           i < frame[c].fd /\ copy.fs[i] = slotFs[i]
    BY <1>5, <1>a DEF Switch, SlotsInv, TakenInv, Taken, Moving
  <2> QED
    BY <1>5, <2>1, PromiseStutter DEF Switch, FirstOf
<1>10. ASSUME NEW c \in Cores, Grow(c) PROVE UNCHANGED Promise!vars
  <2>1. \A i \in Index : (\E x \in Cores : i \in Owned[x]) => i < max
    BY <1>a DEF SlotsInv, TakenInv, Taken
  <2>2. /\ \A i \in Index : i < max => slotFs'[i] = slotFs[i]
        /\ UNCHANGED <<held, fdOf>>
    BY <1>0, <1>10, Growth
  <2> QED
    BY <2>1, <2>2, PromiseStutter
<1>6. ASSUME NEW c \in Cores, StoreFs(c) PROVE UNCHANGED Promise!vars
  <2>1. \A i \in Index : (\E x \in Cores : i \in Owned[x]) => i # frame[c].fd
    BY <1>6, <1>a DEF StoreFs, SlotsInv, TakenInv, OpeningInv, Taken
  <2> QED
    BY <1>6, <1>0, <2>1, PromiseStutter DEF StoreFs, TypeOK, Column
<1>7. ASSUME NEW c \in Cores, ClearFs(c) PROVE UNCHANGED Promise!vars
  <2>1. \A i \in Index : (\E x \in Cores : i \in Owned[x]) => i # frame[c].fd
    BY <1>7, <1>a DEF ClearFs, SlotsInv, ClosingInv, Closing
  <2> QED
    BY <1>7, <1>0, <2>1, PromiseStutter DEF ClearFs, TypeOK, Column
<1>8. ASSUME NEW c \in Cores, StoreFd(c), ~Lost PROVE Promise!Next
  <2> DEFINE n == frame[c].fd
            d == frame[c].dir
            fs == frame[c].filesystem
  <2>1. /\ n \in Index /\ slotFs[n] = fs /\ fs \in FileSystems /\ d \in Dirs
        /\ \A x \in Cores : d \notin held[x] /\ n \notin Owned[x]
    <3>1. n \in Index /\ slotFs[n] = fs /\ ~Taken(n) /\ d \in Dirs /\ \A x \in Cores : d \notin held[x]
      BY <1>8, <1>0 DEF StoreFd, SlotsInv, OpeningInv, TypeOK, Filling, IsHeld
    <3>2. fs \in FileSystems
      BY <1>8, <1>0 DEF StoreFd, SlotsInv, CallInv, Opening, OpenPcs, TypeOK, Frame
    <3> QED
      BY <3>1, <3>2, <1>a DEF Taken
  <2>2. /\ held' = [held EXCEPT ![c] = @ \cup {d}] /\ slotFs' = slotFs
        /\ fdOf'[d] = n /\ \A e \in Dirs : e # d => fdOf'[e] = fdOf[e]
    BY <1>8, <1>0, <2>1 DEF StoreFd, TypeOK
  <2>3. Owned' = [Owned EXCEPT ![c] = @ \cup {n}]
    <3>1. \A x \in Cores : held'[x] = (IF x = c THEN held[x] \cup {d} ELSE held[x]) /\ held[x] \subseteq Dirs
      BY <2>2, <1>0 DEF TypeOK
    <3>2. \A x \in Cores : {fdOf'[e] : e \in held[x]} = {fdOf[e] : e \in held[x]}
      <4>1. \A x \in Cores : \A e \in held[x] : fdOf'[e] = fdOf[e]
        BY <2>1, <2>2, <3>1
      <4> QED
        BY <4>1
    <3>3. {fdOf'[e] : e \in held[c] \cup {d}} = {fdOf[e] : e \in held[c]} \cup {n}
      BY <2>2, <3>2
    <3>4. \A x \in Cores : {fdOf'[e] : e \in held'[x]} =
              IF x = c THEN {fdOf[e] : e \in held[x]} \cup {n} ELSE {fdOf[e] : e \in held[x]}
      BY <3>1, <3>2, <3>3
    <3> QED
      BY <3>4 DEF Owned
  <2>4. Bound' = [Bound EXCEPT ![n] = fs]
    <3>1. \A i \in Index : (\E x \in Cores : i \in Owned'[x]) <=>
                           (i = n \/ \E x \in Cores : i \in Owned[x])
      <4>1. \A x \in Cores : Owned'[x] = IF x = c THEN Owned[x] \cup {n} ELSE Owned[x]
        BY <2>3 DEF Owned
      <4> QED
        BY <4>1
    <3>2. Bound' = [i \in Index |-> IF i = n \/ \E x \in Cores : i \in Owned[x]
                                      THEN slotFs[i] ELSE NULL]
      BY <2>2, <3>1 DEF Bound
    <3> QED
      BY <2>1, <3>2 DEF Bound
  <2>5. Promise!Open(c, n, fs)
    BY <2>1, <2>3, <2>4 DEF Promise!Open
  <2> QED
    BY <2>1, <2>5 DEF Promise!Next
<1>9. ASSUME NEW c \in Cores, NEW d \in Dirs, CloseEnter(c, d) PROVE Promise!Next
  <2> DEFINE n == fdOf[d]
  <2>1. /\ d \in held[c] /\ n \in Index /\ n \in Owned[c]
        /\ held' = [held EXCEPT ![c] = @ \ {d}] /\ UNCHANGED <<slotFs, fdOf>>
    BY <1>9, <1>0 DEF CloseEnter, TypeOK, Owned
  <2>2. \A x \in Cores : \A e \in held[x] : fdOf[e] = n => x = c /\ e = d
    BY <2>1 DEF SlotsInv, HeldInv
  <2>3. Owned' = [Owned EXCEPT ![c] = @ \ {n}]
    <3>1. \A x \in Cores : held'[x] = IF x = c THEN held[x] \ {d} ELSE held[x]
      BY <2>1, <1>0 DEF TypeOK
    <3>2. {fdOf[e] : e \in held[c] \ {d}} = {fdOf[e] : e \in held[c]} \ {n}
      BY <2>2
    <3>3. \A x \in Cores : {fdOf[e] : e \in held'[x]} =
              IF x = c THEN {fdOf[e] : e \in held[x]} \ {n} ELSE {fdOf[e] : e \in held[x]}
      BY <3>1, <3>2
    <3>4. Owned' = [x \in Cores |-> {fdOf[e] : e \in held'[x]}]
      BY <2>1 DEF Owned
    <3> QED
      BY <3>3, <3>4 DEF Owned
  <2>4. Bound' = [Bound EXCEPT ![n] = NULL]
    <3>1. \A i \in Index : (\E x \in Cores : i \in Owned'[x]) <=>
                           (i # n /\ \E x \in Cores : i \in Owned[x])
      <4>1. \A x \in Cores : x # c => n \notin Owned[x]
        BY <2>2 DEF Owned
      <4> QED
        BY <2>3, <4>1, ZenonT(40) DEF Owned
    <3>2. Bound' = [i \in Index |-> IF i # n /\ \E x \in Cores : i \in Owned[x]
                                      THEN slotFs[i] ELSE NULL]
      BY <2>1, <3>1 DEF Bound
    <3> QED
      BY <2>1, <3>2 DEF Bound
  <2>5. Promise!Close(c, n)
    BY <2>1, <2>3, <2>4 DEF Promise!Close
  <2> QED
    BY <2>1, <2>5 DEF Promise!Next
<1> QED
  BY <1>1, <1>2, <1>3, <1>4, <1>5, <1>6, <1>7, <1>8, <1>9, <1>10 DEF Next, Step, Undefined

\* The slots of open directories implement DescriptorMap for every number of
\* cores, directories and slots, even after an opendir overtook a closedir, until a core
\* uses a table that realloc has freed.
THEOREM SlotsKeepPromise == Spec => PromiseKept
<1>1. SlotsInv /\ [Next]_vars => [Promise!Next]_(Promise!vars)
  BY PromiseStep
<1>2. Spec => []SlotsInv
  BY SlotsInit, SlotsStep, PTL DEF Spec
<1> QED
  BY <1>1, <1>2, PromiseInit, PTL DEF Spec, PromiseKept, Promise!Spec
=============================================================================
