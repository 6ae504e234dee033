------------------------- MODULE VfsDescriptorsProofs -------------------------
(***************************************************************************)
(* Proofs about VfsDescriptors for any number of cores, any heap, any      *)
(* mount table and any bound on the table.                                 *)
(***************************************************************************)
EXTENDS VfsDescriptors, TLAPS

\* The state of a call that has just loaded its slot is a frame.
LEMMA LoadedType ==
    ASSUME TypeOK, NEW fn \in Functions, NEW fd \in Index
    PROVE  Loaded(fn, fd) \in Frame /\ Loaded(fn, fd).fd = fd
BY NullAssumption, CapAssumption
   DEF TypeOK, Loaded, Locals, Frame, Column, IsOpen, Index

\* A frame stays one when a local of it changes.
LEMMA FrameUpdate ==
    ASSUME frame \in [Cores -> Frame], NEW c \in Cores
    PROVE  /\ \A p \in Paths \cup {NULL} : [frame EXCEPT ![c].path = p] \in [Cores -> Frame]
           /\ \A f \in Files \cup {NULL} : [frame EXCEPT ![c].file = f] \in [Cores -> Frame]
           /\ \A n \in 0 .. TableCap : [frame EXCEPT ![c].fd = n] \in [Cores -> Frame]
BY DEF Frame

\* A column stays one when its slots from the n-th on are cleared.
LEMMA FirstOfType ==
    ASSUME NEW S, NEW column \in Column(S), NEW n
    PROVE  /\ FirstOf(column, n) \in Column(S)
           /\ \A i \in Index : FirstOf(column, n)[i] = IF i < n THEN column[i] ELSE NULL
BY DEF Column, FirstOf

LEMMA TypeInit == Init => TypeOK
BY NullAssumption, CapAssumption
   DEF Init, TypeOK, Column, EmptyColumn, EmptyBlock, Block, Frame, NoFrame, Locals,
       Index, Pcs

LEMMA TypeStep == TypeOK /\ [Next]_vars => TypeOK'
<1> SUFFICES ASSUME TypeOK, [Next]_vars PROVE TypeOK'
  OBVIOUS
<1> USE CapAssumption DEF Goto, Enter, Pcs, OpenPcs, ClosePcs, UsePcs, Index, table
<1>0. CASE UNCHANGED vars
  BY <1>0 DEF vars, TypeOK
<1>1. ASSUME NEW c \in Cores, Return(c) PROVE TypeOK'
  BY <1>1, NullAssumption, CapAssumption DEF Return, TypeOK, NoFrame, Locals, Frame
<1>2. ASSUME NEW c \in Cores, FirstTable(c) PROVE TypeOK'
  BY <1>2, CapAssumption DEF FirstTable, TypeOK
<1>3. ASSUME NEW c \in Cores, Scan(c) PROVE TypeOK'
  <2>1. /\ pc' \in [Cores -> Pcs] /\ frame[c].fd \in Nat /\ frame[c].fd < max
        /\ \A d \in Cores : d # c => pc'[d] = pc[d]
    BY <1>3 DEF Scan, TypeOK, Frame
  <2>2. /\ frame' \in [Cores -> Frame]
        /\ \A d \in Cores : d # c => frame'[d] = frame[d]
        /\ pc'[c] # "assign" => frame'[c] = frame[c]
    <3>1. frame[c].fd + 1 \in 0 .. TableCap
      BY <2>1 DEF TypeOK
    <3>2. [frame EXCEPT ![c].fd = frame[c].fd + 1] \in [Cores -> Frame]
      BY <3>1, FrameUpdate DEF TypeOK
    <3> QED
      BY <1>3, <2>1, <3>2 DEF Scan, TypeOK
  <2> QED
    BY <1>3, <2>1, <2>2 DEF Scan, TypeOK
<1>4. ASSUME NEW c \in Cores, Grow(c) PROVE TypeOK'
  <2>1. /\ max' \in 0 .. TableCap /\ frame[c].fd \in 0 .. TableCap - 1
        /\ UNCHANGED <<mutex, obj, frame, held>>
    BY <1>4 DEF Grow, TypeOK
  <2>2. /\ slotFile' \in Column(Files) /\ slotFs' \in Column(FileSystems)
        /\ slotPath' \in Column(Paths)
        /\ base' \in {"valid", "freed", "used", "null"}
        /\ copy' \in [file : Column(Files), fs : Column(FileSystems), path : Column(Paths)]
    BY <1>4, FirstOfType DEF Grow, TypeOK, Block
  <2>3. /\ pc' \in [Cores -> Pcs]
        /\ \A d \in Cores : d # c => pc'[d] = pc[d]
    BY <1>4 DEF Grow, TypeOK
  <2> QED
    BY <2>1, <2>2, <2>3 DEF TypeOK
<1>17. ASSUME NEW c \in Cores, FreeOld(c) PROVE TypeOK'
  BY <1>17 DEF FreeOld, TypeOK
<1>5. ASSUME NEW c \in Cores, Switch(c) PROVE TypeOK'
  <2>1. slotFile' \in Column(Files) /\ slotFs' \in Column(FileSystems)
        /\ slotPath' \in Column(Paths)
    BY <1>5, FirstOfType DEF Switch, TypeOK
  <2> QED
    BY <1>5, <2>1 DEF Switch, TypeOK, Column, EmptyColumn, EmptyBlock, Block
<1>6. ASSUME NEW c \in Cores, Alloc(c) PROVE TypeOK'
  <2>1. ASSUME NEW f \in Files,
               obj' = [obj EXCEPT ![f] = "raw"],
               slotFile' = [slotFile EXCEPT ![frame[c].fd] = f],
               frame' = [frame EXCEPT ![c].file = f],
               pc' = [pc EXCEPT ![c] = "file_open"]
        PROVE  TypeOK'
    <3>1. frame' \in [Cores -> Frame] /\ \A d \in Cores : frame'[d].fd = frame[d].fd
      BY <2>1, FrameUpdate DEF TypeOK, Frame
    <3> QED
      BY <1>6, <2>1, <3>1 DEF Alloc, TypeOK, Column
  <2>2. CASE /\ slotFile' = [slotFile EXCEPT ![frame[c].fd] = NULL]
             /\ pc' = [pc EXCEPT ![c] = "return"]
             /\ UNCHANGED <<obj, frame>>
    BY <1>6, <2>2 DEF Alloc, TypeOK, Column
  <2> QED
    BY <1>6, <2>1, <2>2 DEF Alloc
<1>7. ASSUME NEW c \in Cores, FileOpen(c) PROVE TypeOK'
  BY <1>7 DEF FileOpen, TypeOK, Column
<1>8. ASSUME NEW c \in Cores, StoreFs(c) PROVE TypeOK'
  BY <1>8 DEF StoreFs, TypeOK, Column, Frame
<1>9. ASSUME NEW c \in Cores, StorePath(c) PROVE TypeOK'
  BY <1>9 DEF StorePath, TypeOK, Column, Frame
<1>10. ASSUME NEW c \in Cores, FileClose(c) \/ FreeFile(c) PROVE TypeOK'
  BY <1>10, ZenonT(40) DEF FileClose, FreeFile, TypeOK
<1>11. ASSUME NEW c \in Cores, ClearFs(c) \/ ClearFile(c) \/ ClearPath(c) PROVE TypeOK'
  BY <1>11 DEF ClearFs, ClearFile, ClearPath, TypeOK, Column, Access
<1>12. ASSUME NEW c \in Cores, Call(c) PROVE TypeOK'
  BY <1>12 DEF Call, TypeOK
<1>16. ASSUME NEW c \in Cores, FatStat(c) PROVE TypeOK'
  <2>1. slotPath[frame[c].fd] \in Paths \cup {NULL}
    BY <1>16 DEF FatStat, TypeOK, Column
  <2>2. frame' \in [Cores -> Frame]
    BY <1>16, <2>1, FrameUpdate DEF FatStat, TypeOK
  <2> QED
    BY <1>16, <2>2 DEF FatStat, TypeOK, Access
<1>13. ASSUME NEW c \in Cores, NEW p \in Paths, OpenEnter(c, p) PROVE TypeOK'
  BY <1>13, MountedAssumption, CapAssumption
     DEF OpenEnter, TypeOK, Locals, Frame, Functions
<1>14. ASSUME NEW c \in Cores, NEW fd \in Index, CloseEnter(c, fd) PROVE TypeOK'
  <2>1. Loaded("close", fd) \in Frame /\ Loaded("close", fd).fd = fd
    BY LoadedType DEF Functions
  <2>2. frame' = [frame EXCEPT ![c] = Loaded("close", fd)]
    BY <1>14 DEF CloseEnter
  <2>3. frame' \in [Cores -> Frame] /\ \A d \in Cores :
           frame'[d].fd = IF d = c THEN fd ELSE frame[d].fd
    BY <2>1, <2>2 DEF TypeOK
  <2>4. pc' \in [Cores -> Pcs] /\ \A d \in Cores : d # c => pc'[d] = pc[d]
    BY <1>14 DEF CloseEnter, TypeOK
  <2> QED
    BY <1>14, <2>3, <2>4 DEF CloseEnter, TypeOK, Functions, Access, AccessFor
<1>15. ASSUME NEW c \in Cores, NEW fn \in FileOps, NEW fd \in Index,
              UseEnter(c, fn, fd) \/ ReadWriteEnter(c, fn, fd)
       PROVE  TypeOK'
  <2>1. Loaded(fn, fd) \in Frame /\ Loaded(fn, fd).fd = fd
    BY LoadedType DEF Functions
  <2>2. frame' = [frame EXCEPT ![c] = Loaded(fn, fd)]
    BY <1>15 DEF UseEnter, ReadWriteEnter
  <2>3. frame' \in [Cores -> Frame] /\ \A d \in Cores :
           frame'[d].fd = IF d = c THEN fd ELSE frame[d].fd
    BY <2>1, <2>2 DEF TypeOK
  <2>4. pc' \in [Cores -> Pcs] /\ \A d \in Cores : d # c => pc'[d] = pc[d]
    BY <1>15 DEF UseEnter, ReadWriteEnter, TypeOK
  <2>5. mutex' \in [Functions -> Cores \cup {NULL}]
    BY <1>15 DEF UseEnter, ReadWriteEnter, TypeOK, Functions
  <2> QED
    BY <1>15, <2>3, <2>4, <2>5 DEF UseEnter, ReadWriteEnter, TypeOK, Access, AccessFor
<1> QED
  BY <1>0, <1>1, <1>2, <1>3, <1>4, <1>5, <1>6, <1>7, <1>8, <1>9, <1>10, <1>11,
     <1>12, <1>13, <1>14, <1>15, <1>16, <1>17 DEF Next, Step, Undefined

\* Every variable keeps its type: the table stays within its bound, a mutex
\* belongs to a core or to nobody, a call stays at a place of its function.
THEOREM TypeCorrect == Spec => []TypeOK
BY TypeInit, TypeStep, PTL DEF Spec

------------------------------------------------------------------------------
LEMMA OwnershipInit == Init => OwnershipInv
<1> SUFFICES ASSUME Init PROVE OwnershipInv
  OBVIOUS
<1>1. TypeOK
  BY TypeInit
<1>2. CallInv /\ OwnersDisjoint
  BY NullAssumption DEF Init, CallInv, OwnersDisjoint, Functions, Opening, OpenPcs, ClosePcs, NoFrame, Locals
<1>3. TakenInv /\ ClosingInv /\ OpeningInv
  BY DEF Init, TakenInv, ClosingInv, OpeningInv, Taken, Closing, Moving
<1> QED
  BY <1>1, <1>2, <1>3 DEF OwnershipInv

LEMMA OwnershipStep ==
    ASSUME Strangers = FALSE, OwnershipInv, [Next]_vars
    PROVE  OwnershipInv'
<1>0. TypeOK /\ TypeOK'
  BY TypeStep DEF OwnershipInv
<1> USE CapAssumption DEF Goto, Enter, Pcs, OpenPcs, ClosePcs, UsePcs, Index, table,
        Opening, Closing, Taken, Moving
<1>1. CASE UNCHANGED vars
  BY <1>1, <1>0 DEF vars, OwnershipInv, CallInv, OwnersDisjoint, TakenInv, ClosingInv, OpeningInv
<1>2. ASSUME NEW c \in Cores, Return(c) PROVE OwnershipInv'
  <2>1. CallInv'
    BY <1>2, <1>0, NullAssumption DEF Return, OwnershipInv, TypeOK, CallInv, NoFrame, Locals,
       Functions
  <2>2. OwnersDisjoint'
    BY <1>2, <1>0 DEF Return, OwnershipInv, OwnersDisjoint
  <2>3. TakenInv'
    BY <1>2, <1>0 DEF Return, OwnershipInv, TypeOK, TakenInv
  <2>4. ClosingInv'
    BY <1>2, <1>0 DEF Return, OwnershipInv, TypeOK, ClosingInv
  <2>5. OpeningInv'
    BY <1>2, <1>0 DEF Return, OwnershipInv, TypeOK, OpeningInv
  <2> QED
    BY <1>0, <2>1, <2>2, <2>3, <2>4, <2>5 DEF OwnershipInv
<1>3. ASSUME NEW c \in Cores, FirstTable(c) PROVE OwnershipInv'
  <2>1. CallInv'
    BY <1>3, <1>0, NullAssumption DEF FirstTable, OwnershipInv, TypeOK, Frame, CallInv
  <2>2. OwnersDisjoint'
    BY <1>3, <1>0, NullAssumption DEF FirstTable, OwnershipInv, TypeOK, Frame, OwnersDisjoint
  <2>3. TakenInv'
    BY <1>3, <1>0, NullAssumption DEF FirstTable, OwnershipInv, TypeOK, Frame, CallInv, OwnersDisjoint, TakenInv, ClosingInv, OpeningInv
  <2>4. ClosingInv'
    BY <1>3, <1>0, NullAssumption DEF FirstTable, OwnershipInv, TypeOK, Frame, CallInv, OwnersDisjoint, TakenInv, ClosingInv, OpeningInv
  <2>5. OpeningInv'
    BY <1>3, <1>0, NullAssumption DEF FirstTable, OwnershipInv, TypeOK, Frame, CallInv, OwnersDisjoint, TakenInv, ClosingInv, OpeningInv
  <2> QED
    BY <1>0, <2>1, <2>2, <2>3, <2>4, <2>5 DEF OwnershipInv
<1>4. ASSUME NEW c \in Cores, Scan(c) PROVE OwnershipInv'
  <2>a. /\ pc[c] = "assign" /\ frame[c].fd < max
        /\ \A d \in Cores : d # c => pc'[d] = pc[d] /\ frame'[d] = frame[d]
        /\ \/ pc'[c] = "assign" /\ frame'[c].fd = frame[c].fd + 1
           \/ /\ pc'[c] = "alloc" /\ frame'[c].fd = frame[c].fd
              /\ slotFs[frame[c].fd] = NULL
        /\ frame'[c].fn = frame[c].fn /\ frame'[c].filesystem = frame[c].filesystem
        /\ UNCHANGED <<max, table, copy, mutex, held>>
    BY <1>4, <1>0 DEF Scan, TypeOK, Frame
  <2>b. \A fd \in Index : Taken(fd)' => Taken(fd)
    BY <2>a
  <2>1. CallInv'
    BY <2>a, <1>0 DEF OwnershipInv, TypeOK, CallInv, Frame
  <2>2. OwnersDisjoint'
    BY <2>a DEF OwnershipInv, OwnersDisjoint
  <2> HIDE DEF Taken
  <2>3. TakenInv'
    BY <2>a, <2>b DEF OwnershipInv, TakenInv
  <2>4. ClosingInv'
    BY <2>a DEF OwnershipInv, ClosingInv
  <2>5. OpeningInv'
    <3>1. \A d \in Cores : pc[d] = "store_path" => frame[d].fd \in Index
      BY <1>0 DEF TypeOK
    <3> QED
      BY <2>a, <2>b, <3>1 DEF OwnershipInv, OpeningInv
  <2> QED
    BY <1>0, <2>1, <2>2, <2>3, <2>4, <2>5 DEF OwnershipInv
<1>5. ASSUME NEW c \in Cores, Grow(c) PROVE OwnershipInv'
  <2> DEFINE n == frame[c].fd
  <2>a. /\ pc[c] = "assign" /\ pc'[c] \in {"free_old", "alloc", "return"}
        /\ n = max /\ max > 0 /\ max' = 2 * max /\ max \in Nat /\ max' > max
        /\ \A d \in Cores : d # c => pc'[d] = pc[d]
        /\ UNCHANGED <<mutex, frame, held>>
    BY <1>5, <1>0 DEF Grow, TypeOK
  <2>b. \A fd \in Index : Taken(fd)' => Taken(fd)
    BY <2>a
  <2>c. \A d \in Cores : d # c => ~Opening(d)
    BY <2>a, <1>0, NullAssumption DEF OwnershipInv, CallInv
  <2>e. n \in Index
    BY <1>5, <1>0 DEF Grow, TypeOK
  <2>f. \/ UNCHANGED slotFs /\ pc'[c] = "free_old" /\ copy'.fs = slotFs
        \/ slotFs' = FirstOf(slotFs, n) /\ pc'[c] = "alloc"
        \/ UNCHANGED slotFs /\ pc'[c] = "return"
    BY <1>5, <1>0 DEF Grow, TypeOK, Block
  <2>d. /\ \A i \in Index : i < n => slotFs'[i] = slotFs[i]
        /\ pc'[c] = "free_old" => copy'.fs = slotFs'
        /\ pc'[c] = "alloc" => slotFs'[n] = NULL
        /\ n \in Index
    BY <2>e, <2>f DEF FirstOf
  <2>1. CallInv'
    BY <2>a, <1>0 DEF OwnershipInv, TypeOK, CallInv
  <2>2. OwnersDisjoint'
    BY <2>a DEF OwnershipInv, OwnersDisjoint
  <2> HIDE DEF Taken
  <2>3. TakenInv'
    BY <2>a, <2>b, <2>c, <2>d DEF OwnershipInv, TakenInv
  <2>4. ClosingInv'
    BY <2>a DEF OwnershipInv, ClosingInv
  <2>5. OpeningInv'
    BY <2>a, <2>c, <2>d DEF OpeningInv
  <2> QED
    BY <1>0, <2>1, <2>2, <2>3, <2>4, <2>5 DEF OwnershipInv
<1>22. ASSUME NEW c \in Cores, FreeOld(c) PROVE OwnershipInv'
  <2>a. /\ pc[c] = "free_old" /\ pc'[c] = "switch"
        /\ \A d \in Cores : d # c => pc'[d] = pc[d]
        /\ UNCHANGED <<max, slotFs, copy, mutex, frame, held>>
    BY <1>22, <1>0 DEF FreeOld, TypeOK
  <2>1. CallInv' /\ OwnersDisjoint'
    BY <2>a DEF OwnershipInv, CallInv, OwnersDisjoint
  <2>2. TakenInv' /\ ClosingInv' /\ OpeningInv'
    BY <2>a DEF OwnershipInv, TakenInv, ClosingInv, OpeningInv
  <2> QED
    BY <1>0, <2>1, <2>2 DEF OwnershipInv
<1>6. ASSUME NEW c \in Cores, Switch(c) PROVE OwnershipInv'
  <2> DEFINE n == frame[c].fd
  <2>a. /\ pc[c] = "switch" /\ pc'[c] = "alloc" /\ n \in Index
        /\ \A d \in Cores : d # c => pc'[d] = pc[d]
        /\ UNCHANGED <<max, mutex, frame, held>>
        /\ \A i \in Index : slotFs'[i] = IF i < n THEN copy.fs[i] ELSE NULL
    BY <1>6, <1>0 DEF Switch, TypeOK, FirstOf
  <2>b. \A fd \in Index : Taken(fd)' => Taken(fd)
    BY <2>a
  <2>c. \A d \in Cores : d # c => ~Opening(d)
    BY <2>a, <1>0, NullAssumption DEF OwnershipInv, CallInv
  <2>1. CallInv'
    BY <2>a, <1>0 DEF OwnershipInv, CallInv
  <2>2. OwnersDisjoint'
    BY <2>a DEF OwnershipInv, OwnersDisjoint
  <2> HIDE DEF Taken
  <2>3. TakenInv'
    <3>1. \A fd \in Index : Taken(fd)' =>
             /\ fd < max /\ slotFs[fd] # NULL
             /\ fd < n /\ copy.fs[fd] = slotFs[fd]
      BY <2>a, <2>b DEF OwnershipInv, TakenInv
    <3>2. \A d \in Cores : ~Moving(d)'
      BY <2>a, <2>c
    <3> QED
      BY <2>a, <3>1, <3>2 DEF TakenInv
  <2>4. ClosingInv'
    BY <2>a DEF OwnershipInv, ClosingInv
  <2>5. OpeningInv'
    <3>1. n < max
      BY <2>a DEF OwnershipInv, OpeningInv
    <3>2. slotFs'[n] = NULL
      BY <2>a, <1>0 DEF TypeOK
    <3> QED
      BY <2>a, <2>c, <3>1, <3>2 DEF OpeningInv
  <2> QED
    BY <1>0, <2>1, <2>2, <2>3, <2>4, <2>5 DEF OwnershipInv
<1>7. ASSUME NEW c \in Cores, Alloc(c) PROVE OwnershipInv'
  <2>a. /\ pc[c] = "alloc" /\ pc'[c] \in {"file_open", "return"}
        /\ \A d \in Cores : d # c => pc'[d] = pc[d]
        /\ \A d \in Cores : /\ frame'[d].fd = frame[d].fd
                             /\ frame'[d].fn = frame[d].fn
                             /\ frame'[d].filesystem = frame[d].filesystem
        /\ UNCHANGED <<max, slotFs, copy, mutex, held>>
    <3>1. ASSUME NEW f \in Files, frame' = [frame EXCEPT ![c].file = f]
          PROVE  \A d \in Cores : /\ frame'[d].fd = frame[d].fd
                                  /\ frame'[d].fn = frame[d].fn
                                  /\ frame'[d].filesystem = frame[d].filesystem
      BY <3>1, <1>0 DEF TypeOK, Frame
    <3>2. pc[c] = "alloc" /\ UNCHANGED <<max, slotFs, copy, mutex, held>>
      BY <1>7 DEF Alloc
    <3>3. /\ pc'[c] \in {"file_open", "return"}
          /\ \A d \in Cores : d # c => pc'[d] = pc[d]
      BY <1>7, <1>0 DEF Alloc, TypeOK
    <3>4. \/ UNCHANGED frame
          \/ \E f \in Files : frame' = [frame EXCEPT ![c].file = f]
      BY <1>7 DEF Alloc
    <3> QED
      BY <3>1, <3>2, <3>3, <3>4
  <2>b. \A fd \in Index : Taken(fd)' => Taken(fd)
    BY <2>a
  <2>1. CallInv'
    BY <2>a, <1>0 DEF OwnershipInv, TypeOK, CallInv, Frame
  <2>2. OwnersDisjoint'
    BY <2>a DEF OwnershipInv, OwnersDisjoint
  <2> HIDE DEF Taken
  <2>3. TakenInv'
    BY <2>a, <2>b DEF OwnershipInv, TakenInv
  <2>4. ClosingInv'
    BY <2>a DEF OwnershipInv, ClosingInv
  <2>5. OpeningInv'
    <3>1. \A d \in Cores : pc[d] = "store_path" => frame[d].fd \in Index
      BY <1>0 DEF TypeOK
    <3> QED
      BY <2>a, <2>b, <3>1 DEF OwnershipInv, OpeningInv
  <2> QED
    BY <1>0, <2>1, <2>2, <2>3, <2>4, <2>5 DEF OwnershipInv
<1>8. ASSUME NEW c \in Cores, FileOpen(c) PROVE OwnershipInv'
  <2>1. CallInv'
    BY <1>8, <1>0, NullAssumption DEF FileOpen, OwnershipInv, TypeOK, Frame, CallInv
  <2>2. OwnersDisjoint'
    BY <1>8, <1>0, NullAssumption DEF FileOpen, OwnershipInv, TypeOK, Frame, OwnersDisjoint
  <2>3. TakenInv'
    BY <1>8, <1>0, NullAssumption DEF FileOpen, OwnershipInv, TypeOK, Frame, CallInv, OwnersDisjoint, TakenInv, ClosingInv, OpeningInv
  <2>4. ClosingInv'
    BY <1>8, <1>0, NullAssumption DEF FileOpen, OwnershipInv, TypeOK, Frame, CallInv, OwnersDisjoint, TakenInv, ClosingInv, OpeningInv
  <2>5. OpeningInv'
    BY <1>8, <1>0, NullAssumption DEF FileOpen, OwnershipInv, TypeOK, Frame, CallInv, OwnersDisjoint, TakenInv, ClosingInv, OpeningInv
  <2> QED
    BY <1>0, <2>1, <2>2, <2>3, <2>4, <2>5 DEF OwnershipInv
<1>9. ASSUME NEW c \in Cores, StoreFs(c) PROVE OwnershipInv'
  <2> DEFINE n == frame[c].fd
  <2>a. /\ pc[c] = "store_fs" /\ pc'[c] = "store_path" /\ n \in Index
        /\ \A d \in Cores : d # c => pc'[d] = pc[d]
        /\ UNCHANGED <<max, copy, mutex, frame, held>>
        /\ slotFs'[n] = frame[c].filesystem
        /\ \A i \in Index : i # n => slotFs'[i] = slotFs[i]
    BY <1>9, <1>0 DEF StoreFs, TypeOK, Column
  <2>b. \A fd \in Index : Taken(fd)' => Taken(fd)
    BY <2>a
  <2>c. \A d \in Cores : d # c => ~Opening(d)
    BY <2>a, <1>0, NullAssumption DEF OwnershipInv, CallInv
  <2>1. CallInv'
    BY <2>a, <1>0 DEF OwnershipInv, CallInv
  <2>2. OwnersDisjoint'
    BY <2>a DEF OwnershipInv, OwnersDisjoint
  <2> HIDE DEF Taken
  <2>d. n < max /\ ~Taken(n)
    BY <2>a DEF OwnershipInv, OpeningInv, TakenInv
  <2>3. TakenInv'
    BY <2>a, <2>b, <2>c, <2>d DEF OwnershipInv, TakenInv
  <2>4. ClosingInv'
    BY <2>a DEF OwnershipInv, ClosingInv
  <2>5. OpeningInv'
    BY <2>a, <2>b, <2>c, <2>d DEF OpeningInv
  <2> QED
    BY <1>0, <2>1, <2>2, <2>3, <2>4, <2>5 DEF OwnershipInv
<1>10. ASSUME NEW c \in Cores, StorePath(c) PROVE OwnershipInv'
  <2>1. CallInv'
    BY <1>10, <1>0, NullAssumption DEF StorePath, OwnershipInv, TypeOK, Frame, CallInv
  <2>2. OwnersDisjoint'
    BY <1>10, <1>0 DEF StorePath, OwnershipInv, TypeOK, OwnersDisjoint, OpeningInv
  <2>3. TakenInv'
    BY <1>10, <1>0, NullAssumption DEF StorePath, OwnershipInv, TypeOK, Frame, CallInv, OwnersDisjoint, TakenInv, ClosingInv, OpeningInv
  <2>4. ClosingInv'
    BY <1>10, <1>0, NullAssumption DEF StorePath, OwnershipInv, TypeOK, Frame, CallInv, OwnersDisjoint, TakenInv, ClosingInv, OpeningInv
  <2>5. OpeningInv'
    BY <1>10, <1>0, NullAssumption DEF StorePath, OwnershipInv, TypeOK, Frame, CallInv, OwnersDisjoint, TakenInv, ClosingInv, OpeningInv
  <2> QED
    BY <1>0, <2>1, <2>2, <2>3, <2>4, <2>5 DEF OwnershipInv
<1>11. ASSUME NEW c \in Cores, FileClose(c) PROVE OwnershipInv'
  <2>1. CallInv'
    BY <1>11, <1>0, NullAssumption DEF FileClose, OwnershipInv, TypeOK, Frame, CallInv
  <2>2. OwnersDisjoint'
    BY <1>11, <1>0, NullAssumption DEF FileClose, OwnershipInv, TypeOK, Frame, OwnersDisjoint
  <2>3. TakenInv'
    BY <1>11, <1>0, NullAssumption DEF FileClose, OwnershipInv, TypeOK, Frame, CallInv, OwnersDisjoint, TakenInv, ClosingInv, OpeningInv
  <2>4. ClosingInv'
    BY <1>11, <1>0, NullAssumption DEF FileClose, OwnershipInv, TypeOK, Frame, CallInv, OwnersDisjoint, TakenInv, ClosingInv, OpeningInv
  <2>5. OpeningInv'
    BY <1>11, <1>0, NullAssumption DEF FileClose, OwnershipInv, TypeOK, Frame, CallInv, OwnersDisjoint, TakenInv, ClosingInv, OpeningInv
  <2> QED
    BY <1>0, <2>1, <2>2, <2>3, <2>4, <2>5 DEF OwnershipInv
<1>12. ASSUME NEW c \in Cores, FreeFile(c) PROVE OwnershipInv'
  <2>1. CallInv'
    BY <1>12, <1>0, NullAssumption DEF FreeFile, OwnershipInv, TypeOK, Frame, CallInv
  <2>2. OwnersDisjoint'
    BY <1>12, <1>0, NullAssumption DEF FreeFile, OwnershipInv, TypeOK, Frame, OwnersDisjoint
  <2>3. TakenInv'
    BY <1>12, <1>0, NullAssumption DEF FreeFile, OwnershipInv, TypeOK, Frame, CallInv, OwnersDisjoint, TakenInv, ClosingInv, OpeningInv
  <2>4. ClosingInv'
    BY <1>12, <1>0, NullAssumption DEF FreeFile, OwnershipInv, TypeOK, Frame, CallInv, OwnersDisjoint, TakenInv, ClosingInv, OpeningInv
  <2>5. OpeningInv'
    BY <1>12, <1>0, NullAssumption DEF FreeFile, OwnershipInv, TypeOK, Frame, CallInv, OwnersDisjoint, TakenInv, ClosingInv, OpeningInv
  <2> QED
    BY <1>0, <2>1, <2>2, <2>3, <2>4, <2>5 DEF OwnershipInv
<1>13. ASSUME NEW c \in Cores, ClearFs(c) PROVE OwnershipInv'
  <2>1. CallInv'
    BY <1>13, <1>0, NullAssumption DEF ClearFs, OwnershipInv, TypeOK, Frame, CallInv
  <2>2. OwnersDisjoint'
    BY <1>13, <1>0, NullAssumption DEF ClearFs, OwnershipInv, TypeOK, Frame, OwnersDisjoint
  <2>3. TakenInv'
    BY <1>13, <1>0, NullAssumption DEF ClearFs, OwnershipInv, TypeOK, Frame, CallInv, OwnersDisjoint, TakenInv, ClosingInv, OpeningInv
  <2>4. ClosingInv'
    BY <1>13, <1>0, NullAssumption DEF ClearFs, OwnershipInv, TypeOK, Frame, CallInv, OwnersDisjoint, TakenInv, ClosingInv, OpeningInv
  <2>5. OpeningInv'
    BY <1>13, <1>0, NullAssumption DEF ClearFs, OwnershipInv, TypeOK, Frame, CallInv, OwnersDisjoint, TakenInv, ClosingInv, OpeningInv
  <2> QED
    BY <1>0, <2>1, <2>2, <2>3, <2>4, <2>5 DEF OwnershipInv
<1>14. ASSUME NEW c \in Cores, ClearFile(c) PROVE OwnershipInv'
  <2>1. CallInv'
    BY <1>14, <1>0, NullAssumption DEF ClearFile, OwnershipInv, TypeOK, Frame, CallInv
  <2>2. OwnersDisjoint'
    BY <1>14, <1>0, NullAssumption DEF ClearFile, OwnershipInv, TypeOK, Frame, OwnersDisjoint
  <2>3. TakenInv'
    BY <1>14, <1>0, NullAssumption DEF ClearFile, OwnershipInv, TypeOK, Frame, CallInv, OwnersDisjoint, TakenInv, ClosingInv, OpeningInv
  <2>4. ClosingInv'
    BY <1>14, <1>0, NullAssumption DEF ClearFile, OwnershipInv, TypeOK, Frame, CallInv, OwnersDisjoint, TakenInv, ClosingInv, OpeningInv
  <2>5. OpeningInv'
    BY <1>14, <1>0, NullAssumption DEF ClearFile, OwnershipInv, TypeOK, Frame, CallInv, OwnersDisjoint, TakenInv, ClosingInv, OpeningInv
  <2> QED
    BY <1>0, <2>1, <2>2, <2>3, <2>4, <2>5 DEF OwnershipInv
<1>15. ASSUME NEW c \in Cores, ClearPath(c) PROVE OwnershipInv'
  <2>1. CallInv'
    BY <1>15, <1>0, NullAssumption DEF ClearPath, OwnershipInv, TypeOK, Frame, CallInv
  <2>2. OwnersDisjoint'
    BY <1>15, <1>0, NullAssumption DEF ClearPath, OwnershipInv, TypeOK, Frame, OwnersDisjoint
  <2>3. TakenInv'
    BY <1>15, <1>0, NullAssumption DEF ClearPath, OwnershipInv, TypeOK, Frame, CallInv, OwnersDisjoint, TakenInv, ClosingInv, OpeningInv
  <2>4. ClosingInv'
    BY <1>15, <1>0, NullAssumption DEF ClearPath, OwnershipInv, TypeOK, Frame, CallInv, OwnersDisjoint, TakenInv, ClosingInv, OpeningInv
  <2>5. OpeningInv'
    BY <1>15, <1>0, NullAssumption DEF ClearPath, OwnershipInv, TypeOK, Frame, CallInv, OwnersDisjoint, TakenInv, ClosingInv, OpeningInv
  <2> QED
    BY <1>0, <2>1, <2>2, <2>3, <2>4, <2>5 DEF OwnershipInv
<1>16. ASSUME NEW c \in Cores, Call(c) PROVE OwnershipInv'
  <2>1. CallInv'
    BY <1>16, <1>0, NullAssumption DEF Call, OwnershipInv, TypeOK, Frame, CallInv
  <2>2. OwnersDisjoint'
    BY <1>16, <1>0, NullAssumption DEF Call, OwnershipInv, TypeOK, Frame, OwnersDisjoint
  <2>3. TakenInv'
    BY <1>16, <1>0, NullAssumption DEF Call, OwnershipInv, TypeOK, Frame, CallInv, OwnersDisjoint, TakenInv, ClosingInv, OpeningInv
  <2>4. ClosingInv'
    BY <1>16, <1>0, NullAssumption DEF Call, OwnershipInv, TypeOK, Frame, CallInv, OwnersDisjoint, TakenInv, ClosingInv, OpeningInv
  <2>5. OpeningInv'
    BY <1>16, <1>0, NullAssumption DEF Call, OwnershipInv, TypeOK, Frame, CallInv, OwnersDisjoint, TakenInv, ClosingInv, OpeningInv
  <2> QED
    BY <1>0, <2>1, <2>2, <2>3, <2>4, <2>5 DEF OwnershipInv
<1>17. ASSUME NEW c \in Cores, FatStat(c) PROVE OwnershipInv'
  <2>1. CallInv'
    BY <1>17, <1>0, NullAssumption DEF FatStat, OwnershipInv, TypeOK, Frame, CallInv
  <2>2. OwnersDisjoint'
    BY <1>17, <1>0, NullAssumption DEF FatStat, OwnershipInv, TypeOK, Frame, OwnersDisjoint
  <2>3. TakenInv'
    BY <1>17, <1>0, NullAssumption DEF FatStat, OwnershipInv, TypeOK, Frame, CallInv, OwnersDisjoint, TakenInv, ClosingInv, OpeningInv
  <2>4. ClosingInv'
    BY <1>17, <1>0, NullAssumption DEF FatStat, OwnershipInv, TypeOK, Frame, CallInv, OwnersDisjoint, TakenInv, ClosingInv, OpeningInv
  <2>5. OpeningInv'
    BY <1>17, <1>0, NullAssumption DEF FatStat, OwnershipInv, TypeOK, Frame, CallInv, OwnersDisjoint, TakenInv, ClosingInv, OpeningInv
  <2> QED
    BY <1>0, <2>1, <2>2, <2>3, <2>4, <2>5 DEF OwnershipInv
<1>18. ASSUME NEW c \in Cores, NEW p \in Paths, OpenEnter(c, p)
       PROVE  OwnershipInv'
  <2>1. CallInv'
    BY <1>18, <1>0, NullAssumption, MountedAssumption DEF OwnershipInv, TypeOK, Frame, CallInv,
       OpenEnter, Locals, Functions
  <2>2. OwnersDisjoint'
    BY <1>18, <1>0, NullAssumption, MountedAssumption DEF OwnershipInv, TypeOK, Frame, CallInv, OwnersDisjoint, TakenInv, ClosingInv, OpeningInv,
       OpenEnter, Locals, Functions
  <2>3. TakenInv'
    BY <1>18, <1>0, NullAssumption, MountedAssumption DEF OwnershipInv, TypeOK, Frame, CallInv, OwnersDisjoint, TakenInv, ClosingInv, OpeningInv,
       OpenEnter, Locals, Functions
  <2>4. ClosingInv'
    BY <1>18, <1>0, NullAssumption, MountedAssumption DEF OwnershipInv, TypeOK, Frame, CallInv, OwnersDisjoint, TakenInv, ClosingInv, OpeningInv,
       OpenEnter, Locals, Functions
  <2>5. OpeningInv'
    BY <1>18, <1>0, NullAssumption, MountedAssumption DEF OwnershipInv, TypeOK, Frame, CallInv, OwnersDisjoint, TakenInv, ClosingInv, OpeningInv,
       OpenEnter, Locals, Functions
  <2> QED
    BY <1>0, <2>1, <2>2, <2>3, <2>4, <2>5 DEF OwnershipInv
<1>19. ASSUME NEW c \in Cores, NEW fd \in Index, CloseEnter(c, fd)
       PROVE  OwnershipInv'
  <2>1. CallInv'
    BY <1>19, <1>0, NullAssumption DEF OwnershipInv, TypeOK, Frame, CallInv,
       CloseEnter, Loaded, Locals, IsOpen, Nameable, Functions
  <2>2. OwnersDisjoint'
    BY <1>19, <1>0, NullAssumption DEF OwnershipInv, TypeOK, Frame, CallInv, OwnersDisjoint, TakenInv, ClosingInv, OpeningInv,
       CloseEnter, Loaded, Locals, IsOpen, Nameable, Functions
  <2>3. TakenInv'
    BY <1>19, <1>0, NullAssumption DEF OwnershipInv, TypeOK, Frame, CallInv, OwnersDisjoint, TakenInv, ClosingInv, OpeningInv,
       CloseEnter, Loaded, Locals, IsOpen, Nameable, Functions
  <2>4. ClosingInv'
    BY <1>19, <1>0, NullAssumption DEF OwnershipInv, TypeOK, Frame, CallInv, OwnersDisjoint, TakenInv, ClosingInv, OpeningInv,
       CloseEnter, Loaded, Locals, IsOpen, Nameable, Functions
  <2>5. OpeningInv'
    BY <1>19, <1>0, NullAssumption DEF OwnershipInv, TypeOK, Frame, CallInv, OwnersDisjoint, TakenInv, ClosingInv, OpeningInv,
       CloseEnter, Loaded, Locals, IsOpen, Nameable, Functions
  <2> QED
    BY <1>0, <2>1, <2>2, <2>3, <2>4, <2>5 DEF OwnershipInv
<1>20. ASSUME NEW c \in Cores, NEW fn \in FileOps, NEW fd \in Index, UseEnter(c, fn, fd)
       PROVE  OwnershipInv'
  <2>1. CallInv'
    BY <1>20, <1>0, NullAssumption, FileOpsAssumption DEF OwnershipInv, TypeOK, Frame, CallInv,
       UseEnter, Loaded, Locals, LockedOps, UnlockedOps, Functions
  <2>2. OwnersDisjoint'
    BY <1>20, <1>0, NullAssumption, FileOpsAssumption DEF OwnershipInv, TypeOK, Frame, CallInv, OwnersDisjoint, TakenInv, ClosingInv, OpeningInv,
       UseEnter, Loaded, Locals, LockedOps, UnlockedOps, Functions
  <2>3. TakenInv'
    BY <1>20, <1>0, NullAssumption, FileOpsAssumption DEF OwnershipInv, TypeOK, Frame, CallInv, OwnersDisjoint, TakenInv, ClosingInv, OpeningInv,
       UseEnter, Loaded, Locals, LockedOps, UnlockedOps, Functions
  <2>4. ClosingInv'
    BY <1>20, <1>0, NullAssumption, FileOpsAssumption DEF OwnershipInv, TypeOK, Frame, CallInv, OwnersDisjoint, TakenInv, ClosingInv, OpeningInv,
       UseEnter, Loaded, Locals, LockedOps, UnlockedOps, Functions
  <2>5. OpeningInv'
    BY <1>20, <1>0, NullAssumption, FileOpsAssumption DEF OwnershipInv, TypeOK, Frame, CallInv, OwnersDisjoint, TakenInv, ClosingInv, OpeningInv,
       UseEnter, Loaded, Locals, LockedOps, UnlockedOps, Functions
  <2> QED
    BY <1>0, <2>1, <2>2, <2>3, <2>4, <2>5 DEF OwnershipInv
<1>21. ASSUME NEW c \in Cores, NEW fn \in FileOps, NEW fd \in Index, ReadWriteEnter(c, fn, fd)
       PROVE  OwnershipInv'
  <2>1. CallInv'
    BY <1>21, <1>0, NullAssumption, FileOpsAssumption DEF OwnershipInv, TypeOK, Frame, CallInv,
       ReadWriteEnter, Loaded, Locals, LockedOps, UnlockedOps, Functions
  <2>2. OwnersDisjoint'
    BY <1>21, <1>0, NullAssumption, FileOpsAssumption DEF OwnershipInv, TypeOK, Frame, CallInv, OwnersDisjoint, TakenInv, ClosingInv, OpeningInv,
       ReadWriteEnter, Loaded, Locals, LockedOps, UnlockedOps, Functions
  <2>3. TakenInv'
    BY <1>21, <1>0, NullAssumption, FileOpsAssumption DEF OwnershipInv, TypeOK, Frame, CallInv, OwnersDisjoint, TakenInv, ClosingInv, OpeningInv,
       ReadWriteEnter, Loaded, Locals, LockedOps, UnlockedOps, Functions
  <2>4. ClosingInv'
    BY <1>21, <1>0, NullAssumption, FileOpsAssumption DEF OwnershipInv, TypeOK, Frame, CallInv, OwnersDisjoint, TakenInv, ClosingInv, OpeningInv,
       ReadWriteEnter, Loaded, Locals, LockedOps, UnlockedOps, Functions
  <2>5. OpeningInv'
    BY <1>21, <1>0, NullAssumption, FileOpsAssumption DEF OwnershipInv, TypeOK, Frame, CallInv, OwnersDisjoint, TakenInv, ClosingInv, OpeningInv,
       ReadWriteEnter, Loaded, Locals, LockedOps, UnlockedOps, Functions
  <2> QED
    BY <1>0, <2>1, <2>2, <2>3, <2>4, <2>5 DEF OwnershipInv
<1> QED
  BY <1>1, <1>2, <1>3, <1>4, <1>5, <1>6, <1>7, <1>8, <1>9, <1>10, <1>11, <1>12, <1>13,
     <1>14, <1>15, <1>16, <1>17, <1>18, <1>19, <1>20, <1>21, <1>22 DEF Next, Step, Undefined

\* The inductive invariant holds when every core keeps to its own descriptors.
THEOREM Ownership ==
    ASSUME Strangers = FALSE
    PROVE  Spec => []OwnershipInv
<1>1. OwnershipInv /\ [Next]_vars => OwnershipInv'
  BY OwnershipStep
<1> QED
  BY OwnershipInit, <1>1, PTL DEF Spec

\* However the _open and _close of any number of cores interleave, although
\* each has a mutex of its own, no descriptor is handed to two cores.
THEOREM UniqueOwner ==
    ASSUME Strangers = FALSE
    PROVE  Spec => []OwnersDisjoint
<1>1. OwnershipInv => OwnersDisjoint
  BY DEF OwnershipInv
<1> QED
  BY Ownership, <1>1, PTL

\* Until a core uses a table that realloc has freed, the slot of a descriptor its core
\* holds is within the table and keeps a file system, so no call on it is refused with
\* EBADF: not even when stores of _close went to the block that realloc had copied.
THEOREM HeldStaysOpen ==
    ASSUME Strangers = FALSE
    PROVE  Spec => []HeldIsOpen
<1>1. OwnershipInv => HeldIsOpen
  BY DEF OwnershipInv, TypeOK, TakenInv, Taken, HeldIsOpen, IsOpen
<1> QED
  BY Ownership, <1>1, PTL

------------------------------------------------------------------------------
LEMMA PromiseInit == Init => Promise!Init
BY DEF Init, Promise!Init, Bound

\* A step that leaves the owners, and the file systems of owned slots, is no
\* step of DescriptorMap.
LEMMA PromiseStutter ==
    ASSUME held' = held,
           \A fd \in Index : (\E c \in Cores : fd \in held[c]) => slotFs'[fd] = slotFs[fd]
    PROVE  UNCHANGED Promise!vars
BY DEF Promise!vars, Bound

LEMMA PromiseStep ==
    ASSUME Strangers = FALSE, OwnershipInv, [Next]_vars
    PROVE  [Promise!Next]_(Promise!vars)
<1>0. TypeOK /\ TypeOK'
  BY TypeStep DEF OwnershipInv
<1> USE CapAssumption DEF Goto, Enter, Index, table
<1>1. CASE UNCHANGED vars
  BY <1>1, PromiseStutter DEF vars
<1>2. ASSUME NEW c \in Cores,
             \/ Return(c) \/ FirstTable(c) \/ Scan(c) \/ FreeOld(c) \/ Alloc(c) \/ FileOpen(c)
             \/ FileClose(c) \/ FreeFile(c) \/ ClearFile(c) \/ ClearPath(c)
             \/ Call(c) \/ FatStat(c)
      PROVE  UNCHANGED Promise!vars
  BY <1>2, PromiseStutter
     DEF Return, FirstTable, Scan, FreeOld, Alloc, FileOpen, FileClose, FreeFile, ClearFile,
         ClearPath, Call, FatStat
<1>3. ASSUME NEW c \in Cores, NEW p \in Paths, OpenEnter(c, p)
      PROVE  UNCHANGED Promise!vars
  BY <1>3, PromiseStutter DEF OpenEnter
<1>4. ASSUME NEW c \in Cores, NEW fn \in FileOps, NEW fd \in Index,
             UseEnter(c, fn, fd) \/ ReadWriteEnter(c, fn, fd)
      PROVE  UNCHANGED Promise!vars
  BY <1>4, PromiseStutter DEF UseEnter, ReadWriteEnter
<1>5. ASSUME NEW c \in Cores, Switch(c) PROVE UNCHANGED Promise!vars
  <2>1. \A fd \in Index : (\E d \in Cores : fd \in held[d]) =>
           fd < frame[c].fd /\ copy.fs[fd] = slotFs[fd]
    BY <1>5 DEF Switch, OwnershipInv, TakenInv, Taken, Moving
  <2> QED
    BY <1>5, <2>1, PromiseStutter DEF Switch, FirstOf
<1>10. ASSUME NEW c \in Cores, Grow(c) PROVE UNCHANGED Promise!vars
  <2>1. \A fd \in Index : (\E d \in Cores : fd \in held[d]) => fd < frame[c].fd
    BY <1>10 DEF Grow, OwnershipInv, TakenInv, Taken
  <2> QED
    BY <1>10, <2>1, PromiseStutter DEF Grow, FirstOf
<1>6. ASSUME NEW c \in Cores, StoreFs(c) PROVE UNCHANGED Promise!vars
  <2>1. \A fd \in Index : (\E d \in Cores : fd \in held[d]) => fd # frame[c].fd
    BY <1>6 DEF StoreFs, OwnershipInv, TakenInv, OpeningInv, Taken
  <2> QED
    BY <1>6, <1>0, <2>1, PromiseStutter DEF StoreFs, TypeOK, Column
<1>7. ASSUME NEW c \in Cores, ClearFs(c) PROVE UNCHANGED Promise!vars
  <2>1. \A fd \in Index : (\E d \in Cores : fd \in held[d]) => fd # frame[c].fd
    BY <1>7 DEF ClearFs, OwnershipInv, ClosingInv, Closing
  <2> QED
    BY <1>7, <1>0, <2>1, PromiseStutter DEF ClearFs, TypeOK, Column
<1>8. ASSUME NEW c \in Cores, StorePath(c) PROVE Promise!Next
  <2> DEFINE n == frame[c].fd
            fs == frame[c].filesystem
  <2>1. /\ n \in Index /\ fs \in FileSystems /\ slotFs[n] = fs
        /\ \A d \in Cores : n \notin held[d]
    BY <1>8, <1>0, NullAssumption
       DEF StorePath, OwnershipInv, TypeOK, Frame, CallInv, OpeningInv, Taken, Opening, OpenPcs
  <2>2. held' = [held EXCEPT ![c] = @ \cup {n}] /\ slotFs' = slotFs
    BY <1>8 DEF StorePath
  <2>3. Bound' = [Bound EXCEPT ![n] = fs]
    <3>1. \A fd \in Index : (\E d \in Cores : fd \in held'[d]) <=>
                            (fd = n \/ \E d \in Cores : fd \in held[d])
      BY <2>2, <1>0 DEF TypeOK
    <3>2. Bound' = [fd \in Index |-> IF fd = n \/ \E d \in Cores : fd \in held[d]
                                       THEN slotFs[fd] ELSE NULL]
      BY <2>2, <3>1 DEF Bound
    <3> QED
      BY <2>1, <3>2 DEF Bound
  <2>4. Promise!Open(c, n, fs)
    BY <2>1, <2>2, <2>3 DEF Promise!Open
  <2> QED
    BY <2>1, <2>4 DEF Promise!Next
<1>9. ASSUME NEW c \in Cores, NEW fd \in Index, CloseEnter(c, fd) PROVE Promise!Next
  <2>1. fd \in held[c] /\ \A d \in Cores : d # c => fd \notin held[d]
    BY <1>9 DEF CloseEnter, Nameable, OwnershipInv, OwnersDisjoint
  <2>2. held' = [held EXCEPT ![c] = @ \ {fd}] /\ slotFs' = slotFs
    BY <1>9 DEF CloseEnter
  <2>3. Bound' = [Bound EXCEPT ![fd] = NULL]
    <3>1. \A i \in Index : (\E d \in Cores : i \in held'[d]) <=>
                           (i # fd /\ \E d \in Cores : i \in held[d])
      BY <2>1, <2>2, <1>0 DEF TypeOK
    <3>2. Bound' = [i \in Index |-> IF i # fd /\ \E d \in Cores : i \in held[d]
                                      THEN slotFs[i] ELSE NULL]
      BY <2>2, <3>1 DEF Bound
    <3> QED
      BY <2>1, <3>2 DEF Bound
  <2>4. Promise!Close(c, fd)
    BY <2>1, <2>2, <2>3 DEF Promise!Close
  <2> QED
    BY <2>4 DEF Promise!Next
<1> QED
  BY <1>1, <1>2, <1>3, <1>4, <1>5, <1>6, <1>7, <1>8, <1>9, <1>10 DEF Next, Step, Undefined

\* The descriptor table implements DescriptorMap for every number of cores,
\* file systems and slots, with _open and _close interleaved step by step, until a
\* core uses a table that realloc has freed.
THEOREM Refinement ==
    ASSUME Strangers = FALSE
    PROVE  Spec => PromiseKept
<1>1. OwnershipInv /\ [Next]_vars => [Promise!Next]_(Promise!vars)
  BY PromiseStep
<1> QED
  BY Ownership, PromiseInit, <1>1, PTL DEF Spec, PromiseKept, Promise!Spec

------------------------------------------------------------------------------
(* One core: what its descriptors lead to, after any sequence of calls and  *)
(* failures, on any descriptors.                                            *)

LEMMA SequentialInit == Init => SequentialInv
BY TypeInit, NullAssumption
   DEF Init, SequentialInv, MoveInv, HeldFilesInv, SearchInv, InHandInv, AccountInv, HasFile,
       Opening, Moving, OpenPcs, ClosePcs, EmptyColumn

\* Every step of the one core keeps the invariant.
LEMMA SequentialStep ==
    ASSUME NEW c \in Cores, Cores = {c}, SequentialInv, [Next]_vars
    PROVE  SequentialInv'
<1>0. TypeOK /\ TypeOK'
  BY TypeStep DEF SequentialInv
<1>a. Lost => Lost'
  BY DEF Lost, vars, Next, Step, Return, OpenEnter, CloseEnter, UseEnter, ReadWriteEnter,
     Undefined
<1>b. MoveInv'
  <2>1. CASE FreeOld(c)
    BY <2>1, <1>0 DEF FreeOld, Goto, MoveInv, TypeOK
  <2>2. CASE Switch(c)
    BY <2>2 DEF Switch, MoveInv
  <2>3. CASE \/ FirstTable(c) \/ Scan(c) \/ Grow(c) \/ Alloc(c) \/ FileOpen(c)
             \/ StoreFs(c) \/ StorePath(c)
    BY <2>3 DEF SequentialInv, MoveInv, FirstTable, Scan, Grow, Alloc, FileOpen, StoreFs,
       StorePath
  <2>4. CASE \/ FileClose(c) \/ FreeFile(c) \/ ClearFs(c) \/ ClearFile(c) \/ ClearPath(c)
             \/ Call(c) \/ FatStat(c) \/ Return(c)
    BY <2>4 DEF SequentialInv, MoveInv, Access, FileClose, FreeFile, ClearFs, ClearFile,
       ClearPath, Call, FatStat, Return
  <2>5. CASE \/ UNCHANGED vars
             \/ \E p \in Paths : OpenEnter(c, p)
             \/ \E fd \in Index : CloseEnter(c, fd)
             \/ \E fn \in FileOps, fd \in Index : UseEnter(c, fn, fd)
             \/ \E fn \in FileOps, fd \in Index : ReadWriteEnter(c, fn, fd)
    BY <2>5 DEF SequentialInv, MoveInv, Access, AccessFor, vars, OpenEnter, CloseEnter,
       UseEnter, ReadWriteEnter
  <2> QED
    BY <2>1, <2>2, <2>3, <2>4, <2>5 DEF Next, Step, Undefined
<1> DEFINE Inv == HeldFilesInv /\ SearchInv /\ InHandInv /\ AccountInv
<1> SUFFICES ASSUME Inv PROVE Inv'
  BY <1>0, <1>a, <1>b DEF SequentialInv
<1> USE CapAssumption, NullAssumption
    DEF Goto, Enter, Pcs, OpenPcs, ClosePcs, UsePcs, Index, table, Opening, Moving, HasFile,
        Lost
<1>1. CASE UNCHANGED vars
  BY <1>1 DEF vars, HeldFilesInv, SearchInv, InHandInv, AccountInv, IsOpen, Block
<1>2. ASSUME Return(c) PROVE Inv'
  <2>1. HeldFilesInv'
    BY <1>2 DEF Return, HeldFilesInv, IsOpen
  <2>2. SearchInv'
    BY <1>2 DEF Return, HeldFilesInv, SearchInv, IsOpen
  <2>3. InHandInv'
    BY <1>2 DEF Return, SearchInv, InHandInv
  <2>4. AccountInv'
    BY <1>2 DEF Return, InHandInv, AccountInv
  <2> QED
    BY <2>1, <2>2, <2>3, <2>4
<1>3. ASSUME FirstTable(c) PROVE Inv'
  <2>1. HeldFilesInv'
    BY <1>3, <1>0 DEF FirstTable, HeldFilesInv, IsOpen, TypeOK
  <2>2. SearchInv'
    BY <1>3, <1>0 DEF FirstTable, HeldFilesInv, SearchInv, IsOpen, TypeOK, Frame
  <2>3. InHandInv'
    BY <1>3, <1>0 DEF FirstTable, SearchInv, InHandInv, TypeOK, Frame
  <2>4. AccountInv'
    BY <1>3, <1>0 DEF FirstTable, InHandInv, AccountInv, TypeOK
  <2> QED
    BY <2>1, <2>2, <2>3, <2>4
<1>4. ASSUME Scan(c) PROVE Inv'
  <2>1. /\ pc[c] = "assign" /\ frame[c].fd < max
        /\ \/ /\ pc'[c] = "alloc" /\ frame' = frame /\ slotFs[frame[c].fd] = NULL
           \/ /\ pc'[c] = "assign" /\ slotFs[frame[c].fd] # NULL
              /\ frame'[c].fd = frame[c].fd + 1
              /\ frame'[c].path = frame[c].path
              /\ frame'[c].filesystem = frame[c].filesystem
        /\ UNCHANGED <<max, table, copy, base, mutex, obj, held>>
    BY <1>4, <1>0 DEF Scan, TypeOK, Frame
  <2>2. frame[c].fd \in Nat /\ frame[c].fd \in Index /\ max \in Nat
    BY <1>0, <2>1 DEF TypeOK, Frame
  <2>3. slotFs[frame[c].fd] # NULL => frame[c].fd \in held[c]
    BY <2>1, <2>2 DEF AccountInv
  <2>4. HeldFilesInv'
    BY <2>1 DEF HeldFilesInv, IsOpen
  <2>5. SearchInv'
    BY <2>1, <2>2, <2>3 DEF SearchInv
  <2>6. InHandInv'
    BY <2>1, <2>2 DEF InHandInv, HeldFilesInv, IsOpen
  <2>7. AccountInv'
    BY <2>1 DEF AccountInv
  <2> QED
    BY <2>4, <2>5, <2>6, <2>7
<1>5. ASSUME Grow(c) PROVE Inv'
  <2>1. /\ pc[c] = "assign" /\ frame[c].fd = max /\ max' = 2 * max /\ max \in Nat /\ max > 0
        /\ pc'[c] \in {"free_old", "alloc", "return"} /\ held[c] \subseteq Index
        /\ pc'[c] # "return" => max' \in Nat /\ max' > max
        /\ UNCHANGED <<mutex, obj, frame, held>>
    BY <1>5, <1>0 DEF Grow, TypeOK
  <2>2. \A fd \in held[c] : fd < max
    BY DEF HeldFilesInv, IsOpen
  <2>3. \A i \in Index : i < max => /\ slotFs'[i] = slotFs[i] /\ slotFile'[i] = slotFile[i]
                                   /\ slotPath'[i] = slotPath[i]
    BY <1>5, <1>0, <2>1 DEF Grow, TypeOK, FirstOf
  <2>4. \A i \in Index : slotFs'[i] = slotFs[i] \/ (slotFs'[i] = NULL /\ i \notin held[c])
    BY <1>5, <1>0, <2>1, <2>2 DEF Grow, TypeOK, FirstOf
  <2>5. pc'[c] = "free_old" => copy' = Block(slotFile', slotFs', slotPath')
    BY <1>5, <1>0, <2>1 DEF Grow, TypeOK
  <2>6. HeldFilesInv'
    BY <2>1, <2>2, <2>3 DEF HeldFilesInv, IsOpen
  <2>7. SearchInv'
    BY <2>1, <2>2, <2>5 DEF SearchInv
  <2>8. InHandInv'
    BY <2>1, <2>2 DEF InHandInv
  <2>9. AccountInv'
    <3>1. \A fd \in held[c] : slotFile'[fd] = slotFile[fd] /\ slotFs'[fd] = slotFs[fd]
      BY <2>1, <2>2, <2>3
    <3> QED
      BY <2>1, <2>4, <3>1 DEF AccountInv
  <2> QED
    BY <2>6, <2>7, <2>8, <2>9
<1>21. ASSUME FreeOld(c) PROVE Inv'
  <2>1. HeldFilesInv' /\ SearchInv'
    BY <1>21, <1>0 DEF FreeOld, HeldFilesInv, SearchInv, IsOpen, TypeOK, Block
  <2>2. InHandInv' /\ AccountInv'
    BY <1>21, <1>0 DEF FreeOld, InHandInv, AccountInv, TypeOK
  <2> QED
    BY <2>1, <2>2
<1>6. ASSUME Switch(c) PROVE Inv'
  <2>1. HeldFilesInv'
    BY <1>6, <1>0 DEF Switch, HeldFilesInv, SearchInv, IsOpen, TypeOK, Block, FirstOf
  <2>2. SearchInv'
    BY <1>6, <1>0 DEF Switch, HeldFilesInv, SearchInv, IsOpen, TypeOK, Block, FirstOf
  <2>3. InHandInv'
    BY <1>6, <1>0 DEF Switch, SearchInv, InHandInv, TypeOK
  <2>4. AccountInv'
    <3>1. /\ pc[c] = "switch" /\ pc'[c] = "alloc"
          /\ UNCHANGED <<max, obj, frame, held>>
          /\ copy = Block(slotFile, slotFs, slotPath)
          /\ \A fd \in held[c] : fd < frame[c].fd
          /\ frame[c].fd \in Index
      BY <1>6, <1>0 DEF Switch, TypeOK, SearchInv
    <3>2. \A i \in Index : /\ slotFs'[i] = IF i < frame[c].fd THEN slotFs[i] ELSE NULL
                           /\ slotFile'[i] = IF i < frame[c].fd THEN slotFile[i] ELSE NULL
      BY <1>6, <3>1 DEF Switch, Block, FirstOf
    <3>3. held[c] \subseteq Index
      BY <1>0 DEF TypeOK
    <3> QED
      BY <3>1, <3>2, <3>3 DEF AccountInv
  <2> QED
    BY <2>1, <2>2, <2>3, <2>4
<1>7. ASSUME Alloc(c) PROVE Inv'
  <2>1. /\ pc[c] = "alloc" /\ frame[c].fd \in Index /\ held[c] \subseteq Index
        /\ frame[c].fd < max /\ frame[c].fd \notin held[c]
        /\ UNCHANGED <<max, slotFs, slotPath, copy, base, mutex, held>>
    BY <1>7, <1>0 DEF Alloc, TypeOK, InHandInv
  <2>2. ASSUME NEW f \in Files, obj[f] = "free",
               obj' = [obj EXCEPT ![f] = "raw"],
               slotFile' = [slotFile EXCEPT ![frame[c].fd] = f],
               frame' = [frame EXCEPT ![c].file = f],
               pc' = [pc EXCEPT ![c] = "file_open"]
        PROVE  Inv'
    <3>1. /\ pc'[c] = "file_open" /\ frame'[c].file = f /\ frame'[c].fd = frame[c].fd
          /\ frame'[c].path = frame[c].path /\ frame'[c].filesystem = frame[c].filesystem
      BY <2>2, <1>0 DEF TypeOK, Frame
    <3>2. /\ slotFile'[frame[c].fd] = f
          /\ \A fd \in held[c] : slotFile'[fd] = slotFile[fd] /\ slotFile[fd] # f
      BY <2>1, <2>2, <1>0 DEF TypeOK, Column, HeldFilesInv
    <3>3. \A g \in Files : obj'[g] = IF g = f THEN "raw" ELSE obj[g]
      BY <2>2, <1>0 DEF TypeOK
    <3>4. HeldFilesInv'
      BY <2>1, <3>2, <3>3 DEF HeldFilesInv, IsOpen
    <3>5. SearchInv'
      BY <2>1, <3>1 DEF SearchInv
    <3>6. InHandInv'
      BY <2>1, <3>1, <3>2 DEF InHandInv
    <3>7. AccountInv'
      BY <2>1, <3>1, <3>2, <3>3 DEF AccountInv
    <3> QED
      BY <3>4, <3>5, <3>6, <3>7
  <2>3. ASSUME slotFile' = [slotFile EXCEPT ![frame[c].fd] = NULL],
               pc' = [pc EXCEPT ![c] = "return"], UNCHANGED <<obj, frame>>
        PROVE  Inv'
    <3>1. pc'[c] = "return" /\ \A fd \in held[c] : slotFile'[fd] = slotFile[fd]
      BY <2>1, <2>3, <1>0 DEF TypeOK, Column
    <3>2. HeldFilesInv'
      BY <2>1, <2>3, <3>1 DEF HeldFilesInv, IsOpen
    <3>3. SearchInv' /\ InHandInv'
      BY <3>1 DEF SearchInv, InHandInv
    <3>4. AccountInv'
      BY <2>1, <2>3, <3>1 DEF AccountInv
    <3> QED
      BY <3>2, <3>3, <3>4
  <2> QED
    BY <1>7, <2>2, <2>3 DEF Alloc
<1>8. ASSUME FileOpen(c) PROVE Inv'
  <2>1. /\ pc[c] = "file_open" /\ frame[c].fd \in Index /\ held[c] \subseteq Index
        /\ frame[c].fd < max /\ frame[c].fd \notin held[c]
        /\ frame[c].file \in Files /\ slotFile[frame[c].fd] = frame[c].file
        /\ \A fd \in held[c] : slotFile[fd] # frame[c].file
        /\ UNCHANGED <<max, slotFs, slotPath, copy, base, mutex, frame, held>>
    BY <1>8, <1>0 DEF FileOpen, TypeOK, InHandInv
  <2>2. ASSUME obj' = [obj EXCEPT ![frame[c].file] = "open"],
               pc' = [pc EXCEPT ![c] = "store_fs"], UNCHANGED slotFile
        PROVE  Inv'
    <3>1. /\ pc'[c] = "store_fs"
          /\ \A g \in Files : obj'[g] = IF g = frame[c].file THEN "open" ELSE obj[g]
      BY <2>2, <1>0 DEF TypeOK
    <3>2. HeldFilesInv'
      BY <2>1, <2>2, <3>1 DEF HeldFilesInv, IsOpen
    <3>3. SearchInv' /\ InHandInv'
      BY <2>1, <2>2, <3>1 DEF SearchInv, InHandInv
    <3>4. AccountInv'
      BY <2>1, <2>2, <3>1 DEF AccountInv
    <3> QED
      BY <3>2, <3>3, <3>4
  <2>3. ASSUME obj' = [obj EXCEPT ![frame[c].file] = "free"],
               slotFile' = [slotFile EXCEPT ![frame[c].fd] = NULL],
               pc' = [pc EXCEPT ![c] = "return"]
        PROVE  Inv'
    <3>1. /\ pc'[c] = "return" /\ \A fd \in held[c] : slotFile'[fd] = slotFile[fd]
          /\ \A g \in Files : obj'[g] = IF g = frame[c].file THEN "free" ELSE obj[g]
      BY <2>1, <2>3, <1>0 DEF TypeOK, Column
    <3>2. HeldFilesInv'
      BY <2>1, <3>1 DEF HeldFilesInv, IsOpen
    <3>3. SearchInv' /\ InHandInv'
      BY <3>1 DEF SearchInv, InHandInv
    <3>4. AccountInv'
      BY <2>1, <3>1 DEF AccountInv
    <3> QED
      BY <3>2, <3>3, <3>4
  <2> QED
    BY <1>8, <2>2, <2>3 DEF FileOpen
<1>9. ASSUME StoreFs(c) PROVE Inv'
  <2>1. HeldFilesInv'
    BY <1>9 DEF StoreFs, HeldFilesInv, InHandInv, IsOpen
  <2>2. SearchInv'
    BY <1>9 DEF StoreFs, HeldFilesInv, SearchInv, InHandInv, IsOpen
  <2>3. InHandInv'
    BY <1>9, <1>0 DEF StoreFs, SearchInv, InHandInv, TypeOK, Column
  <2>4. AccountInv'
    BY <1>9, <1>0 DEF StoreFs, SearchInv, InHandInv, AccountInv, TypeOK, Column
  <2> QED
    BY <2>1, <2>2, <2>3, <2>4
<1>10. ASSUME StorePath(c) PROVE Inv'
  <2>1. HeldFilesInv'
    BY <1>10, <1>0 DEF StorePath, HeldFilesInv, SearchInv, InHandInv, IsOpen, TypeOK, Column
  <2>2. SearchInv'
    BY <1>10, <1>0 DEF StorePath, HeldFilesInv, SearchInv, InHandInv, IsOpen, TypeOK, Column
  <2>3. InHandInv'
    BY <1>10, <1>0 DEF StorePath, SearchInv, InHandInv, TypeOK
  <2>4. AccountInv'
    BY <1>10, <1>0 DEF StorePath, InHandInv, AccountInv, TypeOK
  <2> QED
    BY <2>1, <2>2, <2>3, <2>4
<1>11. ASSUME FileClose(c) PROVE Inv'
  <2>1. HeldFilesInv'
    BY <1>11 DEF FileClose, HeldFilesInv, InHandInv, IsOpen
  <2>2. SearchInv'
    BY <1>11 DEF FileClose, HeldFilesInv, SearchInv, InHandInv, IsOpen
  <2>3. InHandInv'
    BY <1>11 DEF FileClose, SearchInv, InHandInv
  <2>4. AccountInv'
    BY <1>11 DEF FileClose, InHandInv, AccountInv
  <2> QED
    BY <2>1, <2>2, <2>3, <2>4
<1>12. ASSUME FreeFile(c) PROVE Inv'
  <2>1. HeldFilesInv'
    BY <1>12 DEF FreeFile, HeldFilesInv, InHandInv, IsOpen
  <2>2. SearchInv'
    BY <1>12 DEF FreeFile, HeldFilesInv, SearchInv, InHandInv, IsOpen
  <2>3. InHandInv'
    BY <1>12 DEF FreeFile, SearchInv, InHandInv
  <2>4. AccountInv'
    BY <1>12, <1>0 DEF FreeFile, InHandInv, AccountInv, TypeOK
  <2> QED
    BY <2>1, <2>2, <2>3, <2>4
<1>13. ASSUME ClearFs(c) PROVE Inv'
  <2>1. HeldFilesInv'
    BY <1>13 DEF ClearFs, HeldFilesInv, InHandInv, IsOpen
  <2>2. SearchInv'
    BY <1>13 DEF ClearFs, HeldFilesInv, SearchInv, InHandInv, IsOpen
  <2>3. InHandInv'
    BY <1>13 DEF ClearFs, SearchInv, InHandInv
  <2>4. AccountInv'
    BY <1>13, <1>0 DEF ClearFs, InHandInv, AccountInv, TypeOK, Column
  <2> QED
    BY <2>1, <2>2, <2>3, <2>4
<1>14. ASSUME ClearFile(c) PROVE Inv'
  <2>1. HeldFilesInv'
    BY <1>14 DEF ClearFile, HeldFilesInv, InHandInv, IsOpen
  <2>2. SearchInv'
    BY <1>14 DEF ClearFile, HeldFilesInv, SearchInv, InHandInv, IsOpen
  <2>3. InHandInv'
    BY <1>14 DEF ClearFile, SearchInv, InHandInv
  <2>4. AccountInv'
    BY <1>14 DEF ClearFile, InHandInv, AccountInv
  <2> QED
    BY <2>1, <2>2, <2>3, <2>4
<1>15. ASSUME ClearPath(c) PROVE Inv'
  <2>1. HeldFilesInv'
    BY <1>15 DEF ClearPath, HeldFilesInv, InHandInv, IsOpen
  <2>2. SearchInv'
    BY <1>15 DEF ClearPath, HeldFilesInv, SearchInv, InHandInv, IsOpen
  <2>3. InHandInv'
    BY <1>15 DEF ClearPath, SearchInv, InHandInv
  <2>4. AccountInv'
    BY <1>15 DEF ClearPath, InHandInv, AccountInv
  <2> QED
    BY <2>1, <2>2, <2>3, <2>4
<1>16. ASSUME Call(c) PROVE Inv'
  <2>1. HeldFilesInv'
    BY <1>16 DEF Call, HeldFilesInv, IsOpen
  <2>2. SearchInv'
    BY <1>16 DEF Call, HeldFilesInv, SearchInv, IsOpen
  <2>3. InHandInv'
    BY <1>16 DEF Call, SearchInv, InHandInv
  <2>4. AccountInv'
    BY <1>16 DEF Call, InHandInv, AccountInv
  <2> QED
    BY <2>1, <2>2, <2>3, <2>4
<1>17. ASSUME FatStat(c) PROVE Inv'
  <2>1. HeldFilesInv'
    BY <1>17 DEF FatStat, HeldFilesInv, IsOpen
  <2>2. SearchInv'
    BY <1>17 DEF FatStat, HeldFilesInv, SearchInv, IsOpen
  <2>3. InHandInv'
    BY <1>17 DEF FatStat, SearchInv, InHandInv
  <2>4. AccountInv'
    BY <1>17 DEF FatStat, InHandInv, AccountInv
  <2> QED
    BY <2>1, <2>2, <2>3, <2>4
<1>18. ASSUME NEW p \in Paths, OpenEnter(c, p) PROVE Inv'
  <2>1. HeldFilesInv'
    BY <1>18 DEF OpenEnter, HeldFilesInv, IsOpen
  <2>2. SearchInv'
    BY <1>18, <1>0 DEF OpenEnter, HeldFilesInv, SearchInv, IsOpen, TypeOK, Locals
  <2>3. InHandInv'
    BY <1>18, <1>0 DEF OpenEnter, SearchInv, InHandInv, TypeOK, Locals
  <2>4. AccountInv'
    BY <1>18 DEF OpenEnter, InHandInv, AccountInv
  <2> QED
    BY <2>1, <2>2, <2>3, <2>4
<1>19. ASSUME NEW fd \in Index, CloseEnter(c, fd) PROVE Inv'
  <2>1. HeldFilesInv'
    BY <1>19 DEF CloseEnter, HeldFilesInv, IsOpen
  <2>2. SearchInv'
    BY <1>19 DEF CloseEnter, HeldFilesInv, SearchInv, IsOpen
  <2>3. InHandInv'
    BY <1>19, <1>0 DEF CloseEnter, HeldFilesInv, SearchInv, InHandInv, AccountInv, TypeOK,
       Loaded, Locals, IsOpen
  <2>4. AccountInv'
    BY <1>19, <1>0 DEF CloseEnter, HeldFilesInv, InHandInv, AccountInv, TypeOK,
       Loaded, Locals, IsOpen
  <2> QED
    BY <2>1, <2>2, <2>3, <2>4
<1>20. ASSUME NEW fn \in FileOps, NEW fd \in Index,
              UseEnter(c, fn, fd) \/ ReadWriteEnter(c, fn, fd)
       PROVE  Inv'
  <2>1. HeldFilesInv'
    BY <1>20 DEF UseEnter, HeldFilesInv, ReadWriteEnter, IsOpen
  <2>2. SearchInv'
    BY <1>20, <1>0 DEF UseEnter, HeldFilesInv, SearchInv, TypeOK, ReadWriteEnter, IsOpen
  <2>3. InHandInv'
    BY <1>20, <1>0 DEF UseEnter, SearchInv, InHandInv, TypeOK, ReadWriteEnter, IsOpen
  <2>4. AccountInv'
    BY <1>20, <1>0 DEF UseEnter, InHandInv, AccountInv, TypeOK, ReadWriteEnter, IsOpen
  <2> QED
    BY <2>1, <2>2, <2>3, <2>4
<1> QED
  BY <1>1, <1>2, <1>3, <1>4, <1>5, <1>6, <1>7, <1>8, <1>9, <1>10, <1>11,
     <1>12, <1>13, <1>14, <1>15, <1>16, <1>17, <1>18, <1>19, <1>20, <1>21
  DEF Next, Step, Undefined

\* With one core every slot and every fs_file_t is accounted for at every step of a
\* call, also when calls are passed descriptors that nobody has, and until the table
\* cannot be allocated; a table that realloc has freed is never used.
THEOREM Sequential ==
    ASSUME NEW c \in Cores, Cores = {c}
    PROVE  Spec => []SequentialInv
<1>1. SequentialInv /\ [Next]_vars => SequentialInv'
  BY SequentialStep
<1> QED
  BY SequentialInit, <1>1, PTL DEF Spec

\* Every descriptor leads to an open file of its own, on the file system of its path.
THEOREM HeldStaysIntact ==
    ASSUME NEW c \in Cores, Cores = {c}
    PROVE  Spec => []HeldIntact
<1>1. SequentialInv => HeldIntact
  BY NullAssumption DEF SequentialInv, MoveInv, HeldFilesInv, HeldIntact, TypeOK, Lost
<1> QED
  BY Sequential, <1>1, PTL

\* Between calls the files of the descriptors are all the heap has, and their slots
\* all that are taken.
THEOREM NoLeak ==
    ASSUME NEW c \in Cores, Cores = {c}
    PROVE  Spec => []NothingLeaks
<1>1. ASSUME SequentialInv, ~Lost, pc[c] = "idle"
      PROVE  /\ {f \in Files : obj[f] # "free"} = {slotFile[fd] : fd \in held[c]}
             /\ {fd \in Index : slotFs[fd] # NULL} = held[c]
  BY <1>1 DEF SequentialInv, TypeOK, HeldFilesInv, AccountInv, HasFile
<1>2. UNION {held[d] : d \in Cores} = held[c]
  OBVIOUS
<1>3. SequentialInv => NothingLeaks
  BY <1>1, <1>2 DEF NothingLeaks
<1> QED
  BY Sequential, <1>3, PTL

\* _open returns the lowest number that is free.
THEOREM OpensLowest ==
    ASSUME NEW c \in Cores, Cores = {c}
    PROVE  Spec => LowestFree
<1>1. SequentialInv /\ [Next]_vars => [GivesLowest]_vars
  <2> SUFFICES ASSUME SequentialInv, [Next]_vars PROVE [GivesLowest]_vars
    OBVIOUS
  <2>1. (StorePath(c) /\ ~Lost) \/ held'[c] \subseteq held[c]
    BY DEF SequentialInv, TypeOK, vars, Next, Step, Undefined, Return, OpenEnter,
       CloseEnter, UseEnter, ReadWriteEnter, FirstTable, Scan, Grow, FreeOld, Switch, Alloc,
       FileOpen, StoreFs, FileClose, FreeFile, ClearFs, ClearFile, ClearPath, Call, FatStat
  <2>2. ASSUME StorePath(c), ~Lost
        PROVE  \A fd \in held'[c] \ held[c] : \A i \in Index : i < fd => i \in held[c]
    BY <2>2 DEF StorePath, SequentialInv, TypeOK, SearchInv, Opening, OpenPcs
  <2> QED
    BY <2>1, <2>2 DEF GivesLowest
<1> QED
  BY Sequential, <1>1, PTL DEF Spec, LowestFree
=============================================================================
