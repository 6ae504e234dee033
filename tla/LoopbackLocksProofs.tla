------------------------- MODULE LoopbackLocksProofs -------------------------
(***************************************************************************)
(* Proofs about LoopbackLocks: for any number of cores, file systems and   *)
(* loopback devices on each other, and any number of device accesses.      *)
(***************************************************************************)
EXTENDS LoopbackLocks, FunctionTheorems, FiniteSetTheorems, TLAPS

------------------------------------------------------------------------------
(* Stacks *)

LEMMA ReplaceTop ==
    ASSUME NEW s \in Seq(Calls), s # <<>>, NEW x \in Calls
    PROVE  LET t == <<x>> \o Tail(s)
           IN  /\ t \in Seq(Calls) /\ Len(t) = Len(s) /\ Len(s) \in Nat \ {0}
               /\ t[1] = x /\ \A i \in 2 .. Len(s) : t[i] = s[i]
OBVIOUS

LEMMA PushTop ==
    ASSUME NEW s \in Seq(Calls), s # <<>>, NEW x \in Calls, NEW y \in Calls
    PROVE  LET t == <<y, x>> \o Tail(s)
           IN  /\ t \in Seq(Calls) /\ Len(t) = Len(s) + 1 /\ Len(s) \in Nat \ {0}
               /\ t[1] = y /\ t[2] = x /\ \A i \in 2 .. Len(s) : t[i + 1] = s[i]
OBVIOUS

LEMMA PopTop ==
    ASSUME NEW s \in Seq(Calls), s # <<>>
    PROVE  LET t == Tail(s)
           IN  /\ t \in Seq(Calls) /\ Len(t) + 1 = Len(s) /\ Len(t) \in Nat
               /\ \A i \in 1 .. Len(t) : t[i] = s[i + 1]
OBVIOUS

LEMMA InsideFinite ==
    ASSUME NEW s \in Seq(Calls), NEW l
    PROVE  IsFiniteSet(Inside(s, l)) /\ Cardinality(Inside(s, l)) \in Nat
<1>1. IsFiniteSet(1 .. Len(s))
  BY FS_Interval
<1>2. Inside(s, l) \subseteq 1 .. Len(s)
  BY DEF Inside
<1> QED
  BY <1>1, <1>2, FS_Subset, FS_CardinalityType

\* The mutexes of the calls below a new one do not change.
LEMMA CountAbove ==
    ASSUME NEW s \in Seq(Calls), NEW t \in Seq(Calls), NEW l, Len(t) = Len(s) + 1,
           \A i \in 1 .. Len(s) : In(t[i + 1], l) <=> In(s[i], l)
    PROVE  Cardinality(Inside(t, l))
             = IF In(t[1], l) THEN Cardinality(Inside(s, l)) + 1 ELSE Cardinality(Inside(s, l))
<1> DEFINE up == {i \in Inside(t, l) : i # 1}
           move == [i \in Inside(s, l) |-> i + 1]
<1>1. move \in Bijection(Inside(s, l), up)
  <2>1. move \in [Inside(s, l) -> up]
    BY DEF Inside
  <2>2. \A i, j \in Inside(s, l) : move[i] = move[j] => i = j
    BY DEF Inside
  <2>3. \A j \in up : j - 1 \in Inside(s, l) /\ move[j - 1] = j
    BY DEF Inside
  <2>4. \A j \in up : \E i \in Inside(s, l) : move[i] = j
    BY <2>3
  <2> HIDE DEF move, up
  <2> QED
    BY <2>1, <2>2, <2>4, Fun_IsBij
<1>2. IsFiniteSet(up) /\ Cardinality(up) = Cardinality(Inside(s, l))
  BY <1>1, InsideFinite, FS_Bijection DEF ExistsBijection
<1>3. 1 \in 1 .. Len(t)
  OBVIOUS
<1>4. Inside(t, l) = IF In(t[1], l) THEN up \cup {1} ELSE up
  BY <1>3 DEF Inside
<1> QED
  BY <1>2, <1>4, FS_AddElement

\* The call on top enters its mutex, or goes on where it is.
LEMMA CountTop ==
    ASSUME NEW s \in Seq(Calls), NEW t \in Seq(Calls), NEW l, Len(t) = Len(s), Len(s) # 0,
           \A i \in 2 .. Len(s) : t[i] = s[i], In(s[1], l) => In(t[1], l)
    PROVE  Cardinality(Inside(t, l))
             = IF In(t[1], l) /\ ~In(s[1], l) THEN Cardinality(Inside(s, l)) + 1
                                              ELSE Cardinality(Inside(s, l))
<1>1. 1 \in 1 .. Len(t) /\ \A i \in 1 .. Len(t) : i = 1 \/ i \in 2 .. Len(s)
  OBVIOUS
<1>2. Inside(t, l) = IF In(t[1], l) THEN Inside(s, l) \cup {1} ELSE Inside(s, l)
  BY <1>1 DEF Inside
<1>3. 1 \in Inside(s, l) <=> In(s[1], l)
  BY <1>1 DEF Inside
<1> QED
  BY <1>2, <1>3, InsideFinite, FS_AddElement

LEMMA LockIs ==
    ASSUME NEW call \in Calls
    PROVE  LockOf(call) \in Locks
BY DEF Calls, LockOf, Locks, VfsLocks

LEMMA NewCall ==
    ASSUME NEW layer \in {"vfs", "context", "device"}, NEW fn \in Fns, NEW fs \in FileSystems
    PROVE  /\ CallTo(layer, fn, fs) \in Calls
           /\ \A l : ~In(CallTo(layer, fn, fs), l)
BY AccessAssumption DEF CallTo, Calls, In

------------------------------------------------------------------------------
(* What a step does to a stack *)

Moved(x, call) == /\ x \in Calls /\ x.at # "enter"
                  /\ x.layer = call.layer /\ x.fn = call.fn /\ x.fs = call.fs

Callee(y, call) ==
    /\ y \in Calls /\ y.at = "enter"
    /\ \/ call.layer = "vfs" /\ y.layer = "context" /\ y.fs = call.fs
       \/ /\ call.layer = "context" /\ y.layer = "device" /\ y.fs = call.fs
          /\ Below[call.fs] # NULL
       \/ call.layer = "device" /\ y.layer = "vfs" /\ y.fs = Below[call.fs]

StackMove(c) ==
    \/ stack'[c] = stack[c]
    \/ stack[c] = <<>> /\ \E y \in Calls : /\ y.layer = "vfs" /\ y.fs \in Uses[c]
                                           /\ stack'[c] = <<y>>
    \/ stack[c] # <<>> /\ \E x \in Calls : /\ Moved(x, Top(c))
                                           /\ stack'[c] = <<x>> \o Tail(stack[c])
    \/ stack[c] # <<>> /\ \E x, y \in Calls : /\ Moved(x, Top(c)) /\ Callee(y, Top(c))
                                              /\ Top(c).at # "enter"
                                              /\ stack'[c] = <<y, x>> \o Tail(stack[c])
    \/ stack[c] # <<>> /\ stack'[c] = Tail(stack[c])

LEMMA TopIs ==
    ASSUME StackInv, NEW c \in Cores, stack[c] # <<>>
    PROVE  /\ Top(c) = stack[c][1] /\ Top(c) \in Calls
           /\ Top(c).layer = "device" => Below[Top(c).fs] \in FileSystems
           /\ \A at \in {"body", "transfer", "leave"} : Moved([Top(c) EXCEPT !.at = at], Top(c))
<1>1. /\ stack[c] \in Seq(Calls) /\ 1 \in DOMAIN stack[c]
      /\ Top(c) = stack[c][1] /\ Top(c) \in Calls
  BY DEF StackInv, Top
<1>2. Top(c).layer = "device" => Below[Top(c).fs] # NULL
  BY <1>1 DEF StackInv
<1>3. Top(c).fs \in FileSystems
  BY <1>1 DEF Calls
<1>4. \A at \in {"body", "transfer", "leave"} : Moved([Top(c) EXCEPT !.at = at], Top(c))
  BY <1>1 DEF Calls, Moved
<1> QED
  BY <1>1, <1>2, <1>3, <1>4, BelowAssumption

\* A call that makes another one.
LEMMA PushIs ==
    ASSUME StackInv, NEW c \in Cores,
           \/ VfsBody(c) \/ FsAccess(c) \/ DeviceSeek(c)
           \/ DeviceTransfer(c) /\ ~Goto(c, "leave")
    PROVE  /\ stack[c] # <<>> /\ Top(c).at # "enter" /\ UNCHANGED <<owner, depth>>
           /\ \E x, y \in Calls : /\ Moved(x, Top(c)) /\ Callee(y, Top(c))
                                  /\ stack' = [stack EXCEPT ![c] = <<y, x>> \o Tail(stack[c])]
<1>0. /\ stack[c] # <<>> /\ Top(c).at # "enter" /\ UNCHANGED <<owner, depth>>
      /\ Top(c) \in Calls
  BY TopIs DEF VfsBody, FsAccess, DeviceSeek, DeviceTransfer, At
<1> DEFINE Pushes == \E x, y \in Calls : /\ Moved(x, Top(c)) /\ Callee(y, Top(c))
                                         /\ stack' = [stack EXCEPT ![c] =
                                                          <<y, x>> \o Tail(stack[c])]
<1>1. CASE VfsBody(c)
  <2>1. Top(c).layer = "vfs"
    BY <1>1 DEF VfsBody, At
  <2>2. Callee(CallTo("context", Top(c).fn, Top(c).fs), Top(c))
    BY <1>0, <2>1, NewCall DEF Callee, CallTo, Calls
  <2>3. Pushes
    BY <1>0, <1>1, <2>2, TopIs DEF VfsBody, Push, Moved, Callee
  <2> QED
    BY <1>0, <2>3
<1>2. CASE FsAccess(c)
  <2>1. Top(c).layer = "context" /\ Top(c).left > 0 /\ Below[Top(c).fs] # NULL
    BY <1>2 DEF FsAccess, At
  <2>2. PICK fn \in UnlockedFns :
           stack' = [stack EXCEPT ![c] = <<CallTo("device", fn, Top(c).fs),
                                           [Top(c) EXCEPT !.left = @ - 1]>> \o Tail(@)]
    BY <1>2 DEF FsAccess
  <2>3. Callee(CallTo("device", fn, Top(c).fs), Top(c))
    BY <1>0, <2>1, NewCall DEF Callee, CallTo, Calls, Fns
  <2>4. Moved([Top(c) EXCEPT !.left = @ - 1], Top(c))
    BY <1>0, <2>1, AccessAssumption DEF Moved, Calls
  <2>5. Pushes
    BY <2>2, <2>3, <2>4 DEF Moved, Callee
  <2> QED
    BY <1>0, <2>5
<1>3. CASE DeviceSeek(c) \/ (DeviceTransfer(c) /\ ~Goto(c, "leave"))
  <2>1. Top(c).layer = "device" /\ Below[Top(c).fs] \in FileSystems
    BY <1>0, <1>3, TopIs DEF DeviceSeek, DeviceTransfer, At
  <2>2. \A fn \in Fns : Callee(CallTo("vfs", fn, Below[Top(c).fs]), Top(c))
    BY <2>1, NewCall DEF Callee, CallTo
  <2>3. "lseek" \in Fns /\ Top(c).fn \in Fns
    BY <1>0, LockedAssumption DEF Fns, Calls
  <2>4. Pushes
    BY <1>0, <1>3, <2>2, <2>3, TopIs DEF DeviceSeek, DeviceTransfer, Push, Moved, Callee
  <2> QED
    BY <1>0, <2>4
<1> QED
  BY <1>1, <1>2, <1>3

LEMMA StackMoves ==
    ASSUME StackInv, [Next]_vars
    PROVE  \A c \in Cores : StackMove(c)
<1>1. CASE UNCHANGED vars
  BY <1>1 DEF vars, StackMove
<1>2. ASSUME NEW c \in Cores, \A d \in Cores \ {c} : stack'[d] = stack[d], StackMove(c)
      PROVE  \A d \in Cores : StackMove(d)
  BY <1>2 DEF StackMove
<1>3. ASSUME NEW c \in Cores, NEW fn \in Fns, NEW fs \in FileSystems, Start(c, fn, fs)
      PROVE  \A d \in Cores : StackMove(d)
  <2>1. CallTo("vfs", fn, fs) \in Calls
    BY NewCall
  <2>2. StackMove(c) /\ \A d \in Cores \ {c} : stack'[d] = stack[d]
    BY <1>3, <2>1 DEF Start, StackMove, StackInv, CallTo
  <2> QED
    BY <1>2, <2>2
<1>4. ASSUME NEW c \in Cores, NEW at \in {"body", "transfer", "leave"},
             stack[c] # <<>>, Goto(c, at)
      PROVE  \A d \in Cores : StackMove(d)
  <2>1. StackMove(c) /\ \A d \in Cores \ {c} : stack'[d] = stack[d]
    BY <1>4, TopIs DEF Goto, StackMove, StackInv, Moved
  <2> QED
    BY <1>2, <2>1
<1>5. ASSUME NEW c \in Cores, stack[c] # <<>>, Pop(c)
      PROVE  \A d \in Cores : StackMove(d)
  <2>1. StackMove(c) /\ \A d \in Cores \ {c} : stack'[d] = stack[d]
    BY <1>5 DEF Pop, StackMove, StackInv
  <2> QED
    BY <1>2, <2>1
<1>6. ASSUME NEW c \in Cores, stack[c] # <<>>, Top(c).at # "enter",
             NEW x, Moved(x, Top(c)), NEW y, Callee(y, Top(c)),
             stack' = [stack EXCEPT ![c] = <<y, x>> \o Tail(stack[c])]
      PROVE  \A d \in Cores : StackMove(d)
  <2>1. StackMove(c) /\ \A d \in Cores \ {c} : stack'[d] = stack[d]
    BY <1>6 DEF StackMove, StackInv, Moved, Callee
  <2> QED
    BY <1>2, <2>1
<1>7. ASSUME NEW c \in Cores, VfsEnter(c) \/ VfsPass(c) \/ Enter(c)
      PROVE  \A d \in Cores : StackMove(d)
  BY <1>4, <1>7 DEF VfsEnter, VfsPass, Enter, At
<1>8. ASSUME NEW c \in Cores, VfsLeave(c) \/ FsLeave(c) \/ DeviceLeave(c)
      PROVE  \A d \in Cores : StackMove(d)
  BY <1>5, <1>8 DEF VfsLeave, FsLeave, DeviceLeave, At
<1>9. ASSUME NEW c \in Cores,
             \/ VfsBody(c) \/ FsAccess(c) \/ DeviceSeek(c)
             \/ DeviceTransfer(c) /\ ~Goto(c, "leave")
      PROVE  \A d \in Cores : StackMove(d)
  BY <1>6, <1>9, PushIs
<1>10. ASSUME NEW c \in Cores, DeviceTransfer(c), Goto(c, "leave")
       PROVE  \A d \in Cores : StackMove(d)
  BY <1>4, <1>10 DEF DeviceTransfer, At
<1> QED
  BY <1>1, <1>3, <1>7, <1>8, <1>9, <1>10 DEF Next, Step

------------------------------------------------------------------------------
(* The account of the mutexes *)

LEMMA AccountKept ==
    ASSUME LocksAccounted, NEW c \in Cores, NEW t \in Seq(Calls),
           stack' = [stack EXCEPT ![c] = t], UNCHANGED <<owner, depth>>,
           \A l : Cardinality(Inside(t, l)) = Cardinality(Inside(stack[c], l))
    PROVE  LocksAccounted'
BY DEF LocksAccounted, TypeOK

LEMMA AccountTaken ==
    ASSUME LocksAccounted, NEW c \in Cores, NEW t \in Seq(Calls), NEW m \in Locks,
           stack' = [stack EXCEPT ![c] = t], Take(c, m),
           \A l : Cardinality(Inside(t, l))
                    = IF l = m THEN Cardinality(Inside(stack[c], l)) + 1
                               ELSE Cardinality(Inside(stack[c], l))
    PROVE  LocksAccounted'
<1>1. TypeOK'
  BY DEF LocksAccounted, TypeOK, Take
<1>2. /\ owner \in [Locks -> Cores \cup {NULL}] /\ depth \in [Locks -> Nat]
      /\ stack \in [Cores -> Seq(Calls)]
      /\ owner' = [owner EXCEPT ![m] = c] /\ depth' = [depth EXCEPT ![m] = depth[m] + 1]
      /\ owner[m] \in {NULL, c}
  BY DEF LocksAccounted, TypeOK, Take, MayTake
<1>3. ASSUME NEW l \in Locks
      PROVE  /\ owner'[l] = NULL <=> depth'[l] = 0
             /\ \A d \in Cores :
                   Cardinality(Inside(stack'[d], l)) = IF owner'[l] = d THEN depth'[l] ELSE 0
  <2>1. /\ owner[l] = NULL <=> depth[l] = 0
        /\ \A d \in Cores :
              Cardinality(Inside(stack[d], l)) = IF owner[l] = d THEN depth[l] ELSE 0
    BY DEF LocksAccounted
  <2>2. CASE l = m
    BY <1>2, <2>1, <2>2, NullAssumption
  <2>3. CASE l # m
    BY <1>2, <2>1, <2>3
  <2> QED
    BY <2>2, <2>3
<1> QED
  BY <1>1, <1>3 DEF LocksAccounted

LEMMA AccountDropped ==
    ASSUME LocksAccounted, NEW c \in Cores, NEW t \in Seq(Calls), NEW m \in Locks,
           stack' = [stack EXCEPT ![c] = t], Drop(m),
           \A l : Cardinality(Inside(stack[c], l))
                    = IF l = m THEN Cardinality(Inside(t, l)) + 1
                               ELSE Cardinality(Inside(t, l))
    PROVE  LocksAccounted'
<1>0. /\ owner \in [Locks -> Cores \cup {NULL}] /\ depth \in [Locks -> Nat]
      /\ stack \in [Cores -> Seq(Calls)] /\ Cardinality(Inside(t, m)) \in Nat
      /\ owner' = [owner EXCEPT ![m] = IF depth[m] = 1 THEN NULL ELSE owner[m]]
      /\ depth' = [depth EXCEPT ![m] = depth[m] - 1]
  BY InsideFinite DEF LocksAccounted, TypeOK, Drop
<1>1. owner[m] = c /\ depth[m] # 0
  BY <1>0 DEF LocksAccounted
<1>2. TypeOK'
  BY <1>0, <1>1 DEF TypeOK
<1>3. ASSUME NEW l \in Locks
      PROVE  /\ owner'[l] = NULL <=> depth'[l] = 0
             /\ \A d \in Cores :
                   Cardinality(Inside(stack'[d], l)) = IF owner'[l] = d THEN depth'[l] ELSE 0
  <2>1. /\ owner[l] = NULL <=> depth[l] = 0
        /\ \A d \in Cores :
              Cardinality(Inside(stack[d], l)) = IF owner[l] = d THEN depth[l] ELSE 0
    BY DEF LocksAccounted
  <2>2. CASE l = m
    BY <1>0, <1>1, <2>1, <2>2, NullAssumption
  <2>3. CASE l # m
    BY <1>0, <2>1, <2>3
  <2> QED
    BY <2>2, <2>3
<1> QED
  BY <1>2, <1>3 DEF LocksAccounted

\* The call on top goes on to `at`, and enters its mutex or does not.
LEMMA GotoCount ==
    ASSUME TypeOK, NEW c \in Cores, stack[c] # <<>>, Top(c).at = "enter", Goto(c, "body")
    PROVE  \E t \in Seq(Calls) :
              /\ stack' = [stack EXCEPT ![c] = t]
              /\ \A l : Cardinality(Inside(t, l))
                          = IF l = LockOf(Top(c))
                               /\ ~(Top(c).layer = "vfs" /\ Top(c).fn \in UnlockedFns)
                              THEN Cardinality(Inside(stack[c], l)) + 1
                              ELSE Cardinality(Inside(stack[c], l))
<1> DEFINE s == stack[c]
           x == [Top(c) EXCEPT !.at = "body"]
           t == <<x>> \o Tail(s)
<1>1. s \in Seq(Calls) /\ s # <<>> /\ Top(c) = s[1] /\ Top(c) \in Calls
  BY DEF TypeOK, Top
<1>2. /\ x \in Calls /\ LockOf(x) = LockOf(Top(c)) /\ x.at = "body"
      /\ x.layer = Top(c).layer /\ x.fn = Top(c).fn
  BY <1>1 DEF Calls, LockOf
<1>3. stack' = [stack EXCEPT ![c] = t]
  BY DEF Goto
<1> HIDE DEF x
<1>4. /\ t \in Seq(Calls) /\ Len(t) = Len(s) /\ Len(s) \in Nat \ {0}
      /\ t[1] = x /\ \A i \in 2 .. Len(s) : t[i] = s[i]
  BY <1>1, <1>2, ReplaceTop
<1> HIDE DEF t, s
<1>5. \A l : /\ ~In(s[1], l)
             /\ In(t[1], l) <=> /\ l = LockOf(Top(c))
                                /\ ~(Top(c).layer = "vfs" /\ Top(c).fn \in UnlockedFns)
  BY <1>1, <1>2, <1>4 DEF In
<1>6. \A l : Cardinality(Inside(t, l))
               = IF In(t[1], l) THEN Cardinality(Inside(s, l)) + 1 ELSE Cardinality(Inside(s, l))
  BY <1>1, <1>4, <1>5, CountTop
<1> QED
  BY <1>3, <1>4, <1>5, <1>6 DEF s

\* A call that makes another one stays in its mutex.
LEMMA PushCount ==
    ASSUME TypeOK, NEW c \in Cores, stack[c] # <<>>, Top(c).at # "enter",
           NEW x \in Calls, x.layer = Top(c).layer, x.fn = Top(c).fn, x.fs = Top(c).fs,
           x.at # "enter", NEW y \in Calls, y.at = "enter",
           stack' = [stack EXCEPT ![c] = <<y, x>> \o Tail(stack[c])]
    PROVE  \E t \in Seq(Calls) :
              /\ stack' = [stack EXCEPT ![c] = t]
              /\ \A l : Cardinality(Inside(t, l)) = Cardinality(Inside(stack[c], l))
<1> DEFINE s == stack[c]
           t == <<y, x>> \o Tail(s)
<1>1. s \in Seq(Calls) /\ s # <<>> /\ Top(c) = s[1]
  BY DEF TypeOK, Top
<1>2. /\ t \in Seq(Calls) /\ Len(t) = Len(s) + 1 /\ Len(s) \in Nat \ {0}
      /\ t[1] = y /\ t[2] = x /\ \A i \in 2 .. Len(s) : t[i + 1] = s[i]
  BY <1>1, PushTop
<1>3. stack' = [stack EXCEPT ![c] = t]
  OBVIOUS
<1> HIDE DEF s, t
<1>4. \A l : ~In(t[1], l) /\ (In(t[2], l) <=> In(s[1], l))
  BY <1>1, <1>2 DEF In, LockOf
<1>5. \A l : \A i \in 1 .. Len(s) : In(t[i + 1], l) <=> In(s[i], l)
  <2> SUFFICES ASSUME NEW l, NEW i \in 1 .. Len(s) PROVE In(t[i + 1], l) <=> In(s[i], l)
    OBVIOUS
  <2>1. CASE i = 1
    BY <1>4, <2>1
  <2>2. CASE i # 1
    BY <1>2, <2>2
  <2> QED
    BY <2>1, <2>2
<1>6. \A l : Cardinality(Inside(t, l)) = Cardinality(Inside(s, l))
  BY <1>1, <1>2, <1>4, <1>5, CountAbove
<1> QED
  BY <1>2, <1>3, <1>6 DEF s

LEMMA PopCount ==
    ASSUME TypeOK, NEW c \in Cores, stack[c] # <<>>, Pop(c)
    PROVE  \E t \in Seq(Calls) :
              /\ stack' = [stack EXCEPT ![c] = t]
              /\ \A l : Cardinality(Inside(stack[c], l))
                          = IF In(Top(c), l) THEN Cardinality(Inside(t, l)) + 1
                                             ELSE Cardinality(Inside(t, l))
<1> DEFINE s == stack[c]
           t == Tail(s)
<1>1. s \in Seq(Calls) /\ s # <<>> /\ Top(c) = s[1]
  BY DEF TypeOK, Top
<1>2. /\ t \in Seq(Calls) /\ Len(t) + 1 = Len(s) /\ Len(t) \in Nat
      /\ \A i \in 1 .. Len(t) : t[i] = s[i + 1]
  BY <1>1, PopTop
<1>3. stack' = [stack EXCEPT ![c] = t]
  BY DEF Pop
<1> HIDE DEF s, t
<1>4. \A l : Cardinality(Inside(s, l))
               = IF In(s[1], l) THEN Cardinality(Inside(t, l)) + 1 ELSE Cardinality(Inside(t, l))
  BY <1>1, <1>2, CountAbove
<1> QED
  BY <1>1, <1>2, <1>3, <1>4 DEF s

\* A loopback device whose lseek() failed stays in its mutex until it leaves.
LEMMA LeaveCount ==
    ASSUME TypeOK, NEW c \in Cores, stack[c] # <<>>, Top(c).at # "enter", Goto(c, "leave")
    PROVE  \E t \in Seq(Calls) :
              /\ stack' = [stack EXCEPT ![c] = t]
              /\ \A l : Cardinality(Inside(t, l)) = Cardinality(Inside(stack[c], l))
<1> DEFINE s == stack[c]
           x == [Top(c) EXCEPT !.at = "leave"]
           t == <<x>> \o Tail(s)
<1>1. s \in Seq(Calls) /\ s # <<>> /\ Top(c) = s[1] /\ Top(c) \in Calls
  BY DEF TypeOK, Top
<1>2. x \in Calls /\ \A l : In(x, l) <=> In(Top(c), l)
  BY <1>1 DEF Calls, LockOf, In
<1>3. stack' = [stack EXCEPT ![c] = t]
  BY DEF Goto
<1> HIDE DEF x
<1>4. /\ t \in Seq(Calls) /\ Len(t) = Len(s) /\ Len(s) \in Nat \ {0}
      /\ t[1] = x /\ \A i \in 2 .. Len(s) : t[i] = s[i]
  BY <1>1, <1>2, ReplaceTop
<1> HIDE DEF t, s
<1>5. \A l : Cardinality(Inside(t, l)) = Cardinality(Inside(s, l))
  BY <1>1, <1>2, <1>4, CountTop
<1> QED
  BY <1>3, <1>4, <1>5 DEF s

LEMMA AccountStep ==
    ASSUME StackInv, LocksAccounted, [Next]_vars
    PROVE  LocksAccounted'
<1>0. TypeOK
  BY DEF LocksAccounted
<1>1. ASSUME NEW c \in Cores, NEW fn \in Fns, NEW fs \in FileSystems, Start(c, fn, fs)
      PROVE  LocksAccounted'
  <2> DEFINE t == <<CallTo("vfs", fn, fs)>>
  <2>1. t \in Seq(Calls) /\ \A l : ~In(t[1], l)
    BY NewCall
  <2>2. \A l : Inside(t, l) = {} /\ Inside(stack[c], l) = {}
    BY <1>1, <2>1 DEF Start, Inside
  <2> HIDE DEF t
  <2> QED
    BY <1>1, <2>1, <2>2, AccountKept DEF Start, t
<1>2. ASSUME NEW c \in Cores, VfsEnter(c) \/ Enter(c) PROVE LocksAccounted'
  <2>1. /\ stack[c] # <<>> /\ Top(c).at = "enter" /\ Goto(c, "body") /\ Take(c, LockOf(Top(c)))
        /\ ~(Top(c).layer = "vfs" /\ Top(c).fn \in UnlockedFns)
    BY <1>2, LockedAssumption DEF VfsEnter, Enter, At
  <2>2. Top(c) \in Calls
    BY <1>0, <2>1 DEF TypeOK, Top
  <2> QED
    BY <1>0, <2>1, <2>2, GotoCount, LockIs, AccountTaken
<1>3. ASSUME NEW c \in Cores, VfsPass(c) PROVE LocksAccounted'
  <2>1. /\ stack[c] # <<>> /\ Top(c).at = "enter" /\ Goto(c, "body")
        /\ Top(c).layer = "vfs" /\ Top(c).fn \in UnlockedFns /\ UNCHANGED <<owner, depth>>
    BY <1>3 DEF VfsPass, At
  <2> QED
    BY <1>0, <2>1, GotoCount, AccountKept
<1>4. ASSUME NEW c \in Cores,
             \/ VfsBody(c) \/ FsAccess(c) \/ DeviceSeek(c)
             \/ DeviceTransfer(c) /\ ~Goto(c, "leave")
      PROVE  LocksAccounted'
  <2>1. stack[c] # <<>> /\ Top(c).at # "enter" /\ UNCHANGED <<owner, depth>>
    BY <1>4, PushIs
  <2>2. PICK x \in Calls, y \in Calls :
           /\ Moved(x, Top(c)) /\ Callee(y, Top(c))
           /\ stack' = [stack EXCEPT ![c] = <<y, x>> \o Tail(stack[c])]
    BY <1>4, PushIs
  <2>3. x.layer = Top(c).layer /\ x.fn = Top(c).fn /\ x.fs = Top(c).fs /\ x.at # "enter"
    BY <2>2 DEF Moved
  <2>4. y.at = "enter"
    BY <2>2 DEF Callee
  <2> QED
    BY <1>0, <2>1, <2>2, <2>3, <2>4, PushCount, AccountKept
<1>5. ASSUME NEW c \in Cores, DeviceTransfer(c), Goto(c, "leave") PROVE LocksAccounted'
  <2>1. stack[c] # <<>> /\ Top(c).at # "enter" /\ UNCHANGED <<owner, depth>>
    BY <1>5 DEF DeviceTransfer, At
  <2> QED
    BY <1>0, <1>5, <2>1, LeaveCount, AccountKept
<1>6. ASSUME NEW c \in Cores, VfsLeave(c), Top(c).fn \in UnlockedFns PROVE LocksAccounted'
  <2>1. stack[c] # <<>> /\ UNCHANGED <<owner, depth>> /\ Pop(c) /\ \A l : ~In(Top(c), l)
    BY <1>6, LockedAssumption DEF VfsLeave, At, In
  <2> QED
    BY <1>0, <2>1, PopCount, AccountKept
<1>7. ASSUME NEW c \in Cores,
             \/ VfsLeave(c) /\ Top(c).fn \notin UnlockedFns
             \/ FsLeave(c) \/ DeviceLeave(c)
      PROVE  LocksAccounted'
  <2>1. stack[c] # <<>> /\ Top(c) \in Calls
    BY <1>7, TopIs DEF VfsLeave, FsLeave, DeviceLeave, At
  <2>2. Drop(LockOf(Top(c))) /\ Pop(c)
    BY <1>7, <2>1 DEF VfsLeave, FsLeave, DeviceLeave, At, Calls, Fns
  <2>3. \A l : In(Top(c), l) <=> l = LockOf(Top(c))
    BY <1>7 DEF VfsLeave, FsLeave, DeviceLeave, At, In
  <2> QED
    BY <1>0, <2>1, <2>2, <2>3, PopCount, LockIs, AccountDropped
<1>8. CASE UNCHANGED vars
  BY <1>8 DEF vars, LocksAccounted, TypeOK
<1> QED
  BY <1>1, <1>2, <1>3, <1>4, <1>5, <1>6, <1>7, <1>8 DEF Next, Step

------------------------------------------------------------------------------
(* How calls lie on each other *)

LEMMA StackFunction ==
    ASSUME StackInv, [Next]_vars
    PROVE  stack' = [d \in Cores |-> stack'[d]]
BY DEF StackInv, vars, Next, Step, Start, VfsEnter, VfsPass, VfsBody, VfsLeave, Enter, FsAccess,
       FsLeave, DeviceSeek, DeviceTransfer, DeviceLeave, Goto, Push, Pop

\* Every call of the new stack is one of the old, moved or not, or a new one on top.
Replaced(s, t) == /\ Len(s) \in Nat \ {0} /\ Len(t) = Len(s) /\ Moved(t[1], s[1])
                  /\ \A i \in 2 .. Len(t) : t[i] = s[i]
Pushed(s, t) == /\ Len(s) \in Nat \ {0} /\ Len(t) = Len(s) + 1
                /\ Callee(t[1], s[1]) /\ Moved(t[2], s[1])
                /\ \A i \in 3 .. Len(t) : t[i] = s[i - 1] /\ i - 1 \in 2 .. Len(s)
Popped(s, t) == Len(s) = Len(t) + 1 /\ \A i \in 1 .. Len(t) : t[i] = s[i + 1]
Reshaped(c, s, t) ==
    /\ t \in Seq(Calls)
    /\ \/ t = s
       \/ s = <<>> /\ Len(t) = 1 /\ t[1].layer = "vfs" /\ t[1].fs \in Uses[c]
       \/ Replaced(s, t) \/ Pushed(s, t) \/ Popped(s, t)

LEMMA MovedStack ==
    ASSUME StackInv, NEW c \in Cores, StackMove(c)
    PROVE  Reshaped(c, stack[c], stack'[c])
<1> DEFINE s == stack[c]
           t == stack'[c]
<1>1. s \in Seq(Calls) /\ (s # <<>> => Top(c) = s[1])
  BY TopIs DEF StackInv
<1>2. CASE t = s
  BY <1>1, <1>2 DEF Reshaped
<1>3. ASSUME s = <<>>, NEW y \in Calls, y.layer = "vfs", y.fs \in Uses[c], t = <<y>>
      PROVE  Reshaped(c, s, t)
  BY <1>3 DEF Reshaped
<1>4. ASSUME s # <<>>, NEW x \in Calls, Moved(x, Top(c)), t = <<x>> \o Tail(s)
      PROVE  Reshaped(c, s, t)
  <2>1. t \in Seq(Calls) /\ Replaced(s, t)
    BY <1>1, <1>4, ReplaceTop DEF Replaced
  <2> QED
    BY <2>1 DEF Reshaped
<1>5. ASSUME s # <<>>, NEW x \in Calls, NEW y \in Calls, Moved(x, Top(c)), Callee(y, Top(c)),
             t = <<y, x>> \o Tail(s)
      PROVE  Reshaped(c, s, t)
  <2>1. /\ t \in Seq(Calls) /\ Len(t) = Len(s) + 1 /\ Len(s) \in Nat \ {0}
        /\ t[1] = y /\ t[2] = x /\ \A i \in 2 .. Len(s) : t[i + 1] = s[i]
    BY <1>1, <1>5, PushTop
  <2>2. \A i \in 3 .. Len(t) : i - 1 \in 2 .. Len(s) /\ t[(i - 1) + 1] = s[i - 1]
    BY <2>1, SMTT(30)
  <2>3. \A i \in 3 .. Len(t) : (i - 1) + 1 = i
    BY <2>1
  <2> HIDE DEF s, t
  <2>4. Pushed(s, t)
    BY <1>1, <1>5, <2>1, <2>2, <2>3 DEF Pushed
  <2> QED
    BY <2>1, <2>4 DEF Reshaped
<1>6. ASSUME s # <<>>, t = Tail(s)
      PROVE  Reshaped(c, s, t)
  <2>1. t \in Seq(Calls) /\ Popped(s, t)
    BY <1>1, <1>6, PopTop DEF Popped
  <2> QED
    BY <2>1 DEF Reshaped
<1> HIDE DEF s, t
<1>7. Reshaped(c, s, t)
  BY <1>2, <1>3, <1>4, <1>5, <1>6 DEF StackMove, s, t
<1> QED
  BY <1>7 DEF s, t

LEMMA StackStep ==
    ASSUME StackInv, [Next]_vars
    PROVE  StackInv'
<1> SUFFICES ASSUME NEW c \in Cores
             PROVE  /\ stack'[c] \in Seq(Calls)
                    /\ \A i \in DOMAIN stack'[c] :
                          LET call == stack'[c][i]
                          IN  /\ i # 1 => call.at # "enter"
                              /\ call.layer = "device" \/ (call.layer = "context" /\ i # 1)
                                    => Below[call.fs] # NULL
  BY StackFunction DEF StackInv
<1> DEFINE s == stack[c]
           t == stack'[c]
           Fits(call, i) == /\ i # 1 => call.at # "enter"
                            /\ call.layer = "device" \/ (call.layer = "context" /\ i # 1)
                                  => Below[call.fs] # NULL
<1>1. s \in Seq(Calls) /\ \A i \in 1 .. Len(s) : Fits(s[i], i)
  BY DEF StackInv
<1>2. Reshaped(c, s, t)
  BY StackMoves, MovedStack
<1> HIDE DEF s, t
<1>3. \A i \in 1 .. Len(t) : Fits(t[i], i)
  <2>1. CASE t = s
    BY <1>1, <2>1
  <2>2. CASE Len(t) = 1 /\ t[1].layer = "vfs"
    BY <2>2
  <2>3. CASE Replaced(s, t)
    BY <1>1, <2>3 DEF Replaced, Moved
  <2>4. CASE Pushed(s, t)
    <3>1. Fits(t[1], 1)
      BY <1>1, <2>4 DEF Pushed, Callee
    <3>2. Fits(t[2], 2)
      BY <1>1, <2>4 DEF Pushed, Callee, Moved
    <3>3. \A i \in 3 .. Len(t) : Fits(t[i], i)
      BY <1>1, <2>4 DEF Pushed
    <3>4. \A i \in 1 .. Len(t) : i = 1 \/ i = 2 \/ i \in 3 .. Len(t)
      BY <2>4 DEF Pushed
    <3> QED
      BY <3>1, <3>2, <3>3, <3>4
  <2>5. CASE Popped(s, t)
    <3>1. \A i \in 1 .. Len(t) : i + 1 \in 1 .. Len(s) /\ i + 1 # 1
      BY <1>1, <1>2, <2>5 DEF Popped, Reshaped
    <3> QED
      BY <1>1, <2>5, <3>1 DEF Popped
  <2> QED
    BY <1>2, <2>1, <2>2, <2>3, <2>4, <2>5 DEF Reshaped
<1> QED
  BY <1>2, <1>3 DEF t, Reshaped

LEMMA InvInit == Init => StackInv /\ LocksAccounted
<1> SUFFICES ASSUME Init PROVE StackInv /\ LocksAccounted
  OBVIOUS
<1>1. StackInv
  BY DEF Init, StackInv
<1>2. \A c \in Cores : \A l : Inside(stack[c], l) = {}
  BY DEF Init, Inside
<1>3. \A c \in Cores : \A l : Cardinality(Inside(stack[c], l)) = 0
  BY <1>2, FS_EmptySet
<1>4. TypeOK
  BY <1>1 DEF Init, TypeOK, StackInv
<1>5. \A l \in Locks : owner[l] = NULL /\ depth[l] = 0
  BY DEF Init
<1> QED
  BY <1>1, <1>3, <1>4, <1>5, NullAssumption DEF LocksAccounted

\* In every reachable state only the innermost call of a core waits for its mutex, and
\* only a loopback device has calls made into its file (loopback.c, __read and program).
THEOREM StackHolds == Spec => []StackInv
<1>1. StackInv /\ [Next]_vars => StackInv'
  BY StackStep
<1> QED
  BY InvInit, <1>1, PTL DEF Spec

\* Every mutex is entered as often as its core's calls say, and free when none is in it:
\* no path of vfs.c, an adapter or loopback.c, the error return after lseek() included,
\* keeps a mutex or leaves it twice.
THEOREM Accounted == Spec => []LocksAccounted
<1>1. StackInv /\ LocksAccounted /\ [Next]_vars => LocksAccounted'
  BY AccountStep
<1> QED
  BY InvInit, StackHolds, <1>1, PTL DEF Spec

------------------------------------------------------------------------------
(* No deadlock, when the file systems on loopback devices belong to one core *)

\* rank says how many file systems lie on each other below fs.
Ranks(rank) ==
    /\ rank \in [FileSystems -> Nat]
    /\ \A fs \in FileSystems : Below[fs] # NULL => rank[Below[fs]] < rank[fs]

Height(rank, call) ==
    3 * rank[call.fs]
      + (IF call.layer = "vfs" THEN 2 ELSE IF call.layer = "context" THEN 1 ELSE 0)

\* Every call is lower than the one that made it.
Descends(rank, s) ==
    \A i, j \in 1 .. Len(s) : i < j => Height(rank, s[i]) < Height(rank, s[j])

LEMMA DescendsStep ==
    ASSUME NEW rank, Ranks(rank), StackInv, [Next]_vars, NEW c \in Cores, Descends(rank, stack[c])
    PROVE  Descends(rank, stack'[c])
<1> DEFINE s == stack[c]
           t == stack'[c]
<1>1. Reshaped(c, s, t) /\ s \in Seq(Calls) /\ t \in Seq(Calls)
  BY StackMoves, MovedStack DEF Reshaped, StackInv
<1>2. \A call \in Calls : Height(rank, call) \in Nat
  BY DEF Ranks, Height, Calls
<1>3. \A call \in Calls : \A x : Moved(x, call) => Height(rank, x) = Height(rank, call)
  BY DEF Moved, Height
<1>4. \A call \in Calls : \A y : Callee(y, call) => Height(rank, y) < Height(rank, call)
  <2> SUFFICES ASSUME NEW call \in Calls, NEW y, Callee(y, call)
               PROVE  Height(rank, y) < Height(rank, call)
    OBVIOUS
  <2>1. y.fs \in FileSystems /\ call.fs \in FileSystems
    BY DEF Callee, Calls
  <2>2. rank[y.fs] \in Nat /\ rank[call.fs] \in Nat
    BY <2>1 DEF Ranks
  <2>3. CASE /\ y.fs = call.fs
             /\ \/ call.layer = "vfs" /\ y.layer = "context"
                \/ call.layer = "context" /\ y.layer = "device"
    <3>1. /\ call.layer = "vfs" => /\ Height(rank, y) = 3 * rank[call.fs] + 1
                                  /\ Height(rank, call) = 3 * rank[call.fs] + 2
          /\ call.layer = "context" => /\ Height(rank, y) = 3 * rank[call.fs] + 0
                                      /\ Height(rank, call) = 3 * rank[call.fs] + 1
      BY <2>3 DEF Height
    <3> QED
      BY <2>2, <2>3, <3>1
  <2>4. CASE call.layer = "device" /\ y.layer = "vfs" /\ y.fs = Below[call.fs]
    <3>1. rank[y.fs] < rank[call.fs]
      BY <2>1, <2>4, NullAssumption DEF Ranks
    <3> QED
      BY <2>2, <2>4, <3>1 DEF Height
  <2> QED
    BY <2>3, <2>4 DEF Callee
<1> DEFINE h(call) == Height(rank, call)
<1>5. \A i, j \in 1 .. Len(s) : i < j => h(s[i]) < h(s[j])
  BY DEF Descends
<1>6. /\ \A i \in 1 .. Len(s) : s[i] \in Calls /\ h(s[i]) \in Nat
      /\ \A i \in 1 .. Len(t) : t[i] \in Calls /\ h(t[i]) \in Nat
      /\ Len(s) \in Nat /\ Len(t) \in Nat
  BY <1>1, <1>2
<1> HIDE DEF s, t, h
<1> SUFFICES ASSUME NEW i \in 1 .. Len(t), NEW j \in 1 .. Len(t), i < j PROVE h(t[i]) < h(t[j])
  BY DEF Descends, t, h
<1>7. CASE t = s \/ Len(t) = 1
  BY <1>5, <1>6, <1>7
<1>8. CASE Replaced(s, t)
  <2>1. \A k \in 1 .. Len(t) : k \in 1 .. Len(s) /\ h(t[k]) = h(s[k])
    BY <1>3, <1>6, <1>8 DEF Replaced, h
  <2> QED
    BY <1>5, <2>1
<1>9. CASE Pushed(s, t)
  <2>1. 1 \in 1 .. Len(s) /\ h(t[1]) < h(s[1]) /\ h(t[2]) = h(s[1])
    BY <1>3, <1>4, <1>6, <1>9 DEF Pushed, h
  <2>2. \A k \in 2 .. Len(t) : k - 1 \in 1 .. Len(s) /\ h(t[k]) = h(s[k - 1])
    <3> SUFFICES ASSUME NEW k \in 2 .. Len(t)
                 PROVE  k - 1 \in 1 .. Len(s) /\ h(t[k]) = h(s[k - 1])
      OBVIOUS
    <3>1. CASE k = 2
      BY <2>1, <3>1
    <3>2. CASE k # 2
      BY <1>6, <1>9, <3>2 DEF Pushed
    <3> QED
      BY <3>1, <3>2
  <2>3. \A k \in 2 .. Len(t) : h(s[1]) <= h(t[k])
    <3> SUFFICES ASSUME NEW k \in 2 .. Len(t) PROVE h(s[1]) <= h(t[k])
      OBVIOUS
    <3>1. k - 1 \in 1 .. Len(s) /\ h(t[k]) = h(s[k - 1])
      BY <2>2
    <3>2. k - 1 = 1 \/ 1 < k - 1
      BY <1>6
    <3>3. h(s[1]) \in Nat /\ h(s[k - 1]) \in Nat
      BY <1>6, <2>1, <3>1
    <3>4. 1 < k - 1 => h(s[1]) < h(s[k - 1])
      BY <1>5, <2>1, <3>1
    <3> QED
      BY <3>1, <3>2, <3>3, <3>4
  <2>4. CASE i = 1
    BY <1>6, <2>1, <2>3, <2>4
  <2>5. CASE i # 1
    <3>1. i \in 2 .. Len(t) /\ j \in 2 .. Len(t)
      BY <1>6, <2>5
    <3>2. i - 1 \in 1 .. Len(s) /\ j - 1 \in 1 .. Len(s) /\ i - 1 < j - 1
      BY <2>2, <3>1
    <3>3. h(s[i - 1]) < h(s[j - 1])
      BY <1>5, <3>2
    <3> QED
      BY <2>2, <3>1, <3>3
  <2> QED
    BY <2>4, <2>5
<1>10. CASE Popped(s, t)
  <2>1. \A k \in 1 .. Len(t) : k + 1 \in 1 .. Len(s) /\ t[k] = s[k + 1]
    BY <1>6, <1>10 DEF Popped
  <2>2. i + 1 \in 1 .. Len(s) /\ j + 1 \in 1 .. Len(s) /\ i + 1 < j + 1
    <3>1. i + 1 \in 1 .. Len(s) /\ j + 1 \in 1 .. Len(s)
      BY <2>1
    <3> QED
      BY <1>6, <3>1
  <2>3. h(s[i + 1]) < h(s[j + 1])
    BY <1>5, <2>2
  <2>4. t[i] = s[i + 1] /\ t[j] = s[j + 1]
    BY <2>1
  <2> QED
    BY <2>3, <2>4
<1> QED
  BY <1>1, <1>7, <1>8, <1>9, <1>10 DEF Reshaped

\* The stack of a core that keeps away from the loopback devices.
Shallow(s) ==
    /\ \A i \in 1 .. Len(s) : Below[s[i].fs] = NULL
    /\ \/ s = <<>>
       \/ Len(s) = 1 /\ s[1].layer = "vfs"
       \/ Len(s) = 2 /\ s[1].layer = "context" /\ s[2].layer = "vfs"

LEMMA ShallowStep ==
    ASSUME StackInv, [Next]_vars, NEW c \in Cores, Shallow(stack[c]),
           \A fs \in Uses[c] : Below[fs] = NULL
    PROVE  Shallow(stack'[c])
<1> DEFINE s == stack[c]
           t == stack'[c]
<1>1. Reshaped(c, s, t) /\ s \in Seq(Calls) /\ t \in Seq(Calls) /\ Shallow(s)
  BY StackMoves, MovedStack DEF Reshaped, StackInv
<1>2. \A i \in 1 .. Len(s) : s[i].layer # "device"
  BY <1>1 DEF StackInv, Shallow
<1> HIDE DEF s, t
<1>3. ASSUME t = s \/ Replaced(s, t) PROVE Shallow(t)
  BY <1>1, <1>3 DEF Shallow, Replaced, Moved
<1>4. ASSUME Len(t) = 1, t[1].layer = "vfs", t[1].fs \in Uses[c] PROVE Shallow(t)
  BY <1>4 DEF Shallow
<1>5. ASSUME Pushed(s, t) PROVE Shallow(t)
  <2>1. Len(s) = 1 /\ s[1].layer = "vfs"
    BY <1>1, <1>2, <1>5 DEF Shallow, Pushed, Callee
  <2>2. /\ Len(t) = 2 /\ t[1].layer = "context" /\ t[1].fs = s[1].fs
        /\ t[2].layer = "vfs" /\ t[2].fs = s[1].fs
    BY <1>5, <2>1 DEF Pushed, Callee, Moved
  <2> QED
    BY <1>1, <2>1, <2>2 DEF Shallow
<1>6. ASSUME Popped(s, t) PROVE Shallow(t)
  <2>1. CASE Len(s) = 1
    <3>1. Len(t) = 0 /\ t = <<>>
      BY <1>1, <1>6, <2>1 DEF Popped
    <3> QED
      BY <3>1 DEF Shallow
  <2>2. CASE Len(s) = 2 /\ s[2].layer = "vfs"
    <3>0. Len(t) \in Nat /\ 2 = Len(t) + 1
      BY <1>1, <1>6, <2>2 DEF Popped
    <3>a. \A n \in Nat : 2 = n + 1 => n = 1 /\ 1 \in 1 .. n /\ 1 + 1 = 2
      OBVIOUS
    <3>1. Len(t) = 1 /\ 1 \in 1 .. Len(t) /\ 1 + 1 = 2
      BY <3>0, <3>a
    <3>2. t[1] = s[2]
      BY <1>6, <3>1 DEF Popped
    <3> QED
      BY <1>1, <2>2, <3>1, <3>2 DEF Shallow
  <2>3. s # <<>>
    BY <1>1, <1>6 DEF Popped
  <2> QED
    BY <1>1, <2>1, <2>2, <2>3 DEF Shallow
<1>7. Shallow(t)
  BY <1>1, <1>3, <1>4, <1>5, <1>6 DEF Reshaped
<1> QED
  BY <1>7 DEF t

LEMMA InsideIs ==
    ASSUME StackInv, LocksAccounted, NEW l \in Locks, NEW c \in Cores, owner[l] = c
    PROVE  \E i \in 1 .. Len(stack[c]) : In(stack[c][i], l)
<1>1. Cardinality(Inside(stack[c], l)) # 0
  BY NullAssumption DEF LocksAccounted
<1>2. Inside(stack[c], l) # {}
  BY <1>1, FS_EmptySet
<1> QED
  BY <1>2 DEF Inside, StackInv

LEMMA WaitsIs ==
    ASSUME StackInv, LocksAccounted, NEW c \in Cores, Waits(c)
    PROVE  /\ stack[c] \in Seq(Calls) /\ 1 \in 1 .. Len(stack[c])
           /\ Top(c) = stack[c][1] /\ Top(c) \in Calls /\ Top(c).at = "enter"
           /\ LockOf(Top(c)) \in Locks /\ owner[LockOf(Top(c))] \in Cores
           /\ owner[LockOf(Top(c))] = c => Top(c).layer # "vfs"
<1>1. stack[c] # <<>> /\ Top(c).at = "enter" /\ ~MayTake(c, LockOf(Top(c)))
  BY DEF Waits
<1>0. stack[c] \in Seq(Calls)
  BY DEF StackInv
<1>2. Top(c) = stack[c][1] /\ Top(c) \in Calls /\ 1 \in 1 .. Len(stack[c])
  <2>1. 1 \in 1 .. Len(stack[c])
    BY <1>0, <1>1
  <2> QED
    BY <1>1, <2>1, TopIs
<1>3. LockOf(Top(c)) \in Locks
  BY <1>2, LockIs
<1>4. owner[LockOf(Top(c))] \in Cores
  BY <1>1, <1>3 DEF MayTake, LocksAccounted, TypeOK
<1>5. Top(c).layer = "vfs" => LockOf(Top(c)) \in VfsLocks
  BY <1>2 DEF LockOf, VfsLocks, Calls
<1> QED
  BY <1>0, <1>1, <1>2, <1>3, <1>4, <1>5 DEF MayTake

\* A core does not wait for itself: the mutexes of the VFS are recursive, and every
\* other on the way down belongs to a file system further down.
LEMMA NotForItself ==
    ASSUME StackInv, LocksAccounted, NEW rank, Ranks(rank), NEW c \in Cores,
           Descends(rank, stack[c]), Waits(c)
    PROVE  owner[LockOf(Top(c))] # c
<1> SUFFICES ASSUME owner[LockOf(Top(c))] = c PROVE FALSE
  OBVIOUS
<1>1. PICK i \in 1 .. Len(stack[c]) : In(stack[c][i], LockOf(Top(c)))
  BY WaitsIs, InsideIs
<1>2. i # 1 /\ 1 < i
  BY <1>1, WaitsIs DEF In
<1>3. stack[c][i].layer = Top(c).layer /\ stack[c][i].fs = Top(c).fs
  BY <1>1, WaitsIs DEF In, LockOf, Calls
<1>4. Height(rank, stack[c][i]) = Height(rank, Top(c))
  BY <1>3 DEF Height
<1>5. Height(rank, Top(c)) \in Nat
  BY WaitsIs DEF Height, Ranks, Calls
<1>6. Height(rank, stack[c][1]) < Height(rank, stack[c][i])
  BY <1>1, <1>2, WaitsIs DEF Descends
<1> QED
  BY <1>4, <1>5, <1>6, WaitsIs

\* A core on the lowest file systems that has a mutex and waits, waits for a core
\* that does not.
LEMMA ShallowEnds ==
    ASSUME StackInv, LocksAccounted, NEW c \in Cores, Shallow(stack[c]), Waits(c),
           NEW l \in Locks, owner[l] = c
    PROVE  ~Waits(owner[LockOf(Top(c))])
<1>1. PICK i \in 1 .. Len(stack[c]) : In(stack[c][i], l)
  BY InsideIs
<1>2. i # 1
  BY <1>1, WaitsIs DEF In
<1>3. Top(c).layer = "context" /\ Below[Top(c).fs] = NULL
  BY <1>1, <1>2, WaitsIs DEF Shallow
<1> DEFINE d == owner[LockOf(Top(c))]
<1> SUFFICES ASSUME Waits(d) PROVE FALSE
  OBVIOUS
<1>4. d \in Cores
  BY WaitsIs
<1>5. PICK k \in 1 .. Len(stack[d]) : In(stack[d][k], LockOf(Top(c)))
  BY <1>4, WaitsIs, InsideIs
<1>6. stack[d][k].layer = "context" /\ stack[d][k].fs = Top(c).fs
  BY <1>3, <1>5, WaitsIs DEF In, LockOf
<1>7. k = 1
  BY <1>3, <1>4, <1>5, <1>6 DEF StackInv
<1> QED
  BY <1>4, <1>5, <1>7, WaitsIs DEF In

\* The calls loopback.c makes back into vfs.c cannot deadlock, however deep loopback
\* devices lie on each other, if one core has them to itself; the others may use what
\* lies at the bottom.
THEOREM ReentryIsSafe ==
    ASSUME NEW rank, Ranks(rank), NEW c0,
           \A c \in Cores \ {c0} : \A fs \in Uses[c] : Below[fs] = NULL
    PROVE  Spec => []NoDeadlock
<1> DEFINE Inv == \A c \in Cores : Descends(rank, stack[c]) /\ (c # c0 => Shallow(stack[c]))
<1>1. Init => Inv
  BY DEF Init, Descends, Shallow
<1>2. StackInv /\ Inv /\ [Next]_vars => Inv'
  <2> SUFFICES ASSUME StackInv, Inv, [Next]_vars PROVE Inv'
    OBVIOUS
  <2>1. ASSUME NEW c \in Cores PROVE Descends(rank, stack'[c])
    BY DescendsStep
  <2>2. ASSUME NEW c \in Cores, c # c0 PROVE Shallow(stack'[c])
    BY <2>2, ShallowStep
  <2>3. \A c \in Cores : (Descends(rank, stack[c]))' <=> Descends(rank, stack'[c])
    BY DEF Descends, Height
  <2>4. \A c \in Cores : (Shallow(stack[c]))' <=> Shallow(stack'[c])
    BY DEF Shallow
  <2> QED
    BY <2>1, <2>2, <2>3, <2>4
<1>3. StackInv /\ LocksAccounted /\ Inv => NoDeadlock
  <2> SUFFICES ASSUME StackInv, LocksAccounted, Inv, NEW S \in SUBSET Cores, S # {},
                      \A c \in S : Waits(c) /\ owner[LockOf(Top(c))] \in S
               PROVE  FALSE
    BY DEF NoDeadlock
  <2>1. ASSUME NEW c \in S PROVE owner[LockOf(Top(c))] # c
    BY NotForItself
  <2>2. PICK c \in S : owner[LockOf(Top(c))] # c0
    BY <2>1
  <2> DEFINE d == owner[LockOf(Top(c))]
  <2>3. d \in S /\ d # c0 /\ Shallow(stack[d]) /\ LockOf(Top(c)) \in Locks
    BY <2>2, WaitsIs
  <2>4. ~Waits(owner[LockOf(Top(d))])
    BY <2>3, ShallowEnds
  <2> QED
    BY <2>3, <2>4
<1> QED
  BY InvInit, StackHolds, Accounted, <1>1, <1>2, <1>3, PTL DEF Spec
=============================================================================
