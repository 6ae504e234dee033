----------------------------- MODULE LoopbackLocks -----------------------------
(***************************************************************************)
(* The mutexes a call into the VFS passes on its way down, when a file     *)
(* system lies on a loopback device whose image is a file of another one:  *)
(*   "vfs"      the static mutex of the VFS function (recursive),          *)
(*   "context"  the mutex of the file system's context (not recursive),    *)
(*   "device"   the mutex of the loopback device (not recursive), and from *)
(*              there lseek() and then read() or write() of the VFS again, *)
(*              one file system down.                                      *)
(* What the calls do to descriptors and files is left to VfsDescriptors.   *)
(* The device's init() and deinit(), which call open() and close() with    *)
(* its mutex entered, are left out: a program calls them when the device   *)
(* has no file system in use.                                              *)
(***************************************************************************)
EXTENDS Naturals, Sequences, FiniteSets

CONSTANTS
    Cores,
    FileSystems,
    Below,        \* Below[fs]: the file system that holds fs's image, NULL on flash or SD
    Uses,         \* Uses[c]: the file systems whose files core c calls on
    LockedFns,    \* the VFS functions that keep their mutex while the file system works
    MaxAccess,    \* bound on the device accesses of one file system call
    NULL

UnlockedFns == {"read", "write"}
Fns == LockedFns \cup UnlockedFns

VfsLocks == {<<"vfs", fn>> : fn \in Fns}
Locks == VfsLocks \cup {<<"context", fs>> : fs \in FileSystems}
                  \cup {<<"device", fs>> : fs \in FileSystems}

ASSUME NullAssumption == NULL \notin Cores \cup FileSystems
ASSUME BelowAssumption == Below \in [FileSystems -> FileSystems \cup {NULL}]
ASSUME UsesAssumption == Uses \in [Cores -> SUBSET FileSystems]
ASSUME LockedAssumption == "lseek" \in LockedFns /\ LockedFns \cap UnlockedFns = {}
ASSUME AccessAssumption == MaxAccess \in Nat

VARIABLES
    stack,   \* stack[c]: the calls core c is in, the innermost first
    owner,   \* owner[l]: the core in mutex l, or NULL
    depth    \* depth[l]: how many times it has entered

vars == <<stack, owner, depth>>

\* A call in one layer on behalf of VFS function fn and file system fs; `left`
\* counts the device accesses a file system call may still make.
CallTo(layer, fn, fs) ==
    [layer |-> layer, fn |-> fn, fs |-> fs, at |-> "enter", left |-> MaxAccess]
LockOf(call) == <<call.layer, IF call.layer = "vfs" THEN call.fn ELSE call.fs>>
Calls == [layer : {"vfs", "context", "device"}, fn : Fns, fs : FileSystems,
          at : {"enter", "body", "transfer", "leave"}, left : 0 .. MaxAccess]

TypeOK == /\ stack \in [Cores -> Seq(Calls)]
          /\ owner \in [Locks -> Cores \cup {NULL}]
          /\ depth \in [Locks -> Nat]

Init == /\ stack = [c \in Cores |-> <<>>]
        /\ owner = [l \in Locks |-> NULL]
        /\ depth = [l \in Locks |-> 0]

Top(c) == Head(stack[c])
At(c, layer, at) == stack[c] # <<>> /\ Top(c).layer = layer /\ Top(c).at = at

\* Mutant of MayTake: a mutex of the VFS that its own core cannot enter again.
MayTakeOnce(c, l) == owner[l] = NULL

\* recursive_mutex_enter_blocking for a VFS function, mutex_enter_blocking below.
MayTake(c, l) == owner[l] = NULL \/ (owner[l] = c /\ l \in VfsLocks)
Take(c, l) == /\ MayTake(c, l)
              /\ owner' = [owner EXCEPT ![l] = c]
              /\ depth' = [depth EXCEPT ![l] = @ + 1]
Drop(l) == /\ depth' = [depth EXCEPT ![l] = @ - 1]
           /\ owner' = [owner EXCEPT ![l] = IF depth[l] = 1 THEN NULL ELSE @]

Goto(c, at) == stack' = [stack EXCEPT ![c] = <<[Top(c) EXCEPT !.at = at]>> \o Tail(@)]
\* The innermost call makes another one, and is at `at` when that returns.
Push(c, call, at) ==
    stack' = [stack EXCEPT ![c] = <<call, [Top(c) EXCEPT !.at = at]>> \o Tail(@)]
Pop(c) == stack' = [stack EXCEPT ![c] = Tail(@)]

------------------------------------------------------------------------------
\* The application calls fn on a file of fs.
Start(c, fn, fs) ==
    /\ stack[c] = <<>>
    /\ fs \in Uses[c]
    /\ stack' = [stack EXCEPT ![c] = <<CallTo("vfs", fn, fs)>>]
    /\ UNCHANGED <<owner, depth>>

\* _open, _close, _lseek and the like enter their mutex for the whole call.
VfsEnter(c) ==
    /\ At(c, "vfs", "enter") /\ Top(c).fn \in LockedFns
    /\ Take(c, LockOf(Top(c)))
    /\ Goto(c, "body")

\* _read and _write have left their mutex when they call the file system.
VfsPass(c) ==
    /\ At(c, "vfs", "enter") /\ Top(c).fn \in UnlockedFns
    /\ MayTake(c, LockOf(Top(c)))
    /\ Goto(c, "body")
    /\ UNCHANGED <<owner, depth>>

VfsBody(c) ==
    /\ At(c, "vfs", "body")
    /\ Push(c, CallTo("context", Top(c).fn, Top(c).fs), "leave")
    /\ UNCHANGED <<owner, depth>>

VfsLeave(c) ==
    /\ At(c, "vfs", "leave")
    /\ IF Top(c).fn \in LockedFns THEN Drop(LockOf(Top(c))) ELSE UNCHANGED <<owner, depth>>
    /\ Pop(c)

\* The file system, and a loopback device, enter their own mutex first.
Enter(c) ==
    /\ At(c, "context", "enter") \/ At(c, "device", "enter")
    /\ Take(c, LockOf(Top(c)))
    /\ Goto(c, "body")

\* The file system reads or programs its device; only a loopback device comes
\* back to the VFS.
FsAccess(c) ==
    /\ At(c, "context", "body")
    /\ Top(c).left > 0 /\ Below[Top(c).fs] # NULL
    /\ \E fn \in UnlockedFns :
          stack' = [stack EXCEPT ![c] = <<CallTo("device", fn, Top(c).fs),
                                          [Top(c) EXCEPT !.left = @ - 1]>> \o Tail(@)]
    /\ UNCHANGED <<owner, depth>>

FsLeave(c) ==
    /\ At(c, "context", "body")
    /\ Drop(LockOf(Top(c)))
    /\ Pop(c)

\* __read and program of the loopback device: lseek() in the image ...
DeviceSeek(c) ==
    /\ At(c, "device", "body")
    /\ Push(c, CallTo("vfs", "lseek", Below[Top(c).fs]), "transfer")
    /\ UNCHANGED <<owner, depth>>

\* Mutant of DeviceTransfer: returns without mutex_exit when lseek() failed.
DeviceTransferKeepsMutex(c) ==
    /\ At(c, "device", "transfer")
    /\ \/ Push(c, CallTo("vfs", Top(c).fn, Below[Top(c).fs]), "leave")
       \/ Pop(c)
    /\ UNCHANGED <<owner, depth>>

\* ... then read() or write(), unless lseek() failed.
DeviceTransfer(c) ==
    /\ At(c, "device", "transfer")
    /\ \/ Push(c, CallTo("vfs", Top(c).fn, Below[Top(c).fs]), "leave")
       \/ Goto(c, "leave")
    /\ UNCHANGED <<owner, depth>>

DeviceLeave(c) ==
    /\ At(c, "device", "leave")
    /\ Drop(LockOf(Top(c)))
    /\ Pop(c)

Step(c) == \/ VfsEnter(c) \/ VfsPass(c) \/ VfsBody(c) \/ VfsLeave(c)
           \/ Enter(c) \/ FsAccess(c) \/ FsLeave(c)
           \/ DeviceSeek(c) \/ DeviceTransfer(c) \/ DeviceLeave(c)

Next == \E c \in Cores : \/ Step(c)
                         \/ \E fn \in Fns, fs \in FileSystems : Start(c, fn, fs)

Spec == Init /\ [][Next]_vars

\* A core that is in a call and not waiting goes on with it.
FairSpec == Spec /\ \A c \in Cores : WF_vars(Step(c))

------------------------------------------------------------------------------
(* Properties *)

\* The core waits for the mutex of the call it is about to make.
Waits(c) == /\ stack[c] # <<>> /\ Top(c).at = "enter"
            /\ ~MayTake(c, LockOf(Top(c)))

\* No cores wait for each other, and none for itself: the recursive mutexes of
\* the VFS carry the calls that a loopback device makes back into it (vfs.c:
\* "Recursive mutexes are used because recursive calls occur, e.g. on loopback
\* devices").
NoDeadlock ==
    \A S \in (SUBSET Cores) \ {{}} :
        \E c \in S : ~Waits(c) \/ owner[LockOf(Top(c))] \notin S

\* The call is in mutex l; read and write of the VFS have left theirs.
In(call, l) == /\ LockOf(call) = l /\ call.at # "enter"
               /\ ~(call.layer = "vfs" /\ call.fn \in UnlockedFns)
Inside(calls, l) == {i \in DOMAIN calls : In(calls[i], l)}

\* A core's stack accounts for every mutex it is in, as often as it entered it, and
\* nobody has one that is free: no path, failing ones included, leaves a mutex entered
\* or leaves it twice.
LocksAccounted ==
    /\ TypeOK
    /\ \A l \in Locks :
          /\ owner[l] = NULL <=> depth[l] = 0
          /\ \A c \in Cores :
                Cardinality(Inside(stack[c], l)) = IF owner[l] = c THEN depth[l] ELSE 0

\* Every call returns, however deep the loopback devices are nested, once the other
\* cores have stopped making calls.
CallsReturn ==
    \A c \in Cores : <>[](\A d \in Cores \ {c} : stack[d] = <<>>)
                        => (stack[c] # <<>> ~> stack[c] = <<>>)

------------------------------------------------------------------------------
(* The inductive invariant behind LocksAccounted and NoDeadlock *)

\* How calls lie on each other: only the innermost one can wait, and only a loopback
\* device has a file system in its back.
StackInv ==
    /\ stack \in [Cores -> Seq(Calls)]
    /\ \A c \in Cores : \A i \in DOMAIN stack[c] :
          LET call == stack[c][i]
          IN  /\ i # 1 => call.at # "enter"
              /\ call.layer = "device" \/ (call.layer = "context" /\ i # 1)
                    => Below[call.fs] # NULL
=============================================================================
