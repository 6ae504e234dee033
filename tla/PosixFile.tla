------------------------------- MODULE PosixFile -------------------------------
(***************************************************************************)
(* What open, read, write, lseek, ftruncate, fstat and close promise about *)
(* one file, whichever file system it lies on.  A call that fails leaves   *)
(* the content open.  A power loss leaves one of the contents in `stable`. *)
(* Uses that only POSIX defines are outside the promise: from there on     *)
(* nothing is said about the file, until it has been removed.              *)
(***************************************************************************)
EXTENDS Integers, Sequences

CONSTANTS Values, Absent, NULL

VARIABLES
    content,  \* a sequence, or Absent
    handle,   \* the open file: its position, its rights, whether a call on it has failed
              \* and whether the file was changed through it; or NULL
    stable,   \* the contents that a power loss may leave
    call,     \* the last call: its name, its arguments and its answer
    outside   \* has the application left the promise?

vars == <<content, handle, stable, call, outside>>

Refusals == {"ENOENT", "EEXIST", "EACCES", "EINVAL", "ENOMEM"}
Failures == {"EIO", "ENOSPC", "negative size"}

Init == /\ content = Absent
        /\ handle = NULL
        /\ stable = {Absent}
        /\ call.answer = "ok"
        /\ outside = FALSE

\* The call op answers this.
Answers(op, a) == call'.op = op /\ call'.answer = a

Put(s, p, x) == [i \in 1 .. (IF p < Len(s) THEN Len(s) ELSE p + 1) |->
                     IF i = p + 1 THEN x ELSE s[i]]

\* Finds the file or makes one, and empties it if asked to.  An append handle may
\* start anywhere.
Open ==
    /\ handle = NULL /\ Answers("open", "ok")
    /\ handle' = [pos |-> handle'.pos, failed |-> FALSE, changed |-> content' # content,
                  read |-> call'.flags.read, write |-> call'.flags.write,
                  append |-> call'.flags.append]
    /\ handle'.append \/ handle'.pos = 0
    /\ IF content # Absent /\ ~call'.flags.trunc
         THEN UNCHANGED <<content, stable>>
         ELSE content' = <<>> /\ (content = Absent => call'.flags.creat)

\* Writes its value at the position, or at the end.
Write ==
    /\ handle # NULL /\ handle.write /\ Answers("write", "ok")
    /\ LET p == IF handle.append THEN Len(content) ELSE handle.pos
       IN  /\ content' = Put(content, p, call'.x)
           /\ handle' = [handle EXCEPT !.pos = p + 1, !.changed = @ \/ content' # content]
    /\ stable' \in {stable, {content'}}

\* The medium is full: nothing is written.
WriteNothing ==
    /\ handle # NULL /\ handle.write /\ Answers("write", "short")
    /\ UNCHANGED <<content, handle>>

Read ==
    /\ handle # NULL /\ handle.read
    /\ IF handle.pos < Len(content)
         THEN /\ Answers("read", content[handle.pos + 1])
              /\ handle' = [handle EXCEPT !.pos = @ + 1]
         ELSE Answers("read", "eof") /\ UNCHANGED handle
    /\ UNCHANGED <<content, stable>>

\* Moves within the file and tells the new position.
Seek ==
    /\ handle # NULL /\ Answers("lseek", "ok")
    /\ call'.number = call'.n + (CASE call'.by = "SET" -> 0
                                   [] call'.by = "CUR" -> handle.pos
                                   [] call'.by = "END" -> Len(content))
    /\ handle' = [handle EXCEPT !.pos = call'.number]
    /\ UNCHANGED <<content, stable>>

\* Cuts the file; the position stays.
Truncate ==
    /\ handle # NULL /\ handle.write /\ Answers("ftruncate", "ok")
    /\ content' = SubSeq(content, 1, call'.n)
    /\ handle' = [handle EXCEPT !.changed = @ \/ content' # content]

Size ==
    /\ content # Absent /\ call'.op \in {"stat", "fstat"} /\ call'.answer = "ok"
    /\ call'.number = Len(content)
    /\ UNCHANGED <<content, handle, stable>>

\* A file that was changed through the handle is there to stay when close answers 0.
Close ==
    /\ handle # NULL /\ Answers("close", "ok") /\ handle' = NULL
    /\ UNCHANGED content
    /\ stable' = {content} \/ (UNCHANGED stable /\ ~handle.changed)

Remove == /\ handle = NULL /\ Answers("unlink", "ok")
          /\ content' = Absent /\ stable' = {Absent} /\ UNCHANGED handle

\* A call that is refused changes nothing.
Refuse == call'.answer \in Refusals /\ UNCHANGED <<content, handle, stable>>

\* Nothing is said about what a call that fails leaves behind, nor about a handle on
\* which one has failed, until it is closed.
Fail == /\ \/ call'.answer \in Failures
           \/ handle # NULL /\ handle.failed
        /\ IF handle' = NULL THEN TRUE ELSE handle'.failed

PowerLoss == /\ Answers("reset", "ok") /\ handle' = NULL
             /\ content' \in stable /\ stable' = {content'}

Next == \/ /\ ~outside /\ UNCHANGED outside
           /\ \/ Open \/ Write \/ WriteNothing \/ Read \/ Seek \/ Truncate \/ Size
              \/ Close \/ Remove \/ Refuse \/ Fail \/ PowerLoss
        \/ outside \/ outside'

Spec == Init /\ [][Next]_vars
=============================================================================
