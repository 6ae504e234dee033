------------------------------- MODULE PosixNames -------------------------------
(***************************************************************************)
(* What the calls on names promise to an application that sees one tree:   *)
(* the tree is joined from file systems, and Area says on which of them a  *)
(* path lies.  A call changes the names it is about and no others; an      *)
(* error tells the truth.                                                  *)
(***************************************************************************)
EXTENDS Sequences, SequencesExt

CONSTANTS
    Paths,  \* sequences of names; the root is <<>>
    Area    \* Area[p]: where p lies

VARIABLES
    tree,   \* tree[p]: "dir", "file" or "none"
    call    \* the last call: its paths, its answer and what it found

vars == <<tree, call>>

Under(p) == {q \in Paths : IsPrefix(p, q)}
Children(p) == {q \in Under(p) : Len(q) = Len(p) + 1 /\ tree[q] # "none"}
Empty(p) == \A q \in Under(p) \ {p} : tree[q] = "none"
Parent(p) == IF p = <<>> THEN p ELSE Front(p)
Top(p) == p = <<>> \/ Area[p] # Area[Front(p)]

Init == /\ tree[<<>>] = "dir"
        /\ \A p \in Paths : tree[p] # "none" => tree[Parent(p)] = "dir"

\* A file or a directory of this name, which the parent directory has not had yet; an
\* open of a file that is there finds it.
Make(kind) ==
    LET p == call'.path
    IN  /\ call'.op = (IF kind = "dir" THEN "mkdir" ELSE "creat")
        /\ tree[Parent(p)] = "dir"
        /\ tree[p] \in {"none"} \cup ({"file"} \cap {kind})
        /\ tree' = [tree EXCEPT ![p] = kind]

\* unlink and rmdir alike take away a file or an empty directory.
Drop ==
    LET p == call'.path
    IN  /\ call'.op \in {"unlink", "rmdir"}
        /\ tree[p] # "none" /\ Empty(p) /\ ~Top(p)
        /\ tree' = [tree EXCEPT ![p] = "none"]

Moves(p, q) == Area[p] = Area[q] /\ (IsPrefix(p, q) => p = q) /\ ~Top(p)

\* All that was below the old name is below the new one, where nothing was that would
\* be lost, a file apart.
Rename ==
    LET p == call'.path
        q == call'.new
        From(x) == p \o SubSeq(x, Len(q) + 1, Len(x))
    IN  /\ call'.op = "rename" /\ Moves(p, q)
        /\ tree[p] # "none" /\ tree[Parent(q)] = "dir"
        /\ p = q \/ Empty(q)
        /\ tree' = [x \in Paths |->
                       IF x \in Under(q) THEN IF From(x) \in Paths THEN tree[From(x)] ELSE "none"
                       ELSE IF x \in Under(p) THEN "none" ELSE tree[x]]

Stat == /\ call'.op = "stat" /\ call'.found = {tree[call'.path]} /\ UNCHANGED tree

\* The names of a directory; those of mounted file systems may be missing, and names
\* that no path leads to may be among them.
List == /\ call'.op = "readdir" /\ tree[call'.path] = "dir"
        /\ \A n \in call'.found :
              LET q == Append(call'.path, n) IN q \in Paths => tree[q] # "none"
        /\ {Last(q) : q \in {x \in Children(call'.path) : ~Top(x)}} \subseteq call'.found
        /\ UNCHANGED tree

\* What an error says is so.
Refuse ==
    LET p == call'.path
        q == call'.new
        Missing(x) == tree[x] = "none"
    IN  /\ UNCHANGED tree
        /\ CASE call'.answer = "ENOENT" -> Missing(p) \/ Missing(Parent(q))
             [] call'.answer = "ENOTDIR" ->
                    \/ Missing(p) \/ tree[Parent(p)] # "dir" \/ tree[Parent(q)] # "dir"
                    \/ call'.op = "readdir" /\ tree[p] = "file"
                    \/ call'.op = "rename" /\ tree[q] = "file"
             [] call'.answer = "EEXIST" -> ~Missing(IF call'.op = "rename" THEN q ELSE p)
             [] call'.answer = "EISDIR" -> "dir" \in {tree[p], tree[q]}
             [] call'.answer = "ENOTEMPTY" -> ~Empty(IF call'.op = "rename" THEN q ELSE p)
             [] call'.answer = "EACCES" ->
                    call'.op \in {"unlink", "rmdir"} => ~Empty(p)
             [] call'.answer = "EINVAL" -> Top(p)
             [] call'.answer = "ENOSPC" -> call'.op \notin {"unlink", "rmdir"}

\* A call that fails on the medium, a move of a directory into itself and one that
\* crosses to another file system leave the names of other file systems alone, and
\* without a move all but their own.
Stray ==
    LET p == call'.path
    IN  /\ call'.answer = "EIO" \/ ~Moves(p, call'.new)
        /\ \A x \in Paths : x \in (IF call'.op = "rename" THEN {y \in Paths : Area[y] = Area[p]}
                                   ELSE {p}) \/ tree'[x] = tree[x]

Next == \/ call'.answer = "ok" /\ (Make("dir") \/ Make("file") \/ Drop \/ Rename \/ Stat \/ List)
        \/ call'.answer \notin {"ok", "EIO"} /\ Refuse
        \/ (call'.answer = "EIO" \/ call'.op = "rename") /\ Stray

Spec == Init /\ [][Next]_vars
=============================================================================
