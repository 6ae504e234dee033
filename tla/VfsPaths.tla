-------------------------------- MODULE VfsPaths --------------------------------
(***************************************************************************)
(* The calls on names - _unlink, rename, mkdir, rmdir, _stat, the creating *)
(* open, and opendir with readdir - from the path that an application      *)
(* passes to vfs.c down to the FAT or littlefs that fat.c and littlefs.c   *)
(* call, and the error on its way back.  Two file systems are mounted, on  *)
(* the root and on a directory; their devices may fail at any access.      *)
(*                                                                         *)
(* A path is a sequence of names.  vfs.c compares strings: a name that     *)
(* begins with the directory's (sdx for /sd) is Joined, and leads into the *)
(* mounted file system as well.                                            *)
(*                                                                         *)
(* What the two libraries do is FatFs's src/vendor/ff15/source/ff.c, and   *)
(* for littlefs what its interface and the tests of the repository say.    *)
(***************************************************************************)
EXTENDS Integers, FiniteSets, Sequences, SequencesExt, Functions

CONSTANTS
    Names,      \* what a path is made of
    MountName,  \* the directory of the second mount point
    Joined,     \* Joined[n]: what is left of a name that MountName begins, n itself if none
    Paths,      \* the paths the application uses
    MaxDepth,   \* bound on the depth of a path in its file system
    MaxObjects  \* bound on the objects of a file system: its medium is full then

Kinds == {"file", "dir"}
Mounts == {"root", "sub"}

ASSUME NamesAssumption == MountName \in Names /\ Joined \in [Names -> Names]
ASSUME PathsAssumption == Paths \subseteq Seq(Names) /\ {<<>>, <<MountName>>} \subseteq Paths
ASSUME BoundAssumption == MaxDepth \in Nat \ {0} /\ MaxObjects \in Nat \ {0}

VARIABLES
    fs,     \* fs[m]: the file system mounted there, "fat" or "littlefs"
    tree,   \* tree[m]: what its objects are, by path
    twins,  \* history: has a rename on FAT left an object with two entries?
    last    \* the call that returned last: its paths, its answer and what it found

vars == <<fs, tree, twins, last>>

\* Does the string of p begin with the second directory?
Begins(p) == p # <<>> /\ (p[1] = MountName \/ Joined[p[1]] # p[1])

\* What a path of a file system leads to; the root is a directory.
Kind(t, p) == IF p = <<>> THEN "dir" ELSE IF p \in DOMAIN t THEN t[p] ELSE "none"

\* A tree: every object lies in a directory, and so does that.
IsTree(t) ==
    /\ DOMAIN t \subseteq Seq(Names) \ {<<>>} /\ Range(t) \subseteq Kinds
    /\ \A q \in DOMAIN t : \A n \in 1 .. Len(q) - 1 : Kind(t, SubSeq(q, 1, n)) = "dir"
Fits(t) == /\ \A q \in DOMAIN t : Len(q) <= MaxDepth
           /\ Cardinality(DOMAIN t) <= MaxObjects

\* Each file system is a tree, whatever is moved, removed and replaced: nothing lies
\* below a file, or below a directory that is gone.
TypeOK == /\ fs \in [Mounts -> {"fat", "littlefs"}]
          /\ DOMAIN tree = Mounts
          /\ \A m \in Mounts : IsTree(tree[m]) /\ Fits(tree[m])
          /\ twins \in BOOLEAN

------------------------------------------------------------------------------
(* The tree of a file system *)

Subtree(t, p) == {q \in DOMAIN t : IsPrefix(p, q)}
Within(t, p) == Subtree(t, p) \ {p}
Add(t, p, kind) == [q \in {p} \cup DOMAIN t |-> IF q = p THEN kind ELSE t[q]]
Cut(t, P) == Restrict(t, DOMAIN t \ P)
Graft(t, from, to) ==
    [q \in {to \o SubSeq(s, Len(from) + 1, Len(s)) : s \in Subtree(t, from)} |->
        t[from \o SubSeq(q, Len(to) + 1, Len(q))]]
Over(t, u) == [q \in DOMAIN t \cup DOMAIN u |-> IF q \in DOMAIN t THEN t[q] ELSE u[q]]

\* Mutant of Moved: what lies below is lost.
MovedAlone(t, from, to) == Add(Cut(t, Subtree(t, from) \cup Subtree(t, to)), to, t[from])

\* Moves a subtree, over what had the name before.
Moved(t, from, to) ==
    Over(Graft(t, from, to), Cut(t, Subtree(t, from) \cup Subtree(t, to)))
Full(t) == Cardinality(DOMAIN t) = MaxObjects

Outcome(t, res) == [tree |-> t, res |-> res, found |-> {}, twins |-> FALSE]
Finds(t, found) == [Outcome(t, "OK") EXCEPT !.found = found]
\* A change that may fail on the medium, before it or after.
Changed(t, new) == {Outcome(new, "OK"), Outcome(new, "IO"), Outcome(t, "IO")}
Asked(t, o) == {o, Outcome(t, "IO")}

------------------------------------------------------------------------------
(* FAT: fat.c and FatFs *)

\* fat_error_remap, for the results that occur.
FatErrno == [OK |-> "ok", IO |-> "EIO", NO_FILE |-> "ENOENT", NO_PATH |-> "ENOTDIR",
             INVALID_NAME |-> "EINVAL", DENIED |-> "EACCES", EXIST |-> "EEXIST"]
FatRemap(outcomes) == {[o EXCEPT !.res = FatErrno[@]] : o \in outcomes}

\* follow_path() of FatFs.
Follow(t, p) ==
    CASE p = <<>> -> "OK"
      [] p # <<>> /\ Kind(t, Front(p)) # "dir" -> "NO_PATH"
      [] OTHER -> IF p \in DOMAIN t THEN "OK" ELSE "NO_FILE"

\* Mutant of FUnlink: does not ask whether a directory is empty.
FUnlinkAny(t, p) ==
    IF Follow(t, p) # "OK" THEN Asked(t, Outcome(t, Follow(t, p)))
    ELSE IF p = <<>> THEN Asked(t, Outcome(t, "INVALID_NAME"))
    ELSE Changed(t, Cut(t, {p}))

\* f_unlink(), for files and empty directories.
FUnlink(t, p) ==
    IF Follow(t, p) # "OK" THEN Asked(t, Outcome(t, Follow(t, p)))
    ELSE IF p = <<>> THEN Asked(t, Outcome(t, "INVALID_NAME"))
    ELSE IF Within(t, p) # {} THEN Asked(t, Outcome(t, "DENIED"))
    ELSE Changed(t, Cut(t, {p}))

\* file_remove and file_rmdir of fat.c: only the first says ENOTEMPTY.
FatRemove(t, p) == FatRemap({o \in FUnlink(t, p) : o.res # "DENIED"})
    \cup {[o EXCEPT !.res = "ENOTEMPTY"] : o \in {x \in FUnlink(t, p) : x.res = "DENIED"}}
FatRmdir(t, p) == FatRemap(FUnlink(t, p))

\* file_mkdir.  A full volume is DENIED.
FatMkdir(t, p) ==
    FatRemap(CASE Follow(t, p) = "OK" -> Asked(t, Outcome(t, "EXIST"))
               [] Follow(t, p) = "NO_PATH" -> Asked(t, Outcome(t, "NO_PATH"))
               [] OTHER -> IF Full(t) THEN Asked(t, Outcome(t, "DENIED"))
                           ELSE Changed(t, Add(t, p, "dir")))

\* file_open with O_CREAT, and file_close.
FatCreate(t, p) ==
    FatRemap(CASE p = <<>> -> Asked(t, Outcome(t, "INVALID_NAME"))
               [] Kind(t, p) = "dir" /\ p # <<>> -> Asked(t, Outcome(t, "DENIED"))
               [] Kind(t, p) = "file" -> Asked(t, Outcome(t, "OK"))
               [] Follow(t, p) = "NO_PATH" -> Asked(t, Outcome(t, "NO_PATH"))
               [] OTHER -> IF Full(t) THEN Asked(t, Outcome(t, "DENIED"))
                           ELSE Changed(t, Add(t, p, "file")))

\* f_rename() registers the new name and removes the old one then, even if they are the
\* same; if that fails both names lead to the object, or two entries have its name.  It
\* does not ask whether the new name lies below the old one: nothing leads to that
\* directory any more.
FatRename(t, from, to) ==
    LET into == IsStrictPrefix(from, to)
        moved == IF into THEN Cut(t, Subtree(t, from)) ELSE Moved(t, from, to)
        both == [Outcome(Over(Graft(t, from, to), t), "IO") EXCEPT !.twins = TRUE]
        same == [Outcome(t, "IO") EXCEPT !.twins = TRUE]
        denied == IF Full(t) THEN {Outcome(t, "DENIED")} ELSE {}
    IN  FatRemap(
          IF Follow(t, from) # "OK" THEN Asked(t, Outcome(t, Follow(t, from)))
          ELSE IF from = <<>> THEN Asked(t, Outcome(t, "INVALID_NAME"))
          ELSE IF from = to THEN Asked(t, Outcome(t, "OK")) \cup {same} \cup denied
          ELSE IF Follow(t, to) # "NO_FILE"
            THEN Asked(t, Outcome(t, IF Follow(t, to) = "OK" THEN "EXIST" ELSE "NO_PATH"))
          ELSE Changed(t, moved) \cup {both} \cup denied)

\* file_stat: the root has no entry.
FatStat(t, p) ==
    FatRemap(Asked(t, IF p = <<>> THEN Outcome(t, "INVALID_NAME")
                      ELSE IF Follow(t, p) # "OK" THEN Outcome(t, Follow(t, p))
                      ELSE Finds(t, {Kind(t, p)})))

Entries(t, p) == {Last(q) : q \in {x \in Within(t, p) : Len(x) = Len(p) + 1}}

\* dir_open, dir_read up to the name of length 0, which is ENOENT, and dir_close.
FatList(t, p) ==
    FatRemap(Asked(t, IF Kind(t, p) # "dir" THEN Outcome(t, "NO_PATH")
                      ELSE Finds(t, Entries(t, p))))

------------------------------------------------------------------------------
(* littlefs: littlefs.c and the littlefs library *)

\* _error_remap of littlefs.c: NOTEMPTY (-39) is not one of its cases and goes through
\* as it is, errno 39.
LfsErrno == [OK |-> "ok", IO |-> "EIO", NOENT |-> "ENOENT", EXIST |-> "EEXIST",
             NOTDIR |-> "ENOTDIR", ISDIR |-> "EISDIR", INVAL |-> "EINVAL",
             NOSPC |-> "ENOSPC", NOTEMPTY |-> "39"]
LfsRemap(outcomes) == {[o EXCEPT !.res = LfsErrno[@]] : o \in outcomes}

\* Finding a path: a component that is a file is another error than one that is missing.
Lookup(t, p) ==
    IF \E q \in DOMAIN t : IsStrictPrefix(q, p) /\ t[q] = "file" THEN "NOTDIR"
    ELSE IF Kind(t, p) = "none" THEN "NOENT" ELSE "OK"
\* May p be made?
Room(t, p) == IF Lookup(t, p) = "NOENT" /\ Kind(t, Front(p)) = "dir" /\ Full(t)
              THEN "NOSPC" ELSE Lookup(t, p)
CanMake(t, p) == Room(t, p) = "NOENT" /\ Kind(t, Front(p)) = "dir"

\* file_remove and file_rmdir.
LfsRemove(t, p) ==
    LfsRemap(IF Lookup(t, p) # "OK" THEN Asked(t, Outcome(t, Lookup(t, p)))
             ELSE IF p = <<>> THEN Asked(t, Outcome(t, "INVAL"))
             ELSE IF Within(t, p) # {} THEN Asked(t, Outcome(t, "NOTEMPTY"))
             ELSE Changed(t, Cut(t, {p})))

LfsMkdir(t, p) ==
    LfsRemap(IF p # <<>> /\ CanMake(t, p) THEN Changed(t, Add(t, p, "dir"))
             ELSE Asked(t, Outcome(t, IF Lookup(t, p) = "OK" THEN "EXIST" ELSE Room(t, p))))

LfsCreate(t, p) ==
    LfsRemap(IF Kind(t, p) = "dir" THEN Asked(t, Outcome(t, "ISDIR"))
             ELSE IF CanMake(t, p) THEN Changed(t, Add(t, p, "file"))
             ELSE Asked(t, Outcome(t, IF Lookup(t, p) = "OK" THEN "OK" ELSE Room(t, p))))

\* file_rename: in one step; a file or an empty directory of the new name is replaced
\* by one of its own kind.
LfsRename(t, from, to) ==
    LET refused ==
            IF Lookup(t, from) # "OK" THEN Lookup(t, from)
            ELSE IF from = <<>> THEN "INVAL"
            ELSE IF Kind(t, to) = "none"
              THEN IF to # <<>> /\ Kind(t, Front(to)) = "dir" THEN "OK" ELSE Lookup(t, to)
            ELSE IF Kind(t, from) # Kind(t, to)
              THEN IF Kind(t, to) = "dir" THEN "ISDIR" ELSE "NOTDIR"
            ELSE IF from # to /\ Within(t, to) # {} THEN "NOTEMPTY" ELSE "OK"
    IN  LfsRemap(IF refused # "OK" THEN Asked(t, Outcome(t, refused))
                 ELSE Changed(t, Moved(t, from, to)))

\* file_stat, which fills st in on an error too.
LfsStat(t, p) ==
    LfsRemap(Asked(t, IF Lookup(t, p) # "OK" THEN Outcome(t, Lookup(t, p))
                      ELSE Finds(t, {Kind(t, p)})))

\* dir_open, dir_read and dir_close; "." and "..", which littlefs finds in every
\* directory and FAT does not, are left out.
LfsList(t, p) ==
    LfsRemap(Asked(t, IF Lookup(t, p) # "OK" THEN Outcome(t, Lookup(t, p))
                      ELSE IF Kind(t, p) = "file" THEN Outcome(t, "NOTDIR")
                      ELSE Finds(t, Entries(t, p))))

------------------------------------------------------------------------------
(* vfs.c *)

\* find_mountpoint: the longer of the two directories that the path begins with.
FindMountpoint(p) == IF Begins(p) THEN "sub" ELSE "root"

\* remove_prefix: a path that does not begin with the directory is passed whole.
RemovePrefix(p, m) ==
    IF m = "root" \/ ~Begins(p) THEN p
    ELSE IF p[1] = MountName THEN Tail(p) ELSE <<Joined[p[1]]>> \o Tail(p)

\* The call op on file system m answers one of these.
Answered(op, p, q, m, outcomes) ==
    \E o \in outcomes :
        /\ Fits(o.tree)
        /\ tree' = [tree EXCEPT ![m] = o.tree]
        /\ twins' = (twins \/ o.twins)
        /\ last' = [op |-> op, path |-> p, new |-> q, answer |-> o.res, found |-> o.found]
        /\ UNCHANGED fs

\* A call with one path, on FAT or on littlefs.
OnPath(op, p, Fat(_, _), Lfs(_, _)) ==
    LET m == FindMountpoint(p)
        e == RemovePrefix(p, m)
    IN  /\ ~twins
        /\ Answered(op, p, p, m, IF fs[m] = "fat" THEN Fat(tree[m], e) ELSE Lfs(tree[m], e))

Unlink(p) == OnPath("unlink", p, FatRemove, LfsRemove)
Mkdir(p) == OnPath("mkdir", p, FatMkdir, LfsMkdir)
Rmdir(p) == OnPath("rmdir", p, FatRmdir, LfsRemove)
Create(p) == OnPath("creat", p, FatCreate, LfsCreate)
Stat(p) == OnPath("stat", p, FatStat, LfsStat)
List(p) == OnPath("readdir", p, FatList, LfsList)

\* rename looks for the mount point of the old path only.  Left out: a new name that is
\* a mount point, and on littlefs a directory moved into itself.
Rename(p, q) ==
    LET m == FindMountpoint(p)
        from == RemovePrefix(p, m)
        to == RemovePrefix(q, m)
    IN  /\ ~twins /\ to # <<>> /\ (fs[m] = "littlefs" => ~IsStrictPrefix(from, to))
        /\ Answered("rename", p, q, m,
                    IF fs[m] = "fat" THEN FatRename(tree[m], from, to)
                    ELSE LfsRename(tree[m], from, to))

\* From here on two entries share an object, and nothing is said any more.
Broken == twins /\ UNCHANGED vars

\* The root file system may have a directory that the second mount point hides.
Init == /\ fs \in [Mounts -> {"fat", "littlefs"}]
        /\ tree \in [Mounts -> {<<>>}] \cup
                    {[m \in Mounts |-> IF m = "root" THEN Add(<<>>, <<MountName>>, "dir") ELSE <<>>]}
        /\ twins = FALSE
        /\ last = [op |-> "boot", path |-> <<>>, new |-> <<>>, answer |-> "ok", found |-> {}]

Next == \/ \E p \in Paths : Unlink(p) \/ Mkdir(p) \/ Rmdir(p) \/ Create(p) \/ Stat(p) \/ List(p)
        \/ \E p, q \in Paths : Rename(p, q)
        \/ Broken

Spec == Init /\ [][Next]_vars
------------------------------------------------------------------------------
(* Properties *)

\* The path an application would write for what p leads to.
Canonical(p) == IF Begins(p) THEN <<MountName>> \o RemovePrefix(p, "sub") ELSE p
Canonicals == {Canonical(p) : p \in Paths}
Errno(a) == IF a = "39" THEN "ENOTEMPTY" ELSE a

\* The one tree that the application sees, and the call as it sees it.
Seen == [p \in Canonicals |->
            Kind(tree[FindMountpoint(p)], RemovePrefix(p, FindMountpoint(p)))]
Area == [p \in Canonicals |-> FindMountpoint(p)]
Call == [last EXCEPT !.path = Canonical(@), !.new = Canonical(@), !.answer = Errno(@)]

Promise == INSTANCE PosixNames WITH
    Paths <- Canonicals, Area <- Area, tree <- Seen, call <- Call

\* The joined name space: on both kinds of file system, below the root and below the
\* second mount point, a call that answers 0 did what POSIX says and nothing else, one
\* that is refused changed nothing and says why, and one that fails on the medium
\* touches its own names only.  A path that only begins like the mounted directory is
\* taken for the one it leads to, and a rename across the mount point or of a directory
\* into itself keeps to its own file system.  All this until a rename on FAT, to the name
\* that the object has included, fails between the new entry and the old one.
NamesKept == Promise!Init /\ [][twins' \/ Promise!Next]_vars

------------------------------------------------------------------------------
(* The invariant behind NamesKept *)

\* The paths of file system m that the application's paths lead to.
Visible(m) == {RemovePrefix(p, m) : p \in {q \in Paths : FindMountpoint(q) = m}}

\* The application may use every path at which its calls leave something: the directory
\* of a path, the new path of what lies below an old name, and in the second file system
\* the paths of the root, which rename passes there.  All sequences of names are such paths.
ASSUME ClosedAssumption ==
    /\ Visible("root") \subseteq Visible("sub")
    /\ \A m \in Mounts :
          /\ \A p \in Visible(m) \ {<<>>} : Front(p) \in Visible(m)
          /\ \A from, to, p \in Visible(m) \ {<<>>} :
                IsPrefix(from, p) /\ Len(to) + Len(p) - Len(from) <= MaxDepth
                    => to \o SubSeq(p, Len(from) + 1, Len(p)) \in Visible(m)

\* The application can name every object, but for what the second mount point hides.
AllVisible ==
    \A m \in Mounts : \A q \in DOMAIN tree[m] :
        q \in Visible(m) \/ (m = "root" /\ Begins(q))
=============================================================================
