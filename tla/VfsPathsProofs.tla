---------------------------- MODULE VfsPathsProofs ----------------------------
(***************************************************************************)
(* Proofs about VfsPaths, for any names, any two file systems and trees of *)
(* any size.                                                               *)
(***************************************************************************)
EXTENDS VfsPaths, SequenceTheorems, FiniteSetTheorems, TLAPS

------------------------------------------------------------------------------
(* Paths *)

LEMMA PrefixIs ==
    ASSUME NEW p \in Seq(Names), NEW q \in Seq(Names)
    PROVE  IsPrefix(p, q) <=> Len(p) <= Len(q) /\ \A i \in 1 .. Len(p) : p[i] = q[i]
BY DEF IsPrefix

LEMMA EmptyIs ==
    ASSUME NEW p \in Seq(Names)
    PROVE  Len(p) = 0 <=> p = <<>>
OBVIOUS

LEMMA FrontIs ==
    ASSUME NEW p \in Seq(Names), p # <<>>
    PROVE  /\ Front(p) \in Seq(Names) /\ Len(Front(p)) = Len(p) - 1
           /\ \A i \in 1 .. Len(p) - 1 : Front(p)[i] = p[i]
           /\ IsPrefix(Front(p), p) /\ Front(p) # p
           /\ \A q \in Seq(Names) : IsPrefix(q, p) /\ q # p => IsPrefix(q, Front(p))
<1>1. Len(p) \in Nat /\ Len(p) >= 1
  BY EmptyIs
<1>2. /\ Front(p) \in Seq(Names) /\ Len(Front(p)) = Len(p) - 1
      /\ \A i \in 1 .. Len(p) - 1 : Front(p)[i] = p[i]
  <2> DEFINE n == Len(p) - 1
  <2>1. n \in Nat /\ n < Len(p) /\ Front(p) = SubSeq(p, 1, n)
    BY <1>1 DEF Front
  <2> HIDE DEF n
  <2>2. /\ SubSeq(p, 1, n) \in Seq(Names) /\ Len(SubSeq(p, 1, n)) = n
        /\ \A i \in 1 .. n : SubSeq(p, 1, n)[i] = p[i]
    BY <1>1, <2>1
  <2> QED
    BY <2>1, <2>2 DEF n
<1>3. ASSUME NEW q \in Seq(Names), IsPrefix(q, p), q # p
      PROVE  IsPrefix(q, Front(p))
  <2>1. Len(q) <= Len(p) /\ \A i \in 1 .. Len(q) : q[i] = p[i]
    BY <1>3, PrefixIs
  <2>2. Len(q) # Len(p)
    BY <1>3, <2>1, SeqEqual
  <2> QED
    BY <1>1, <1>2, <2>1, <2>2, PrefixIs
<1>4. IsPrefix(Front(p), p) /\ Front(p) # p
  BY <1>1, <1>2, PrefixIs
<1> QED
  BY <1>2, <1>3, <1>4

LEMMA PrefixTransitive ==
    ASSUME NEW p \in Seq(Names), NEW q \in Seq(Names), NEW r \in Seq(Names),
           IsPrefix(p, q), IsPrefix(q, r)
    PROVE  IsPrefix(p, r)
BY PrefixIs

LEMMA PrefixOrder ==
    ASSUME NEW p \in Seq(Names), NEW q \in Seq(Names), NEW r \in Seq(Names)
    PROVE  /\ IsPrefix(p, p) /\ IsPrefix(<<>>, p)
           /\ IsPrefix(p, q) /\ IsPrefix(q, r) => IsPrefix(p, r)
           /\ IsPrefix(p, q) /\ IsPrefix(q, p) => p = q
           /\ IsPrefix(p, r) /\ IsPrefix(q, r) => IsPrefix(p, q) \/ IsPrefix(q, p)
           /\ IsPrefix(p, q) => p = SubSeq(q, 1, Len(p)) /\ (p = q \/ Len(p) < Len(q))
<1>1. IsPrefix(p, p) /\ IsPrefix(<<>>, p)
  <2>1. <<>> \in Seq(Names) /\ Len(<<>>) = 0
    BY EmptySeq
  <2>2. IsPrefix(p, p)
    BY DEF IsPrefix
  <2>3. IsPrefix(<<>>, p)
    BY <2>1, Len(p) \in Nat, SubSeqEmpty DEF IsPrefix
  <2> QED
    BY <2>2, <2>3
<1>2. IsPrefix(p, q) /\ IsPrefix(q, r) => IsPrefix(p, r)
  BY PrefixTransitive
<1>3. IsPrefix(p, q) => p = q \/ Len(p) < Len(q)
  BY PrefixIs, SeqEqual
<1>4. IsPrefix(p, q) /\ IsPrefix(q, p) => p = q
  BY <1>3, PrefixIs
<1>5. IsPrefix(p, r) /\ IsPrefix(q, r) => IsPrefix(p, q) \/ IsPrefix(q, p)
  BY PrefixIs
<1>6. IsPrefix(p, q) => p = SubSeq(q, 1, Len(p))
  BY SubSeqFull DEF IsPrefix
<1> QED
  BY <1>1, <1>2, <1>3, <1>4, <1>5, <1>6

\* The path of s after a move of from to to.
Swap(from, to, s) == to \o SubSeq(s, Len(from) + 1, Len(s))

SwapAt(from, to, s, r) ==
    /\ r \in Seq(Names) /\ Len(r) = Len(to) + Len(s) - Len(from)
    /\ \A i \in 1 .. Len(to) : r[i] = to[i]
    /\ \A i \in Len(to) + 1 .. Len(r) : r[i] = s[i - Len(to) + Len(from)]

LEMMA SwapIs ==
    ASSUME NEW from \in Seq(Names), NEW to \in Seq(Names), NEW s \in Seq(Names),
           IsPrefix(from, s)
    PROVE  /\ SwapAt(from, to, s, Swap(from, to, s))
           /\ IsPrefix(to, Swap(from, to, s)) /\ Swap(to, from, Swap(from, to, s)) = s
           /\ (Swap(from, to, s) = to <=> s = from)
<1> DEFINE rest == SubSeq(s, Len(from) + 1, Len(s))
           r == Swap(from, to, s)
<1>0. /\ Len(from) <= Len(s) /\ \A i \in 1 .. Len(from) : from[i] = s[i]
      /\ Len(from) \in Nat /\ Len(s) \in Nat /\ Len(to) \in Nat
  BY PrefixIs
<1>1. /\ rest \in Seq(Names) /\ Len(rest) = Len(s) - Len(from)
      /\ \A i \in 1 .. Len(rest) : rest[i] = s[i + Len(from)]
  BY <1>0
<1> HIDE DEF rest
<1>2. /\ r \in Seq(Names) /\ Len(r) = Len(to) + Len(rest)
      /\ \A i \in 1 .. Len(r) : r[i] = IF i <= Len(to) THEN to[i] ELSE rest[i - Len(to)]
  BY <1>1, ConcatProperties DEF Swap, rest
<1> HIDE DEF r
<1>3. \A i \in Len(to) + 1 .. Len(r) : r[i] = s[i - Len(to) + Len(from)]
  <2> SUFFICES ASSUME NEW i \in Len(to) + 1 .. Len(r) PROVE r[i] = s[i - Len(to) + Len(from)]
    OBVIOUS
  <2>1. r[i] = rest[i - Len(to)] /\ i - Len(to) \in 1 .. Len(rest)
    BY <1>1, <1>2
  <2> QED
    BY <1>1, <2>1
<1>4. /\ Len(rest) \in Nat /\ Len(to) <= Len(r)
      /\ \A i \in 1 .. Len(to) : r[i] = to[i]
  <2>1. Len(rest) \in Nat /\ Len(to) <= Len(r)
    BY <1>0, <1>1, <1>2
  <2> QED
    BY <1>0, <1>2, <2>1
<1>5. IsPrefix(to, r)
  BY <1>1, <1>2, <1>4, PrefixIs
<1>6. Swap(to, from, r) = s
  <2> DEFINE back == SubSeq(r, Len(to) + 1, Len(r))
             b == from \o back
  <2>1. /\ back \in Seq(Names) /\ Len(back) = Len(rest)
        /\ \A i \in 1 .. Len(back) : back[i] = r[i + Len(to)]
    BY <1>1, <1>2
  <2> HIDE DEF back
  <2>2. /\ b \in Seq(Names) /\ Len(b) = Len(from) + Len(back)
        /\ \A i \in 1 .. Len(b) : b[i] = IF i <= Len(from) THEN from[i] ELSE back[i - Len(from)]
    <3>1. back \in Seq(Names)
      BY <2>1
    <3> QED
      BY <3>1, ConcatProperties
  <2> HIDE DEF b
  <2>3. Len(b) = Len(s)
    BY <1>0, <1>1, <2>1, <2>2
  <2>4. ASSUME NEW i \in 1 .. Len(s) PROVE b[i] = s[i]
    <3>1. CASE i <= Len(from)
      BY <1>0, <2>2, <2>3, <3>1
    <3>2. CASE i > Len(from)
      <4>1. b[i] = back[i - Len(from)] /\ i - Len(from) \in 1 .. Len(back)
        BY <1>0, <2>2, <2>3, <3>2
      <4>2. back[i - Len(from)] = r[i - Len(from) + Len(to)]
        BY <2>1, <4>1
      <4>3. i - Len(from) + Len(to) \in Len(to) + 1 .. Len(r)
        BY <1>2, <2>1, <4>1
      <4> QED
        BY <1>3, <4>1, <4>2, <4>3
    <3> QED
      BY <3>1, <3>2
  <2>5. b = s
    BY <2>2, <2>3, <2>4, SeqEqual
  <2> QED
    BY <2>5 DEF Swap, b, back
<1>7. r = to <=> s = from
  <2>1. r = to => Len(s) = Len(from)
    BY <1>0, <1>1, <1>2
  <2>2. s = from => Len(r) = Len(to)
    BY <1>0, <1>1, <1>2
  <2>3. Len(s) = Len(from) => s = from
    BY <1>0, SeqEqual
  <2>4. Len(r) = Len(to) => r = to
    BY <1>2, <1>4, SeqEqual
  <2> QED
    BY <2>1, <2>2, <2>3, <2>4
<1>8. Len(r) = Len(to) + Len(s) - Len(from)
  BY <1>0, <1>1, <1>2
<1> QED
  BY <1>2, <1>3, <1>4, <1>5, <1>6, <1>7, <1>8 DEF r, SwapAt

LEMMA SwapOfPrefix ==
    ASSUME NEW from \in Seq(Names), NEW to \in Seq(Names), NEW s \in Seq(Names),
           NEW u \in Seq(Names), IsPrefix(from, u), IsPrefix(u, s), u # s
    PROVE  IsPrefix(Swap(from, to, u), Swap(from, to, s)) /\ Swap(from, to, u) # Swap(from, to, s)
<1>1. IsPrefix(from, s)
  BY PrefixOrder
<1> DEFINE a == Swap(from, to, u)
           b == Swap(from, to, s)
<1>2. SwapAt(from, to, u, a)
  BY SwapIs
<1>3. SwapAt(from, to, s, b)
  BY <1>1, SwapIs
<1>4. /\ Len(from) <= Len(u) /\ Len(u) < Len(s) /\ Len(to) \in Nat
      /\ Len(from) \in Nat /\ Len(u) \in Nat /\ Len(s) \in Nat
      /\ \A i \in 1 .. Len(u) : u[i] = s[i]
  BY PrefixIs, PrefixOrder
<1> HIDE DEF a, b
<1>5. \A i \in 1 .. Len(a) : a[i] = b[i]
  <2> SUFFICES ASSUME NEW i \in 1 .. Len(a) PROVE a[i] = b[i]
    OBVIOUS
  <2>1. CASE i <= Len(to)
    BY <1>2, <1>3, <2>1 DEF SwapAt
  <2>2. CASE i > Len(to)
    <3>1. /\ i \in Len(to) + 1 .. Len(a) /\ i \in Len(to) + 1 .. Len(b)
          /\ i - Len(to) + Len(from) \in 1 .. Len(u)
      BY <1>2, <1>3, <1>4, <2>2 DEF SwapAt
    <3> QED
      BY <1>2, <1>3, <1>4, <3>1 DEF SwapAt
  <2> QED
    BY <2>1, <2>2
<1>6. IsPrefix(a, b) /\ a # b
  <2>1. a \in Seq(Names) /\ b \in Seq(Names) /\ Len(a) < Len(b)
    BY <1>2, <1>3, <1>4 DEF SwapAt
  <2>2. Len(a) <= Len(b) /\ a # b
    BY <2>1
  <2> QED
    BY <1>5, <2>1, <2>2, PrefixIs
<1> QED
  BY <1>6 DEF a, b

------------------------------------------------------------------------------
(* Trees *)

LEMMA KindIs ==
    ASSUME NEW t, IsTree(t), NEW p
    PROVE  /\ Kind(t, p) \in {"file", "dir", "none"}
           /\ p \in DOMAIN t <=> p # <<>> /\ Kind(t, p) # "none"
           /\ p \in DOMAIN t => Kind(t, p) = t[p] /\ p \in Seq(Names)
<1>1. p \in DOMAIN t => p \in Seq(Names) /\ p # <<>> /\ t[p] \in {"file", "dir"}
  BY DEF IsTree, Kinds, Range
<1> QED
  BY <1>1 DEF Kind

\* A tree is what has directories above all its objects.
LEMMA TreeIs ==
    ASSUME NEW t, DOMAIN t \subseteq Seq(Names) \ {<<>>}, \A q \in DOMAIN t : t[q] \in Kinds
    PROVE  IsTree(t) <=> \A q \in DOMAIN t, p \in Seq(Names) :
                            IsPrefix(p, q) /\ p # q => Kind(t, p) = "dir"
<1>1. ASSUME IsTree(t), NEW q \in DOMAIN t, NEW p \in Seq(Names), IsPrefix(p, q), p # q
      PROVE  Kind(t, p) = "dir"
  <2>1. q \in Seq(Names) /\ p = SubSeq(q, 1, Len(p)) /\ Len(p) < Len(q)
    BY <1>1, PrefixOrder
  <2>2. CASE p = <<>>
    BY <2>2 DEF Kind
  <2>3. CASE p # <<>>
    <3>1. Len(p) \in 1 .. Len(q) - 1
      BY <1>1, <2>1, <2>3, EmptyIs
    <3> QED
      BY <1>1, <2>1, <3>1 DEF IsTree
  <2> QED
    BY <2>2, <2>3
<1>2. ASSUME NEW q \in DOMAIN t, NEW n \in 1 .. Len(q) - 1,
             \A p \in Seq(Names) : IsPrefix(p, q) /\ p # q => Kind(t, p) = "dir"
      PROVE  Kind(t, SubSeq(q, 1, n)) = "dir"
  <2> DEFINE p == SubSeq(q, 1, n)
  <2>1. q \in Seq(Names)
    OBVIOUS
  <2>2. p \in Seq(Names) /\ Len(p) = n /\ (\A i \in 1 .. n : p[i] = q[i]) /\ n < Len(q)
    BY <2>1
  <2> HIDE DEF p
  <2>3. IsPrefix(p, q) /\ p # q
    BY <2>1, <2>2, PrefixIs
  <2>4. Kind(t, p) = "dir"
    BY <1>2, <2>2, <2>3
  <2> QED
    BY <2>4 DEF p
<1>3. Range(t) \subseteq Kinds
  BY DEF Range
<1> QED
  BY <1>1, <1>2, <1>3 DEF IsTree

LEMMA DirsAbove ==
    ASSUME NEW t, IsTree(t), NEW p \in Seq(Names), NEW q \in Seq(Names),
           Kind(t, q) # "none", IsPrefix(p, q), p # q
    PROVE  Kind(t, p) = "dir"
<1>1. CASE q = <<>>
  <2>1. IsPrefix(q, p)
    BY <1>1, PrefixOrder
  <2> QED
    BY <2>1, PrefixOrder
<1>2. CASE q # <<>>
  <2>1. q \in DOMAIN t
    BY <1>2, KindIs
  <2>2. DOMAIN t \subseteq Seq(Names) \ {<<>>} /\ \A r \in DOMAIN t : t[r] \in Kinds
    BY DEF IsTree, Range
  <2> QED
    BY <2>1, <2>2, TreeIs
<1> QED
  BY <1>1, <1>2

LEMMA NothingBelow ==
    ASSUME NEW t, IsTree(t), NEW p \in Seq(Names)
    PROVE  /\ Kind(t, p) = "none" => Subtree(t, p) = {}
           /\ Kind(t, p) # "dir" => Within(t, p) = {}
<1>1. ASSUME NEW q \in DOMAIN t, IsPrefix(p, q), q # p
      PROVE  Kind(t, p) = "dir"
  BY <1>1, KindIs, DirsAbove
<1>2. Kind(t, p) = "none" => p \notin DOMAIN t
  BY KindIs
<1> QED
  BY <1>1, <1>2 DEF Subtree, Within

LEMMA ParentIs ==
    ASSUME NEW t, IsTree(t), NEW p \in Seq(Names), p # <<>>, Kind(t, p) # "none"
    PROVE  Kind(t, Front(p)) = "dir"
BY FrontIs, DirsAbove

LEMMA KindAdd ==
    ASSUME NEW t, NEW p, p # <<>>, NEW kind, NEW q
    PROVE  Kind(Add(t, p, kind), q) = IF q = p THEN kind ELSE Kind(t, q)
BY DEF Kind, Add

LEMMA KindCut ==
    ASSUME NEW t, NEW P, <<>> \notin P, NEW q
    PROVE  Kind(Cut(t, P), q) = IF q \in P THEN "none" ELSE Kind(t, q)
BY DEF Kind, Cut, Restrict

LEMMA AddTree ==
    ASSUME NEW t, IsTree(t), NEW p \in Seq(Names), p # <<>>, Kind(t, Front(p)) = "dir",
           Kind(t, p) = "none", NEW kind \in Kinds
    PROVE  IsTree(Add(t, p, kind))
<1> DEFINE u == Add(t, p, kind)
<1>1. DOMAIN u \subseteq Seq(Names) \ {<<>>} /\ \A q \in DOMAIN u : u[q] \in Kinds
  BY DEF Add, IsTree, Range
<1>2. \A q \in DOMAIN u : q = p \/ q \in DOMAIN t
  BY DEF Add
<1>3. \A q : Kind(u, q) = IF q = p THEN kind ELSE Kind(t, q)
  BY KindAdd
<1> HIDE DEF u
<1>4. ASSUME NEW q \in DOMAIN u, NEW r \in Seq(Names), IsPrefix(r, q), r # q
      PROVE  Kind(u, r) = "dir"
  <2>1. CASE q = p
    <3>1. IsPrefix(r, Front(p)) /\ Front(p) \in Seq(Names)
      BY <1>4, <2>1, FrontIs
    <3>2. Kind(t, r) = "dir"
      BY <3>1, DirsAbove
    <3> QED
      BY <1>3, <1>4, <2>1, <3>2
  <2>2. CASE q # p
    <3>1. q \in DOMAIN t /\ q \in Seq(Names) /\ Kind(t, q) # "none"
      BY <1>2, <2>2, KindIs
    <3>2. Kind(t, r) = "dir"
      BY <1>4, <3>1, DirsAbove
    <3> QED
      BY <1>3, <3>2
  <2> QED
    BY <2>1, <2>2
<1>5. IsTree(u)
  BY <1>1, <1>4, TreeIs
<1> QED
  BY <1>5 DEF u

LEMMA CutTree ==
    ASSUME NEW t, IsTree(t), NEW p \in Seq(Names), p # <<>>
    PROVE  IsTree(Cut(t, Subtree(t, p)))
<1> DEFINE u == Cut(t, Subtree(t, p))
<1>1. DOMAIN u = DOMAIN t \ Subtree(t, p) /\ \A q \in DOMAIN u : u[q] = t[q]
  BY DEF Cut, Restrict
<1>2. DOMAIN u \subseteq Seq(Names) \ {<<>>} /\ \A q \in DOMAIN u : u[q] \in Kinds
  BY <1>1 DEF IsTree, Range
<1>3. \A q : Kind(u, q) = IF q \in Subtree(t, p) THEN "none" ELSE Kind(t, q)
  BY KindCut DEF Subtree, IsTree
<1> HIDE DEF u
<1>4. ASSUME NEW q \in DOMAIN u, NEW r \in Seq(Names), IsPrefix(r, q), r # q
      PROVE  Kind(u, r) = "dir"
  <2>1. q \in DOMAIN t /\ q \in Seq(Names) /\ Kind(t, q) # "none"
    BY <1>1, KindIs
  <2>2. Kind(t, r) = "dir"
    BY <1>4, <2>1, DirsAbove
  <2>3. ~IsPrefix(p, q)
    BY <1>1 DEF Subtree
  <2>4. ~IsPrefix(p, r)
    BY <1>4, <2>1, <2>3, PrefixOrder
  <2> QED
    BY <1>3, <2>2, <2>4 DEF Subtree
<1>5. IsTree(u)
  BY <1>2, <1>4, TreeIs
<1> QED
  BY <1>5 DEF u

\* An empty directory or a file is all of its subtree.
LEMMA CutOne ==
    ASSUME NEW t, IsTree(t), NEW p, p \in DOMAIN t, Within(t, p) = {}
    PROVE  Subtree(t, p) = {p} /\ p \in Seq(Names) /\ p # <<>>
<1>1. p \in Seq(Names) /\ p # <<>>
  BY DEF IsTree
<1>2. IsPrefix(p, p)
  BY <1>1, PrefixOrder
<1> QED
  BY <1>1, <1>2 DEF Subtree, Within

------------------------------------------------------------------------------
(* Moves *)

LEMMA GraftIs ==
    ASSUME NEW t, IsTree(t), NEW from \in Seq(Names), NEW to \in Seq(Names)
    PROVE  LET u == Graft(t, from, to)
           IN  /\ DOMAIN u \subseteq Seq(Names)
               /\ \A q \in Seq(Names) :
                     /\ q \in DOMAIN u <=> IsPrefix(to, q) /\ Swap(to, from, q) \in DOMAIN t
                     /\ q \in DOMAIN u => u[q] = t[Swap(to, from, q)]
<1> DEFINE u == Graft(t, from, to)
<1>1. /\ DOMAIN u = {Swap(from, to, s) : s \in Subtree(t, from)}
      /\ \A q \in DOMAIN u : u[q] = t[Swap(to, from, q)]
  BY DEF Graft, Swap
<1> HIDE DEF u
<1>2. \A s \in Subtree(t, from) : s \in DOMAIN t /\ s \in Seq(Names) /\ IsPrefix(from, s)
  BY DEF Subtree, IsTree
<1>3. \A s \in Subtree(t, from) :
         /\ Swap(from, to, s) \in Seq(Names) /\ IsPrefix(to, Swap(from, to, s))
         /\ Swap(to, from, Swap(from, to, s)) = s
  BY <1>2, SwapIs DEF SwapAt
<1>4. ASSUME NEW q \in Seq(Names), IsPrefix(to, q), Swap(to, from, q) \in DOMAIN t
      PROVE  q \in DOMAIN u
  <2>1. /\ IsPrefix(from, Swap(to, from, q)) /\ Swap(from, to, Swap(to, from, q)) = q
    BY <1>4, SwapIs
  <2>2. Swap(to, from, q) \in Subtree(t, from)
    BY <1>4, <2>1 DEF Subtree
  <2> QED
    BY <1>1, <2>1, <2>2
<1>5. ASSUME NEW q \in DOMAIN u
      PROVE  q \in Seq(Names) /\ IsPrefix(to, q) /\ Swap(to, from, q) \in DOMAIN t
  BY <1>1, <1>2, <1>3
<1> QED
  BY <1>1, <1>4, <1>5 DEF u

LEMMA KindGraft ==
    ASSUME NEW t, IsTree(t), NEW from \in Seq(Names), NEW to \in Seq(Names), to # <<>>,
           from # <<>>, NEW rest, \A q \in Seq(Names) : IsPrefix(to, q) => q \notin DOMAIN rest,
           NEW q \in Seq(Names)
    PROVE  LET u == Over(Graft(t, from, to), rest)
           IN  Kind(u, q) = IF IsPrefix(to, q) THEN Kind(t, Swap(to, from, q)) ELSE Kind(rest, q)
<1> DEFINE g == Graft(t, from, to)
           u == Over(g, rest)
           s == Swap(to, from, q)
<1>1. /\ q \in DOMAIN g <=> IsPrefix(to, q) /\ s \in DOMAIN t
      /\ q \in DOMAIN g => g[q] = t[s]
  BY GraftIs
<1>2. /\ DOMAIN u = DOMAIN g \cup DOMAIN rest
      /\ q \in DOMAIN g => u[q] = g[q]
      /\ q \in DOMAIN rest \ DOMAIN g => u[q] = rest[q]
  BY DEF Over
<1> HIDE DEF g, u
<1>3. CASE IsPrefix(to, q)
  <2>1. s # <<>> /\ q # <<>>
    <3>1. IsPrefix(from, s) /\ s \in Seq(Names)
      BY <1>3, SwapIs DEF SwapAt
    <3> HIDE DEF s
    <3>2. s # <<>>
      BY <3>1, PrefixOrder
    <3>3. q # <<>>
      BY <1>3, PrefixOrder
    <3> QED
      BY <3>2, <3>3
  <2> HIDE DEF s
  <2>2. Kind(u, q) = Kind(t, s)
    BY <1>1, <1>2, <1>3, <2>1 DEF Kind
  <2> QED
    BY <1>3, <2>2 DEF s, u, g
<1>4. CASE ~IsPrefix(to, q)
  <2>1. Kind(u, q) = Kind(rest, q)
    BY <1>1, <1>2, <1>4 DEF Kind
  <2> QED
    BY <1>4, <2>1 DEF u, g
<1> QED
  BY <1>3, <1>4

LEMMA KindMoved ==
    ASSUME NEW t, IsTree(t), NEW from \in Seq(Names), NEW to \in Seq(Names),
           to # <<>>, from # <<>>, NEW q \in Seq(Names)
    PROVE  Kind(Moved(t, from, to), q) =
               IF IsPrefix(to, q) THEN Kind(t, Swap(to, from, q))
               ELSE IF IsPrefix(from, q) THEN "none" ELSE Kind(t, q)
<1> DEFINE P == Subtree(t, from) \cup Subtree(t, to)
           rest == Cut(t, P)
<1>1. DOMAIN rest = DOMAIN t \ P
  BY DEF Cut, Restrict
<1>2. \A r \in Seq(Names) : IsPrefix(to, r) => r \notin DOMAIN rest
  BY <1>1 DEF Subtree
<1>3. Kind(rest, q) = IF q \in P THEN "none" ELSE Kind(t, q)
  BY KindCut DEF Subtree, IsTree
<1>4. q # <<>> /\ q \notin DOMAIN t => Kind(t, q) = "none"
  BY DEF Kind
<1>5. IsPrefix(from, q) => q # <<>>
  BY PrefixOrder
<1> HIDE DEF rest
<1>6. Kind(Over(Graft(t, from, to), rest), q) =
        IF IsPrefix(to, q) THEN Kind(t, Swap(to, from, q)) ELSE Kind(rest, q)
  BY <1>2, KindGraft
<1>7. ~IsPrefix(to, q) => Kind(rest, q) = IF IsPrefix(from, q) THEN "none" ELSE Kind(t, q)
  BY <1>3, <1>4, <1>5 DEF Subtree
<1> QED
  BY <1>6, <1>7 DEF Moved, rest

\* A graft on a directory, beside what rest has of the tree.
LEMMA GraftTree ==
    ASSUME NEW t, IsTree(t), NEW from \in Seq(Names), NEW to \in Seq(Names),
           to # <<>>, from # <<>>,
           NEW rest, IsTree(rest), \A q \in Seq(Names) : IsPrefix(to, q) => q \notin DOMAIN rest,
           Kind(rest, Front(to)) = "dir"
    PROVE  IsTree(Over(Graft(t, from, to), rest))
<1> DEFINE u == Over(Graft(t, from, to), rest)
<1>1. \A q \in Seq(Names) :
        Kind(u, q) = IF IsPrefix(to, q) THEN Kind(t, Swap(to, from, q)) ELSE Kind(rest, q)
  BY KindGraft
<1>2. /\ DOMAIN u = DOMAIN Graft(t, from, to) \cup DOMAIN rest
      /\ \A q \in DOMAIN u : u[q] = IF q \in DOMAIN Graft(t, from, to)
                                      THEN Graft(t, from, to)[q] ELSE rest[q]
  BY DEF Over
<1>3. DOMAIN Graft(t, from, to) \subseteq Seq(Names) /\
      \A q \in DOMAIN Graft(t, from, to) :
        /\ IsPrefix(to, q) /\ Swap(to, from, q) \in DOMAIN t
        /\ Graft(t, from, to)[q] = t[Swap(to, from, q)]
  BY GraftIs
<1>4. <<>> \notin DOMAIN Graft(t, from, to)
  <2>1. ~IsPrefix(to, <<>>)
    BY PrefixOrder, EmptySeq
  <2> QED
    BY <1>3, <2>1
<1>5. DOMAIN u \subseteq Seq(Names) \ {<<>>} /\ \A q \in DOMAIN u : u[q] \in Kinds
  BY <1>2, <1>3, <1>4 DEF IsTree, Range
<1> HIDE DEF u
<1>6. ASSUME NEW q \in DOMAIN u, NEW r \in Seq(Names), IsPrefix(r, q), r # q
      PROVE  Kind(u, r) = "dir"
  <2>0. q \in Seq(Names)
    BY <1>5
  <2>1. CASE IsPrefix(to, r)
    <3>1. IsPrefix(to, q)
      BY <1>6, <2>0, <2>1, PrefixTransitive
    <3>2. Swap(to, from, q) \in DOMAIN t
      BY <1>2, <1>3, <2>0, <3>1
    <3>3. /\ Swap(to, from, q) \in Seq(Names) /\ Swap(to, from, r) \in Seq(Names)
      BY <2>0, <2>1, <3>1, SwapIs DEF SwapAt
    <3>4. IsPrefix(Swap(to, from, r), Swap(to, from, q)) /\ Swap(to, from, r) # Swap(to, from, q)
      BY <1>6, <2>0, <2>1, SwapOfPrefix
    <3>5. Kind(t, Swap(to, from, q)) # "none"
      BY <3>2, KindIs
    <3>6. Kind(t, Swap(to, from, r)) = "dir"
      BY <3>3, <3>4, <3>5, DirsAbove
    <3> QED
      BY <1>1, <2>1, <3>6
  <2>2. CASE ~IsPrefix(to, r)
    <3>1. Kind(rest, r) = "dir"
      <4>1. CASE IsPrefix(to, q)
        <5>1. IsPrefix(r, to) /\ r # to
          BY <1>6, <2>0, <2>2, <4>1, PrefixOrder
        <5>2. IsPrefix(r, Front(to)) /\ Front(to) \in Seq(Names)
          BY <5>1, FrontIs
        <5> QED
          BY <5>2, DirsAbove
      <4>2. CASE ~IsPrefix(to, q)
        <5>1. q \in DOMAIN rest
          BY <1>2, <1>3, <4>2
        <5>2. Kind(rest, q) # "none"
          BY <5>1, KindIs
        <5> QED
          BY <1>6, <2>0, <5>2, DirsAbove
      <4> QED
        BY <4>1, <4>2
    <3> QED
      BY <1>1, <2>2, <3>1
  <2> QED
    BY <2>1, <2>2
<1>7. IsTree(u)
  BY <1>5, <1>6, TreeIs
<1> QED
  BY <1>7 DEF u

LEMMA MovedTree ==
    ASSUME NEW t, IsTree(t), NEW from \in Seq(Names), NEW to \in Seq(Names),
           to # <<>>, from # <<>>, ~IsStrictPrefix(from, to), Kind(t, Front(to)) = "dir"
    PROVE  IsTree(Moved(t, from, to))
<1> DEFINE one == Cut(t, Subtree(t, from))
           rest == Cut(one, Subtree(one, to))
           both == Cut(t, Subtree(t, from) \cup Subtree(t, to))
<1>1. IsTree(one)
  BY CutTree
<1>2. IsTree(rest)
  BY <1>1, CutTree
<1>3. rest = both
  <2>1. DOMAIN one = DOMAIN t \ Subtree(t, from) /\ \A q \in DOMAIN one : one[q] = t[q]
    BY DEF Cut, Restrict
  <2>2. Subtree(one, to) = Subtree(t, to) \ Subtree(t, from)
    BY <2>1 DEF Subtree
  <2>3. DOMAIN one \ Subtree(one, to) = DOMAIN t \ (Subtree(t, from) \cup Subtree(t, to))
    BY <2>1, <2>2
  <2> HIDE DEF one
  <2> QED
    BY <2>1, <2>3 DEF Cut, Restrict
<1>4. DOMAIN both = DOMAIN t \ (Subtree(t, from) \cup Subtree(t, to))
  BY DEF Cut, Restrict
<1>5. \A q \in Seq(Names) : IsPrefix(to, q) => q \notin DOMAIN both
  BY <1>4 DEF Subtree
<1>6. Kind(both, Front(to)) = "dir"
  <2>1. Front(to) \in Seq(Names) /\ IsPrefix(Front(to), to) /\ Front(to) # to
    BY FrontIs
  <2>2. ~IsPrefix(to, Front(to))
    BY <2>1, PrefixOrder
  <2>3. ~IsPrefix(from, Front(to))
    <3> SUFFICES ASSUME IsPrefix(from, Front(to)) PROVE FALSE
      OBVIOUS
    <3>1. IsPrefix(from, to)
      BY <2>1, PrefixOrder
    <3>2. from = to
      BY <3>1 DEF IsStrictPrefix
    <3> QED
      BY <2>2, <3>2
  <2>4. Kind(both, Front(to)) = IF Front(to) \in Subtree(t, from) \cup Subtree(t, to)
                                  THEN "none" ELSE Kind(t, Front(to))
    BY KindCut DEF Subtree, IsTree
  <2> QED
    BY <2>2, <2>3, <2>4 DEF Subtree
<1> HIDE DEF one, both, rest
<1>7. IsTree(Over(Graft(t, from, to), both))
  BY <1>2, <1>3, <1>5, <1>6, GraftTree
<1> QED
  BY <1>7 DEF Moved, both

------------------------------------------------------------------------------
(* The calls with one path, on either file system *)

\* The tree a call that succeeds makes of t at p.
Grows(t, p, kind, u) ==
    p # <<>> /\ Kind(t, p) = "none" /\ Kind(t, Front(p)) = "dir" /\ u = Add(t, p, kind)

Shrinks(t, p, u) == p \in DOMAIN t /\ Within(t, p) = {} /\ u = Cut(t, {p})

Alters(op, t, p, u) ==
    \/ op = "mkdir" /\ Grows(t, p, "dir", u)
    \/ op = "creat" /\ Grows(t, p, "file", u)
    \/ op \in {"unlink", "rmdir"} /\ Shrinks(t, p, u)

\* What an error says of p.
Says(op, t, p, res) ==
    \/ res = "ENOENT" /\ Kind(t, p) = "none"
    \/ res = "ENOTDIR" /\ \/ Kind(t, p) = "none" \/ (op = "readdir" /\ Kind(t, p) = "file")
                          \/ p # <<>> /\ Kind(t, Front(p)) # "dir"
    \/ res = "EEXIST" /\ Kind(t, p) # "none"
    \/ res = "EISDIR" /\ Kind(t, p) = "dir"
    \/ res \in {"39", "ENOTEMPTY"} /\ p # <<>> /\ Within(t, p) # {}
    \/ res = "EACCES" /\ (op \in {"unlink", "rmdir"} => p # <<>> /\ Within(t, p) # {})
    \/ res = "EINVAL" /\ p = <<>>
    \/ res = "ENOSPC" /\ op \notin {"unlink", "rmdir"}

Answers(op, t, p, o) ==
    /\ ~o.twins
    /\ \/ o.res = "EIO" /\ (o.tree = t \/ Alters(op, t, p, o.tree))
       \/ o.res = "ok" /\ \/ Alters(op, t, p, o.tree)
                          \/ o.tree = t /\ op = "creat" /\ Kind(t, p) = "file"
                          \/ o.tree = t /\ op = "stat" /\ o.found = {Kind(t, p)} /\ Kind(t, p) # "none"
                          \/ o.tree = t /\ op = "readdir" /\ Kind(t, p) = "dir"
                             /\ o.found = Entries(t, p)
       \/ o.tree = t /\ Says(op, t, p, o.res)

\* The outcomes of a call that changes nothing, that changes the tree, and that finds.
LEMMA FatAsked ==
    ASSUME NEW t, NEW res \in DOMAIN FatErrno, NEW o \in FatRemap(Asked(t, Outcome(t, res)))
    PROVE  o.tree = t /\ ~o.twins /\ (o.res = FatErrno[res] \/ o.res = "EIO")
BY DEF FatRemap, Asked, Outcome, FatErrno

LEMMA FatChanged ==
    ASSUME NEW t, NEW u, NEW o \in FatRemap(Changed(t, u))
    PROVE  /\ ~o.twins
           /\ \/ o.tree = u /\ o.res \in {"ok", "EIO"}
              \/ o.tree = t /\ o.res = "EIO"
<1>1. PICK x \in Changed(t, u) : o = [x EXCEPT !.res = FatErrno[@]]
  BY DEF FatRemap
<1>2. CASE x = Outcome(u, "OK")
  BY <1>1, <1>2 DEF Outcome, FatErrno
<1>3. CASE x = Outcome(u, "IO")
  BY <1>1, <1>3 DEF Outcome, FatErrno
<1>4. CASE x = Outcome(t, "IO")
  BY <1>1, <1>4 DEF Outcome, FatErrno
<1> QED
  BY <1>2, <1>3, <1>4 DEF Changed

LEMMA FatFinds ==
    ASSUME NEW t, NEW found, NEW o \in FatRemap(Asked(t, Finds(t, found)))
    PROVE  /\ o.tree = t /\ ~o.twins
           /\ o.res = "EIO" \/ (o.res = "ok" /\ o.found = found)
<1>1. PICK x \in Asked(t, Finds(t, found)) : o = [x EXCEPT !.res = FatErrno[@]]
  BY DEF FatRemap
<1>2. CASE x = Finds(t, found)
  BY <1>1, <1>2 DEF Finds, Outcome, FatErrno
<1>3. CASE x = Outcome(t, "IO")
  BY <1>1, <1>3 DEF Outcome, FatErrno
<1> QED
  BY <1>2, <1>3 DEF Asked

LEMMA LfsAsked ==
    ASSUME NEW t, NEW res \in DOMAIN LfsErrno, NEW o \in LfsRemap(Asked(t, Outcome(t, res)))
    PROVE  o.tree = t /\ ~o.twins /\ (o.res = LfsErrno[res] \/ o.res = "EIO")
BY DEF LfsRemap, Asked, Outcome, LfsErrno

LEMMA LfsChanged ==
    ASSUME NEW t, NEW u, NEW o \in LfsRemap(Changed(t, u))
    PROVE  /\ ~o.twins
           /\ \/ o.tree = u /\ o.res \in {"ok", "EIO"}
              \/ o.tree = t /\ o.res = "EIO"
<1>1. PICK x \in Changed(t, u) : o = [x EXCEPT !.res = LfsErrno[@]]
  BY DEF LfsRemap
<1>2. CASE x = Outcome(u, "OK")
  BY <1>1, <1>2 DEF Outcome, LfsErrno
<1>3. CASE x = Outcome(u, "IO")
  BY <1>1, <1>3 DEF Outcome, LfsErrno
<1>4. CASE x = Outcome(t, "IO")
  BY <1>1, <1>4 DEF Outcome, LfsErrno
<1> QED
  BY <1>2, <1>3, <1>4 DEF Changed

LEMMA LfsFinds ==
    ASSUME NEW t, NEW found, NEW o \in LfsRemap(Asked(t, Finds(t, found)))
    PROVE  /\ o.tree = t /\ ~o.twins
           /\ o.res = "EIO" \/ (o.res = "ok" /\ o.found = found)
<1>1. PICK x \in Asked(t, Finds(t, found)) : o = [x EXCEPT !.res = LfsErrno[@]]
  BY DEF LfsRemap
<1>2. CASE x = Finds(t, found)
  BY <1>1, <1>2 DEF Finds, Outcome, LfsErrno
<1>3. CASE x = Outcome(t, "IO")
  BY <1>1, <1>3 DEF Outcome, LfsErrno
<1> QED
  BY <1>2, <1>3 DEF Asked

LEMMA FollowIs ==
    ASSUME NEW t, IsTree(t), NEW p \in Seq(Names)
    PROVE  /\ Follow(t, p) \in {"OK", "NO_PATH", "NO_FILE"}
           /\ Follow(t, p) = "OK" => Kind(t, p) # "none" /\ (p = <<>> \/ p \in DOMAIN t)
           /\ Follow(t, p) = "NO_FILE" =>
                 p # <<>> /\ Kind(t, p) = "none" /\ Kind(t, Front(p)) = "dir"
           /\ Follow(t, p) = "NO_PATH" => p # <<>> /\ Kind(t, Front(p)) # "dir"
           /\ Kind(t, p) # "none" => Follow(t, p) = "OK"
<1>1. CASE p = <<>>
  BY <1>1 DEF Follow, Kind
<1>2. CASE p # <<>> /\ Kind(t, Front(p)) # "dir"
  BY <1>2, ParentIs DEF Follow
<1>3. CASE p # <<>> /\ Kind(t, Front(p)) = "dir"
  <2>1. Follow(t, p) = IF p \in DOMAIN t THEN "OK" ELSE "NO_FILE"
    BY <1>3 DEF Follow
  <2> QED
    BY <1>3, <2>1, KindIs
<1> QED
  BY <1>1, <1>2, <1>3

\* A file on the way means that nothing can be at the end of it.
LEMMA LookupIs ==
    ASSUME NEW t, IsTree(t), NEW p \in Seq(Names)
    PROVE  /\ Lookup(t, p) \in {"OK", "NOENT", "NOTDIR"}
           /\ Lookup(t, p) = "OK" => Kind(t, p) # "none" /\ (p = <<>> \/ p \in DOMAIN t)
           /\ Lookup(t, p) = "NOENT" =>
                 /\ Kind(t, p) = "none" /\ p # <<>>
                 /\ Kind(t, Front(p)) # "file"
           /\ Lookup(t, p) = "NOTDIR" =>
                 Kind(t, p) = "none" /\ p # <<>> /\ Kind(t, Front(p)) # "dir"
<1>1. CASE \E q \in DOMAIN t : IsStrictPrefix(q, p) /\ t[q] = "file"
  <2>1. PICK q \in DOMAIN t : IsPrefix(q, p) /\ q # p /\ t[q] = "file"
    BY <1>1 DEF IsStrictPrefix
  <2>2. q \in Seq(Names) /\ Kind(t, q) = "file"
    BY <2>1, KindIs
  <2>3. Kind(t, p) = "none"
    BY <2>1, <2>2, DirsAbove
  <2>4. p # <<>>
    BY <2>3 DEF Kind
  <2>5. IsPrefix(q, Front(p)) /\ Front(p) \in Seq(Names)
    BY <2>1, <2>2, <2>4, FrontIs
  <2>6. Kind(t, Front(p)) # "dir"
    <3>1. CASE q = Front(p)
      BY <2>2, <3>1
    <3>2. CASE q # Front(p)
      BY <2>2, <2>5, <3>2, DirsAbove
    <3> QED
      BY <3>1, <3>2
  <2>7. Lookup(t, p) = "NOTDIR"
    BY <1>1 DEF Lookup
  <2> QED
    BY <2>3, <2>4, <2>6, <2>7
<1>2. CASE ~\E q \in DOMAIN t : IsStrictPrefix(q, p) /\ t[q] = "file"
  <2>1. Lookup(t, p) = IF Kind(t, p) = "none" THEN "NOENT" ELSE "OK"
    BY <1>2 DEF Lookup
  <2>2. ASSUME Kind(t, p) = "none"
        PROVE  p # <<>> /\ Kind(t, Front(p)) # "file"
    <3>1. p # <<>>
      BY <2>2 DEF Kind
    <3>2. IsStrictPrefix(Front(p), p)
      BY <3>1, FrontIs DEF IsStrictPrefix
    <3>3. Front(p) \in DOMAIN t => t[Front(p)] # "file"
      BY <1>2, <3>2
    <3> QED
      BY <3>1, <3>3 DEF Kind
  <2> QED
    BY <2>1, <2>2, KindIs
<1> QED
  BY <1>1, <1>2


LEMMA FatSays ==
    ASSUME NEW op, NEW t, NEW p, NEW res \in DOMAIN FatErrno,
           \/ Says(op, t, p, FatErrno[res])
           \/ FatErrno[res] = "ok" /\ op = "creat" /\ Kind(t, p) = "file"
    PROVE  \A o \in FatRemap(Asked(t, Outcome(t, res))) : Answers(op, t, p, o)
<1> SUFFICES ASSUME NEW o \in FatRemap(Asked(t, Outcome(t, res))) PROVE Answers(op, t, p, o)
  OBVIOUS
<1>1. o.tree = t /\ ~o.twins /\ (o.res = FatErrno[res] \/ o.res = "EIO")
  BY FatAsked
<1> QED
  BY <1>1 DEF Answers

LEMMA FatAlters ==
    ASSUME NEW op, NEW t, NEW p, NEW u, Alters(op, t, p, u)
    PROVE  \A o \in FatRemap(Changed(t, u)) : Answers(op, t, p, o)
<1> SUFFICES ASSUME NEW o \in FatRemap(Changed(t, u)) PROVE Answers(op, t, p, o)
  OBVIOUS
<1>1. /\ ~o.twins
      /\ \/ o.tree = u /\ o.res \in {"ok", "EIO"}
         \/ o.tree = t /\ o.res = "EIO"
  BY FatChanged
<1> QED
  BY <1>1 DEF Answers

LEMMA FatShows ==
    ASSUME NEW op, NEW t, NEW p, NEW found,
           \/ op = "stat" /\ Kind(t, p) # "none" /\ found = {Kind(t, p)}
           \/ op = "readdir" /\ Kind(t, p) = "dir" /\ found = Entries(t, p)
    PROVE  \A o \in FatRemap(Asked(t, Finds(t, found))) : Answers(op, t, p, o)
<1> SUFFICES ASSUME NEW o \in FatRemap(Asked(t, Finds(t, found))) PROVE Answers(op, t, p, o)
  OBVIOUS
<1>1. /\ o.tree = t /\ ~o.twins
      /\ o.res = "EIO" \/ (o.res = "ok" /\ o.found = found)
  BY FatFinds
<1> QED
  BY <1>1 DEF Answers

LEMMA LfsSays ==
    ASSUME NEW op, NEW t, NEW p, NEW res \in DOMAIN LfsErrno,
           \/ Says(op, t, p, LfsErrno[res])
           \/ LfsErrno[res] = "ok" /\ op = "creat" /\ Kind(t, p) = "file"
    PROVE  \A o \in LfsRemap(Asked(t, Outcome(t, res))) : Answers(op, t, p, o)
<1> SUFFICES ASSUME NEW o \in LfsRemap(Asked(t, Outcome(t, res))) PROVE Answers(op, t, p, o)
  OBVIOUS
<1>1. o.tree = t /\ ~o.twins /\ (o.res = LfsErrno[res] \/ o.res = "EIO")
  BY LfsAsked
<1> QED
  BY <1>1 DEF Answers

LEMMA LfsAlters ==
    ASSUME NEW op, NEW t, NEW p, NEW u, Alters(op, t, p, u)
    PROVE  \A o \in LfsRemap(Changed(t, u)) : Answers(op, t, p, o)
<1> SUFFICES ASSUME NEW o \in LfsRemap(Changed(t, u)) PROVE Answers(op, t, p, o)
  OBVIOUS
<1>1. /\ ~o.twins
      /\ \/ o.tree = u /\ o.res \in {"ok", "EIO"}
         \/ o.tree = t /\ o.res = "EIO"
  BY LfsChanged
<1> QED
  BY <1>1 DEF Answers

LEMMA LfsShows ==
    ASSUME NEW op, NEW t, NEW p, NEW found,
           \/ op = "stat" /\ Kind(t, p) # "none" /\ found = {Kind(t, p)}
           \/ op = "readdir" /\ Kind(t, p) = "dir" /\ found = Entries(t, p)
    PROVE  \A o \in LfsRemap(Asked(t, Finds(t, found))) : Answers(op, t, p, o)
<1> SUFFICES ASSUME NEW o \in LfsRemap(Asked(t, Finds(t, found))) PROVE Answers(op, t, p, o)
  OBVIOUS
<1>1. /\ o.tree = t /\ ~o.twins
      /\ o.res = "EIO" \/ (o.res = "ok" /\ o.found = found)
  BY LfsFinds
<1> QED
  BY <1>1 DEF Answers

LEMMA EmptyKind ==
    ASSUME NEW t
    PROVE  Kind(t, <<>>) = "dir"
BY DEF Kind

LEMMA FUnlinkAnswers ==
    ASSUME NEW t, IsTree(t), NEW p \in Seq(Names)
    PROVE  /\ \A o \in FatRemove(t, p) : Answers("unlink", t, p, o)
           /\ \A o \in FatRmdir(t, p) : Answers("rmdir", t, p, o)
<1>1. ASSUME NEW op \in {"unlink", "rmdir"}
      PROVE  \A o \in FatRmdir(t, p) : Answers(op, t, p, o)
  <2>1. CASE Follow(t, p) # "OK"
    <3>1. FatRmdir(t, p) = FatRemap(Asked(t, Outcome(t, Follow(t, p))))
      BY <2>1 DEF FatRmdir, FUnlink
    <3>2. Follow(t, p) \in DOMAIN FatErrno /\ Says(op, t, p, FatErrno[Follow(t, p)])
      BY <2>1, FollowIs DEF FatErrno, Says
    <3> QED
      BY <3>1, <3>2, FatSays
  <2>2. CASE Follow(t, p) = "OK" /\ p = <<>>
    <3>1. FatRmdir(t, p) = FatRemap(Asked(t, Outcome(t, "INVALID_NAME")))
      BY <2>2 DEF FatRmdir, FUnlink
    <3>2. "INVALID_NAME" \in DOMAIN FatErrno /\ Says(op, t, p, FatErrno["INVALID_NAME"])
      BY <2>2 DEF FatErrno, Says
    <3> QED
      BY <3>1, <3>2, FatSays
  <2>3. CASE Follow(t, p) = "OK" /\ p # <<>> /\ Within(t, p) # {}
    <3>1. FatRmdir(t, p) = FatRemap(Asked(t, Outcome(t, "DENIED")))
      BY <2>3 DEF FatRmdir, FUnlink
    <3>2. "DENIED" \in DOMAIN FatErrno /\ Says(op, t, p, FatErrno["DENIED"])
      BY <2>3 DEF FatErrno, Says
    <3> QED
      BY <3>1, <3>2, FatSays
  <2>4. CASE Follow(t, p) = "OK" /\ p # <<>> /\ Within(t, p) = {}
    <3>1. FatRmdir(t, p) = FatRemap(Changed(t, Cut(t, {p})))
      BY <2>4 DEF FatRmdir, FUnlink
    <3>2. Alters(op, t, p, Cut(t, {p}))
      BY <2>4, FollowIs DEF Alters, Shrinks
    <3> QED
      BY <3>1, <3>2, FatAlters
  <2> QED
    BY <2>1, <2>2, <2>3, <2>4
<1>2. ASSUME NEW o \in FatRemove(t, p)
      PROVE  Answers("unlink", t, p, o)
  <2>1. CASE o \in FatRmdir(t, p)
    BY <1>1, <2>1
  <2>2. CASE o \notin FatRmdir(t, p)
    <3>1. PICK x \in FUnlink(t, p) : x.res = "DENIED" /\ o = [x EXCEPT !.res = "ENOTEMPTY"]
      BY <1>2, <2>2 DEF FatRemove, FatRmdir, FatRemap
    <3>2. x = Outcome(t, "DENIED") /\ p # <<>> /\ Within(t, p) # {}
      BY <3>1, FollowIs DEF FUnlink, Asked, Changed, Outcome
    <3>3. o.tree = t /\ ~o.twins /\ o.res = "ENOTEMPTY"
      BY <3>1, <3>2 DEF Outcome
    <3> QED
      BY <3>2, <3>3 DEF Answers, Says
  <2> QED
    BY <2>1, <2>2
<1> QED
  BY <1>1, <1>2

LEMMA FatMkdirAnswers ==
    ASSUME NEW t, IsTree(t), NEW p \in Seq(Names)
    PROVE  \A o \in FatMkdir(t, p) : Answers("mkdir", t, p, o)
<1>1. CASE Follow(t, p) = "OK"
  <2>1. FatMkdir(t, p) = FatRemap(Asked(t, Outcome(t, "EXIST")))
    BY <1>1, FollowIs DEF FatMkdir
  <2>2. /\ "EXIST" \in DOMAIN FatErrno
        /\ \/ Says("mkdir", t, p, FatErrno["EXIST"])
           \/ FatErrno["EXIST"] = "ok" /\ "mkdir" = "creat" /\ Kind(t, p) = "file"
    BY <1>1, FollowIs DEF FatErrno, Says
  <2> QED
    BY <2>1, <2>2, FatSays
<1>2. CASE Follow(t, p) = "NO_PATH"
  <2>1. FatMkdir(t, p) = FatRemap(Asked(t, Outcome(t, "NO_PATH")))
    BY <1>2, FollowIs DEF FatMkdir
  <2>2. /\ "NO_PATH" \in DOMAIN FatErrno
        /\ \/ Says("mkdir", t, p, FatErrno["NO_PATH"])
           \/ FatErrno["NO_PATH"] = "ok" /\ "mkdir" = "creat" /\ Kind(t, p) = "file"
    BY <1>2, FollowIs DEF FatErrno, Says
  <2> QED
    BY <2>1, <2>2, FatSays
<1>3. CASE Follow(t, p) = "NO_FILE" /\ Full(t)
  <2>1. FatMkdir(t, p) = FatRemap(Asked(t, Outcome(t, "DENIED")))
    BY <1>3, FollowIs DEF FatMkdir
  <2>2. /\ "DENIED" \in DOMAIN FatErrno
        /\ \/ Says("mkdir", t, p, FatErrno["DENIED"])
           \/ FatErrno["DENIED"] = "ok" /\ "mkdir" = "creat" /\ Kind(t, p) = "file"
    BY <1>3, FollowIs DEF FatErrno, Says
  <2> QED
    BY <2>1, <2>2, FatSays
<1>4. CASE Follow(t, p) = "NO_FILE" /\ ~Full(t)
  <2>1. FatMkdir(t, p) = FatRemap(Changed(t, Add(t, p, "dir")))
    BY <1>4, FollowIs DEF FatMkdir
  <2>2. Alters("mkdir", t, p, Add(t, p, "dir"))
    BY <1>4, FollowIs DEF Alters, Grows
  <2> QED
    BY <2>1, <2>2, FatAlters
<1> QED
  BY <1>1, <1>2, <1>3, <1>4, FollowIs

LEMMA FatCreateAnswers ==
    ASSUME NEW t, IsTree(t), NEW p \in Seq(Names)
    PROVE  \A o \in FatCreate(t, p) : Answers("creat", t, p, o)
<1>1. CASE p = <<>>
  <2>1. FatCreate(t, p) = FatRemap(Asked(t, Outcome(t, "INVALID_NAME")))
    BY <1>1, EmptyKind, FollowIs DEF FatCreate
  <2>2. /\ "INVALID_NAME" \in DOMAIN FatErrno
        /\ \/ Says("creat", t, p, FatErrno["INVALID_NAME"])
           \/ FatErrno["INVALID_NAME"] = "ok" /\ "creat" = "creat" /\ Kind(t, p) = "file"
    BY <1>1, EmptyKind, FollowIs DEF FatErrno, Says
  <2> QED
    BY <2>1, <2>2, FatSays
<1>2. CASE p # <<>> /\ Kind(t, p) = "dir"
  <2>1. FatCreate(t, p) = FatRemap(Asked(t, Outcome(t, "DENIED")))
    BY <1>2, FollowIs DEF FatCreate
  <2>2. /\ "DENIED" \in DOMAIN FatErrno
        /\ \/ Says("creat", t, p, FatErrno["DENIED"])
           \/ FatErrno["DENIED"] = "ok" /\ "creat" = "creat" /\ Kind(t, p) = "file"
    BY <1>2, FollowIs DEF FatErrno, Says
  <2> QED
    BY <2>1, <2>2, FatSays
<1>3. CASE p # <<>> /\ Kind(t, p) = "file"
  <2>1. FatCreate(t, p) = FatRemap(Asked(t, Outcome(t, "OK")))
    BY <1>3, FollowIs DEF FatCreate
  <2>2. /\ "OK" \in DOMAIN FatErrno
        /\ \/ Says("creat", t, p, FatErrno["OK"])
           \/ FatErrno["OK"] = "ok" /\ "creat" = "creat" /\ Kind(t, p) = "file"
    BY <1>3, FollowIs DEF FatErrno, Says
  <2> QED
    BY <2>1, <2>2, FatSays
<1>4. CASE p # <<>> /\ Kind(t, p) = "none" /\ Follow(t, p) = "NO_PATH"
  <2>1. FatCreate(t, p) = FatRemap(Asked(t, Outcome(t, "NO_PATH")))
    BY <1>4, FollowIs DEF FatCreate
  <2>2. /\ "NO_PATH" \in DOMAIN FatErrno
        /\ \/ Says("creat", t, p, FatErrno["NO_PATH"])
           \/ FatErrno["NO_PATH"] = "ok" /\ "creat" = "creat" /\ Kind(t, p) = "file"
    BY <1>4, FollowIs DEF FatErrno, Says
  <2> QED
    BY <2>1, <2>2, FatSays
<1>5. CASE p # <<>> /\ Follow(t, p) = "NO_FILE" /\ Full(t)
  <2>1. FatCreate(t, p) = FatRemap(Asked(t, Outcome(t, "DENIED")))
    BY <1>5, FollowIs DEF FatCreate
  <2>2. /\ "DENIED" \in DOMAIN FatErrno
        /\ \/ Says("creat", t, p, FatErrno["DENIED"])
           \/ FatErrno["DENIED"] = "ok" /\ "creat" = "creat" /\ Kind(t, p) = "file"
    BY <1>5, FollowIs DEF FatErrno, Says
  <2> QED
    BY <2>1, <2>2, FatSays
<1>6. CASE p # <<>> /\ Follow(t, p) = "NO_FILE" /\ ~Full(t)
  <2>1. FatCreate(t, p) = FatRemap(Changed(t, Add(t, p, "file")))
    BY <1>6, FollowIs DEF FatCreate
  <2>2. Alters("creat", t, p, Add(t, p, "file"))
    BY <1>6, FollowIs DEF Alters, Grows
  <2> QED
    BY <2>1, <2>2, FatAlters
<1> QED
  BY <1>1, <1>2, <1>3, <1>4, <1>5, <1>6, FollowIs, KindIs

LEMMA FatStatAnswers ==
    ASSUME NEW t, IsTree(t), NEW p \in Seq(Names)
    PROVE  \A o \in FatStat(t, p) : Answers("stat", t, p, o)
<1>1. CASE p = <<>>
  <2>1. FatStat(t, p) = FatRemap(Asked(t, Outcome(t, "INVALID_NAME")))
    BY <1>1 DEF FatStat
  <2>2. /\ "INVALID_NAME" \in DOMAIN FatErrno
        /\ \/ Says("stat", t, p, FatErrno["INVALID_NAME"])
           \/ FatErrno["INVALID_NAME"] = "ok" /\ "stat" = "creat" /\ Kind(t, p) = "file"
    BY <1>1 DEF FatErrno, Says
  <2> QED
    BY <2>1, <2>2, FatSays
<1>2. CASE p # <<>> /\ Follow(t, p) # "OK"
  <2>1. FatStat(t, p) = FatRemap(Asked(t, Outcome(t, Follow(t, p))))
    BY <1>2, FollowIs DEF FatStat
  <2>2. /\ Follow(t, p) \in DOMAIN FatErrno
        /\ \/ Says("stat", t, p, FatErrno[Follow(t, p)])
           \/ FatErrno[Follow(t, p)] = "ok" /\ "stat" = "creat" /\ Kind(t, p) = "file"
    BY <1>2, FollowIs DEF FatErrno, Says
  <2> QED
    BY <2>1, <2>2, FatSays
<1>3. CASE p # <<>> /\ Follow(t, p) = "OK"
  <2>1. FatStat(t, p) = FatRemap(Asked(t, Finds(t, {Kind(t, p)})))
    BY <1>3, FollowIs DEF FatStat
  <2>2. Kind(t, p) = "dir" \/ ("stat" = "stat" /\ Kind(t, p) # "none")
    BY <1>3, FollowIs
  <2> QED
    BY <2>1, <2>2, FatShows
<1> QED
  BY <1>1, <1>2, <1>3

LEMMA FatListAnswers ==
    ASSUME NEW t, IsTree(t), NEW p \in Seq(Names)
    PROVE  \A o \in FatList(t, p) : Answers("readdir", t, p, o)
<1>1. CASE Kind(t, p) # "dir"
  <2>1. FatList(t, p) = FatRemap(Asked(t, Outcome(t, "NO_PATH")))
    BY <1>1, KindIs DEF FatList
  <2>2. /\ "NO_PATH" \in DOMAIN FatErrno
        /\ \/ Says("readdir", t, p, FatErrno["NO_PATH"])
           \/ FatErrno["NO_PATH"] = "ok" /\ "readdir" = "creat" /\ Kind(t, p) = "file"
    BY <1>1, KindIs DEF FatErrno, Says
  <2> QED
    BY <2>1, <2>2, FatSays
<1>2. CASE Kind(t, p) = "dir"
  <2>1. FatList(t, p) = FatRemap(Asked(t, Finds(t, Entries(t, p))))
    BY <1>2 DEF FatList
  <2>2. Kind(t, p) = "dir" \/ ("readdir" = "stat" /\ Kind(t, p) # "none")
    BY <1>2
  <2> QED
    BY <2>1, <2>2, FatShows
<1> QED
  BY <1>1, <1>2

LEMMA LfsRemoveAnswers ==
    ASSUME NEW t, IsTree(t), NEW p \in Seq(Names), NEW op \in {"unlink", "rmdir"}
    PROVE  \A o \in LfsRemove(t, p) : Answers(op, t, p, o)
<1>1. CASE Lookup(t, p) # "OK"
  <2>1. LfsRemove(t, p) = LfsRemap(Asked(t, Outcome(t, Lookup(t, p))))
    BY <1>1, LookupIs DEF LfsRemove
  <2>2. /\ Lookup(t, p) \in DOMAIN LfsErrno
        /\ \/ Says(op, t, p, LfsErrno[Lookup(t, p)])
           \/ LfsErrno[Lookup(t, p)] = "ok" /\ op = "creat" /\ Kind(t, p) = "file"
    BY <1>1, LookupIs DEF LfsErrno, Says
  <2> QED
    BY <2>1, <2>2, LfsSays
<1>2. CASE Lookup(t, p) = "OK" /\ p = <<>>
  <2>1. LfsRemove(t, p) = LfsRemap(Asked(t, Outcome(t, "INVAL")))
    BY <1>2 DEF LfsRemove
  <2>2. /\ "INVAL" \in DOMAIN LfsErrno
        /\ \/ Says(op, t, p, LfsErrno["INVAL"])
           \/ LfsErrno["INVAL"] = "ok" /\ op = "creat" /\ Kind(t, p) = "file"
    BY <1>2 DEF LfsErrno, Says
  <2> QED
    BY <2>1, <2>2, LfsSays
<1>3. CASE Lookup(t, p) = "OK" /\ p # <<>> /\ Within(t, p) # {}
  <2>1. LfsRemove(t, p) = LfsRemap(Asked(t, Outcome(t, "NOTEMPTY")))
    BY <1>3 DEF LfsRemove
  <2>2. /\ "NOTEMPTY" \in DOMAIN LfsErrno
        /\ \/ Says(op, t, p, LfsErrno["NOTEMPTY"])
           \/ LfsErrno["NOTEMPTY"] = "ok" /\ op = "creat" /\ Kind(t, p) = "file"
    BY <1>3 DEF LfsErrno, Says
  <2> QED
    BY <2>1, <2>2, LfsSays
<1>4. CASE Lookup(t, p) = "OK" /\ p # <<>> /\ Within(t, p) = {}
  <2>1. LfsRemove(t, p) = LfsRemap(Changed(t, Cut(t, {p})))
    BY <1>4, LookupIs DEF LfsRemove
  <2>2. Alters(op, t, p, Cut(t, {p}))
    BY <1>4, LookupIs DEF Alters, Shrinks
  <2> QED
    BY <2>1, <2>2, LfsAlters
<1> QED
  BY <1>1, <1>2, <1>3, <1>4

LEMMA LfsMkdirAnswers ==
    ASSUME NEW t, IsTree(t), NEW p \in Seq(Names)
    PROVE  \A o \in LfsMkdir(t, p) : Answers("mkdir", t, p, o)
<1>1. CASE p # <<>> /\ CanMake(t, p)
  <2>1. LfsMkdir(t, p) = LfsRemap(Changed(t, Add(t, p, "dir")))
    BY <1>1, LookupIs, KindIs DEF LfsMkdir, CanMake, Room
  <2>2. Alters("mkdir", t, p, Add(t, p, "dir"))
    BY <1>1, LookupIs, KindIs DEF Alters, Grows, CanMake, Room
  <2> QED
    BY <2>1, <2>2, LfsAlters
<1>2. CASE ~(p # <<>> /\ CanMake(t, p)) /\ Lookup(t, p) = "OK"
  <2>1. LfsMkdir(t, p) = LfsRemap(Asked(t, Outcome(t, "EXIST")))
    BY <1>2, LookupIs DEF LfsMkdir
  <2>2. /\ "EXIST" \in DOMAIN LfsErrno
        /\ \/ Says("mkdir", t, p, LfsErrno["EXIST"])
           \/ LfsErrno["EXIST"] = "ok" /\ "mkdir" = "creat" /\ Kind(t, p) = "file"
    BY <1>2, LookupIs DEF LfsErrno, Says
  <2> QED
    BY <2>1, <2>2, LfsSays
<1>3. CASE ~(p # <<>> /\ CanMake(t, p)) /\ Lookup(t, p) # "OK"
  <2>1. LfsMkdir(t, p) = LfsRemap(Asked(t, Outcome(t, Room(t, p))))
    BY <1>3, LookupIs DEF LfsMkdir, Room
  <2>2. /\ Room(t, p) \in DOMAIN LfsErrno
        /\ \/ Says("mkdir", t, p, LfsErrno[Room(t, p)])
           \/ LfsErrno[Room(t, p)] = "ok" /\ "mkdir" = "creat" /\ Kind(t, p) = "file"
    BY <1>3, LookupIs DEF LfsErrno, Says, Room
  <2> QED
    BY <2>1, <2>2, LfsSays
<1> QED
  BY <1>1, <1>2, <1>3

LEMMA LfsCreateAnswers ==
    ASSUME NEW t, IsTree(t), NEW p \in Seq(Names)
    PROVE  \A o \in LfsCreate(t, p) : Answers("creat", t, p, o)
<1>1. CASE Kind(t, p) = "dir"
  <2>1. LfsCreate(t, p) = LfsRemap(Asked(t, Outcome(t, "ISDIR")))
    BY <1>1 DEF LfsCreate
  <2>2. /\ "ISDIR" \in DOMAIN LfsErrno
        /\ \/ Says("creat", t, p, LfsErrno["ISDIR"])
           \/ LfsErrno["ISDIR"] = "ok" /\ "creat" = "creat" /\ Kind(t, p) = "file"
    BY <1>1 DEF LfsErrno, Says
  <2> QED
    BY <2>1, <2>2, LfsSays
<1>2. CASE Kind(t, p) # "dir" /\ CanMake(t, p)
  <2>1. LfsCreate(t, p) = LfsRemap(Changed(t, Add(t, p, "file")))
    BY <1>2, LookupIs, KindIs DEF LfsCreate, CanMake, Room
  <2>2. Alters("creat", t, p, Add(t, p, "file"))
    BY <1>2, LookupIs, KindIs DEF Alters, Grows, CanMake, Room
  <2> QED
    BY <2>1, <2>2, LfsAlters
<1>3. CASE Kind(t, p) # "dir" /\ ~CanMake(t, p) /\ Lookup(t, p) = "OK"
  <2>1. LfsCreate(t, p) = LfsRemap(Asked(t, Outcome(t, "OK")))
    BY <1>3, LookupIs, KindIs DEF LfsCreate
  <2>2. /\ "OK" \in DOMAIN LfsErrno
        /\ \/ Says("creat", t, p, LfsErrno["OK"])
           \/ LfsErrno["OK"] = "ok" /\ "creat" = "creat" /\ Kind(t, p) = "file"
    BY <1>3, LookupIs, KindIs DEF LfsErrno, Says
  <2> QED
    BY <2>1, <2>2, LfsSays
<1>4. CASE Kind(t, p) # "dir" /\ ~CanMake(t, p) /\ Lookup(t, p) # "OK"
  <2>1. LfsCreate(t, p) = LfsRemap(Asked(t, Outcome(t, Room(t, p))))
    BY <1>4, LookupIs DEF LfsCreate, Room
  <2>2. /\ Room(t, p) \in DOMAIN LfsErrno
        /\ \/ Says("creat", t, p, LfsErrno[Room(t, p)])
           \/ LfsErrno[Room(t, p)] = "ok" /\ "creat" = "creat" /\ Kind(t, p) = "file"
    BY <1>4, LookupIs DEF LfsErrno, Says, Room
  <2> QED
    BY <2>1, <2>2, LfsSays
<1> QED
  BY <1>1, <1>2, <1>3, <1>4

LEMMA LfsStatAnswers ==
    ASSUME NEW t, IsTree(t), NEW p \in Seq(Names)
    PROVE  \A o \in LfsStat(t, p) : Answers("stat", t, p, o)
<1>1. CASE Lookup(t, p) # "OK"
  <2>1. LfsStat(t, p) = LfsRemap(Asked(t, Outcome(t, Lookup(t, p))))
    BY <1>1, LookupIs DEF LfsStat
  <2>2. /\ Lookup(t, p) \in DOMAIN LfsErrno
        /\ \/ Says("stat", t, p, LfsErrno[Lookup(t, p)])
           \/ LfsErrno[Lookup(t, p)] = "ok" /\ "stat" = "creat" /\ Kind(t, p) = "file"
    BY <1>1, LookupIs DEF LfsErrno, Says
  <2> QED
    BY <2>1, <2>2, LfsSays
<1>2. CASE Lookup(t, p) = "OK"
  <2>1. LfsStat(t, p) = LfsRemap(Asked(t, Finds(t, {Kind(t, p)})))
    BY <1>2, LookupIs DEF LfsStat
  <2>2. Kind(t, p) = "dir" \/ ("stat" = "stat" /\ Kind(t, p) # "none")
    BY <1>2, LookupIs
  <2> QED
    BY <2>1, <2>2, LfsShows
<1> QED
  BY <1>1, <1>2

LEMMA LfsListAnswers ==
    ASSUME NEW t, IsTree(t), NEW p \in Seq(Names)
    PROVE  \A o \in LfsList(t, p) : Answers("readdir", t, p, o)
<1>1. CASE Lookup(t, p) # "OK"
  <2>1. LfsList(t, p) = LfsRemap(Asked(t, Outcome(t, Lookup(t, p))))
    BY <1>1, LookupIs DEF LfsList
  <2>2. /\ Lookup(t, p) \in DOMAIN LfsErrno
        /\ \/ Says("readdir", t, p, LfsErrno[Lookup(t, p)])
           \/ LfsErrno[Lookup(t, p)] = "ok" /\ "readdir" = "creat" /\ Kind(t, p) = "file"
    BY <1>1, LookupIs DEF LfsErrno, Says
  <2> QED
    BY <2>1, <2>2, LfsSays
<1>2. CASE Lookup(t, p) = "OK" /\ Kind(t, p) = "file"
  <2>1. LfsList(t, p) = LfsRemap(Asked(t, Outcome(t, "NOTDIR")))
    BY <1>2 DEF LfsList
  <2>2. /\ "NOTDIR" \in DOMAIN LfsErrno
        /\ \/ Says("readdir", t, p, LfsErrno["NOTDIR"])
           \/ LfsErrno["NOTDIR"] = "ok" /\ "readdir" = "creat" /\ Kind(t, p) = "file"
    BY <1>2 DEF LfsErrno, Says
  <2> QED
    BY <2>1, <2>2, LfsSays
<1>3. CASE Lookup(t, p) = "OK" /\ Kind(t, p) # "file"
  <2>1. LfsList(t, p) = LfsRemap(Asked(t, Finds(t, Entries(t, p))))
    BY <1>3, LookupIs, KindIs DEF LfsList
  <2>2. Kind(t, p) = "dir" \/ ("readdir" = "stat" /\ Kind(t, p) # "none")
    BY <1>3, LookupIs, KindIs
  <2> QED
    BY <2>1, <2>2, LfsShows
<1> QED
  BY <1>1, <1>2, <1>3

\* Whatever a call answers, it leaves a tree.
LEMMA AnswersTree ==
    ASSUME NEW t, IsTree(t), NEW p \in Seq(Names), NEW op, NEW o, Answers(op, t, p, o)
    PROVE  IsTree(o.tree) /\ ~o.twins
<1>1. o.tree = t \/ Alters(op, t, p, o.tree)
  BY DEF Answers
<1>2. ASSUME NEW kind \in Kinds, Grows(t, p, kind, o.tree)
      PROVE  IsTree(o.tree)
  BY <1>2, AddTree DEF Grows
<1>3. ASSUME Shrinks(t, p, o.tree)
      PROVE  IsTree(o.tree)
  <2>1. Subtree(t, p) = {p} /\ p # <<>> /\ o.tree = Cut(t, {p})
    BY <1>3, CutOne DEF Shrinks
  <2> QED
    BY <2>1, CutTree
<1> QED
  BY <1>1, <1>2, <1>3 DEF Alters, Kinds, Answers

------------------------------------------------------------------------------
(* rename *)

\* What an error of rename says.
RenameSays(t, from, to, res) ==
    \/ res = "ENOENT" /\ (Kind(t, from) = "none" \/ Kind(t, Front(to)) = "none")
    \/ res = "ENOTDIR" /\ \/ Kind(t, from) = "none" \/ Kind(t, Front(to)) # "dir"
                          \/ Kind(t, to) = "file"
    \/ res = "EEXIST" /\ Kind(t, to) # "none"
    \/ res = "EISDIR" /\ Kind(t, to) = "dir"
    \/ res = "39" /\ Within(t, to) # {}
    \/ res = "EACCES"
    \/ res = "EINVAL" /\ from = <<>>

Movable(t, from, to) ==
    /\ from # <<>> /\ Kind(t, from) # "none" /\ Kind(t, Front(to)) = "dir"
    /\ from = to \/ Within(t, to) = {}

\* The tree that a move leaves: FAT alone moves a directory into itself, and is left with
\* two entries if the old one could not be removed.
Moves(t, from, to, o) ==
    /\ Movable(t, from, to)
    /\ \/ ~o.twins /\ ~IsStrictPrefix(from, to) /\ o.tree = Moved(t, from, to)
       \/ ~o.twins /\ IsStrictPrefix(from, to) /\ o.tree = Cut(t, Subtree(t, from))
       \/ o.twins /\ Kind(t, to) = "none" /\ o.tree = Over(Graft(t, from, to), t)
       \/ o.twins /\ from = to /\ o.tree = t

Keeps(t, from, to, o) ==
    /\ ~o.twins /\ o.tree = t
    /\ \/ o.res = "EIO" \/ RenameSays(t, from, to, o.res)
       \/ o.res = "ok" /\ from = to /\ from # <<>> /\ Kind(t, from) # "none"

RenameAnswers(t, from, to, o) ==
    \/ Keeps(t, from, to, o)
    \/ Moves(t, from, to, o) /\ (o.res = "ok" \/ o.res = "EIO")

LEMMA FatKeeps ==
    ASSUME NEW t, NEW from, NEW to, NEW res \in DOMAIN FatErrno,
           \/ RenameSays(t, from, to, FatErrno[res])
           \/ FatErrno[res] = "ok" /\ from = to /\ from # <<>> /\ Kind(t, from) # "none"
    PROVE  \A o \in FatRemap(Asked(t, Outcome(t, res))) : RenameAnswers(t, from, to, o)
<1> SUFFICES ASSUME NEW o \in FatRemap(Asked(t, Outcome(t, res)))
             PROVE  RenameAnswers(t, from, to, o)
  OBVIOUS
<1>1. o.tree = t /\ ~o.twins /\ (o.res = FatErrno[res] \/ o.res = "EIO")
  BY FatAsked
<1> QED
  BY <1>1 DEF RenameAnswers, Keeps

LEMMA LfsKeeps ==
    ASSUME NEW t, NEW from, NEW to, NEW res \in DOMAIN LfsErrno,
           RenameSays(t, from, to, LfsErrno[res])
    PROVE  \A o \in LfsRemap(Asked(t, Outcome(t, res))) : RenameAnswers(t, from, to, o)
<1> SUFFICES ASSUME NEW o \in LfsRemap(Asked(t, Outcome(t, res)))
             PROVE  RenameAnswers(t, from, to, o)
  OBVIOUS
<1>1. o.tree = t /\ ~o.twins /\ (o.res = LfsErrno[res] \/ o.res = "EIO")
  BY LfsAsked
<1> QED
  BY <1>1 DEF RenameAnswers, Keeps

LEMMA FatRenameAnswers ==
    ASSUME NEW t, IsTree(t), NEW from \in Seq(Names), NEW to \in Seq(Names), to # <<>>
    PROVE  \A o \in FatRename(t, from, to) : RenameAnswers(t, from, to, o)
<1>1. CASE Follow(t, from) # "OK"
  <2>1. FatRename(t, from, to) = FatRemap(Asked(t, Outcome(t, Follow(t, from))))
    BY <1>1 DEF FatRename
  <2>2. Follow(t, from) \in DOMAIN FatErrno /\ Kind(t, from) = "none"
    BY <1>1, FollowIs, KindIs DEF FatErrno
  <2>3. RenameSays(t, from, to, FatErrno[Follow(t, from)])
    BY <1>1, <2>2, FollowIs DEF FatErrno, RenameSays
  <2> QED
    BY <2>1, <2>2, <2>3, FatKeeps
<1>2. CASE Follow(t, from) = "OK" /\ from = <<>>
  <2>1. FatRename(t, from, to) = FatRemap(Asked(t, Outcome(t, "INVALID_NAME")))
    BY <1>2 DEF FatRename
  <2>2. "INVALID_NAME" \in DOMAIN FatErrno /\ RenameSays(t, from, to, FatErrno["INVALID_NAME"])
    BY <1>2 DEF FatErrno, RenameSays
  <2> QED
    BY <2>1, <2>2, FatKeeps
<1>3. CASE Follow(t, from) = "OK" /\ from # <<>> /\ from = to
  <2> DEFINE same == [Outcome(t, "IO") EXCEPT !.twins = TRUE]
             denied == Outcome(t, "DENIED")
  <2>1. FatRename(t, from, to) = FatRemap(Asked(t, Outcome(t, "OK")) \cup {same} \cup
                                          (IF Full(t) THEN {denied} ELSE {}))
    BY <1>3 DEF FatRename
  <2>2. "OK" \in DOMAIN FatErrno /\ FatErrno["OK"] = "ok" /\ Kind(t, from) # "none"
    BY <1>3, FollowIs DEF FatErrno
  <2>3. \A o \in FatRemap(Asked(t, Outcome(t, "OK"))) : RenameAnswers(t, from, to, o)
    BY <1>3, <2>2, FatKeeps
  <2>4. Movable(t, from, to)
    BY <1>3, <2>2, ParentIs DEF Movable
  <2> SUFFICES ASSUME NEW o \in FatRename(t, from, to) PROVE RenameAnswers(t, from, to, o)
    OBVIOUS
  <2> HIDE DEF same, denied
  <2>5. CASE o = [same EXCEPT !.res = FatErrno[@]]
    <3>1. o.twins /\ o.tree = t /\ o.res = "EIO"
      BY <2>5 DEF same, Outcome, FatErrno
    <3> QED
      BY <1>3, <2>4, <3>1 DEF RenameAnswers, Moves
  <2>6. CASE o = [denied EXCEPT !.res = FatErrno[@]]
    <3>1. ~o.twins /\ o.tree = t /\ o.res = "EACCES"
      BY <2>6 DEF denied, Outcome, FatErrno
    <3> QED
      BY <3>1 DEF RenameAnswers, Keeps, RenameSays
  <2> QED
    BY <2>1, <2>3, <2>5, <2>6 DEF FatRemap
<1>4. CASE Follow(t, from) = "OK" /\ from # <<>> /\ from # to /\ Follow(t, to) # "NO_FILE"
  <2> DEFINE res == IF Follow(t, to) = "OK" THEN "EXIST" ELSE "NO_PATH"
  <2>1. FatRename(t, from, to) = FatRemap(Asked(t, Outcome(t, res)))
    BY <1>4 DEF FatRename
  <2>2. res \in DOMAIN FatErrno
    BY DEF FatErrno
  <2>3. RenameSays(t, from, to, FatErrno[res])
    BY <1>4, FollowIs DEF FatErrno, RenameSays
  <2> HIDE DEF res
  <2> QED
    BY <2>1, <2>2, <2>3, FatKeeps
<1>5. CASE Follow(t, from) = "OK" /\ from # <<>> /\ from # to /\ Follow(t, to) = "NO_FILE"
  <2> DEFINE into == IsStrictPrefix(from, to)
             moved == IF into THEN Cut(t, Subtree(t, from)) ELSE Moved(t, from, to)
             two == Over(Graft(t, from, to), t)
             both == [Outcome(two, "IO") EXCEPT !.twins = TRUE]
             denied == Outcome(t, "DENIED")
  <2>1. FatRename(t, from, to) = FatRemap(Changed(t, moved) \cup {both} \cup
                                          (IF Full(t) THEN {denied} ELSE {}))
    BY <1>5 DEF FatRename
  <2>2. Movable(t, from, to) /\ Kind(t, to) = "none"
    BY <1>5, FollowIs, NothingBelow DEF Movable
  <2> SUFFICES ASSUME NEW o \in FatRename(t, from, to) PROVE RenameAnswers(t, from, to, o)
    OBVIOUS
  <2> HIDE DEF moved, both, denied
  <2>3. CASE o \in FatRemap(Changed(t, moved))
    <3>1. /\ ~o.twins
          /\ \/ o.tree = moved /\ o.res \in {"ok", "EIO"}
             \/ o.tree = t /\ o.res = "EIO"
      BY <2>3, FatChanged
    <3> QED
      BY <2>2, <3>1 DEF moved, RenameAnswers, Keeps, Moves
  <2>4. CASE o = [both EXCEPT !.res = FatErrno[@]]
    <3>1. o.twins /\ o.tree = two /\ o.res = "EIO"
      BY <2>4 DEF both, Outcome, FatErrno
    <3> QED
      BY <2>2, <3>1 DEF RenameAnswers, Moves
  <2>5. CASE o = [denied EXCEPT !.res = FatErrno[@]]
    <3>1. ~o.twins /\ o.tree = t /\ o.res = "EACCES"
      BY <2>5 DEF denied, Outcome, FatErrno
    <3> QED
      BY <3>1 DEF RenameAnswers, Keeps, RenameSays
  <2> QED
    BY <2>1, <2>3, <2>4, <2>5 DEF FatRemap
<1> QED
  BY <1>1, <1>2, <1>3, <1>4, <1>5

LEMMA LfsRenameAnswers ==
    ASSUME NEW t, IsTree(t), NEW from \in Seq(Names), NEW to \in Seq(Names), to # <<>>,
           ~IsStrictPrefix(from, to)
    PROVE  \A o \in LfsRename(t, from, to) : RenameAnswers(t, from, to, o)
<1> DEFINE refused ==
            IF Lookup(t, from) # "OK" THEN Lookup(t, from)
            ELSE IF from = <<>> THEN "INVAL"
            ELSE IF Kind(t, to) = "none"
              THEN IF to # <<>> /\ Kind(t, Front(to)) = "dir" THEN "OK" ELSE Lookup(t, to)
            ELSE IF Kind(t, from) # Kind(t, to)
              THEN IF Kind(t, to) = "dir" THEN "ISDIR" ELSE "NOTDIR"
            ELSE IF from # to /\ Within(t, to) # {} THEN "NOTEMPTY" ELSE "OK"
<1>1. LfsRename(t, from, to) = LfsRemap(IF refused # "OK" THEN Asked(t, Outcome(t, refused))
                                        ELSE Changed(t, Moved(t, from, to)))
  BY DEF LfsRename
<1>2. CASE refused # "OK"
  <2>1. LfsRename(t, from, to) = LfsRemap(Asked(t, Outcome(t, refused)))
    BY <1>1, <1>2
  <2>2. CASE Lookup(t, from) # "OK"
    BY <2>1, <2>2, LookupIs, LfsKeeps DEF LfsErrno, RenameSays
  <2>3. CASE Lookup(t, from) = "OK" /\ from = <<>>
    BY <2>1, <2>3, LfsKeeps DEF LfsErrno, RenameSays
  <2>4. CASE Lookup(t, from) = "OK" /\ from # <<>> /\ Kind(t, to) = "none"
    <3>1. refused = Lookup(t, to) /\ Kind(t, Front(to)) # "dir"
      BY <1>2, <2>4
    <3>2. refused \in DOMAIN LfsErrno /\ RenameSays(t, from, to, LfsErrno[refused])
      <4>1. Lookup(t, to) \in {"NOENT", "NOTDIR"}
        BY <2>4, LookupIs
      <4>2. Kind(t, Front(to)) = "none" \/ Lookup(t, to) = "NOTDIR"
        BY <3>1, <4>1, LookupIs, KindIs
      <4> HIDE DEF refused
      <4> QED
        BY <3>1, <4>1, <4>2 DEF LfsErrno, RenameSays
    <3> HIDE DEF refused
    <3> QED
      BY <2>1, <3>2, LfsKeeps
  <2>5. CASE Lookup(t, from) = "OK" /\ from # <<>> /\ Kind(t, to) # "none"
    <3>1. \/ refused = "ISDIR" /\ Kind(t, to) = "dir"
          \/ refused = "NOTDIR" /\ Kind(t, to) = "file"
          \/ refused = "NOTEMPTY" /\ Within(t, to) # {}
      BY <1>2, <2>5, KindIs
    <3> HIDE DEF refused
    <3>2. refused \in DOMAIN LfsErrno /\ RenameSays(t, from, to, LfsErrno[refused])
      BY <3>1 DEF LfsErrno, RenameSays
    <3> QED
      BY <2>1, <3>2, LfsKeeps
  <2> QED
    BY <2>2, <2>3, <2>4, <2>5
<1>3. CASE refused = "OK"
  <2>1. LfsRename(t, from, to) = LfsRemap(Changed(t, Moved(t, from, to)))
    BY <1>1, <1>3
  <2>2. Lookup(t, from) = "OK" /\ from # <<>> /\ (Kind(t, to) = "none" \/ Kind(t, to) # "none")
    BY <1>3
  <2>3. Kind(t, from) # "none"
    BY <2>2, LookupIs
  <2>4. Kind(t, Front(to)) = "dir"
    <3>1. CASE Kind(t, to) = "none"
      <4>1. Kind(t, Front(to)) = "dir" \/ Lookup(t, to) = "OK"
        BY <1>3, <2>2, <3>1
      <4> QED
        BY <3>1, <4>1, LookupIs
    <3>2. CASE Kind(t, to) # "none"
      BY <3>2, ParentIs
    <3> QED
      BY <3>1, <3>2
  <2>5. from = to \/ Within(t, to) = {}
    <3>1. CASE Kind(t, to) = "none"
      BY <3>1, NothingBelow
    <3>2. CASE Kind(t, to) # "none"
      BY <1>3, <2>2, <3>2
    <3> QED
      BY <3>1, <3>2
  <2>6. Movable(t, from, to)
    BY <2>2, <2>3, <2>4, <2>5 DEF Movable
  <2> HIDE DEF refused
  <2> SUFFICES ASSUME NEW o \in LfsRename(t, from, to) PROVE RenameAnswers(t, from, to, o)
    OBVIOUS
  <2>7. /\ ~o.twins
        /\ \/ o.tree = Moved(t, from, to) /\ o.res \in {"ok", "EIO"}
           \/ o.tree = t /\ o.res = "EIO"
    BY <2>1, LfsChanged
  <2> QED
    BY <2>6, <2>7 DEF RenameAnswers, Keeps, Moves
<1> QED
  BY <1>2, <1>3

\* Every rename leaves a tree.
LEMMA RenameTree ==
    ASSUME NEW t, IsTree(t), NEW from \in Seq(Names), NEW to \in Seq(Names), to # <<>>,
           NEW o, RenameAnswers(t, from, to, o)
    PROVE  IsTree(o.tree)
<1>1. CASE o.tree = t
  BY <1>1
<1>2. CASE Movable(t, from, to) /\ ~IsStrictPrefix(from, to) /\ o.tree = Moved(t, from, to)
  <2>1. IsTree(Moved(t, from, to))
    BY <1>2, MovedTree DEF Movable
  <2> QED
    BY <1>2, <2>1
<1>3. CASE Movable(t, from, to) /\ o.tree = Cut(t, Subtree(t, from))
  <2>1. IsTree(Cut(t, Subtree(t, from)))
    BY <1>3, CutTree DEF Movable
  <2> QED
    BY <1>3, <2>1
<1>4. CASE Movable(t, from, to) /\ Kind(t, to) = "none" /\ o.tree = Over(Graft(t, from, to), t)
  <2>1. \A q \in Seq(Names) : IsPrefix(to, q) => q \notin DOMAIN t
    BY <1>4, NothingBelow DEF Subtree
  <2>2. IsTree(Over(Graft(t, from, to), t))
    BY <1>4, <2>1, GraftTree DEF Movable
  <2> QED
    BY <1>4, <2>2
<1> QED
  BY <1>1, <1>2, <1>3, <1>4 DEF RenameAnswers, Moves, Keeps

------------------------------------------------------------------------------
(* Each call on the file system it is for *)

LEMMA LocalIs ==
    ASSUME NEW p \in Seq(Names), NEW m
    PROVE  RemovePrefix(p, m) \in Seq(Names)
<1>1. ASSUME p # <<>> PROVE Tail(p) \in Seq(Names) /\ p[1] \in Names
  BY <1>1, EmptyIs
<1>2. p # <<>> => <<Joined[p[1]]>> \o Tail(p) \in Seq(Names)
  BY <1>1, NamesAssumption
<1> QED
  BY <1>1, <1>2 DEF RemovePrefix, Begins

LEMMA FindIs == \A p : FindMountpoint(p) \in Mounts
BY DEF FindMountpoint, Mounts

\* What a call with one path answers, whatever the kind of its file system.
PathCall(op, p) ==
    LET m == FindMountpoint(p)
        e == RemovePrefix(p, m)
    IN  \E o : /\ Answers(op, tree[m], e, o) /\ Fits(o.tree)
               /\ tree' = [tree EXCEPT ![m] = o.tree]
               /\ twins' = (twins \/ o.twins)
               /\ last' = [op |-> op, path |-> p, new |-> p, answer |-> o.res, found |-> o.found]
               /\ ~twins /\ UNCHANGED fs

LEMMA AnsweredIs ==
    ASSUME NEW op, NEW p, NEW outcomes,
           \A o \in outcomes : Answers(op, tree[FindMountpoint(p)],
                                       RemovePrefix(p, FindMountpoint(p)), o),
           ~twins, Answered(op, p, p, FindMountpoint(p), outcomes)
    PROVE  PathCall(op, p)
BY DEF Answered, PathCall

LEMMA PathCalls ==
    ASSUME TypeOK, NEW p \in Paths
    PROVE  /\ Unlink(p) => PathCall("unlink", p)
           /\ Mkdir(p) => PathCall("mkdir", p)
           /\ Rmdir(p) => PathCall("rmdir", p)
           /\ Create(p) => PathCall("creat", p)
           /\ Stat(p) => PathCall("stat", p)
           /\ List(p) => PathCall("readdir", p)
<1> DEFINE m == FindMountpoint(p)
           e == RemovePrefix(p, m)
           t == tree[m]
<1>1. m \in Mounts /\ e \in Seq(Names) /\ IsTree(t)
  BY PathsAssumption, FindIs, LocalIs DEF TypeOK
<1>2. ASSUME Unlink(p) PROVE PathCall("unlink", p)
  <2>1. ~twins /\ Answered("unlink", p, p, m, IF fs[m] = "fat" THEN FatRemove(t, e) ELSE LfsRemove(t, e))
    BY <1>2 DEF Unlink, OnPath
  <2> HIDE DEF m, e, t
  <2>2. \A o \in IF fs[m] = "fat" THEN FatRemove(t, e) ELSE LfsRemove(t, e) : Answers("unlink", t, e, o)
    BY <1>1, FUnlinkAnswers, LfsRemoveAnswers
  <2> QED
    BY <2>1, <2>2, AnsweredIs DEF m, e, t
<1>3. ASSUME Mkdir(p) PROVE PathCall("mkdir", p)
  <2>1. ~twins /\ Answered("mkdir", p, p, m, IF fs[m] = "fat" THEN FatMkdir(t, e) ELSE LfsMkdir(t, e))
    BY <1>3 DEF Mkdir, OnPath
  <2> HIDE DEF m, e, t
  <2>2. \A o \in IF fs[m] = "fat" THEN FatMkdir(t, e) ELSE LfsMkdir(t, e) : Answers("mkdir", t, e, o)
    BY <1>1, FatMkdirAnswers, LfsMkdirAnswers
  <2> QED
    BY <2>1, <2>2, AnsweredIs DEF m, e, t
<1>4. ASSUME Rmdir(p) PROVE PathCall("rmdir", p)
  <2>1. ~twins /\ Answered("rmdir", p, p, m, IF fs[m] = "fat" THEN FatRmdir(t, e) ELSE LfsRemove(t, e))
    BY <1>4 DEF Rmdir, OnPath
  <2> HIDE DEF m, e, t
  <2>2. \A o \in IF fs[m] = "fat" THEN FatRmdir(t, e) ELSE LfsRemove(t, e) : Answers("rmdir", t, e, o)
    BY <1>1, FUnlinkAnswers, LfsRemoveAnswers
  <2> QED
    BY <2>1, <2>2, AnsweredIs DEF m, e, t
<1>5. ASSUME Create(p) PROVE PathCall("creat", p)
  <2>1. ~twins /\ Answered("creat", p, p, m, IF fs[m] = "fat" THEN FatCreate(t, e) ELSE LfsCreate(t, e))
    BY <1>5 DEF Create, OnPath
  <2> HIDE DEF m, e, t
  <2>2. \A o \in IF fs[m] = "fat" THEN FatCreate(t, e) ELSE LfsCreate(t, e) : Answers("creat", t, e, o)
    BY <1>1, FatCreateAnswers, LfsCreateAnswers
  <2> QED
    BY <2>1, <2>2, AnsweredIs DEF m, e, t
<1>6. ASSUME Stat(p) PROVE PathCall("stat", p)
  <2>1. ~twins /\ Answered("stat", p, p, m, IF fs[m] = "fat" THEN FatStat(t, e) ELSE LfsStat(t, e))
    BY <1>6 DEF Stat, OnPath
  <2> HIDE DEF m, e, t
  <2>2. \A o \in IF fs[m] = "fat" THEN FatStat(t, e) ELSE LfsStat(t, e) : Answers("stat", t, e, o)
    BY <1>1, FatStatAnswers, LfsStatAnswers
  <2> QED
    BY <2>1, <2>2, AnsweredIs DEF m, e, t
<1>7. ASSUME List(p) PROVE PathCall("readdir", p)
  <2>1. ~twins /\ Answered("readdir", p, p, m, IF fs[m] = "fat" THEN FatList(t, e) ELSE LfsList(t, e))
    BY <1>7 DEF List, OnPath
  <2> HIDE DEF m, e, t
  <2>2. \A o \in IF fs[m] = "fat" THEN FatList(t, e) ELSE LfsList(t, e) : Answers("readdir", t, e, o)
    BY <1>1, FatListAnswers, LfsListAnswers
  <2> QED
    BY <2>1, <2>2, AnsweredIs DEF m, e, t
<1> QED
  BY <1>2, <1>3, <1>4, <1>5, <1>6, <1>7

\* The same for rename.
RenameCall(p, q) ==
    LET m == FindMountpoint(p)
        from == RemovePrefix(p, m)
        to == RemovePrefix(q, m)
    IN  /\ to # <<>>
        /\ \E o : /\ RenameAnswers(tree[m], from, to, o) /\ Fits(o.tree)
                  /\ tree' = [tree EXCEPT ![m] = o.tree]
                  /\ twins' = (twins \/ o.twins)
                  /\ last' = [op |-> "rename", path |-> p, new |-> q,
                              answer |-> o.res, found |-> o.found]
                  /\ ~twins /\ UNCHANGED fs

LEMMA RenameCalls ==
    ASSUME TypeOK, NEW p \in Paths, NEW q \in Paths, Rename(p, q)
    PROVE  RenameCall(p, q)
<1> DEFINE m == FindMountpoint(p)
           from == RemovePrefix(p, m)
           to == RemovePrefix(q, m)
           t == tree[m]
           outcomes == IF fs[m] = "fat" THEN FatRename(t, from, to) ELSE LfsRename(t, from, to)
<1>1. m \in Mounts /\ from \in Seq(Names) /\ to \in Seq(Names) /\ IsTree(t)
  BY PathsAssumption, FindIs, LocalIs DEF TypeOK
<1>2. /\ ~twins /\ to # <<>> /\ (fs[m] = "littlefs" => ~IsStrictPrefix(from, to))
      /\ Answered("rename", p, q, m, outcomes)
  BY DEF Rename
<1>3. fs[m] = "fat" \/ fs[m] = "littlefs"
  BY <1>1 DEF TypeOK
<1> HIDE DEF m, from, to, t
<1>4. \A o \in outcomes : RenameAnswers(t, from, to, o)
  BY <1>1, <1>2, <1>3, FatRenameAnswers, LfsRenameAnswers
<1> HIDE DEF outcomes
<1>5. PICK o \in outcomes :
        /\ Fits(o.tree) /\ tree' = [tree EXCEPT ![m] = o.tree] /\ twins' = (twins \/ o.twins)
        /\ last' = [op |-> "rename", path |-> p, new |-> q, answer |-> o.res, found |-> o.found]
        /\ UNCHANGED fs
  BY <1>2 DEF Answered
<1> QED
  BY <1>2, <1>4, <1>5 DEF RenameCall, m, from, to, t

------------------------------------------------------------------------------
(* The trees of the file systems *)

LEMMA TypeStep ==
    ASSUME TypeOK, NEW m \in Mounts, NEW u, IsTree(u), Fits(u),
           tree' = [tree EXCEPT ![m] = u], fs' = fs, twins' \in BOOLEAN
    PROVE  TypeOK'
<1>1. DOMAIN tree' = Mounts /\ \A n \in Mounts : tree'[n] = IF n = m THEN u ELSE tree[n]
  BY DEF TypeOK
<1>2. \A n \in Mounts : IsTree(tree[n])' /\ Fits(tree[n])'
  <2> SUFFICES ASSUME NEW n \in Mounts PROVE IsTree(tree'[n]) /\ Fits(tree'[n])
    BY DEF IsTree, Fits, Kind, Kinds
  <2> QED
    BY <1>1 DEF TypeOK
<1> QED
  BY <1>1, <1>2 DEF TypeOK

LEMMA TypeNext ==
    ASSUME TypeOK, [Next]_vars
    PROVE  TypeOK'
<1>1. ASSUME NEW op, NEW p \in Paths, PathCall(op, p)
      PROVE  TypeOK'
  <2> DEFINE m == FindMountpoint(p)
             e == RemovePrefix(p, m)
  <2>1. m \in Mounts /\ e \in Seq(Names) /\ IsTree(tree[m])
    BY PathsAssumption, FindIs, LocalIs DEF TypeOK
  <2>2. PICK o : /\ Answers(op, tree[m], e, o) /\ Fits(o.tree)
                 /\ tree' = [tree EXCEPT ![m] = o.tree]
                 /\ twins' = (twins \/ o.twins) /\ UNCHANGED fs
    BY <1>1 DEF PathCall
  <2>3. IsTree(o.tree)
    BY <2>1, <2>2, AnswersTree
  <2> HIDE DEF m, e
  <2> QED
    BY <2>1, <2>2, <2>3, TypeStep
<1>2. ASSUME NEW p \in Paths, NEW q \in Paths, RenameCall(p, q)
      PROVE  TypeOK'
  <2> DEFINE m == FindMountpoint(p)
             from == RemovePrefix(p, m)
             to == RemovePrefix(q, m)
  <2>1. m \in Mounts /\ from \in Seq(Names) /\ to \in Seq(Names) /\ IsTree(tree[m])
    BY PathsAssumption, FindIs, LocalIs DEF TypeOK
  <2>2. PICK o : /\ to # <<>> /\ RenameAnswers(tree[m], from, to, o) /\ Fits(o.tree)
                 /\ tree' = [tree EXCEPT ![m] = o.tree]
                 /\ twins' = (twins \/ o.twins) /\ UNCHANGED fs
    BY <1>2 DEF RenameCall
  <2>3. IsTree(o.tree)
    BY <2>1, <2>2, RenameTree
  <2> HIDE DEF m, from, to
  <2> QED
    BY <2>1, <2>2, <2>3, TypeStep
<1>3. ASSUME UNCHANGED vars PROVE TypeOK'
  BY <1>3 DEF vars, TypeOK, IsTree, Fits, Kind, Kinds
<1> QED
  BY <1>1, <1>2, <1>3, PathCalls, RenameCalls DEF Next, Broken

\* An empty file system, and one of one directory.
LEMMA TypeInit == Init => TypeOK
<1> SUFFICES ASSUME Init PROVE TypeOK
  OBVIOUS
<1> DEFINE none == <<>>
           one == Add(<<>>, <<MountName>>, "dir")
<1>0. /\ MaxDepth \in Nat /\ MaxDepth >= 1 /\ MaxObjects \in Nat /\ MaxObjects >= 1
      /\ MountName \in Names
  BY BoundAssumption, NamesAssumption
<1>1. DOMAIN none = {} /\ Cardinality({}) = 0
  BY FS_EmptySet
<1>2. IsTree(none) /\ Fits(none)
  BY <1>0, <1>1 DEF IsTree, Fits, Range
<1>3. DOMAIN one = {<<MountName>>} /\ one[<<MountName>>] = "dir"
  BY <1>1 DEF Add
<1>4. Cardinality({<<MountName>>}) = 1
  BY FS_Singleton
<1>5. <<MountName>> \in Seq(Names) /\ <<MountName>> # <<>> /\ Len(<<MountName>>) = 1
  BY <1>0
<1> HIDE DEF one, none
<1>6. IsTree(one) /\ Fits(one)
  <2>1. DOMAIN one \subseteq Seq(Names) \ {<<>>} /\ Range(one) \subseteq Kinds
    BY <1>3, <1>5 DEF Range, Kinds
  <2>2. \A q \in DOMAIN one : Len(q) = 1
    BY <1>3, <1>5
  <2>3. IsTree(one)
    <3>1. ASSUME NEW q \in DOMAIN one, NEW n \in 1 .. Len(q) - 1
          PROVE  FALSE
      <4>1. Len(q) = 1 /\ Len(q) - 1 = 0
        BY <2>2
      <4>2. n \in 1 .. 0
        BY <4>1
      <4> QED
        BY <4>2
    <3> QED
      BY <2>1, <3>1 DEF IsTree
  <2>4. Fits(one)
    BY <1>0, <1>3, <1>4, <2>2 DEF Fits
  <2> QED
    BY <2>3, <2>4
<1>7. DOMAIN tree = Mounts /\ \A m \in Mounts : tree[m] = none \/ tree[m] = one
  BY DEF Init, none, one
<1>8. fs \in [Mounts -> {"fat", "littlefs"}] /\ twins \in BOOLEAN
  BY DEF Init
<1> QED
  BY <1>2, <1>6, <1>7, <1>8 DEF TypeOK

\* Whatever the calls move, remove, replace and fail at, each file system stays a tree
\* on its medium, unless a rename on FAT leaves a directory under two names, and then too.
THEOREM TypeCorrect == Spec => []TypeOK
<1>1. Init => TypeOK
  BY TypeInit
<1>2. TypeOK /\ [Next]_vars => TypeOK'
  BY TypeNext
<1> QED
  BY <1>1, <1>2, PTL DEF Spec

------------------------------------------------------------------------------
(* The joined name space *)

\* What an application writes for path e of file system m.
Up(m, e) == IF m = "sub" THEN <<MountName>> \o e ELSE e

LEMMA VisibleIs ==
    ASSUME NEW m \in Mounts, NEW e \in Visible(m)
    PROVE  /\ e \in Seq(Names)
           /\ m = "root" => ~Begins(e)
<1>1. PICK p \in Paths : FindMountpoint(p) = m /\ e = RemovePrefix(p, m)
  BY DEF Visible
<1>2. e \in Seq(Names)
  BY <1>1, PathsAssumption, LocalIs
<1>3. m = "root" => ~Begins(e)
  BY <1>1 DEF FindMountpoint, RemovePrefix
<1> QED
  BY <1>2, <1>3

LEMMA UpIs ==
    ASSUME NEW m \in Mounts, NEW e \in Seq(Names)
    PROVE  /\ Up(m, e) \in Seq(Names)
           /\ m = "root" => Up(m, e) = e
           /\ m = "sub" => /\ Len(Up(m, e)) = Len(e) + 1
                           /\ Up(m, e)[1] = MountName
                           /\ \A i \in 1 .. Len(e) : Up(m, e)[i + 1] = e[i]
                           /\ Tail(Up(m, e)) = e
                           /\ Up(m, e) # <<>>
<1>1. CASE m = "root"
  BY <1>1 DEF Up
<1>2. CASE m = "sub"
  <2> DEFINE c == <<MountName>> \o e
  <2>1. <<MountName>> \in Seq(Names) /\ Len(<<MountName>>) = 1 /\ <<MountName>>[1] = MountName
    BY NamesAssumption
  <2>2. /\ c \in Seq(Names) /\ Len(c) = 1 + Len(e)
        /\ \A i \in 1 .. Len(c) : c[i] = IF i <= 1 THEN MountName ELSE e[i - 1]
    BY <2>1, ConcatProperties
  <2>3. Len(e) \in Nat
    OBVIOUS
  <2> HIDE DEF c
  <2>4. c[1] = MountName /\ \A i \in 1 .. Len(e) : c[i + 1] = e[i]
    BY <2>2, <2>3
  <2>5. c # <<>>
    BY <2>2, <2>3
  <2>6. /\ Tail(c) \in Seq(Names) /\ Len(Tail(c)) = Len(e)
        /\ \A i \in 1 .. Len(e) : Tail(c)[i] = c[i + 1]
    BY <2>2, <2>3, <2>5
  <2>7. Tail(c) = e
    <3> DEFINE d == Tail(c)
    <3>1. d \in Seq(Names) /\ Len(d) = Len(e) /\ \A i \in 1 .. Len(e) : d[i] = e[i]
      BY <2>4, <2>6
    <3> HIDE DEF d
    <3>2. d = e
      BY <3>1, SeqEqual
    <3> QED
      BY <3>2 DEF d
  <2> QED
    BY <1>2, <2>2, <2>3, <2>4, <2>5, <2>7 DEF Up, c
<1> QED
  BY <1>1, <1>2 DEF Mounts

\* A canonical path and the path of a file system are each other's.
LEMMA UpLocal ==
    ASSUME NEW m \in Mounts, NEW e \in Seq(Names), m = "root" => ~Begins(e)
    PROVE  FindMountpoint(Up(m, e)) = m /\ RemovePrefix(Up(m, e), m) = e
<1>1. CASE m = "root"
  BY <1>1 DEF Up, FindMountpoint, RemovePrefix
<1>2. CASE m = "sub"
  <2> DEFINE c == Up(m, e)
  <2>1. c # <<>> /\ c[1] = MountName /\ Tail(c) = e
    BY <1>2, UpIs
  <2> HIDE DEF c
  <2>2. FindMountpoint(c) = m /\ RemovePrefix(c, m) = e
    BY <1>2, <2>1 DEF FindMountpoint, RemovePrefix, Begins
  <2> QED
    BY <2>2 DEF c
<1> QED
  BY <1>1, <1>2 DEF Mounts

LEMMA CanonicalUp ==
    ASSUME NEW p \in Paths
    PROVE  LET m == FindMountpoint(p)
           IN  /\ m \in Mounts /\ RemovePrefix(p, m) \in Visible(m)
               /\ Canonical(p) = Up(m, RemovePrefix(p, m))
<1>1. CASE Begins(p)
  <2>1. FindMountpoint(p) = "sub" /\ "sub" \in Mounts
    BY <1>1 DEF FindMountpoint, Mounts
  <2> QED
    BY <1>1, <2>1 DEF Visible, Canonical, Up
<1>2. CASE ~Begins(p)
  <2>1. FindMountpoint(p) = "root" /\ "root" \in Mounts /\ RemovePrefix(p, "root") = p
    BY <1>2 DEF FindMountpoint, Mounts, RemovePrefix
  <2> QED
    BY <1>2, <2>1 DEF Visible, Canonical, Up
<1> QED
  BY <1>1, <1>2

LEMMA CanonicalsAre ==
    /\ \A m \in Mounts : \A e \in Visible(m) : Up(m, e) \in Canonicals
    /\ \A c \in Canonicals : \E m \in Mounts : \E e \in Visible(m) : c = Up(m, e)
<1>1. ASSUME NEW m \in Mounts, NEW e \in Visible(m)
      PROVE  Up(m, e) \in Canonicals
  <2>1. PICK p \in Paths : FindMountpoint(p) = m /\ e = RemovePrefix(p, m)
    BY DEF Visible
  <2> QED
    BY <2>1, CanonicalUp DEF Canonicals
<1>2. ASSUME NEW c \in Canonicals
      PROVE  \E m \in Mounts : \E e \in Visible(m) : c = Up(m, e)
  <2>1. PICK p \in Paths : c = Canonical(p)
    BY DEF Canonicals
  <2> QED
    BY <2>1, CanonicalUp
<1> QED
  BY <1>1, <1>2

LEMMA BeginsPrefix ==
    ASSUME NEW p \in Seq(Names), NEW q \in Seq(Names), p # <<>>, IsPrefix(p, q)
    PROVE  Begins(p) <=> Begins(q)
<1>1. Len(p) \in Nat /\ Len(p) >= 1 /\ Len(p) <= Len(q) /\ p[1] = q[1]
  BY EmptyIs, PrefixIs
<1>2. q # <<>>
  BY <1>1
<1> QED
  BY <1>1, <1>2 DEF Begins

\* One path begins another of its own file system alike in both, and one of the other
\* file system only if it is the root.
LEMMA UpPrefix ==
    ASSUME NEW m \in Mounts, NEW a \in Seq(Names), NEW b \in Seq(Names)
    PROVE  IsPrefix(Up(m, a), Up(m, b)) <=> IsPrefix(a, b)
<1>1. CASE m = "root"
  BY <1>1 DEF Up
<1>2. CASE m = "sub"
  <2> DEFINE c == Up(m, a)
             d == Up(m, b)
  <2>1. /\ c \in Seq(Names) /\ d \in Seq(Names) /\ c[1] = MountName /\ d[1] = MountName
        /\ Len(c) = Len(a) + 1 /\ Len(d) = Len(b) + 1
        /\ \A i \in 1 .. Len(a) : c[i + 1] = a[i]
        /\ \A i \in 1 .. Len(b) : d[i + 1] = b[i]
        /\ Len(a) \in Nat /\ Len(b) \in Nat
    <3>1. /\ c \in Seq(Names) /\ c[1] = MountName /\ Len(c) = Len(a) + 1
          /\ \A i \in 1 .. Len(a) : c[i + 1] = a[i]
      BY <1>2, UpIs
    <3>2. /\ d \in Seq(Names) /\ d[1] = MountName /\ Len(d) = Len(b) + 1
          /\ \A i \in 1 .. Len(b) : d[i + 1] = b[i]
      BY <1>2, UpIs
    <3> HIDE DEF c, d
    <3> QED
      BY <3>1, <3>2
  <2> HIDE DEF c, d
  <2>2. ASSUME IsPrefix(c, d) PROVE IsPrefix(a, b)
    <3>1. Len(c) <= Len(d) /\ \A i \in 1 .. Len(c) : c[i] = d[i]
      BY <2>1, <2>2, PrefixIs
    <3>2. Len(a) <= Len(b)
      BY <2>1, <3>1
    <3>3. ASSUME NEW i \in 1 .. Len(a) PROVE a[i] = b[i]
      <4>1. i + 1 \in 1 .. Len(c) /\ i \in 1 .. Len(b)
        BY <2>1, <3>2
      <4> QED
        BY <2>1, <3>1, <4>1
    <3> QED
      BY <3>2, <3>3, PrefixIs
  <2>3. ASSUME IsPrefix(a, b) PROVE IsPrefix(c, d)
    <3>1. Len(a) <= Len(b) /\ \A i \in 1 .. Len(a) : a[i] = b[i]
      BY <2>3, PrefixIs
    <3>2. Len(c) <= Len(d)
      BY <2>1, <3>1
    <3>3. ASSUME NEW i \in 1 .. Len(c) PROVE c[i] = d[i]
      <4>1. CASE i = 1
        BY <2>1, <4>1
      <4>2. CASE i # 1
        <5>1. i - 1 \in 1 .. Len(a) /\ i - 1 \in 1 .. Len(b) /\ (i - 1) + 1 = i
          BY <2>1, <3>1, <4>2
        <5>2. c[i] = a[i - 1]
          BY <2>1, <5>1
        <5>3. d[i] = b[i - 1]
          BY <2>1, <5>1
        <5> QED
          BY <3>1, <5>1, <5>2, <5>3
      <4> QED
        BY <4>1, <4>2
    <3> QED
      BY <2>1, <3>2, <3>3, PrefixIs
  <2> QED
    BY <2>2, <2>3 DEF c, d
<1> QED
  BY <1>1, <1>2 DEF Mounts

LEMMA UpApart ==
    ASSUME NEW m \in Mounts, NEW n \in Mounts, m # n, NEW a \in Visible(m), NEW b \in Visible(n)
    PROVE  IsPrefix(Up(m, a), Up(n, b)) => m = "root" /\ a = <<>>
<1> SUFFICES ASSUME IsPrefix(Up(m, a), Up(n, b)), m # "root" \/ a # <<>> PROVE FALSE
  OBVIOUS
<1> DEFINE c == Up(m, a)
           d == Up(n, b)
<1>1. a \in Seq(Names) /\ b \in Seq(Names)
  BY VisibleIs
<1>2. c \in Seq(Names) /\ d \in Seq(Names) /\ c # <<>>
  BY <1>1, UpIs DEF Mounts
<1>3. FindMountpoint(c) = m /\ FindMountpoint(d) = n
  BY <1>1, UpLocal, VisibleIs
<1> HIDE DEF c, d
<1>4. Begins(c) <=> Begins(d)
  BY <1>2, BeginsPrefix DEF c, d
<1> QED
  BY <1>3, <1>4 DEF FindMountpoint

------------------------------------------------------------------------------
(* The tree that the application sees *)

LEMMA UpUnique ==
    ASSUME NEW m \in Mounts, NEW n \in Mounts, NEW a \in Visible(m), NEW b \in Visible(n),
           Up(m, a) = Up(n, b)
    PROVE  m = n /\ a = b
BY UpLocal, VisibleIs

LEMMA SeenAt ==
    ASSUME NEW m \in Mounts, NEW e \in Seq(Names), m = "root" => ~Begins(e),
           Up(m, e) \in Canonicals
    PROVE  Seen[Up(m, e)] = Kind(tree[m], e) /\ Seen'[Up(m, e)] = Kind(tree'[m], e)
           /\ Area[Up(m, e)] = m
BY UpLocal DEF Seen, Area

LEMMA SeenIs ==
    ASSUME NEW m \in Mounts, NEW e \in Visible(m)
    PROVE  /\ Up(m, e) \in Canonicals /\ Area[Up(m, e)] = m
           /\ Seen[Up(m, e)] = Kind(tree[m], e) /\ Seen'[Up(m, e)] = Kind(tree'[m], e)
BY SeenAt, VisibleIs, CanonicalsAre

LEMMA SeenDomain ==
    /\ DOMAIN Seen = Canonicals /\ Seen = [c \in Canonicals |-> Seen[c]]
    /\ DOMAIN Seen' = Canonicals /\ Seen' = [c \in Canonicals |-> Seen'[c]]
BY DEF Seen

LEMMA ParentUp ==
    ASSUME NEW m \in Mounts, NEW e \in Visible(m)
    PROVE  /\ e # <<>> => /\ Front(e) \in Visible(m)
                          /\ Promise!Parent(Up(m, e)) = Up(m, Front(e))
           /\ e = <<>> => Promise!Parent(Up(m, e)) = <<>>
<1>1. e \in Seq(Names)
  BY VisibleIs
<1>2. e # <<>> => Front(e) \in Visible(m)
  BY ClosedAssumption
<1>3. CASE m = "root"
  BY <1>2, <1>3 DEF Up, Promise!Parent, Promise!Front, Front
<1>4. CASE m = "sub"
  <2> DEFINE c == Up(m, e)
             n == Len(e)
  <2>1. /\ c \in Seq(Names) /\ Len(c) = n + 1 /\ c[1] = MountName /\ c # <<>>
        /\ \A i \in 1 .. n : c[i + 1] = e[i]
    BY <1>1, <1>4, UpIs
  <2>2. n \in Nat /\ (n = 0 <=> e = <<>>)
    BY <1>1, EmptyIs
  <2> HIDE DEF c, n
  <2>3. Promise!Parent(c) = Front(c)
    BY <2>1 DEF Promise!Parent, Promise!Front, Front
  <2>4. /\ Front(c) \in Seq(Names) /\ Len(Front(c)) = n
        /\ \A i \in 1 .. n : Front(c)[i] = c[i]
    <3>1. /\ Front(c) \in Seq(Names) /\ Len(Front(c)) = Len(c) - 1
          /\ \A i \in 1 .. Len(c) - 1 : Front(c)[i] = c[i]
      BY <2>1, FrontIs
    <3>2. Len(c) - 1 = n
      BY <2>1, <2>2
    <3> QED
      BY <3>1, <3>2
  <2>5. CASE e = <<>>
    <3>1. Front(c) = <<>>
      BY <2>2, <2>4, <2>5, EmptyIs
    <3> QED
      BY <2>3, <2>5, <3>1 DEF c
  <2>6. CASE e # <<>>
    <3> DEFINE f == Front(e)
               d == Up(m, f)
    <3>1. f \in Seq(Names) /\ Len(f) = n - 1 /\ \A i \in 1 .. n - 1 : f[i] = e[i]
      BY <1>1, <2>6, FrontIs DEF n
    <3> HIDE DEF f
    <3>2. /\ d \in Seq(Names) /\ Len(d) = Len(f) + 1 /\ d[1] = MountName
          /\ \A i \in 1 .. Len(f) : d[i + 1] = f[i]
      BY <1>4, <3>1, UpIs
    <3> HIDE DEF d
    <3>3. Len(d) = n
      BY <2>2, <3>1, <3>2
    <3>4. ASSUME NEW i \in 1 .. n PROVE Front(c)[i] = d[i]
      <4>1. CASE i = 1
        BY <2>1, <2>4, <3>2, <4>1
      <4>2. CASE i # 1
        <5>1. i - 1 \in 1 .. Len(f) /\ i - 1 \in 1 .. n /\ i - 1 \in 1 .. n - 1 /\ (i - 1) + 1 = i
          BY <2>2, <3>1, <4>2
        <5>2. d[i] = f[i - 1]
          BY <3>2, <5>1
        <5>3. c[i] = e[i - 1]
          BY <2>1, <5>1
        <5> QED
          BY <2>4, <3>1, <5>1, <5>2, <5>3
      <4> QED
        BY <4>1, <4>2
    <3>5. Front(c) = d
      BY <2>4, <3>2, <3>3, <3>4, SeqEqual
    <3> QED
      BY <1>2, <2>3, <2>6, <3>5 DEF c, d, f
  <2> QED
    BY <2>5, <2>6
<1> QED
  BY <1>3, <1>4 DEF Mounts

LEMMA RootSeen ==
    /\ <<>> \in Visible("root") /\ Up("root", <<>>) = <<>>
    /\ <<>> \in Canonicals /\ Seen[<<>>] = "dir" /\ Area[<<>>] = "root"
<1>1. <<>> \in Paths /\ ~Begins(<<>>)
  BY PathsAssumption DEF Begins
<1>2. <<>> \in Visible("root") /\ "root" \in Mounts /\ Up("root", <<>>) = <<>>
  BY <1>1 DEF Visible, FindMountpoint, RemovePrefix, Mounts, Up
<1>3. /\ Up("root", <<>>) \in Canonicals /\ Area[Up("root", <<>>)] = "root"
      /\ Seen[Up("root", <<>>)] = Kind(tree["root"], <<>>)
  BY <1>2, SeenIs
<1> QED
  BY <1>2, <1>3, EmptyKind

LEMMA TopUp ==
    ASSUME NEW m \in Mounts, NEW e \in Visible(m)
    PROVE  Promise!Top(Up(m, e)) <=> e = <<>>
<1>1. e \in Seq(Names)
  BY VisibleIs
<1>2. Area[Up(m, e)] = m
  BY SeenIs
<1>3. CASE e = <<>>
  <2>1. CASE m = "root"
    BY <1>3, <2>1 DEF Up, Promise!Top
  <2>2. CASE m = "sub"
    <3>1. Up(m, e) # <<>>
      BY <1>1, <2>2, UpIs
    <3>2. Front(Up(m, e)) = <<>>
      BY <1>3, <3>1, ParentUp DEF Promise!Parent, Promise!Front, Front
    <3> QED
      BY <1>2, <1>3, <2>2, <3>2, RootSeen DEF Promise!Top, Promise!Front, Front
  <2> QED
    BY <2>1, <2>2 DEF Mounts
<1>4. CASE e # <<>>
  <2>1. Up(m, e) # <<>>
    BY <1>1, <1>4, UpIs DEF Mounts
  <2>2. Front(e) \in Visible(m) /\ Front(Up(m, e)) = Up(m, Front(e))
    BY <1>4, <2>1, ParentUp DEF Promise!Parent, Promise!Front, Front
  <2>3. Area[Front(Up(m, e))] = m
    BY <2>2, SeenIs
  <2> QED
    BY <1>2, <1>4, <2>1, <2>3 DEF Promise!Top, Promise!Front, Front
<1> QED
  BY <1>3, <1>4

LEMMA UnderUp ==
    ASSUME NEW m \in Mounts, NEW n \in Mounts, NEW e \in Visible(m), NEW d \in Visible(n), e # <<>>
    PROVE  Up(n, d) \in Promise!Under(Up(m, e)) <=> n = m /\ IsPrefix(e, d)
<1>1. Up(n, d) \in Canonicals /\ e \in Seq(Names) /\ d \in Seq(Names)
  BY SeenIs, VisibleIs
<1>2. Up(n, d) \in Promise!Under(Up(m, e)) <=> IsPrefix(Up(m, e), Up(n, d))
  BY <1>1 DEF Promise!Under, Promise!IsPrefix, IsPrefix
<1>3. CASE n = m
  BY <1>1, <1>2, <1>3, UpPrefix
<1>4. CASE n # m
  BY <1>2, <1>4, UpApart
<1> QED
  BY <1>3, <1>4

\* What lies below a name can be named too.
LEMMA EmptyUp ==
    ASSUME TypeOK, AllVisible, NEW m \in Mounts, NEW e \in Visible(m), e # <<>>
    PROVE  Promise!Empty(Up(m, e)) <=> Within(tree[m], e) = {}
<1> DEFINE t == tree[m]
<1>0. e \in Seq(Names) /\ (m = "root" => ~Begins(e)) /\ IsTree(t)
  BY VisibleIs DEF TypeOK
<1>1. ASSUME Promise!Empty(Up(m, e)), NEW q \in Within(t, e)
      PROVE  FALSE
  <2>1. q \in DOMAIN t /\ IsPrefix(e, q) /\ q # e /\ q \in Seq(Names)
    BY <1>0, <1>1 DEF Within, Subtree, IsTree
  <2>2. q \in Visible(m)
    <3>1. m = "root" => ~Begins(q)
      BY <1>0, <2>1, BeginsPrefix
    <3> QED
      BY <2>1, <3>1 DEF AllVisible
  <2>3. Up(m, q) \in Promise!Under(Up(m, e)) /\ Up(m, q) # Up(m, e)
    BY <2>1, <2>2, UnderUp, UpUnique
  <2>4. Seen[Up(m, q)] = "none"
    BY <1>1, <2>3 DEF Promise!Empty
  <2>5. Kind(t, q) # "none"
    BY <1>0, <2>1, KindIs
  <2> QED
    BY <2>2, <2>4, <2>5, SeenIs
<1>2. ASSUME Within(t, e) = {}
      PROVE  Promise!Empty(Up(m, e))
  <2> SUFFICES ASSUME NEW c \in Promise!Under(Up(m, e)), c # Up(m, e) PROVE Seen[c] = "none"
    BY DEF Promise!Empty
  <2>1. c \in Canonicals
    BY DEF Promise!Under
  <2>2. PICK n \in Mounts : \E d \in Visible(n) : c = Up(n, d)
    BY <2>1, CanonicalsAre
  <2>a. PICK d \in Visible(n) : c = Up(n, d)
    BY <2>2
  <2>3. n = m /\ IsPrefix(e, d) /\ d # e
    BY <2>a, UnderUp
  <2>4. d \in Seq(Names) /\ d # <<>>
    <3>1. d \in Seq(Names)
      BY VisibleIs
    <3>2. Len(e) >= 1 /\ Len(e) <= Len(d)
      BY <1>0, <2>3, <3>1, EmptyIs, PrefixIs
    <3> QED
      BY <3>1, <3>2, EmptyIs
  <2>5. Kind(t, d) = "none"
    BY <1>0, <1>2, <2>3, <2>4 DEF Within, Subtree, Kind
  <2> QED
    BY <2>a, <2>3, <2>5, SeenIs
<1> QED
  BY <1>1, <1>2

\* One name changes, or none.
LEMMA SeenChange ==
    ASSUME TypeOK, NEW m \in Mounts, NEW e \in Visible(m), NEW u, NEW kind,
           tree' = [tree EXCEPT ![m] = u],
           \A d \in Visible(m) : Kind(u, d) = IF d = e THEN kind ELSE Kind(tree[m], d)
    PROVE  Seen' = [Seen EXCEPT ![Up(m, e)] = kind]
<1>1. \A n \in Mounts : tree'[n] = IF n = m THEN u ELSE tree[n]
  BY DEF TypeOK
<1>2. ASSUME NEW c \in Canonicals
      PROVE  Seen'[c] = IF c = Up(m, e) THEN kind ELSE Seen[c]
  <2>0. PICK n \in Mounts : \E d \in Visible(n) : c = Up(n, d)
    BY CanonicalsAre
  <2>1. PICK d \in Visible(n) : c = Up(n, d)
    BY <2>0
  <2>2. Seen'[c] = Kind(tree'[n], d) /\ Seen[c] = Kind(tree[n], d)
    BY <2>1, SeenIs
  <2>3. c = Up(m, e) <=> n = m /\ d = e
    BY <2>1, UpUnique
  <2> QED
    BY <1>1, <2>1, <2>2, <2>3
<1>3. Seen' = [c \in Canonicals |-> IF c = Up(m, e) THEN kind ELSE Seen[c]]
  BY <1>2, SeenDomain
<1> QED
  BY <1>3, SeenDomain

------------------------------------------------------------------------------
(* Each call keeps the promise *)

LEMMA CallIs ==
    ASSUME NEW op, NEW p, NEW q, NEW answer, NEW found,
           last' = [op |-> op, path |-> p, new |-> q, answer |-> answer, found |-> found]
    PROVE  /\ Call'.op = op /\ Call'.path = Canonical(p) /\ Call'.new = Canonical(q)
           /\ Call'.answer = Errno(answer) /\ Call'.found = found
BY DEF Call

\* A call at path e of file system m, which the application writes c.
CallAt(op, m, e, o) ==
    /\ m \in Mounts /\ e \in Visible(m)
    /\ Answers(op, tree[m], e, o) /\ tree' = [tree EXCEPT ![m] = o.tree]
    /\ Call'.op = op /\ Call'.path = Up(m, e) /\ Call'.new = Up(m, e)
    /\ Call'.answer = Errno(o.res) /\ Call'.found = o.found

LEMMA CallAtIs ==
    ASSUME NEW op, NEW p \in Paths, PathCall(op, p)
    PROVE  \E m, e, o : CallAt(op, m, e, o)
<1> DEFINE m == FindMountpoint(p)
           e == RemovePrefix(p, m)
<1>1. m \in Mounts /\ e \in Visible(m) /\ Canonical(p) = Up(m, e)
  BY CanonicalUp
<1>2. PICK o : /\ Answers(op, tree[m], e, o)
               /\ tree' = [tree EXCEPT ![m] = o.tree]
               /\ last' = [op |-> op, path |-> p, new |-> p, answer |-> o.res, found |-> o.found]
  BY DEF PathCall
<1> HIDE DEF m, e
<1>3. /\ Call'.op = op /\ Call'.path = Canonical(p) /\ Call'.new = Canonical(p)
      /\ Call'.answer = Errno(o.res) /\ Call'.found = o.found
  BY <1>2, CallIs
<1> QED
  BY <1>1, <1>2, <1>3 DEF CallAt

LEMMA SameTree ==
    ASSUME TypeOK, NEW m \in Mounts, tree' = [tree EXCEPT ![m] = tree[m]]
    PROVE  Seen' = Seen
<1>1. \A n \in Mounts : tree'[n] = tree[n]
  BY DEF TypeOK
<1>2. ASSUME NEW c \in Canonicals PROVE Seen'[c] = Seen[c]
  BY <1>1, FindIs DEF Seen
<1> QED
  BY <1>2, SeenDomain

\* The tree of a call that succeeds, as the application sees it.
LEMMA SeenAlters ==
    ASSUME TypeOK, NEW op, NEW m, NEW e, NEW o, CallAt(op, m, e, o),
           Alters(op, tree[m], e, o.tree)
    PROVE  LET new == IF op = "mkdir" THEN "dir" ELSE IF op = "creat" THEN "file" ELSE "none"
           IN  Seen' = [Seen EXCEPT ![Up(m, e)] = new]
<1> DEFINE new == IF op = "mkdir" THEN "dir" ELSE IF op = "creat" THEN "file" ELSE "none"
           t == tree[m]
<1>1. /\ m \in Mounts /\ e \in Visible(m) /\ IsTree(t)
      /\ tree' = [tree EXCEPT ![m] = o.tree]
  BY DEF CallAt, TypeOK
<1>2. CASE op \in {"mkdir", "creat"}
  <2>1. e # <<>> /\ o.tree = Add(t, e, new)
    BY <1>2 DEF Alters, Grows
  <2> HIDE DEF new, t
  <2>2. \A d \in Visible(m) : Kind(o.tree, d) = IF d = e THEN new ELSE Kind(t, d)
    BY <2>1, KindAdd
  <2>3. Seen' = [Seen EXCEPT ![Up(m, e)] = new]
    BY <1>1, <2>2, SeenChange DEF t
  <2> QED
    BY <2>3 DEF new
<1>3. CASE op \in {"unlink", "rmdir"}
  <2>1. e # <<>> /\ o.tree = Cut(t, {e}) /\ new = "none"
    BY <1>1, <1>3 DEF Alters, Shrinks, IsTree
  <2> HIDE DEF new, t
  <2>2. \A d \in Visible(m) : Kind(o.tree, d) = IF d = e THEN new ELSE Kind(t, d)
    BY <2>1, KindCut
  <2>3. Seen' = [Seen EXCEPT ![Up(m, e)] = new]
    BY <1>1, <2>2, SeenChange DEF t
  <2> QED
    BY <2>3 DEF new
<1> QED
  BY <1>2, <1>3 DEF Alters

LEMMA CallOk ==
    ASSUME TypeOK, AllVisible, NEW op, NEW m, NEW e, NEW o, CallAt(op, m, e, o),
           Alters(op, tree[m], e, o.tree)
    PROVE  Promise!Make("dir") \/ Promise!Make("file") \/ Promise!Drop
<1> DEFINE t == tree[m]
           c == Up(m, e)
<1>1. /\ m \in Mounts /\ e \in Visible(m) /\ IsTree(t)
      /\ Call'.op = op /\ Call'.path = c
  BY DEF CallAt, TypeOK
<1>2. Seen[c] = Kind(t, e)
  BY <1>1, SeenIs
<1>3. ASSUME NEW kind \in {"dir", "file"}, op = (IF kind = "dir" THEN "mkdir" ELSE "creat")
      PROVE  Promise!Make(kind)
  <2>1. e # <<>> /\ Kind(t, e) = "none" /\ Kind(t, Front(e)) = "dir"
    BY <1>3 DEF Alters, Grows
  <2>2. Front(e) \in Visible(m) /\ Promise!Parent(c) = Up(m, Front(e))
    BY <1>1, <2>1, ParentUp
  <2>3. Seen[Promise!Parent(c)] = "dir"
    BY <1>1, <2>1, <2>2, SeenIs
  <2>4. Seen' = [Seen EXCEPT ![c] = kind]
    BY <1>3, SeenAlters
  <2> HIDE DEF t, c
  <2> QED
    BY <1>1, <1>2, <1>3, <2>1, <2>3, <2>4 DEF Promise!Make
<1>4. ASSUME op \in {"unlink", "rmdir"}
      PROVE  Promise!Drop
  <2>1. e \in DOMAIN t /\ Within(t, e) = {}
    BY <1>4 DEF Alters, Shrinks
  <2>2. e # <<>> /\ Kind(t, e) # "none"
    BY <1>1, <2>1, KindIs
  <2>3. Promise!Empty(c) /\ ~Promise!Top(c)
    BY <1>1, <2>1, <2>2, EmptyUp, TopUp
  <2>4. Seen' = [Seen EXCEPT ![c] = "none"]
    BY <1>4, SeenAlters
  <2> HIDE DEF t, c
  <2> QED
    BY <1>1, <1>2, <1>4, <2>2, <2>3, <2>4 DEF Promise!Drop
<1> QED
  BY <1>3, <1>4 DEF Alters

\* An open that creates nothing, and what stat finds.
LEMMA CallFinds ==
    ASSUME TypeOK, NEW op, NEW m, NEW e, NEW o, CallAt(op, m, e, o), o.tree = tree[m]
    PROVE  /\ op = "creat" /\ Kind(tree[m], e) = "file" => Promise!Make("file")
           /\ op = "stat" /\ o.found = {Kind(tree[m], e)} => Promise!Stat
<1> DEFINE t == tree[m]
           c == Up(m, e)
<1>1. /\ m \in Mounts /\ e \in Visible(m) /\ e \in Seq(Names) /\ IsTree(t)
      /\ Call'.op = op /\ Call'.path = c /\ Call'.found = o.found
  BY VisibleIs DEF CallAt, TypeOK
<1>2. c \in Canonicals /\ Seen[c] = Kind(t, e) /\ Seen' = Seen
  BY <1>1, SeenIs, SameTree DEF CallAt
<1>3. ASSUME op = "creat", Kind(t, e) = "file"
      PROVE  Promise!Make("file")
  <2>1. e # <<>>
    BY <1>3 DEF Kind
  <2>2. Kind(t, Front(e)) = "dir"
    BY <1>1, <1>3, <2>1, ParentIs
  <2>3. Front(e) \in Visible(m) /\ Promise!Parent(c) = Up(m, Front(e))
    BY <1>1, <2>1, ParentUp
  <2>4. Seen[Promise!Parent(c)] = "dir"
    BY <1>1, <2>2, <2>3, SeenIs
  <2> HIDE DEF t, c
  <2>5. Seen' = [Seen EXCEPT ![c] = "file"]
    BY <1>2, <1>3, SeenDomain
  <2> QED
    BY <1>1, <1>2, <1>3, <2>4, <2>5 DEF Promise!Make
<1>4. ASSUME op = "stat", o.found = {Kind(t, e)}
      PROVE  Promise!Stat
  <2> HIDE DEF t, c
  <2> QED
    BY <1>1, <1>2, <1>4 DEF Promise!Stat
<1> QED
  BY <1>3, <1>4

\* An error.
LEMMA CallRefused ==
    ASSUME TypeOK, AllVisible, NEW op, op # "rename", NEW m, NEW e, NEW o, CallAt(op, m, e, o),
           o.tree = tree[m], Says(op, tree[m], e, o.res)
    PROVE  Promise!Refuse /\ Call'.answer \notin {"ok", "EIO"}
<1> DEFINE t == tree[m]
           c == Up(m, e)
           a == Errno(o.res)
<1>1. /\ m \in Mounts /\ e \in Visible(m) /\ e \in Seq(Names) /\ IsTree(t)
      /\ Call'.op = op /\ Call'.path = c /\ Call'.new = c /\ Call'.answer = a
  BY VisibleIs DEF CallAt, TypeOK
<1>2. c \in Canonicals /\ Seen[c] = Kind(t, e) /\ Seen' = Seen
  BY <1>1, SeenIs, SameTree DEF CallAt
<1>3. Promise!Top(c) <=> e = <<>>
  BY <1>1, TopUp
<1>4. e # <<>> => (Promise!Empty(c) <=> Within(t, e) = {})
  BY <1>1, EmptyUp
<1>5. e # <<>> => Seen[Promise!Parent(c)] = Kind(t, Front(e))
  BY <1>1, ParentUp, SeenIs
<1>6. Says(op, t, e, o.res)
  OBVIOUS
<1> HIDE DEF t, c
<1>7. \/ a = "ENOENT" /\ Seen[c] = "none"
      \/ a = "ENOTDIR" /\ \/ Seen[c] = "none" \/ (op = "readdir" /\ Seen[c] = "file")
                          \/ Seen[Promise!Parent(c)] # "dir"
      \/ a = "EEXIST" /\ Seen[c] # "none"
      \/ a = "EISDIR" /\ Seen[c] = "dir"
      \/ a = "ENOTEMPTY" /\ ~Promise!Empty(c)
      \/ a = "EACCES" /\ (op \in {"unlink", "rmdir"} => ~Promise!Empty(c))
      \/ a = "EINVAL" /\ Promise!Top(c)
      \/ a = "ENOSPC" /\ op \notin {"unlink", "rmdir"}
  BY <1>2, <1>3, <1>4, <1>5, <1>6 DEF Says, Errno
<1> HIDE DEF a
<1> QED
  BY <1>1, <1>2, <1>7 DEF Promise!Refuse

LEMMA CallFailed ==
    ASSUME TypeOK, NEW op, op # "rename", NEW m, NEW e, NEW o, CallAt(op, m, e, o),
           o.res = "EIO", o.tree = tree[m] \/ Alters(op, tree[m], e, o.tree)
    PROVE  Promise!Stray
<1>1. Call'.answer = "EIO" /\ Call'.op = op /\ Call'.path = Up(m, e)
  BY DEF CallAt, Errno
<1>2. \A x \in Canonicals : x = Up(m, e) \/ Seen'[x] = Seen[x]
  <2>1. CASE o.tree = tree[m]
    BY <2>1, SameTree DEF CallAt
  <2>2. CASE Alters(op, tree[m], e, o.tree)
    <3>1. PICK new : Seen' = [Seen EXCEPT ![Up(m, e)] = new]
      BY <2>2, SeenAlters
    <3> QED
      BY <3>1, SeenDomain
  <2> QED
    BY <2>1, <2>2
<1> QED
  BY <1>1, <1>2 DEF Promise!Stray

------------------------------------------------------------------------------
(* readdir *)

LEMMA AppendIs ==
    ASSUME NEW q \in Seq(Names), q # <<>>
    PROVE  q = Append(Front(q), Last(q)) /\ Last(q) \in Names
<1> DEFINE n == Len(q)
           f == Front(q)
<1>1. n \in Nat /\ n >= 1
  BY EmptyIs
<1>2. f \in Seq(Names) /\ Len(f) = n - 1 /\ \A i \in 1 .. n - 1 : f[i] = q[i]
  BY FrontIs
<1>3. Last(q) = q[n] /\ q[n] \in Names
  BY <1>1 DEF Last
<1> HIDE DEF f
<1>4. /\ Append(f, q[n]) \in Seq(Names) /\ Len(Append(f, q[n])) = n
      /\ \A i \in 1 .. n : Append(f, q[n])[i] = q[i]
  BY <1>1, <1>2, <1>3
<1> DEFINE a == Append(f, q[n])
<1>5. a \in Seq(Names) /\ Len(a) = Len(q) /\ \A i \in 1 .. Len(q) : a[i] = q[i]
  BY <1>4
<1> HIDE DEF a
<1>6. a = q
  BY <1>5, SeqEqual
<1> QED
  BY <1>3, <1>6 DEF a, f

\* The names of a directory are those of the objects one step below it.
LEMMA EntryIs ==
    ASSUME NEW t, IsTree(t), NEW e \in Seq(Names), NEW n
    PROVE  n \in Entries(t, e) => n \in Names /\ Append(e, n) \in DOMAIN t
<1> SUFFICES ASSUME n \in Entries(t, e) PROVE n \in Names /\ Append(e, n) \in DOMAIN t
  OBVIOUS
<1>1. PICK q : q \in DOMAIN t /\ IsPrefix(e, q) /\ q # e /\ Len(q) = Len(e) + 1 /\ n = Last(q)
  BY DEF Entries, Within, Subtree
<1>2. q \in Seq(Names) /\ q # <<>>
  BY <1>1 DEF IsTree
<1>3. q = Append(Front(q), n) /\ n \in Names
  BY <1>1, <1>2, AppendIs
<1>4. IsPrefix(e, Front(q)) /\ Front(q) \in Seq(Names) /\ Len(Front(q)) = Len(q) - 1
  BY <1>1, <1>2, FrontIs
<1>5. Len(e) = Len(Front(q))
  BY <1>1, <1>4
<1>6. e = Front(q)
  <2>1. e = Front(q) \/ Len(e) < Len(Front(q))
    BY <1>4, PrefixOrder
  <2> QED
    BY <1>5, <2>1
<1> QED
  BY <1>1, <1>3, <1>6

LEMMA UpAppend ==
    ASSUME NEW m \in Mounts, NEW e \in Seq(Names), NEW n \in Names
    PROVE  Append(Up(m, e), n) = Up(m, Append(e, n))
<1>1. CASE m = "root"
  BY <1>1 DEF Up
<1>2. CASE m = "sub"
  <2> DEFINE a == Append(<<MountName>> \o e, n)
             b == <<MountName>> \o Append(e, n)
  <2>1. a = b
    BY NamesAssumption
  <2> QED
    BY <1>2, <2>1 DEF Up
<1> QED
  BY <1>1, <1>2 DEF Mounts

LEMMA CallLists ==
    ASSUME TypeOK, NEW m, NEW e, NEW o, CallAt("readdir", m, e, o), o.tree = tree[m],
           Kind(tree[m], e) = "dir", o.found = Entries(tree[m], e)
    PROVE  Promise!List
<1> DEFINE t == tree[m]
           c == Up(m, e)
           found == Entries(t, e)
<1>1. /\ m \in Mounts /\ e \in Visible(m) /\ e \in Seq(Names) /\ IsTree(t)
      /\ (m = "root" => ~Begins(e))
      /\ Call'.op = "readdir" /\ Call'.path = c /\ Call'.found = found
  BY VisibleIs DEF CallAt, TypeOK
<1>2. c \in Canonicals /\ Seen[c] = "dir" /\ Seen' = Seen
  BY <1>1, SeenIs, SameTree DEF CallAt
<1>3. c \in Seq(Names)
  BY <1>1, UpIs DEF Mounts
<1>4. ASSUME NEW n \in found, Append(c, n) \in Canonicals
      PROVE  Seen[Append(c, n)] # "none"
  <2> DEFINE q == Append(e, n)
  <2>1. n \in Names /\ q \in DOMAIN t
    BY <1>1, <1>4, EntryIs
  <2>2. Append(c, n) = Up(m, q) /\ q \in Seq(Names) /\ Kind(t, q) # "none"
    BY <1>1, <2>1, UpAppend, KindIs
  <2>3. CASE m = "root" => ~Begins(q)
    BY <1>1, <1>4, <2>2, <2>3, SeenAt
  <2>4. CASE m = "root" /\ Begins(q)
    <3>1. e = <<>>
      <4>1. IsPrefix(e, q)
        <5>1. Len(e) <= Len(q) /\ \A i \in 1 .. Len(e) : e[i] = q[i]
          BY <1>1, <2>1
        <5> QED
          BY <1>1, <2>2, <5>1, PrefixIs
      <4> QED
        BY <1>1, <2>2, <2>4, <4>1, BeginsPrefix
    <3>2. Len(q) = 1
      BY <3>1, <2>1
    <3>3. q \in Canonicals
      BY <1>4, <2>2, <2>4 DEF Up
    <3>4. PICK k \in Mounts : \E d \in Visible(k) : q = Up(k, d)
      BY <3>3, CanonicalsAre
    <3>5. PICK d \in Visible(k) : q = Up(k, d)
      BY <3>4
    <3>6. k = "sub" /\ d \in Seq(Names)
      BY <2>4, <3>5, VisibleIs DEF Mounts, Up
    <3>7. d = <<>>
      <4>1. Len(q) = Len(d) + 1
        BY <3>5, <3>6, UpIs
      <4>2. Len(d) \in Nat
        BY <3>6
      <4>3. Len(d) = 0
        BY <3>2, <4>1, <4>2
      <4> QED
        BY <3>6, <4>3, EmptyIs
    <3>8. Seen[q] = Kind(tree[k], d)
      BY <3>5, SeenIs
    <3>9. Append(c, n) = q
      BY <2>2, <2>4 DEF Up
    <3> QED
      BY <3>7, <3>8, <3>9, EmptyKind
  <2> QED
    BY <2>3, <2>4
<1>5. ASSUME NEW x \in Promise!Children(c), ~Promise!Top(x)
      PROVE  Last(x) \in found
  <2>1. x \in Canonicals /\ IsPrefix(c, x) /\ Len(x) = Len(c) + 1 /\ Seen[x] # "none"
    BY <1>5 DEF Promise!Children, Promise!Under, Promise!IsPrefix, IsPrefix
  <2>2. PICK k \in Mounts : \E d \in Visible(k) : x = Up(k, d)
    BY <2>1, CanonicalsAre
  <2>3. PICK d \in Visible(k) : x = Up(k, d)
    BY <2>2
  <2>4. d # <<>> /\ d \in Seq(Names)
    BY <1>5, <2>3, TopUp, VisibleIs
  <2>5. x \in Seq(Names) /\ Len(d) \in Nat /\ Len(d) >= 1
    BY <2>3, <2>4, UpIs, EmptyIs DEF Mounts
  <2>6. k = m
    <3> SUFFICES ASSUME k # m PROVE FALSE
      OBVIOUS
    <3>1. m = "root" /\ e = <<>>
      BY <1>1, <2>1, <2>3, UpApart
    <3>2. c = <<>> /\ k = "sub"
      BY <3>1 DEF Up, Mounts
    <3>3. Len(x) = Len(d) + 1 /\ Len(x) = 1
      <4>1. Len(x) = Len(d) + 1
        BY <2>3, <2>4, <3>2, UpIs
      <4>2. Len(c) = 0
        BY <1>3, <3>2, EmptyIs
      <4>3. Len(x) = Len(c) + 1
        BY <2>1
      <4> HIDE DEF c
      <4> QED
        BY <4>1, <4>2, <4>3
    <3>4. \A l \in Nat : l + 1 = 1 => l = 0
      OBVIOUS
    <3>5. Len(d) + 1 = 1
      BY <3>3
    <3>6. Len(d) = 0
      BY <2>5, <3>4, <3>5
    <3> QED
      BY <2>5, <3>6
  <2>7. IsPrefix(e, d)
    BY <1>1, <2>1, <2>3, <2>4, <2>6, UpPrefix
  <2>8. Len(d) = Len(e) + 1
    <3>1. CASE m = "root"
      BY <2>1, <2>3, <2>6, <3>1 DEF Up
    <3>2. CASE m = "sub"
      <4>1. Len(x) = Len(d) + 1 /\ Len(c) = Len(e) + 1 /\ Len(e) \in Nat
        <5>1. Len(x) = Len(d) + 1
          BY <2>3, <2>4, <2>6, <3>2, UpIs
        <5>2. Len(c) = Len(e) + 1
          BY <1>1, <3>2, UpIs
        <5> QED
          BY <1>1, <5>1, <5>2
      <4> QED
        BY <2>1, <2>5, <4>1
    <3> QED
      BY <1>1, <3>1, <3>2 DEF Mounts
  <2>9. d \in DOMAIN t
    <3>1. Kind(t, d) # "none"
      BY <2>1, <2>3, <2>6, SeenIs
    <3> QED
      BY <1>1, <2>4, <3>1, KindIs
  <2>10. Last(d) \in found
    <3>1. d # e
      BY <1>1, <2>5, <2>8
    <3> QED
      BY <2>7, <2>8, <2>9, <3>1 DEF Entries, Within, Subtree
  <2>11. Last(x) = Last(d)
    <3>1. CASE m = "root"
      BY <2>3, <2>6, <3>1 DEF Up
    <3>2. CASE m = "sub"
      <4>1. Len(x) = Len(d) + 1 /\ \A i \in 1 .. Len(d) : x[i + 1] = d[i]
        BY <2>3, <2>4, <2>6, <3>2, UpIs
      <4>2. x[Len(d) + 1] = d[Len(d)]
        BY <2>5, <4>1
      <4> QED
        BY <4>1, <4>2 DEF Last
    <3> QED
      BY <1>1, <3>1, <3>2 DEF Mounts
  <2> QED
    BY <2>10, <2>11
<1> HIDE DEF t, c, found
<1> QED
  BY <1>1, <1>2, <1>4, <1>5 DEF Promise!List, Promise!Last, Last

\* Every call with one path is one that the promise allows.
LEMMA PathKept ==
    ASSUME TypeOK, AllVisible, NEW op, op # "rename", NEW p \in Paths, PathCall(op, p)
    PROVE  Promise!Next
<1>1. PICK m, e, o : CallAt(op, m, e, o)
  BY CallAtIs
<1>2. Answers(op, tree[m], e, o) /\ Call'.answer = Errno(o.res) /\ Call'.op = op
  BY <1>1 DEF CallAt
<1>3. CASE o.res = "EIO" /\ (o.tree = tree[m] \/ Alters(op, tree[m], e, o.tree))
  <2>1. Promise!Stray
    BY <1>1, <1>3, CallFailed
  <2>2. Call'.answer = "EIO"
    BY <1>2, <1>3 DEF Errno
  <2> QED
    BY <2>1, <2>2 DEF Promise!Next
<1>4. CASE o.res = "ok" /\ Alters(op, tree[m], e, o.tree)
  <2>1. Promise!Make("dir") \/ Promise!Make("file") \/ Promise!Drop
    BY <1>1, <1>4, CallOk
  <2>2. Call'.answer = "ok"
    BY <1>2, <1>4 DEF Errno
  <2> QED
    BY <2>1, <2>2 DEF Promise!Next
<1>5. CASE /\ o.res = "ok" /\ o.tree = tree[m]
           /\ \/ op = "creat" /\ Kind(tree[m], e) = "file"
              \/ op = "stat" /\ o.found = {Kind(tree[m], e)}
  <2>1. Promise!Make("file") \/ Promise!Stat
    BY <1>1, <1>5, CallFinds
  <2>2. Call'.answer = "ok"
    BY <1>2, <1>5 DEF Errno
  <2> QED
    BY <2>1, <2>2 DEF Promise!Next
<1>6. CASE /\ o.res = "ok" /\ o.tree = tree[m] /\ op = "readdir" /\ Kind(tree[m], e) = "dir"
           /\ o.found = Entries(tree[m], e)
  <2>1. Promise!List
    BY <1>1, <1>6, CallLists
  <2>2. Call'.answer = "ok"
    BY <1>2, <1>6 DEF Errno
  <2> QED
    BY <2>1, <2>2 DEF Promise!Next
<1>7. CASE o.tree = tree[m] /\ Says(op, tree[m], e, o.res)
  <2>1. Promise!Refuse /\ Call'.answer \notin {"ok", "EIO"}
    BY <1>1, <1>7, CallRefused
  <2> QED
    BY <2>1 DEF Promise!Next
<1> QED
  BY <1>2, <1>3, <1>4, <1>5, <1>6, <1>7 DEF Answers

------------------------------------------------------------------------------
(* rename, as the application sees it *)

LEMMA SwapSame ==
    ASSUME NEW p \in Seq(Names), NEW s \in Seq(Names), IsPrefix(p, s)
    PROVE  Swap(p, p, s) = s
<1> DEFINE r == Swap(p, p, s)
<1>1. SwapAt(p, p, s, r)
  BY SwapIs
<1>2. Len(p) \in Nat /\ Len(s) \in Nat /\ Len(p) <= Len(s) /\ \A i \in 1 .. Len(p) : p[i] = s[i]
  BY PrefixIs
<1> HIDE DEF r
<1>3. r \in Seq(Names) /\ Len(r) = Len(s)
  BY <1>1, <1>2 DEF SwapAt
<1>4. ASSUME NEW i \in 1 .. Len(s) PROVE r[i] = s[i]
  <2>1. CASE i <= Len(p)
    BY <1>1, <1>2, <2>1 DEF SwapAt
  <2>2. CASE i > Len(p)
    <3>1. i \in Len(p) + 1 .. Len(r) /\ i - Len(p) + Len(p) = i
      BY <1>2, <1>3, <2>2
    <3>2. r[i] = s[i - Len(p) + Len(p)]
      BY <1>1, <3>1 DEF SwapAt
    <3> QED
      BY <3>1, <3>2
  <2> QED
    BY <2>1, <2>2
<1>5. r = s
  BY <1>3, <1>4, SeqEqual
<1> QED
  BY <1>5 DEF r

\* A move in a file system is one in the joined name space.
LEMMA UpSwap ==
    ASSUME NEW m \in Mounts, NEW to \in Seq(Names), NEW from \in Seq(Names), NEW d \in Seq(Names),
           IsPrefix(to, d)
    PROVE  Swap(Up(m, to), Up(m, from), Up(m, d)) = Up(m, Swap(to, from, d))
<1>1. CASE m = "root"
  BY <1>1 DEF Up
<1>2. CASE m = "sub"
  <2> DEFINE q == Up(m, to)
             p == Up(m, from)
             x == Up(m, d)
             s == Swap(to, from, d)
             a == Swap(q, p, x)
             b == Up(m, s)
             lt == Len(to)
             lf == Len(from)
             ld == Len(d)
  <2>1. lt \in Nat /\ lf \in Nat /\ ld \in Nat /\ lt <= ld
    BY PrefixIs
  <2>2. SwapAt(to, from, d, s)
    BY SwapIs
  <2>3. s \in Seq(Names) /\ Len(s) = lf + ld - lt
    BY <2>2 DEF SwapAt
  <2>4. q \in Seq(Names) /\ Len(q) = lt + 1
    BY <1>2, UpIs
  <2>5. /\ p \in Seq(Names) /\ Len(p) = lf + 1 /\ p[1] = MountName
        /\ \A i \in 1 .. lf : p[i + 1] = from[i]
    BY <1>2, UpIs
  <2>6. x \in Seq(Names) /\ Len(x) = ld + 1 /\ \A i \in 1 .. ld : x[i + 1] = d[i]
    BY <1>2, UpIs
  <2>7. IsPrefix(q, x)
    BY UpPrefix
  <2>8. SwapAt(q, p, x, a)
    <3> HIDE DEF q, p, x
    <3> QED
      BY <2>4, <2>5, <2>6, <2>7, SwapIs
  <2> HIDE DEF s
  <2>9. /\ b \in Seq(Names) /\ Len(b) = Len(s) + 1 /\ b[1] = MountName
        /\ \A i \in 1 .. Len(s) : b[i + 1] = s[i]
    BY <1>2, <2>3, UpIs
  <2>10. /\ \A i \in 1 .. lf : s[i] = from[i]
         /\ \A i \in lf + 1 .. Len(s) : s[i] = d[i - lf + lt]
    BY <2>2 DEF SwapAt
  <2> HIDE DEF q, p, x, a, b, lt, lf, ld
  <2>11. a \in Seq(Names) /\ Len(a) = lf + ld - lt + 1 /\ Len(b) = lf + ld - lt + 1
    BY <2>1, <2>3, <2>4, <2>5, <2>6, <2>8, <2>9 DEF SwapAt
  <2>12. ASSUME NEW i \in 1 .. Len(a) PROVE a[i] = b[i]
    <3>1. CASE i = 1
      <4>1. a[1] = p[1]
        BY <2>1, <2>5, <2>8 DEF SwapAt
      <4> QED
        BY <2>5, <2>9, <3>1, <4>1
    <3>2. CASE i # 1
      <4> DEFINE j == i - 1
      <4>1. j \in 1 .. Len(s) /\ j + 1 = i
        BY <2>1, <2>3, <2>11, <3>2
      <4>2. b[i] = s[j]
        BY <2>9, <4>1
      <4>3. CASE j <= lf
        <5>1. i \in 1 .. Len(p) /\ j \in 1 .. lf
          BY <2>1, <2>5, <4>1, <4>3
        <5>2. a[i] = p[i] /\ p[i] = from[j] /\ s[j] = from[j]
          BY <2>5, <2>8, <2>10, <4>1, <5>1 DEF SwapAt
        <5> QED
          BY <4>2, <5>2
      <4>4. CASE j > lf
        <5> DEFINE k == j - lf + lt
        <5>1. /\ i \in Len(p) + 1 .. Len(a) /\ j \in lf + 1 .. Len(s) /\ k \in 1 .. ld
              /\ i - Len(p) + Len(q) = k + 1
          <6>1. i \in Nat /\ j \in Nat /\ j <= Len(s) /\ i = j + 1 /\ i <= Len(a)
            BY <2>1, <2>3, <2>11, <4>1
          <6> HIDE DEF j
          <6>2. i \in Len(p) + 1 .. Len(a)
            BY <2>1, <2>5, <2>11, <4>4, <6>1
          <6>3. j \in lf + 1 .. Len(s)
            BY <2>1, <2>3, <4>4, <6>1
          <6>4. k \in 1 .. ld
            BY <2>1, <2>3, <4>4, <6>1
          <6>5. i - Len(p) + Len(q) = k + 1
            BY <2>1, <2>4, <2>5, <6>1
          <6> QED
            BY <6>2, <6>3, <6>4, <6>5
        <5>2. a[i] = x[k + 1]
          BY <2>8, <5>1 DEF SwapAt
        <5>3. x[k + 1] = d[k]
          BY <2>6, <5>1
        <5>4. s[j] = d[k]
          BY <2>10, <5>1
        <5> QED
          BY <4>2, <5>2, <5>3, <5>4
      <4> QED
        BY <2>1, <4>1, <4>3, <4>4
    <3> QED
      BY <3>1, <3>2
  <2>13. a = b
    BY <2>9, <2>11, <2>12, SeqEqual
  <2> QED
    BY <2>13 DEF a, b, q, p, x, s
<1> QED
  BY <1>1, <1>2 DEF Mounts

\* A rename of path from of file system m to f of n, which m is given as to.
RenameAt(m, from, n, f, to, o) ==
    /\ m \in Mounts /\ from \in Visible(m) /\ n \in Mounts /\ f \in Visible(n)
    /\ to \in Seq(Names) /\ to # <<>> /\ (n = m => f = to)
    /\ to \in Visible(m) \/ (m = "root" /\ Begins(to))
    /\ RenameAnswers(tree[m], from, to, o) /\ Fits(o.tree)
    /\ tree' = [tree EXCEPT ![m] = o.tree]
    /\ twins' = (twins \/ o.twins) /\ ~twins
    /\ Call'.op = "rename" /\ Call'.path = Up(m, from) /\ Call'.new = Up(n, f)
    /\ Call'.answer = Errno(o.res)

LEMMA RenameAtIs ==
    ASSUME NEW p \in Paths, NEW q \in Paths, RenameCall(p, q)
    PROVE  \E m, from, n, f, to, o : RenameAt(m, from, n, f, to, o)
<1> DEFINE m == FindMountpoint(p)
           from == RemovePrefix(p, m)
           n == FindMountpoint(q)
           f == RemovePrefix(q, n)
           to == RemovePrefix(q, m)
<1>1. /\ m \in Mounts /\ from \in Visible(m) /\ Canonical(p) = Up(m, from)
      /\ n \in Mounts /\ f \in Visible(n) /\ Canonical(q) = Up(n, f)
  BY CanonicalUp
<1>2. to \in Seq(Names) /\ to # <<>> /\ (n = m => f = to)
  BY PathsAssumption, LocalIs DEF RenameCall
<1>3. to \in Visible(m) \/ (m = "root" /\ Begins(to))
  <2>1. CASE n = m
    BY <1>1, <1>2, <2>1
  <2>2. CASE n = "sub" /\ m = "root"
    BY <2>2 DEF FindMountpoint, RemovePrefix
  <2>3. CASE n = "root" /\ m = "sub"
    <3>1. f = to
      BY <2>3 DEF FindMountpoint, RemovePrefix
    <3> QED
      BY <1>1, <2>3, <3>1, ClosedAssumption
  <2> QED
    BY <1>1, <2>1, <2>2, <2>3 DEF Mounts
<1>4. PICK o : /\ RenameAnswers(tree[m], from, to, o) /\ Fits(o.tree)
               /\ tree' = [tree EXCEPT ![m] = o.tree]
               /\ twins' = (twins \/ o.twins) /\ ~twins
               /\ last' = [op |-> "rename", path |-> p, new |-> q,
                           answer |-> o.res, found |-> o.found]
  BY DEF RenameCall
<1>5. /\ Call'.op = "rename" /\ Call'.path = Canonical(p) /\ Call'.new = Canonical(q)
      /\ Call'.answer = Errno(o.res)
  BY <1>4, CallIs
<1> HIDE DEF m, from, n, f, to
<1>6. RenameAt(m, from, n, f, to, o)
  BY <1>1, <1>2, <1>3, <1>4, <1>5 DEF RenameAt
<1> QED
  BY <1>6

\* What fails, moves a directory into itself or crosses the mount point stays in the
\* file system of the old path.
LEMMA RenameStray ==
    ASSUME TypeOK, NEW m, NEW from, NEW n, NEW f, NEW to, NEW o, RenameAt(m, from, n, f, to, o),
           Call'.answer = "EIO" \/ ~Promise!Moves(Up(m, from), Up(n, f))
    PROVE  Promise!Stray
<1>1. /\ m \in Mounts /\ from \in Visible(m) /\ Call'.op = "rename"
      /\ Call'.path = Up(m, from) /\ Call'.new = Up(n, f)
      /\ \A k \in Mounts : k # m => tree'[k] = tree[k]
  BY DEF RenameAt, TypeOK
<1>2. ASSUME NEW x \in Canonicals
      PROVE  Area[x] = Area[Up(m, from)] \/ Seen'[x] = Seen[x]
  <2>1. PICK k \in Mounts : \E d \in Visible(k) : x = Up(k, d)
    BY CanonicalsAre
  <2>2. PICK d \in Visible(k) : x = Up(k, d)
    BY <2>1
  <2>3. /\ Area[Up(m, from)] = m /\ Area[x] = k
        /\ Seen[x] = Kind(tree[k], d) /\ Seen'[x] = Kind(tree'[k], d)
    BY <1>1, <2>2, SeenIs
  <2> QED
    BY <1>1, <2>3
<1> QED
  BY <1>1, <1>2 DEF Promise!Stray

\* The names of a move within one file system.
LEMMA MovesUp ==
    ASSUME NEW m \in Mounts, NEW n \in Mounts, NEW from \in Visible(m), NEW f \in Visible(n),
           Promise!Moves(Up(m, from), Up(n, f))
    PROVE  n = m /\ from # <<>> /\ ~IsStrictPrefix(from, f)
<1>1. from \in Seq(Names) /\ f \in Seq(Names)
  BY VisibleIs
<1>2. n = m /\ from # <<>>
  BY SeenIs, TopUp DEF Promise!Moves
<1>3. ASSUME IsPrefix(from, f), from # f PROVE FALSE
  <2>1. IsPrefix(Up(m, from), Up(n, f))
    BY <1>1, <1>2, <1>3, UpPrefix
  <2>2. Up(m, from) = Up(n, f)
    BY <2>1 DEF Promise!Moves, Promise!IsPrefix, IsPrefix
  <2> QED
    BY <1>3, <2>2, UpUnique
<1> QED
  BY <1>2, <1>3 DEF IsStrictPrefix

LEMMA RenameRefused ==
    ASSUME TypeOK, AllVisible, NEW m, NEW from, NEW to, NEW o, RenameAt(m, from, m, to, to, o),
           to \in Visible(m), from # <<>>, o.tree = tree[m], RenameSays(tree[m], from, to, o.res)
    PROVE  Promise!Refuse /\ Call'.answer \notin {"ok", "EIO"}
<1> DEFINE t == tree[m]
           p == Up(m, from)
           q == Up(m, to)
           a == Errno(o.res)
<1>1. /\ m \in Mounts /\ from \in Visible(m) /\ IsTree(t) /\ to # <<>>
      /\ Call'.op = "rename" /\ Call'.path = p /\ Call'.new = q /\ Call'.answer = a
      /\ tree' = [tree EXCEPT ![m] = o.tree]
  BY DEF RenameAt, TypeOK
<1>2. Seen[p] = Kind(t, from) /\ Seen[q] = Kind(t, to)
  BY <1>1, SeenIs
<1>3. Seen' = Seen
  BY <1>1, SameTree
<1>4. Promise!Empty(q) <=> Within(t, to) = {}
  BY <1>1, EmptyUp
<1>5. Seen[Promise!Parent(q)] = Kind(t, Front(to))
  BY <1>1, ParentUp, SeenIs
<1>6. RenameSays(t, from, to, o.res)
  OBVIOUS
<1> HIDE DEF t, p, q
<1>7. \/ a = "ENOENT" /\ (Seen[p] = "none" \/ Seen[Promise!Parent(q)] = "none")
      \/ a = "ENOTDIR" /\ \/ Seen[p] = "none" \/ Seen[Promise!Parent(q)] # "dir"
                          \/ Seen[q] = "file"
      \/ a = "EEXIST" /\ Seen[q] # "none"
      \/ a = "EISDIR" /\ Seen[q] = "dir"
      \/ a = "ENOTEMPTY" /\ ~Promise!Empty(q)
      \/ a = "EACCES"
  BY <1>2, <1>4, <1>5, <1>6 DEF RenameSays, Errno
<1> HIDE DEF a
<1> QED
  BY <1>1, <1>3, <1>7 DEF Promise!Refuse

\* The tree after a move.
LEMMA RenameMoves ==
    ASSUME TypeOK, AllVisible, NEW m, NEW from, NEW to, NEW o, RenameAt(m, from, m, to, to, o),
           to \in Visible(m), Movable(tree[m], from, to), Promise!Moves(Up(m, from), Up(m, to)),
           \/ o.tree = Moved(tree[m], from, to)
           \/ from = to /\ o.tree = tree[m]
    PROVE  Promise!Rename
<1> DEFINE t == tree[m]
           p == Up(m, from)
           q == Up(m, to)
           From(x) == p \o SubSeq(x, Len(q) + 1, Len(x))
<1>1. /\ m \in Mounts /\ from \in Visible(m) /\ from \in Seq(Names) /\ to \in Seq(Names)
      /\ IsTree(t) /\ to # <<>> /\ from # <<>> /\ (m = "root" => ~Begins(from))
      /\ tree' = [tree EXCEPT ![m] = o.tree]
      /\ Call'.op = "rename" /\ Call'.path = p /\ Call'.new = q
  BY VisibleIs DEF RenameAt, TypeOK, Movable
<1>2. \A n \in Mounts : tree'[n] = IF n = m THEN o.tree ELSE tree[n]
  BY <1>1 DEF TypeOK
<1>3. \A d \in Seq(Names) : Kind(o.tree, d) =
        IF IsPrefix(to, d) THEN Kind(t, Swap(to, from, d))
        ELSE IF IsPrefix(from, d) THEN "none" ELSE Kind(t, d)
  <2>1. CASE o.tree = Moved(t, from, to)
    BY <1>1, <2>1, KindMoved
  <2>2. CASE from = to /\ o.tree = t
    BY <1>1, <2>2, SwapSame
  <2> QED
    BY <2>1, <2>2
<1>4. ASSUME NEW x \in Canonicals
      PROVE  Seen'[x] = IF x \in Promise!Under(q)
                          THEN IF From(x) \in Canonicals THEN Seen[From(x)] ELSE "none"
                        ELSE IF x \in Promise!Under(p) THEN "none" ELSE Seen[x]
  <2>1. PICK n \in Mounts : \E d \in Visible(n) : x = Up(n, d)
    BY CanonicalsAre
  <2>2. PICK d \in Visible(n) : x = Up(n, d)
    BY <2>1
  <2>3. /\ Seen[x] = Kind(tree[n], d) /\ Seen'[x] = Kind(tree'[n], d)
        /\ d \in Seq(Names)
    BY <2>2, SeenIs, VisibleIs
  <2>4. /\ x \in Promise!Under(q) <=> n = m /\ IsPrefix(to, d)
        /\ x \in Promise!Under(p) <=> n = m /\ IsPrefix(from, d)
    BY <1>1, <2>2, UnderUp
  <2>5. CASE n = m /\ IsPrefix(to, d)
    <3> DEFINE s == Swap(to, from, d)
    <3>1. From(x) = Up(m, s)
      <4>1. From(x) = Swap(q, p, x)
        BY DEF Swap
      <4>2. Swap(q, p, x) = Up(m, s)
        BY <1>1, <2>2, <2>3, <2>5, UpSwap
      <4> QED
        BY <4>1, <4>2
    <3>2. s \in Seq(Names) /\ IsPrefix(from, s)
      BY <1>1, <2>3, <2>5, SwapIs DEF SwapAt
    <3> HIDE DEF s
    <3>3. m = "root" => ~Begins(s)
      BY <1>1, <3>2, BeginsPrefix
    <3>4. Seen'[x] = Kind(t, s)
      BY <1>2, <1>3, <2>3, <2>5 DEF s
    <3>5. CASE Up(m, s) \in Canonicals
      <4>1. Seen[Up(m, s)] = Kind(t, s)
        BY <1>1, <3>2, <3>3, <3>5, SeenAt
      <4> HIDE DEF From, t
      <4> QED
        BY <2>4, <2>5, <3>1, <3>4, <3>5, <4>1
    <3>6. CASE Up(m, s) \notin Canonicals
      <4>1. s \notin Visible(m)
        BY <1>1, <3>6, SeenIs
      <4>2. s \notin DOMAIN t
        BY <1>1, <3>3, <4>1 DEF AllVisible
      <4>3. s # <<>>
        BY <1>1, <3>2, PrefixOrder
      <4>4. Kind(t, s) = "none"
        BY <4>2, <4>3 DEF Kind
      <4> HIDE DEF From, t
      <4> QED
        BY <2>4, <2>5, <3>1, <3>4, <3>6, <4>4
    <3> QED
      BY <3>5, <3>6
  <2>6. CASE ~(n = m /\ IsPrefix(to, d)) /\ n = m /\ IsPrefix(from, d)
    <3>1. Seen'[x] = "none"
      BY <1>2, <1>3, <2>3, <2>6
    <3> QED
      BY <2>4, <2>6, <3>1
  <2>7. CASE ~(n = m /\ IsPrefix(to, d)) /\ ~(n = m /\ IsPrefix(from, d))
    <3>1. Seen'[x] = Seen[x]
      BY <1>2, <1>3, <2>3, <2>7
    <3> QED
      BY <2>4, <2>7, <3>1
  <2> QED
    BY <2>5, <2>6, <2>7
<1>5. Seen' = [x \in Canonicals |->
                 IF x \in Promise!Under(q)
                   THEN IF From(x) \in Canonicals THEN Seen[From(x)] ELSE "none"
                 ELSE IF x \in Promise!Under(p) THEN "none" ELSE Seen[x]]
  <2> HIDE DEF From
  <2> QED
    BY <1>4, SeenDomain
<1>6. Promise!Moves(p, q)
  OBVIOUS
<1>7. Seen[p] # "none" /\ Seen[Promise!Parent(q)] = "dir" /\ (p = q \/ Promise!Empty(q))
  <2>1. Kind(t, from) # "none" /\ Kind(t, Front(to)) = "dir" /\ (from = to \/ Within(t, to) = {})
    BY DEF Movable
  <2> QED
    BY <1>1, <2>1, SeenIs, ParentUp, EmptyUp
<1> HIDE DEF p, q, t
<1> QED
  BY <1>1, <1>5, <1>6, <1>7 DEF Promise!Rename

LEMMA RenameKept ==
    ASSUME TypeOK, AllVisible, NEW p \in Paths, NEW q \in Paths, RenameCall(p, q), ~twins'
    PROVE  Promise!Next
<1>1. PICK m, from, n, f, to, o : RenameAt(m, from, n, f, to, o)
  BY RenameAtIs
<1>2. /\ m \in Mounts /\ from \in Visible(m) /\ n \in Mounts /\ f \in Visible(n)
      /\ RenameAnswers(tree[m], from, to, o) /\ ~o.twins
      /\ (n = m => f = to) /\ Call'.answer = Errno(o.res) /\ Call'.op = "rename"
      /\ from \in Seq(Names) /\ to \in Seq(Names) /\ to # <<>> /\ IsTree(tree[m])
  BY <1>1, VisibleIs DEF RenameAt, TypeOK
<1>3. CASE Call'.answer = "EIO" \/ ~Promise!Moves(Up(m, from), Up(n, f))
  <2>1. Promise!Stray
    BY <1>1, <1>3, RenameStray
  <2> QED
    BY <1>2, <2>1 DEF Promise!Next
<1>4. CASE Call'.answer # "EIO" /\ Promise!Moves(Up(m, from), Up(n, f))
  <2>1. n = m /\ f = to /\ from # <<>> /\ ~IsStrictPrefix(from, to) /\ to \in Visible(m)
    BY <1>2, <1>4, MovesUp
  <2>2. RenameAt(m, from, m, to, to, o)
    BY <1>1, <2>1
  <2>3. o.res # "EIO"
    BY <1>2, <1>4 DEF Errno
  <2>4. CASE o.tree = tree[m] /\ RenameSays(tree[m], from, to, o.res)
    <3>1. Promise!Refuse /\ Call'.answer \notin {"ok", "EIO"}
      BY <2>1, <2>2, <2>4, RenameRefused
    <3> QED
      BY <3>1 DEF Promise!Next
  <2>5. CASE o.tree = tree[m] /\ o.res = "ok" /\ from = to /\ Kind(tree[m], from) # "none"
    <3>1. Movable(tree[m], from, to)
      <4>1. Kind(tree[m], Front(to)) = "dir"
        BY <1>2, <2>5, ParentIs
      <4> QED
        BY <2>1, <2>5, <4>1 DEF Movable
    <3>2. Promise!Rename
      BY <1>4, <2>1, <2>2, <2>5, <3>1, RenameMoves
    <3>3. Call'.answer = "ok"
      BY <1>2, <2>5 DEF Errno
    <3> QED
      BY <3>2, <3>3 DEF Promise!Next
  <2>6. CASE /\ Movable(tree[m], from, to) /\ o.res = "ok"
             /\ o.tree = Moved(tree[m], from, to)
    <3>1. Promise!Rename
      BY <1>4, <2>1, <2>2, <2>6, RenameMoves
    <3>2. Call'.answer = "ok"
      BY <1>2, <2>6 DEF Errno
    <3> QED
      BY <3>1, <3>2 DEF Promise!Next
  <2> QED
    BY <1>2, <2>1, <2>3, <2>4, <2>5, <2>6 DEF RenameAnswers, Keeps, Moves
<1> QED
  BY <1>3, <1>4

------------------------------------------------------------------------------
(* What the application can name *)

LEMMA VisibleStep ==
    ASSUME TypeOK, AllVisible, NEW m \in Mounts, NEW u, tree' = [tree EXCEPT ![m] = u],
           \A q \in DOMAIN u : q \in DOMAIN tree[m] \/ q \in Visible(m) \/ (m = "root" /\ Begins(q))
    PROVE  AllVisible'
<1>1. \A n \in Mounts : tree'[n] = IF n = m THEN u ELSE tree[n]
  BY DEF TypeOK
<1>2. ASSUME NEW n \in Mounts, NEW q \in DOMAIN tree'[n]
      PROVE  q \in Visible(n) \/ (n = "root" /\ Begins(q))
  <2>1. CASE n = m
    <3>1. q \in DOMAIN tree[m] \/ q \in Visible(m) \/ (m = "root" /\ Begins(q))
      BY <1>1, <1>2, <2>1
    <3> QED
      BY <2>1, <3>1 DEF AllVisible
  <2>2. CASE n # m
    <3>1. q \in DOMAIN tree[n]
      BY <1>1, <1>2, <2>2
    <3> QED
      BY <3>1 DEF AllVisible
  <2> QED
    BY <2>1, <2>2
<1> QED
  BY <1>2 DEF AllVisible, Mounts, Visible, Begins, FindMountpoint, RemovePrefix

LEMMA PathVisible ==
    ASSUME TypeOK, AllVisible, NEW op, NEW p \in Paths, PathCall(op, p)
    PROVE  AllVisible'
<1>1. PICK m, e, o : CallAt(op, m, e, o)
  BY CallAtIs
<1>2. /\ m \in Mounts /\ e \in Visible(m) /\ tree' = [tree EXCEPT ![m] = o.tree]
      /\ o.tree = tree[m] \/ Alters(op, tree[m], e, o.tree)
  BY <1>1 DEF CallAt, Answers
<1>3. ASSUME NEW q \in DOMAIN o.tree PROVE q \in DOMAIN tree[m] \/ q = e
  BY <1>2, <1>3 DEF Alters, Grows, Shrinks, Add, Cut, Restrict
<1> QED
  BY <1>2, <1>3, VisibleStep

\* The new paths of what a rename has moved.
LEMMA RenameVisible ==
    ASSUME TypeOK, AllVisible, NEW p \in Paths, NEW q \in Paths, RenameCall(p, q), ~twins'
    PROVE  AllVisible'
<1>1. PICK m, from, n, f, to, o : RenameAt(m, from, n, f, to, o)
  BY RenameAtIs
<1> DEFINE t == tree[m]
           u == o.tree
<1>2. /\ m \in Mounts /\ from \in Visible(m) /\ tree' = [tree EXCEPT ![m] = u]
      /\ to \in Visible(m) \/ (m = "root" /\ Begins(to))
      /\ RenameAnswers(t, from, to, o) /\ ~o.twins /\ Fits(u)
      /\ from \in Seq(Names) /\ to \in Seq(Names) /\ to # <<>> /\ IsTree(t)
      /\ (m = "root" => ~Begins(from))
  BY <1>1, VisibleIs DEF RenameAt, TypeOK
<1>3. IsTree(u)
  BY <1>2, RenameTree
<1>4. ASSUME NEW r \in DOMAIN u
      PROVE  r \in DOMAIN t \/ r \in Visible(m) \/ (m = "root" /\ Begins(r))
  <2>1. CASE u = t
    BY <1>4, <2>1
  <2>2. CASE u = Cut(t, Subtree(t, from))
    BY <1>4, <2>2 DEF Cut, Restrict
  <2>3. CASE Movable(t, from, to) /\ u = Moved(t, from, to)
    <3>1. from # <<>> /\ r \in Seq(Names) /\ r # <<>> /\ Kind(u, r) # "none"
      BY <1>3, <1>4, <2>3, KindIs DEF Movable
    <3>2. Kind(u, r) = IF IsPrefix(to, r) THEN Kind(t, Swap(to, from, r))
                       ELSE IF IsPrefix(from, r) THEN "none" ELSE Kind(t, r)
      BY <1>2, <2>3, <3>1, KindMoved
    <3>3. CASE ~IsPrefix(to, r)
      <4>1. Kind(t, r) # "none"
        BY <3>1, <3>2, <3>3
      <4> QED
        BY <1>2, <3>1, <4>1, KindIs
    <3>4. CASE IsPrefix(to, r)
      <4> DEFINE s == Swap(to, from, r)
      <4>1. /\ SwapAt(to, from, r, s) /\ IsPrefix(from, s)
            /\ Swap(from, to, s) = r
        BY <1>2, <3>1, <3>4, SwapIs
      <4>2. s \in Seq(Names) /\ Kind(t, s) # "none"
        BY <3>1, <3>2, <3>4, <4>1 DEF SwapAt
      <4> HIDE DEF s
      <4>3. s # <<>>
        <5>1. Len(from) \in Nat /\ Len(from) >= 1 /\ Len(from) <= Len(s)
          BY <1>2, <3>1, <4>1, <4>2, EmptyIs, PrefixIs
        <5> QED
          BY <4>2, <5>1, EmptyIs
      <4>4. m = "root" => ~Begins(s)
        BY <1>2, <3>1, <4>1, <4>2, BeginsPrefix
      <4>5. s \in Visible(m)
        <5>1. s \in DOMAIN t
          BY <1>2, <4>2, <4>3, KindIs
        <5> QED
          BY <1>2, <4>4, <5>1 DEF AllVisible
      <4>6. CASE m = "root" /\ Begins(to)
        BY <1>2, <3>1, <3>4, <4>6, BeginsPrefix
      <4>7. CASE to \in Visible(m)
        <5>1. SwapAt(from, to, s, r)
          BY <1>2, <4>1, <4>2, SwapIs
        <5>2. Len(r) = Len(to) + Len(s) - Len(from) /\ Len(r) <= MaxDepth
          BY <1>2, <1>4, <5>1 DEF SwapAt, Fits
        <5>3. to \o SubSeq(s, Len(from) + 1, Len(s)) \in Visible(m)
          <6>1. Len(to) + Len(s) - Len(from) <= MaxDepth
            BY <5>2
          <6>2. from \in Visible(m) \ {<<>>} /\ to \in Visible(m) \ {<<>>} /\ s \in Visible(m) \ {<<>>}
            BY <1>2, <3>1, <4>3, <4>5, <4>7
          <6> QED
            BY <1>2, <4>1, <6>1, <6>2, ClosedAssumption
        <5> QED
          BY <4>1, <5>3 DEF Swap
      <4> QED
        BY <1>2, <4>6, <4>7
    <3> QED
      BY <3>3, <3>4
  <2> QED
    BY <1>2, <2>1, <2>2, <2>3 DEF RenameAnswers, Keeps, Moves
<1> HIDE DEF t, u
<1>5. tree' = [tree EXCEPT ![m] = u] /\ m \in Mounts
  BY <1>2
<1> QED
  BY <1>4, <1>5, VisibleStep DEF t

LEMMA VisibleInit == Init => AllVisible
<1> SUFFICES ASSUME Init, NEW m \in Mounts, NEW q \in DOMAIN tree[m]
             PROVE  q \in Visible(m) \/ (m = "root" /\ Begins(q))
  BY DEF AllVisible
<1> DEFINE one == Add(<<>>, <<MountName>>, "dir")
<1>1. DOMAIN one = {<<MountName>>}
  BY DEF Add
<1> HIDE DEF one
<1>2. tree[m] = <<>> \/ (m = "root" /\ tree[m] = one)
  BY DEF Init, one
<1>3. DOMAIN << >> = {}
  OBVIOUS
<1>4. m = "root" /\ q = <<MountName>>
  BY <1>1, <1>2, <1>3
<1>5. Begins(<<MountName>>)
  BY NamesAssumption DEF Begins
<1> QED
  BY <1>4, <1>5

LEMMA PromiseInit == TypeOK => Promise!Init
<1> SUFFICES ASSUME TypeOK PROVE Promise!Init
  OBVIOUS
<1>1. ASSUME NEW c \in Canonicals, Seen[c] # "none"
      PROVE  Seen[Promise!Parent(c)] = "dir"
  <2>1. PICK m \in Mounts : \E e \in Visible(m) : c = Up(m, e)
    BY CanonicalsAre
  <2>2. PICK e \in Visible(m) : c = Up(m, e)
    BY <2>1
  <2>3. e \in Seq(Names) /\ IsTree(tree[m]) /\ Kind(tree[m], e) # "none"
    BY <1>1, <2>2, SeenIs, VisibleIs DEF TypeOK
  <2>4. CASE e = <<>>
    BY <2>2, <2>4, ParentUp, RootSeen
  <2>5. CASE e # <<>>
    <3>1. Kind(tree[m], Front(e)) = "dir"
      BY <2>3, <2>5, ParentIs
    <3>2. Front(e) \in Visible(m) /\ Promise!Parent(c) = Up(m, Front(e))
      BY <2>2, <2>5, ParentUp
    <3> QED
      BY <3>1, <3>2, SeenIs
  <2> QED
    BY <2>4, <2>5
<1> QED
  BY <1>1, RootSeen DEF Promise!Init

\* Until a rename on FAT leaves an object under two names, the application can name
\* every object that the second mount point does not hide.
NamesInv == TypeOK /\ (twins \/ AllVisible)

LEMMA NamesNext ==
    ASSUME NamesInv, [Next]_vars
    PROVE  /\ NamesInv'
           /\ [twins' \/ Promise!Next]_vars
<1>1. TypeOK'
  BY TypeNext DEF NamesInv
<1>2. ASSUME NEW op, op # "rename", NEW p \in Paths, PathCall(op, p)
      PROVE  AllVisible' /\ Promise!Next
  <2>1. TypeOK /\ AllVisible
    BY <1>2 DEF NamesInv, PathCall
  <2> QED
    BY <1>2, <2>1, PathKept, PathVisible
<1>3. ASSUME NEW p \in Paths, NEW q \in Paths, RenameCall(p, q)
      PROVE  twins' \/ (AllVisible' /\ Promise!Next)
  <2>1. TypeOK /\ AllVisible
    BY <1>3 DEF NamesInv, RenameCall
  <2> QED
    BY <1>3, <2>1, RenameKept, RenameVisible
<1>4. ASSUME UNCHANGED vars
      PROVE  twins' \/ AllVisible'
  BY <1>4 DEF NamesInv, vars, AllVisible
<1>5. CASE \E p \in Paths : Unlink(p) \/ Mkdir(p) \/ Rmdir(p) \/ Create(p) \/ Stat(p) \/ List(p)
  <2>1. AllVisible' /\ Promise!Next
    BY <1>2, <1>5, PathCalls DEF NamesInv
  <2> QED
    BY <1>1, <2>1 DEF NamesInv
<1>6. CASE \E p, q \in Paths : Rename(p, q)
  <2>1. twins' \/ (AllVisible' /\ Promise!Next)
    BY <1>3, <1>6, RenameCalls DEF NamesInv
  <2> QED
    BY <1>1, <2>1 DEF NamesInv
<1>7. CASE UNCHANGED vars
  BY <1>1, <1>4, <1>7 DEF NamesInv
<1> QED
  BY <1>5, <1>6, <1>7 DEF Next, Broken

\* The joined name space: on both kinds of file system, below the root and below the
\* second mount point, what a call answers and what it changes is what POSIX says, but
\* for a path that only begins like the mounted directory, a rename across the mount
\* point or of a directory into itself, which keep to their own file system, and a
\* failing medium, which touches the call's own names only.
THEOREM NamesAreKept == Spec => NamesKept
<1>1. Init => NamesInv /\ Promise!Init
  BY TypeInit, VisibleInit, PromiseInit DEF NamesInv
<1>2. NamesInv /\ [Next]_vars => NamesInv' /\ [twins' \/ Promise!Next]_vars
  BY NamesNext
<1> QED
  BY <1>1, <1>2, PTL DEF Spec, NamesKept

=============================================================================
