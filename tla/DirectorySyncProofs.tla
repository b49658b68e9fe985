------------------------ MODULE DirectorySyncProofs ------------------------
(***************************************************************************)
(* A complete run leaves dst like src, for trees of any depth and files of *)
(* any contents, whatever killed runs came before it; and a second run has *)
(* nothing to do.  The argument follows the calls on the stack: what call  *)
(* i has done with its first loop is there with its contents, what it has  *)
(* done with its second loop is right, and a step touches nothing but its  *)
(* own entry, what is below it, and the time of the directory it is in.    *)
(***************************************************************************)
EXTENDS DirectorySync, SequenceTheorems, WellFoundedInduction, TLAPS

\* Each part below names what holds of the two trees between any two system calls.

TreeOf(t) == /\ t \in [Paths -> Node]
             /\ \A p \in Paths : WellFormed(t[p])
             /\ \A p \in Paths : Exists(t, p) /\ Len(p) > 1 => t[Front(p)].kind = "dir"

TreeInv == /\ TreeOf(src) /\ TreeOf(before) /\ TreeOf(dst)
           /\ kills \in Nat /\ again \in BOOLEAN

\* What a call works on: a directory in both trees.
IsDir(d) == d = <<>> \/ (d \in Paths /\ src[d].kind = "dir" /\ dst[d].kind = "dir")

Frame == [dir : Paths \cup {<<>>}, loop : {"contents", "times"}, todo : SUBSET Paths]

\* How many calls there are.
depth == Len(stack)

\* The calls are those of a path from the root, each but the last in its first loop.
StackInv ==
  /\ stack \in Seq(Frame)
  /\ \A i \in 1..depth : /\ IsDir(stack[i].dir) /\ Len(stack[i].dir) = i - 1
                         /\ \A p \in stack[i].todo : Front(p) = stack[i].dir
                         /\ stack[i].loop = "contents" => \A p \in stack[i].todo : Exists(src, p)
  /\ \A i, j \in 1..depth : i <= j => IsPrefix(stack[i].dir, stack[j].dir)
  /\ \A i \in 1..depth : i < depth => /\ stack[i].loop = "contents"
                                      /\ stack[i + 1].dir \notin stack[i].todo

\* While a file is being written it holds the first blocks of the one in src.
WriteInv ==
  writing # <<>> =>
    /\ depth > 0 /\ stack[depth].loop = "contents"
    /\ writing \in Paths /\ Front(writing) = stack[depth].dir /\ writing \notin stack[depth].todo
    /\ src[writing].kind = "file" /\ dst[writing].kind = "file"
    /\ Len(dst[writing].data) <= Len(src[writing].data)
    /\ dst[writing].data = SubSeq(src[writing].data, 1, Len(dst[writing].data))

\* A file is never in a state that the program cannot get it out of, if it was not
\* so from the beginning.
FileFine(p) == \/ Obstructed(p) /\ (Exists(before, p) => Exists(dst, p))
               \/ ~Exists(dst, p) /\ ~Exists(before, p)
               \/ /\ dst[p].kind = "file"
                  /\ \/ dst[p].data = src[p].data
                     \/ MayOpen(dst[p]) /\ Differ(src[p], dst[p])
                     \/ p = writing /\ src[p].mode = "ro" /\ ~Exists(before, p)
FileInv == \A p \in Paths : src[p].kind = "file" => FileFine(p)

\* An entry of src is there, with its contents, unless it is obstructed.
ContentRight(p) == Exists(dst, p) /\ (Obstructed(p) \/ (dst[p].kind = src[p].kind /\ dst[p].data = src[p].data))

Spoilt(p) == \E q \in Paths : IsPrefix(q, p) /\ Obstructed(q)
Right(p) == /\ Exists(src, p) => dst[p].mtime = src[p].mtime /\ dst[p].mode = src[p].mode
            /\ dst[p] = src[p] \/ Spoilt(p)
BelowRight(p) == \A q \in Paths : IsPrefix(p, q) /\ q # p => Right(q)

\* Entry p of call i has been through the first loop, with all that is below it.
Copied(i, p) == /\ p \in Paths /\ Front(p) = stack[i].dir /\ Exists(src, p)
                /\ p # writing /\ (i < depth => p # stack[i + 1].dir)
                /\ stack[i].loop = "contents" => p \notin stack[i].todo
CopiedInv == \A i \in 1..depth : \A p \in Paths : Copied(i, p) => ContentRight(p) /\ BelowRight(p)

\* Entry p of call i has been through the second loop.
Settled(i, p) == /\ p \in Paths /\ Front(p) = stack[i].dir
                 /\ stack[i].loop = "times" /\ p \notin stack[i].todo
SettledInv == \A i \in 1..depth : \A p \in Paths : Settled(i, p) => Right(p) /\ BelowRight(p)

EndInv == stack = <<>> => writing = <<>> /\ \A p \in Paths : Right(p)

\* In a second run nothing is left to do.
AgainInv == again => (dst = src /\ writing = <<>>) \/ \E p \in Paths : Obstructed(p)

-----------------------------------------------------------------------------
(* Paths.                                                                  *)

Less == {ss \in Nat \X Nat : ss[1] < ss[2]}

\* A nonempty set of numbers has a smallest one: what the inductions below are from.
LEMMA SmallestNat ==
  ASSUME NEW T, T \subseteq Nat, T # {}
  PROVE  \E x \in T : \A y \in T : x <= y
<1>1. IsWellFoundedOn(Less, Nat)
  BY NatLessThanWellFounded DEF OpToRel, Less
<1>2. PICK x \in T : \A y \in T : ~(<<y, x>> \in Less)
  BY <1>1, WFMin
<1>3. \A y \in T : ~(y < x)
  <2>1. ASSUME NEW y \in T, y < x PROVE FALSE
    <3>1. <<y, x>> \in Nat \X Nat /\ <<y, x>>[1] = y /\ <<y, x>>[2] = x
      OBVIOUS
    <3> QED
      BY <1>2, <2>1, <3>1 DEF Less
  <2> QED
    BY <2>1
<1> QED
  BY <1>3

LEMMA PrefixAgrees ==
  ASSUME NEW s \in Seq(Names), NEW t \in Seq(Names)
  PROVE  IsPrefix(s, t) <=> Len(s) <= Len(t) /\ \A i \in 1..Len(s) : s[i] = t[i]
<1>1. /\ Len(s) \in Nat /\ Len(t) \in Nat
      /\ \A i \in 1..Len(s) : s[i] \in Names
      /\ \A i \in 1..Len(t) : t[i] \in Names
  BY LenProperties
<1>2. SubSeq(s, 1, Len(s)) = s
  BY SubSeqFull
<1>3. ASSUME Len(s) <= Len(t)
      PROVE  /\ SubSeq(t, 1, Len(s)) \in Seq(Names) /\ Len(SubSeq(t, 1, Len(s))) = Len(s)
             /\ \A i \in 1..Len(s) : SubSeq(t, 1, Len(s))[i] = t[i]
  <2>1. \A i \in 1..Len(s) : t[i] \in Names
    BY <1>1, <1>3
  <2> QED
    BY <1>1, <2>1, SubSeqProperties
<1>4. ASSUME Len(s) <= Len(t), \A i \in 1..Len(s) : s[i] = t[i]
      PROVE  SubSeq(t, 1, Len(s)) = s
  BY <1>3, <1>4, SeqEqual
<1>5. ASSUME IsPrefix(s, t) PROVE Len(s) <= Len(t) /\ \A i \in 1..Len(s) : s[i] = t[i]
  <2>1. Len(s) <= Len(t) /\ SubSeq(t, 1, Len(s)) = s
    BY <1>2, <1>5 DEF IsPrefix
  <2> QED
    BY <1>3, <2>1
<1> QED
  BY <1>2, <1>4, <1>5 DEF IsPrefix

Dirs == Paths \cup {<<>>}

LEMMA DirsAreSeqs == \A d \in Dirs : d \in Seq(Names) /\ Len(d) \in Nat /\ (d = <<>> <=> Len(d) = 0)
<1> SUFFICES ASSUME NEW d \in Dirs PROVE d \in Seq(Names) /\ Len(d) \in Nat /\ (d = <<>> <=> Len(d) = 0)
  OBVIOUS
<1>1. d \in Seq(Names)
  BY EmptySeq, TreeAssumption DEF Dirs
<1>2. Len(d) \in Nat
  BY <1>1, LenProperties
<1>3. d # <<>> => Len(d) \in Nat \ {0}
  BY <1>1, EmptySeq
<1>4. Len(<<>>) = 0
  BY EmptySeq
<1> QED
  BY <1>1, <1>2, <1>3, <1>4

\* The directory of a path.
LEMMA FrontIsDir ==
  ASSUME NEW p \in Paths
  PROVE  /\ p \in Dirs /\ Front(p) \in Dirs /\ Len(Front(p)) = Len(p) - 1 /\ Len(p) \in Nat \ {0}
         /\ Front(p) # p /\ IsPrefix(Front(p), p)
         /\ (Len(p) = 1 <=> Front(p) = <<>>)
<1>1. p \in Dirs /\ p \in Seq(Names) /\ Len(p) \in Nat \ {0}
  <2>1. p \in Dirs /\ p # <<>>
    BY TreeAssumption DEF Dirs
  <2> QED
    BY <2>1, DirsAreSeqs
<1>2. /\ Front(p) \in Seq(Names) /\ Len(Front(p)) = Len(p) - 1
      /\ \A i \in 1..(Len(p) - 1) : Front(p)[i] = p[i]
  <2>1. PICK l \in Nat : l = Len(p) - 1
    BY <1>1
  <2>2. \A i \in 1..l : p[i] \in Names
    BY <1>1, <2>1, LenProperties
  <2>3. /\ SubSeq(p, 1, l) \in Seq(Names) /\ Len(SubSeq(p, 1, l)) = IF 1 <= l THEN l - 1 + 1 ELSE 0
        /\ \A i \in 1..(l - 1 + 1) : SubSeq(p, 1, l)[i] = p[1 + i - 1]
    BY <2>2, SubSeqProperties
  <2>4. Len(SubSeq(p, 1, l)) = l /\ \A i \in 1..l : SubSeq(p, 1, l)[i] = p[i]
    BY <2>3
  <2> QED
    BY <2>1, <2>3, <2>4 DEF Front
<1>3. Len(p) = 1 <=> Front(p) = <<>>
  <2>1. Front(p) # <<>> => Len(Front(p)) \in Nat \ {0}
    BY <1>2, EmptySeq
  <2>2. Len(<<>>) = 0
    BY EmptySeq
  <2> QED
    BY <1>1, <1>2, <2>1, <2>2
<1>4. Front(p) \in Dirs
  BY <1>3, TreeAssumption DEF Dirs
<1>5. IsPrefix(Front(p), p)
  BY <1>1, <1>2, PrefixAgrees
<1>6. Front(p) # p
  BY <1>1, <1>2
<1> QED
  BY <1>1, <1>2, <1>3, <1>4, <1>5, <1>6

LEMMA PrefixOrders ==
  ASSUME NEW c \in Dirs, NEW d \in Dirs, NEW e \in Dirs
  PROVE  /\ IsPrefix(c, c) /\ IsPrefix(<<>>, c)
         /\ IsPrefix(c, d) => Len(c) <= Len(d)
         /\ IsPrefix(c, d) /\ IsPrefix(d, e) => IsPrefix(c, e)
         /\ IsPrefix(c, e) /\ IsPrefix(d, e) /\ Len(c) = Len(d) => c = d
         /\ IsPrefix(c, e) /\ IsPrefix(d, e) /\ Len(c) <= Len(d) => IsPrefix(c, d)
<1>1. /\ c \in Seq(Names) /\ d \in Seq(Names) /\ e \in Seq(Names) /\ <<>> \in Seq(Names) /\ Len(<<>>) = 0
      /\ Len(c) \in Nat /\ Len(d) \in Nat /\ Len(e) \in Nat
  BY DirsAreSeqs, EmptySeq
<1>2. IsPrefix(c, c) /\ IsPrefix(<<>>, c)
  <2>1. IsPrefix(c, c)
    BY <1>1, PrefixAgrees
  <2>2. PICK s \in Seq(Names) : s = <<>>
    BY <1>1
  <2>3. Len(s) = 0
    BY <1>1, <2>2
  <2>4. IsPrefix(s, c)
    <3>1. Len(s) <= Len(c) /\ \A i \in 1..Len(s) : s[i] = c[i]
      BY <1>1, <2>3
    <3> HIDE <2>2
    <3> QED
      BY <1>1, <3>1, PrefixAgrees
  <2> QED
    BY <2>1, <2>2, <2>4
<1>3. IsPrefix(c, d) => Len(c) <= Len(d)
  BY <1>1, PrefixAgrees
<1>4. IsPrefix(c, d) /\ IsPrefix(d, e) => IsPrefix(c, e)
  BY <1>1, PrefixAgrees
<1>5. IsPrefix(c, e) /\ IsPrefix(d, e) /\ Len(c) = Len(d) => c = d
  <2> SUFFICES ASSUME IsPrefix(c, e), IsPrefix(d, e), Len(c) = Len(d) PROVE c = d
    OBVIOUS
  <2>1. \A i \in 1..Len(c) : c[i] = d[i]
    BY <1>1, PrefixAgrees
  <2> QED
    BY <1>1, <2>1, SeqEqual
<1>6. IsPrefix(c, e) /\ IsPrefix(d, e) /\ Len(c) <= Len(d) => IsPrefix(c, d)
  BY <1>1, PrefixAgrees
<1> QED
  BY <1>2, <1>3, <1>4, <1>5, <1>6

\* What is strictly below d is in the directory d or below an entry of it.
LEMMA ChildOnTheWay ==
  ASSUME NEW d \in Dirs, NEW q \in Paths, IsPrefix(d, q), d # q
  PROVE  \E e \in Paths : Front(e) = d /\ IsPrefix(e, q)
<1> DEFINE Lost == {l \in Nat : \E r \in Paths : /\ l = Len(r) /\ IsPrefix(d, r) /\ d # r
                                              /\ ~ \E e \in Paths : Front(e) = d /\ IsPrefix(e, r)}
<1>1. SUFFICES ASSUME Lost # {} PROVE FALSE
  <2>1. Len(q) \in Nat
    BY FrontIsDir
  <2> QED
    BY <1>1, <2>1
<1>2. PICK l \in Lost : \A k \in Lost : l <= k
  <2> HIDE DEF Lost
  <2>1. Lost \subseteq Nat
    BY DEF Lost
  <2> QED
    BY <1>1, <2>1, SmallestNat
<1>3. PICK r \in Paths : /\ l = Len(r) /\ IsPrefix(d, r) /\ d # r
                         /\ ~ \E e \in Paths : Front(e) = d /\ IsPrefix(e, r)
  BY <1>2
<1>4. /\ r \in Dirs /\ Front(r) \in Dirs /\ Len(Front(r)) = Len(r) - 1 /\ Len(r) \in Nat \ {0}
      /\ IsPrefix(Front(r), r) /\ IsPrefix(r, r)
  BY FrontIsDir, PrefixOrders
<1>5. Front(r) # d
  BY <1>3, <1>4
<1>6. Len(d) <= Len(r) /\ Len(d) # Len(r) /\ Len(d) \in Nat
  BY <1>3, <1>4, PrefixOrders, DirsAreSeqs
<1>7. IsPrefix(d, Front(r))
  BY <1>3, <1>4, <1>6, PrefixOrders
<1>8. Front(r) \in Paths
  <2>1. Front(r) # <<>>
    <3>1. Front(r) = <<>> => Len(d) = 0
      <4>1. Front(r) = <<>> => Len(Front(r)) = 0
        BY <1>4, DirsAreSeqs
      <4>2. \A x, y \in Nat : y <= x /\ y # x /\ x - 1 = 0 => y = 0
        OBVIOUS
      <4>3. Len(Front(r)) = 0 => Len(d) = 0
        BY <1>4, <1>6, <4>2
      <4> QED
        BY <4>1, <4>3
    <3> QED
      BY <1>5, <3>1, DirsAreSeqs
  <2> QED
    BY <1>4, <2>1 DEF Dirs
<1>9. ~ \E e \in Paths : Front(e) = d /\ IsPrefix(e, Front(r))
  <2>1. ASSUME NEW e \in Paths, Front(e) = d, IsPrefix(e, Front(r)) PROVE FALSE
    <3>1. e \in Dirs
      BY DEF Dirs
    <3>2. IsPrefix(e, r)
      BY <1>4, <2>1, <3>1, PrefixOrders
    <3> QED
      BY <1>3, <2>1, <3>2
  <2> QED
    BY <2>1
<1>10. Len(r) - 1 \in Lost
  BY <1>4, <1>5, <1>7, <1>8, <1>9
<1> HIDE DEF Lost
<1> QED
  BY <1>2, <1>3, <1>4, <1>10

\* In a tree, what has something below it is a directory.
LEMMA AboveIsDir ==
  ASSUME NEW t, TreeOf(t), NEW e \in Paths, NEW q \in Paths, IsPrefix(e, q), e # q, Exists(t, q)
  PROVE  t[e].kind = "dir"
<1> DEFINE Lost == {l \in Nat : \E r \in Paths : /\ l = Len(r) /\ IsPrefix(e, r) /\ e # r /\ Exists(t, r)
                                              /\ t[e].kind # "dir"}
<1>1. SUFFICES ASSUME Lost # {} PROVE FALSE
  <2>1. Len(q) \in Nat
    BY FrontIsDir
  <2> QED
    BY <1>1, <2>1
<1>2. PICK l \in Lost : \A k \in Lost : l <= k
  <2> HIDE DEF Lost
  <2>1. Lost \subseteq Nat
    BY DEF Lost
  <2> QED
    BY <1>1, <2>1, SmallestNat
<1>3. PICK r \in Paths : l = Len(r) /\ IsPrefix(e, r) /\ e # r /\ Exists(t, r) /\ t[e].kind # "dir"
  BY <1>2
<1>4. /\ e \in Dirs /\ Len(e) \in Nat \ {0}
      /\ r \in Dirs /\ Front(r) \in Dirs /\ Len(Front(r)) = Len(r) - 1 /\ Len(r) \in Nat \ {0}
      /\ IsPrefix(Front(r), r) /\ IsPrefix(r, r) /\ (Len(r) = 1 <=> Front(r) = <<>>)
  BY FrontIsDir, PrefixOrders
<1>5. Len(e) <= Len(r) /\ Len(e) # Len(r)
  BY <1>3, <1>4, PrefixOrders
<1>6. Len(r) > 1 /\ Front(r) \in Paths
  <2>1. Len(r) > 1
    BY <1>4, <1>5
  <2> QED
    BY <1>4, <2>1 DEF Dirs
<1>7. t[Front(r)].kind = "dir"
  BY <1>3, <1>6 DEF TreeOf
<1>8. IsPrefix(e, Front(r)) /\ e # Front(r) /\ Exists(t, Front(r))
  BY <1>3, <1>4, <1>5, <1>7, PrefixOrders DEF Exists
<1>9. Len(r) - 1 \in Lost
  BY <1>3, <1>4, <1>6, <1>8
<1> HIDE DEF Lost
<1> QED
  BY <1>2, <1>3, <1>4, <1>9

-----------------------------------------------------------------------------
(* What a step does to dst.                                                *)

\* Nothing but p is changed, but for the time of its directory.
OnlyAt(p) == \A q \in Paths : q # p =>
               /\ q # Front(p) => dst'[q] = dst[q]
               /\ dst'[q].kind = dst[q].kind /\ dst'[q].data = dst[q].data /\ dst'[q].mode = dst[q].mode

\* Nothing but p and what is below it, but for the time of its directory.
Under(p) == \A q \in Paths : ~IsPrefix(p, q) =>
              /\ q # Front(p) => dst'[q] = dst[q]
              /\ dst'[q].kind = dst[q].kind /\ dst'[q].data = dst[q].data /\ dst'[q].mode = dst[q].mode

LEMMA OnlyAtIsUnder == ASSUME NEW p \in Paths, OnlyAt(p) PROVE Under(p)
<1>1. IsPrefix(p, p)
  BY FrontIsDir, PrefixOrders
<1> QED
  BY <1>1 DEF OnlyAt, Under

LEMMA NoneIsNode == NONE \in Node /\ WellFormed(NONE)
<1>1. WellFormed(NONE)
  BY TreeAssumption
<1> QED
  BY <1>1 DEF WellFormed

LEMMA PutNode ==
  ASSUME TreeOf(dst), NEW p \in Paths, NEW node, WellFormed(node), SetEntry(p, node),
         Front(p) \in Paths => dst[Front(p)].kind = "dir",
         node.kind = "dir" \/ \A q \in Paths : Exists(dst, q) => Front(q) # p
  PROVE  TreeOf(dst') /\ OnlyAt(p) /\ dst'[p] = node
<1>1. Front(p) # p /\ (Len(p) > 1 => Front(p) \in Paths)
  <2>1. Front(p) # p /\ Len(p) \in Nat \ {0}
    BY FrontIsDir
  <2>2. Len(p) = 1 \/ Front(p) \in Paths
    BY TreeAssumption
  <2>3. Len(p) = 1 => ~(Len(p) > 1)
    OBVIOUS
  <2> QED
    BY <2>1, <2>2, <2>3
<1>2. /\ dst \in [Paths -> Node] /\ \A q \in Paths : WellFormed(dst[q])
      /\ \A q \in Paths : Exists(dst, q) /\ Len(q) > 1 => dst[Front(q)].kind = "dir"
  BY DEF TreeOf
<1>3. dst' = [q \in Paths |-> IF q = p THEN node
                              ELSE IF q = Front(p) THEN [dst[q] EXCEPT !.mtime = NOW]
                              ELSE dst[q]]
  BY DEF SetEntry
<1>4. dst'[p] = node /\ \A q \in Paths : q # p /\ q # Front(p) => dst'[q] = dst[q]
  BY <1>3
<1>5. ASSUME Front(p) \in Paths
      PROVE  /\ WellFormed(dst'[Front(p)]) /\ dst'[Front(p)].kind = dst[Front(p)].kind
             /\ dst'[Front(p)].data = dst[Front(p)].data /\ dst'[Front(p)].mode = dst[Front(p)].mode
  <2>1. PICK m \in Node : m = dst[Front(p)] /\ WellFormed(m) /\ m.kind = "dir"
    BY <1>2, <1>5
  <2>2. dst'[Front(p)] = [m EXCEPT !.mtime = NOW]
    BY <1>1, <1>3, <1>5, <2>1
  <2>3. /\ [m EXCEPT !.mtime = NOW] \in Node /\ [m EXCEPT !.mtime = NOW].kind = m.kind
        /\ [m EXCEPT !.mtime = NOW].data = m.data /\ [m EXCEPT !.mtime = NOW].mode = m.mode
    BY TreeAssumption DEF Node
  <2> QED
    BY <2>1, <2>2, <2>3 DEF WellFormed
<1>6. OnlyAt(p)
  BY <1>4, <1>5 DEF OnlyAt
<1>7. \A q \in Paths : WellFormed(dst'[q])
  BY <1>2, <1>4, <1>5
<1>8. dst' \in [Paths -> Node]
  <2>1. \A q \in Paths : dst'[q] \in Node
    BY <1>7 DEF WellFormed
  <2>2. DOMAIN dst' = Paths /\ dst' = [q \in Paths |-> dst'[q]]
    BY <1>3
  <2> QED
    BY <2>1, <2>2
<1>9. ASSUME NEW q \in Paths, Exists(dst', q), Len(q) > 1 PROVE dst'[Front(q)].kind = "dir"
  <2>1. Front(q) \in Paths
    <3>1. Len(q) = 1 => ~(Len(q) > 1)
      OBVIOUS
    <3> QED
      BY <1>9, <3>1, TreeAssumption
  <2>2. CASE q = p
    BY <1>5, <2>1, <2>2
  <2>3. CASE q # p
    <3>1. Exists(dst, q)
      BY <1>6, <1>9, <2>3 DEF OnlyAt, Exists
    <3>2. dst[Front(q)].kind = "dir"
      BY <1>2, <1>9, <3>1
    <3>3. CASE Front(q) = p
      BY <1>4, <3>1, <3>3
    <3>4. CASE Front(q) # p
      BY <1>6, <2>1, <3>2, <3>4 DEF OnlyAt
    <3> QED
      BY <3>3, <3>4
  <2> QED
    BY <2>2, <2>3
<1> QED
  BY <1>4, <1>6, <1>7, <1>8, <1>9 DEF TreeOf

\* Changing the fields of something leaves the tree as it is.
LEMMA PutFields ==
  ASSUME TreeOf(dst), NEW p \in Paths, NEW node, WellFormed(node), node.kind = dst[p].kind,
         dst' = [dst EXCEPT ![p] = node]
  PROVE  TreeOf(dst') /\ OnlyAt(p) /\ dst'[p] = node
<1>1. /\ dst \in [Paths -> Node] /\ \A q \in Paths : WellFormed(dst[q])
      /\ \A q \in Paths : Exists(dst, q) /\ Len(q) > 1 => dst[Front(q)].kind = "dir"
  BY DEF TreeOf
<1>2. /\ dst'[p] = node /\ \A q \in Paths : q # p => dst'[q] = dst[q]
      /\ dst' \in [Paths -> Node]
  BY <1>1 DEF WellFormed
<1>3. \A q \in Paths : dst'[q].kind = dst[q].kind /\ WellFormed(dst'[q])
  BY <1>1, <1>2
<1>4. ASSUME NEW q \in Paths, Exists(dst', q), Len(q) > 1 PROVE dst'[Front(q)].kind = "dir"
  BY <1>1, <1>3, <1>4, TreeAssumption DEF Exists
<1> QED
  BY <1>2, <1>3, <1>4 DEF TreeOf, OnlyAt

LEMMA InLoop ==
  ASSUME StackInv, NEW loop, NEW p, In(loop, p)
  PROVE  /\ depth \in Nat \ {0} /\ depth \in 1..depth /\ writing = <<>>
         /\ stack[depth].loop = loop /\ p \in stack[depth].todo /\ stack[depth].dir \in Dirs
         /\ p \in Paths /\ Front(p) = stack[depth].dir /\ Len(p) = depth
         /\ Front(p) \in Paths => src[Front(p)].kind = "dir" /\ dst[Front(p)].kind = "dir"
         /\ loop = "contents" => Exists(src, p)
<1>1. stack \in Seq(Frame) /\ stack # <<>>
  BY DEF StackInv, In
<1>2. depth \in Nat \ {0} /\ depth \in 1..depth /\ stack[depth] \in Frame
  <2>1. depth \in Nat \ {0}
    BY <1>1, EmptySeq DEF depth
  <2>2. depth \in 1..depth
    BY <2>1
  <2> QED
    BY <1>1, <2>1, <2>2, ElementOfSeq DEF depth
<1>3. writing = <<>> /\ stack[depth].loop = loop /\ p \in stack[depth].todo
  BY DEF In, Last, depth
<1>4. p \in Paths /\ stack[depth].dir \in Dirs
  BY <1>2, <1>3 DEF Frame, Dirs
<1>5. Front(p) = stack[depth].dir /\ IsDir(stack[depth].dir) /\ Len(stack[depth].dir) = depth - 1
  BY <1>2, <1>3 DEF StackInv
<1>6. Len(p) = depth
  <2>1. Len(Front(p)) = Len(p) - 1 /\ Len(p) \in Nat \ {0}
    BY <1>4, FrontIsDir
  <2>2. \A x, y \in Nat : x - 1 = y - 1 => x = y
    OBVIOUS
  <2> QED
    BY <1>2, <1>5, <2>1, <2>2
<1>7. Front(p) \in Paths => src[Front(p)].kind = "dir" /\ dst[Front(p)].kind = "dir"
  <2>1. <<>> \notin Paths
    BY TreeAssumption
  <2> QED
    BY <1>5, <2>1 DEF IsDir
<1>8. loop = "contents" => Exists(src, p)
  BY <1>2, <1>3 DEF StackInv
<1> QED
  BY <1>2, <1>3, <1>4, <1>5, <1>6, <1>7, <1>8

LEMMA NodeAt == ASSUME NEW t, TreeOf(t), NEW p \in Paths PROVE t[p] \in Node /\ WellFormed(t[p])
BY DEF TreeOf

LEMMA CreatDoes ==
  ASSUME TreeInv, StackInv, NEW p, Creat(p)
  PROVE  /\ TreeOf(dst') /\ OnlyAt(p)
         /\ dst'[p].kind = "file" /\ dst'[p].data = <<>> /\ dst'[p].mode = src[p].mode
<1>1. p \in Paths /\ (Front(p) \in Paths => dst[Front(p)].kind = "dir") /\ TreeOf(dst) /\ TreeOf(src)
  BY InLoop DEF Creat, TreeInv
<1>2. src[p].kind = "file" /\ ~Exists(dst, p) /\ SetEntry(p, [src[p] EXCEPT !.data = <<>>, !.mtime = NOW])
  BY DEF Creat
<1>3. PICK node : node = [src[p] EXCEPT !.data = <<>>, !.mtime = NOW]
  OBVIOUS
<1>4. node \in Node /\ node.kind = "file" /\ node.data = <<>> /\ node.mode = src[p].mode
  <2>1. src[p] \in Node
    BY <1>1, NodeAt
  <2>2. <<>> \in Seq(Blocks) /\ NOW \in Int
    BY EmptySeq, TreeAssumption
  <2> QED
    BY <1>2, <1>3, <2>1, <2>2 DEF Node
<1>5. WellFormed(node)
  BY <1>4 DEF WellFormed
<1>6. ASSUME NEW q \in Paths, Exists(dst, q) PROVE Front(q) # p
  <2>1. Front(q) = p => dst[p].kind = "dir"
    BY <1>1, <1>6, FrontIsDir, AboveIsDir
  <2> QED
    BY <1>2, <2>1 DEF Exists
<1>7. SetEntry(p, node)
  BY <1>2, <1>3
<1>8. TreeOf(dst') /\ OnlyAt(p) /\ dst'[p] = node
  BY <1>1, <1>5, <1>6, <1>7, PutNode
<1> QED
  BY <1>4, <1>8

LEMMA TruncateDoes ==
  ASSUME TreeInv, StackInv, NEW p, Truncate(p)
  PROVE  /\ TreeOf(dst') /\ OnlyAt(p)
         /\ dst'[p].kind = "file" /\ dst'[p].data = <<>> /\ dst'[p].mode = "rw"
<1>1. p \in Paths /\ TreeOf(dst)
  BY InLoop DEF Truncate, TreeInv
<1>2. /\ dst[p].kind = "file" /\ dst[p].mode = "rw"
      /\ dst' = [dst EXCEPT ![p].data = <<>>, ![p].mtime = NOW]
  BY DEF Truncate, MayOpen
<1>3. PICK node : node = [dst[p] EXCEPT !.data = <<>>, !.mtime = NOW]
  OBVIOUS
<1>4. node \in Node /\ node.kind = "file" /\ node.data = <<>> /\ node.mode = "rw"
  <2>1. dst[p] \in Node
    BY <1>1, NodeAt
  <2>2. <<>> \in Seq(Blocks) /\ NOW \in Int
    BY EmptySeq, TreeAssumption
  <2> QED
    BY <1>2, <1>3, <2>1, <2>2 DEF Node
<1>5. WellFormed(node)
  BY <1>4 DEF WellFormed
<1>6. dst' = [dst EXCEPT ![p] = node]
  BY <1>1, <1>2, <1>3 DEF TreeOf
<1>7. TreeOf(dst') /\ OnlyAt(p) /\ dst'[p] = node
  BY <1>1, <1>2, <1>4, <1>5, <1>6, PutFields
<1> QED
  BY <1>4, <1>7

\* The block after those that are there is written.
LEMMA WriteDoes ==
  ASSUME TreeInv, WriteInv, Write, Len(dst[writing].data) < Len(src[writing].data)
  PROVE  /\ TreeOf(dst') /\ OnlyAt(writing)
         /\ dst'[writing].kind = "file" /\ dst'[writing].mode = dst[writing].mode
         /\ dst'[writing].data = SubSeq(src[writing].data, 1, Len(dst[writing].data) + 1)
         /\ Len(dst'[writing].data) = Len(dst[writing].data) + 1
<1> DEFINE s == src[writing].data
           t == dst[writing].data
<1>1. /\ writing \in Paths /\ TreeOf(dst) /\ TreeOf(src) /\ dst[writing].kind = "file"
      /\ Len(t) < Len(s) /\ t = SubSeq(s, 1, Len(t))
  BY DEF Write, WriteInv, TreeInv
<1>2. dst' = [dst EXCEPT ![writing].data = Append(@, s[Len(t) + 1]), ![writing].mtime = NOW]
  BY <1>1 DEF Write
<1>3. s \in Seq(Blocks) /\ t \in Seq(Blocks) /\ Len(s) \in Nat /\ Len(t) \in Nat
  <2>1. src[writing] \in Node /\ dst[writing] \in Node
    BY <1>1, NodeAt
  <2>2. s \in Seq(Blocks) /\ t \in Seq(Blocks)
    BY <2>1 DEF Node
  <2> QED
    BY <2>2, LenProperties
<1> HIDE DEF s, t
<1>4. PICK l \in Nat : l = Len(t) /\ l < Len(s) /\ l + 1 \in 1..Len(s)
  <2>1. \A x, y \in Nat : x < y => x + 1 \in 1..y
    OBVIOUS
  <2> QED
    BY <1>1, <1>3, <2>1
<1>5. s[l + 1] \in Blocks
  BY <1>3, <1>4, ElementOfSeq
<1>6. /\ Append(t, s[l + 1]) \in Seq(Blocks) /\ Len(Append(t, s[l + 1])) = l + 1
      /\ \A i \in 1..l : Append(t, s[l + 1])[i] = t[i]
      /\ Append(t, s[l + 1])[l + 1] = s[l + 1]
  BY <1>3, <1>4, <1>5, AppendProperties
<1>7. /\ SubSeq(s, 1, l + 1) \in Seq(Blocks) /\ Len(SubSeq(s, 1, l + 1)) = l + 1
      /\ \A i \in 1..l + 1 : SubSeq(s, 1, l + 1)[i] = s[i]
  <2>1. \A i \in 1..l + 1 : s[i] \in Blocks
    BY <1>3, <1>4, ElementOfSeq
  <2>2. /\ SubSeq(s, 1, l + 1) \in Seq(Blocks)
        /\ Len(SubSeq(s, 1, l + 1)) = IF 1 <= l + 1 THEN l + 1 - 1 + 1 ELSE 0
        /\ \A i \in 1..(l + 1 - 1 + 1) : SubSeq(s, 1, l + 1)[i] = s[1 + i - 1]
    BY <2>1, SubSeqProperties
  <2> QED
    BY <2>2
<1>8. \A i \in 1..l : t[i] = s[i]
  <2>1. \A i \in 1..l : s[i] \in Blocks
    BY <1>3, <1>4, ElementOfSeq
  <2>2. \A i \in 1..(l - 1 + 1) : SubSeq(s, 1, l)[i] = s[1 + i - 1]
    BY <2>1, SubSeqProperties
  <2> QED
    BY <1>1, <1>4, <2>2
<1>9. Append(t, s[l + 1]) = SubSeq(s, 1, l + 1)
  <2>1. \A i \in 1..l + 1 : Append(t, s[l + 1])[i] = SubSeq(s, 1, l + 1)[i]
    BY <1>6, <1>7, <1>8
  <2> QED
    BY <1>6, <1>7, <2>1, SeqEqual
<1>10. PICK node : node = [dst[writing] EXCEPT !.data = Append(t, s[l + 1]), !.mtime = NOW]
  OBVIOUS
<1>11. /\ node \in Node /\ node.kind = "file" /\ node.data = Append(t, s[l + 1])
       /\ node.mode = dst[writing].mode
  <2>1. dst[writing] \in Node /\ NOW \in Int
    BY <1>1, NodeAt, TreeAssumption
  <2> QED
    BY <1>1, <1>6, <1>10, <2>1 DEF Node
<1>12. WellFormed(node)
  BY <1>11 DEF WellFormed
<1>13. dst' = [dst EXCEPT ![writing] = node]
  BY <1>1, <1>2, <1>4, <1>10 DEF TreeOf, t
<1>14. TreeOf(dst') /\ OnlyAt(writing) /\ dst'[writing] = node
  BY <1>1, <1>11, <1>12, <1>13, PutFields
<1> QED
  BY <1>4, <1>6, <1>9, <1>11, <1>14 DEF s, t

LEMMA NothingBelow ==
  ASSUME NEW t, TreeOf(t), NEW p \in Paths, t[p].kind # "dir", NEW q \in Paths, IsPrefix(p, q), q # p
  PROVE  t[q] = NONE
<1>1. ~Exists(t, q)
  BY AboveIsDir
<1>2. WellFormed(t[q])
  BY NodeAt
<1> QED
  BY <1>1, <1>2 DEF Exists, WellFormed

LEMMA MkdirDoes ==
  ASSUME TreeInv, StackInv, NEW p, Mkdir(p)
  PROVE  TreeOf(dst') /\ OnlyAt(p)
<1>1. p \in Paths /\ (Front(p) \in Paths => dst[Front(p)].kind = "dir") /\ TreeOf(dst) /\ TreeOf(src)
  BY InLoop DEF Mkdir, TreeInv
<1>2. PICK node : node = [src[p] EXCEPT !.mtime = NOW]
  OBVIOUS
<1>3. WellFormed(node) /\ node.kind = "dir"
  <2>1. src[p] \in Node /\ WellFormed(src[p]) /\ src[p].kind = "dir" /\ NOW \in Int
    BY <1>1, NodeAt, TreeAssumption DEF Mkdir
  <2>2. node \in Node /\ node.kind = "dir" /\ node.data = src[p].data
    BY <1>2, <2>1 DEF Node
  <2> QED
    BY <2>1, <2>2 DEF WellFormed
<1>4. SetEntry(p, node)
  BY <1>2 DEF Mkdir
<1> QED
  BY <1>1, <1>3, <1>4, PutNode

LEMMA RemoveFileDoes ==
  ASSUME TreeInv, StackInv, NEW p, RemoveFile(p)
  PROVE  TreeOf(dst') /\ OnlyAt(p)
<1>1. p \in Paths /\ (Front(p) \in Paths => dst[Front(p)].kind = "dir") /\ TreeOf(dst)
  BY InLoop DEF RemoveFile, TreeInv
<1>2. dst[p].kind = "file" /\ SetEntry(p, NONE)
  BY DEF RemoveFile
<1>3. ASSUME NEW q \in Paths, Exists(dst, q) PROVE Front(q) # p
  <2>1. Front(q) = p => dst[p].kind = "dir"
    BY <1>1, <1>3, FrontIsDir, AboveIsDir
  <2> QED
    BY <1>2, <2>1
<1> QED
  BY <1>1, <1>2, <1>3, NoneIsNode, PutNode

\* What the second loop finds of src has been through the first.
LEMMA TimesIsCopied ==
  ASSUME StackInv, CopiedInv, NEW p, In("times", p), Exists(src, p)
  PROVE  depth \in 1..depth /\ Copied(depth, p) /\ ContentRight(p) /\ BelowRight(p)
<1>1. /\ depth \in 1..depth /\ depth \in Nat /\ writing = <<>> /\ stack[depth].loop = "times" /\ p \in Paths
      /\ Front(p) = stack[depth].dir
  BY InLoop
<1>2. p # <<>>
  BY <1>1, TreeAssumption
<1>3. Copied(depth, p)
  BY <1>1, <1>2 DEF Copied
<1> QED
  BY <1>1, <1>3 DEF CopiedInv

LEMMA SetTimesDoes ==
  ASSUME TreeInv, StackInv, CopiedInv, NEW p, SetTimes(p)
  PROVE  /\ TreeOf(dst') /\ OnlyAt(p)
         /\ dst'[p].kind = dst[p].kind /\ dst'[p].data = dst[p].data
         /\ \A q \in Paths : q # p => dst'[q] = dst[q]
<1>1. p \in Paths /\ TreeOf(dst) /\ TreeOf(src) /\ Exists(dst, p) /\ dst' = [dst EXCEPT ![p].mtime = src[p].mtime]
  BY InLoop, TimesIsCopied DEF SetTimes, TreeInv, ContentRight
<1>2. PICK node : node = [dst[p] EXCEPT !.mtime = src[p].mtime]
  OBVIOUS
<1>3. WellFormed(node) /\ node.kind = dst[p].kind /\ node.data = dst[p].data
  <2>1. dst[p] \in Node /\ src[p] \in Node /\ WellFormed(dst[p])
    BY <1>1, NodeAt
  <2>2. node \in Node /\ node.kind = dst[p].kind /\ node.data = dst[p].data
    BY <1>2, <2>1 DEF Node
  <2> QED
    BY <1>1, <2>1, <2>2 DEF WellFormed, Exists
<1>4. dst' = [dst EXCEPT ![p] = node] /\ \A q \in Paths : q # p => dst'[q] = dst[q]
  BY <1>1, <1>2 DEF TreeOf
<1>5. TreeOf(dst') /\ OnlyAt(p) /\ dst'[p] = node
  BY <1>1, <1>3, <1>4, PutFields
<1> QED
  BY <1>3, <1>4, <1>5

LEMMA SetModeDoes ==
  ASSUME TreeInv, StackInv, CopiedInv, NEW p, SetMode(p)
  PROVE  /\ TreeOf(dst') /\ OnlyAt(p)
         /\ dst'[p].kind = dst[p].kind /\ dst'[p].data = dst[p].data
         /\ dst'[p].mtime = src[p].mtime /\ dst'[p].mode = src[p].mode
         /\ \A q \in Paths : q # p => dst'[q] = dst[q]
<1>1. /\ p \in Paths /\ TreeOf(dst) /\ TreeOf(src) /\ Exists(dst, p)
      /\ dst' = [dst EXCEPT ![p].mode = src[p].mode] /\ src[p].mtime = dst[p].mtime
  BY InLoop, TimesIsCopied DEF SetMode, TimesDiffer, TreeInv, ContentRight
<1>2. PICK node : node = [dst[p] EXCEPT !.mode = src[p].mode]
  OBVIOUS
<1>3. /\ WellFormed(node) /\ node.kind = dst[p].kind /\ node.data = dst[p].data
      /\ node.mtime = src[p].mtime /\ node.mode = src[p].mode
  <2>1. dst[p] \in Node /\ src[p] \in Node /\ WellFormed(dst[p])
    BY <1>1, NodeAt
  <2>2. /\ node \in Node /\ node.kind = dst[p].kind /\ node.data = dst[p].data
        /\ node.mtime = src[p].mtime /\ node.mode = src[p].mode
    BY <1>1, <1>2, <2>1 DEF Node
  <2> QED
    BY <1>1, <2>1, <2>2 DEF WellFormed, Exists
<1>4. dst' = [dst EXCEPT ![p] = node] /\ \A q \in Paths : q # p => dst'[q] = dst[q]
  BY <1>1, <1>2 DEF TreeOf
<1>5. TreeOf(dst') /\ OnlyAt(p) /\ dst'[p] = node
  BY <1>1, <1>3, <1>4, PutFields
<1> QED
  BY <1>3, <1>4, <1>5

LEMMA RemoveExtraDoes ==
  ASSUME TreeInv, StackInv, NEW p, RemoveExtra(p)
  PROVE  /\ TreeOf(dst') /\ Under(p)
         /\ \A q \in Paths : IsPrefix(p, q) => src[q] = NONE
         /\ stack' = stack \/ (Done(p) /\ \A q \in Paths : IsPrefix(p, q) => dst'[q] = NONE)
<1>1. p \in Paths /\ TreeOf(dst) /\ TreeOf(src) /\ ~Exists(src, p)
  BY InLoop DEF RemoveExtra, TreeInv
<1>2. PICK q \in Paths : /\ IsPrefix(p, q) /\ Exists(dst, q) /\ Entries(dst, q) = {}
                         /\ SetEntry(q, NONE)
                         /\ IF q = p THEN Done(p) ELSE UNCHANGED stack
  BY DEF RemoveExtra
<1>3. \A r \in Paths : Exists(dst, r) => Front(r) # q
  BY <1>2 DEF Entries
<1>4. Front(q) \in Paths => dst[Front(q)].kind = "dir"
  BY <1>1, <1>2, FrontIsDir, AboveIsDir
<1>5. TreeOf(dst') /\ OnlyAt(q) /\ dst'[q] = NONE
  BY <1>1, <1>2, <1>3, <1>4, NoneIsNode, PutNode
<1>6. Under(p)
  <2>1. CASE q = p
    BY <1>5, <2>1, OnlyAtIsUnder
  <2>2. CASE q # p
    <3>1. IsPrefix(p, Front(q))
      <4>1. /\ p \in Dirs /\ q \in Dirs /\ Front(q) \in Dirs /\ Len(p) \in Nat /\ Len(q) \in Nat
            /\ Len(Front(q)) = Len(q) - 1 /\ IsPrefix(Front(q), q) /\ IsPrefix(q, q)
        BY <1>1, FrontIsDir, PrefixOrders
      <4>2. Len(p) <= Len(q) /\ Len(p) # Len(q)
        BY <1>2, <2>2, <4>1, PrefixOrders
      <4> QED
        BY <1>2, <4>1, <4>2, PrefixOrders
    <3> QED
      BY <1>2, <1>5, <3>1 DEF Under, OnlyAt
  <2> QED
    BY <2>1, <2>2
<1>7. ASSUME NEW t, TreeOf(t), t[p] = NONE, NEW r \in Paths, IsPrefix(p, r) PROVE t[r] = NONE
  BY <1>1, <1>7, NothingBelow DEF NONE
<1>8. src[p] = NONE
  BY <1>1, NodeAt DEF WellFormed, Exists
<1>9. \A r \in Paths : IsPrefix(p, r) => src[r] = NONE
  BY <1>1, <1>7, <1>8
<1>10. q = p => \A r \in Paths : IsPrefix(p, r) => dst'[r] = NONE
  BY <1>5, <1>7
<1> QED
  BY <1>2, <1>5, <1>6, <1>9, <1>10

-----------------------------------------------------------------------------
(* A step that deals with entry p of the innermost call.                   *)

\* The calls are the same, but that p may be done.
SameCalls(p) ==
  /\ stack' \in Seq(Frame) /\ Len(stack') = depth
  /\ \A i \in 1..depth : /\ stack'[i].dir = stack[i].dir /\ stack'[i].loop = stack[i].loop
                         /\ stack'[i].todo \subseteq stack[i].todo
                         /\ stack[i].todo \subseteq stack'[i].todo \cup {p}

\* What such a step does.
AtEntry(p) == /\ p \in Paths /\ depth > 0 /\ Front(p) = stack[depth].dir
              /\ TreeOf(dst') /\ Under(p) /\ SameCalls(p)
              /\ writing \in {<<>>, p} /\ writing' \in {<<>>, p}
              /\ UNCHANGED history

LEMMA FrameAt ==
  ASSUME StackInv, NEW i \in 1..depth
  PROVE  /\ depth \in Nat /\ i \in Nat /\ stack[i] \in Frame /\ stack[i].dir \in Dirs
         /\ stack[i].todo \subseteq Paths /\ Len(stack[i].dir) = i - 1
         /\ IsDir(stack[i].dir) /\ stack[i].loop \in {"contents", "times"}
<1>1. stack \in Seq(Frame) /\ depth \in Nat
  BY LenProperties DEF StackInv, depth
<1>2. stack[i] \in Frame
  BY <1>1, ElementOfSeq DEF depth
<1> QED
  BY <1>1, <1>2 DEF StackInv, Frame, Dirs

LEMMA LengthIsPlace ==
  ASSUME StackInv, NEW i \in 1..depth, NEW c \in Paths, Front(c) = stack[i].dir
  PROVE  Len(c) = i
<1>1. Len(Front(c)) = Len(c) - 1 /\ Len(c) \in Nat \ {0}
  BY FrontIsDir
<1>2. Len(stack[i].dir) = i - 1 /\ i \in Nat
  BY FrameAt
<1>3. \A x, y \in Nat : x - 1 = y - 1 => x = y
  OBVIOUS
<1> QED
  BY <1>1, <1>2, <1>3

LEMMA DoneKeepsCalls ==
  ASSUME StackInv, depth > 0, NEW p, stack' = stack \/ Done(p)
  PROVE  SameCalls(p)
<1>1. stack \in Seq(Frame) /\ depth \in Nat /\ depth \in 1..depth
  <2>1. stack \in Seq(Frame) /\ depth \in Nat
    BY LenProperties DEF StackInv, depth
  <2> QED
    BY <2>1
<1>2. \A i \in 1..depth : stack[i] \in Frame
  BY FrameAt
<1>3. CASE stack' = stack
  BY <1>1, <1>3 DEF SameCalls, depth
<1>4. CASE Done(p)
  <2>1. PICK f : f = [stack[depth] EXCEPT !.todo = @ \ {p}]
    OBVIOUS
  <2>2. f \in Frame /\ f.dir = stack[depth].dir /\ f.loop = stack[depth].loop /\ f.todo = stack[depth].todo \ {p}
    <3>1. stack[depth] \in Frame
      BY <1>1, <1>2
    <3> QED
      BY <2>1, <3>1 DEF Frame
  <2>3. stack' = [stack EXCEPT ![depth] = f]
    <3>1. DOMAIN stack = 1..depth
      BY <1>1, LenProperties DEF depth
    <3> QED
      BY <1>1, <1>4, <2>1, <3>1 DEF Done, depth
  <2>4. /\ stack' \in Seq(Frame) /\ Len(stack') = depth /\ stack'[depth] = f
        /\ \A i \in 1..depth : i # depth => stack'[i] = stack[i]
    BY <1>1, <2>2, <2>3, ExceptSeq DEF depth
  <2> QED
    BY <2>2, <2>4 DEF SameCalls
<1> QED
  BY <1>3, <1>4

LEMMA SameObstacles ==
  ASSUME UNCHANGED history, NEW q
  PROVE  (Obstructed(q)' <=> Obstructed(q)) /\ (Spoilt(q)' <=> Spoilt(q))
BY DEF history, Obstructed, Spoilt, Exists, Differ

\* What belongs to another entry is left alone.
LEMMA ElsewhereKept ==
  ASSUME StackInv, NEW p, AtEntry(p), NEW i \in 1..depth, NEW c \in Paths, Front(c) = stack[i].dir, c # p,
         i < depth => c # stack[i + 1].dir, NEW q \in Paths, IsPrefix(c, q)
  PROVE  dst'[q] = dst[q]
<1>1. /\ p \in Paths /\ depth > 0 /\ depth \in Nat /\ depth \in 1..depth /\ i \in Nat /\ i <= depth
      /\ Front(p) = stack[depth].dir /\ Under(p)
  BY FrameAt DEF AtEntry
<1>2. Len(c) = i /\ Len(p) = depth
  BY <1>1, LengthIsPlace
<1>3. /\ c \in Dirs /\ p \in Dirs /\ q \in Dirs /\ Front(p) \in Dirs /\ IsPrefix(Front(p), p)
      /\ Len(Front(p)) = depth - 1
  BY <1>1, <1>2, FrontIsDir
<1>4. ASSUME i < depth PROVE ~IsPrefix(c, p)
  <2>1. i + 1 \in 1..depth /\ i + 1 <= depth
    BY <1>1, <1>4
  <2>2. stack[i + 1].dir \in Dirs /\ Len(stack[i + 1].dir) = i
    <3>1. stack[i + 1].dir \in Dirs /\ Len(stack[i + 1].dir) = i + 1 - 1
      BY <2>1, FrameAt
    <3> QED
      BY <1>1, <3>1
  <2>3. IsPrefix(stack[i + 1].dir, Front(p))
    BY <1>1, <2>1 DEF StackInv
  <2>4. IsPrefix(stack[i + 1].dir, p)
    BY <1>3, <2>2, <2>3, PrefixOrders
  <2>5. IsPrefix(c, p) => c = stack[i + 1].dir
    BY <1>2, <1>3, <2>2, <2>4, PrefixOrders
  <2> QED
    BY <1>4, <2>5
<1>5. ~IsPrefix(p, q)
  <2>1. IsPrefix(p, q) => IsPrefix(c, p)
    BY <1>1, <1>2, <1>3, PrefixOrders
  <2>2. i = depth /\ IsPrefix(p, q) => c = p
    BY <1>2, <1>3, PrefixOrders
  <2> QED
    BY <1>1, <1>4, <2>1, <2>2
<1>6. q # Front(p)
  <2>1. q = Front(p) => IsPrefix(c, p)
    BY <1>3, PrefixOrders
  <2>2. q = Front(p) => i <= depth - 1
    <3>1. IsPrefix(c, q) => Len(c) <= Len(q)
      BY <1>3, PrefixOrders
    <3> QED
      BY <1>2, <1>3, <3>1
  <2> QED
    BY <1>1, <1>4, <2>1, <2>2
<1> QED
  BY <1>1, <1>5, <1>6 DEF Under

\* The calls are as good as they were.
LEMMA EntryKeepsStack ==
  ASSUME StackInv, NEW p, AtEntry(p)
  PROVE  StackInv'
<1>1. /\ p \in Paths /\ depth > 0 /\ depth \in Nat /\ depth \in 1..depth /\ Front(p) = stack[depth].dir /\ Under(p)
      /\ SameCalls(p) /\ UNCHANGED src
  BY LenProperties DEF AtEntry, StackInv, depth, history
<1>2. depth' = depth /\ stack' \in Seq(Frame)
  BY <1>1 DEF SameCalls, depth
<1>3. ASSUME NEW i \in 1..depth, NEW d, d = stack[i].dir PROVE IsDir(d)'
  <2>1. i \in Nat /\ d \in Dirs /\ Len(d) = i - 1 /\ IsDir(d) /\ i <= depth
    BY <1>3, FrameAt
  <2>2. p \in Dirs /\ Len(p) = depth
    BY <1>1, LengthIsPlace DEF Dirs
  <2>3. ~IsPrefix(p, d)
    <3>1. IsPrefix(p, d) => depth <= i - 1
      BY <2>1, <2>2, PrefixOrders
    <3> QED
      BY <1>1, <2>1, <3>1
  <2>4. d \in Paths => dst'[d].kind = dst[d].kind
    BY <1>1, <2>3 DEF Under
  <2> QED
    BY <1>1, <2>1, <2>4 DEF IsDir
<1>4. \A i \in 1..depth : /\ stack'[i].dir = stack[i].dir /\ stack'[i].loop = stack[i].loop
                          /\ stack'[i].todo \subseteq stack[i].todo
  BY <1>1 DEF SameCalls
<1>5. \A i \in 1..depth :
        /\ IsDir(stack[i].dir)' /\ Len(stack'[i].dir) = i - 1
        /\ \A c \in stack'[i].todo : Front(c) = stack'[i].dir
        /\ stack'[i].loop = "contents" => \A c \in stack'[i].todo : Exists(src, c)'
  <2>1. \A i \in 1..depth : IsDir(stack[i].dir)'
    <3>1. ASSUME NEW i \in 1..depth PROVE IsDir(stack[i].dir)'
      <4>1. PICK d : d = stack[i].dir
        OBVIOUS
      <4>2. stack'[i].dir = d
        BY <1>4, <4>1
      <4>3. IsDir(d)'
        BY <1>3, <4>1
      <4> QED
        BY <4>2, <4>3 DEF IsDir
    <3> QED
      BY <3>1
  <2> QED
    BY <1>1, <1>4, <2>1 DEF StackInv, Exists
<1>6. \A i, j \in 1..depth : i <= j => IsPrefix(stack'[i].dir, stack'[j].dir)
  BY <1>4 DEF StackInv
<1>7. \A i \in 1..depth : i < depth => stack'[i].loop = "contents" /\ stack'[i + 1].dir \notin stack'[i].todo
  <2>1. \A i \in 1..depth : i < depth => i + 1 \in 1..depth
    BY <1>1
  <2> QED
    BY <1>4, <2>1 DEF StackInv
<1> QED
  BY <1>2, <1>5, <1>6, <1>7 DEF StackInv

LEMMA KeptIsRight ==
  ASSUME UNCHANGED history, NEW c \in Paths, \A q \in Paths : IsPrefix(c, q) => dst'[q] = dst[q]
  PROVE  /\ ContentRight(c) => ContentRight(c)'
         /\ Right(c) => Right(c)'
         /\ BelowRight(c) => BelowRight(c)'
<1>1. UNCHANGED src /\ (Obstructed(c)' <=> Obstructed(c)) /\ \A q \in Paths : (Spoilt(q)' <=> Spoilt(q))
  BY SameObstacles DEF history
<1>2. dst'[c] = dst[c]
  BY FrontIsDir, PrefixOrders
<1>3. ASSUME NEW q \in Paths, dst'[q] = dst[q], Right(q) PROVE Right(q)'
  BY <1>1, <1>3 DEF Right, Exists
<1>4. ContentRight(c) => ContentRight(c)'
  BY <1>1, <1>2 DEF ContentRight, Exists
<1>5. BelowRight(c) => BelowRight(c)'
  <2>1. ASSUME BelowRight(c), NEW q \in Paths, IsPrefix(c, q), q # c PROVE Right(q)'
    BY <1>3, <2>1 DEF BelowRight
  <2> QED
    BY <2>1 DEF BelowRight
<1> QED
  BY <1>2, <1>3, <1>4, <1>5

\* The same call, and the same calls above it.
LEMMA CallsAfter ==
  ASSUME StackInv, NEW p, AtEntry(p)
  PROVE  /\ depth' = depth /\ depth \in Nat /\ depth \in 1..depth
         /\ \A i \in 1..depth : /\ stack'[i].dir = stack[i].dir /\ stack'[i].loop = stack[i].loop
                                /\ \A c \in Paths : c # p => (c \in stack'[i].todo <=> c \in stack[i].todo)
         /\ \A i \in 1..depth : i < depth => i + 1 \in 1..depth
<1>1. SameCalls(p) /\ depth \in Nat /\ depth > 0
  BY LenProperties DEF AtEntry, StackInv, depth
<1>2. depth' = depth
  BY <1>1 DEF SameCalls, depth
<1> QED
  BY <1>1, <1>2 DEF SameCalls

LEMMA EntryKeepsCopied ==
  ASSUME StackInv, CopiedInv, NEW p, AtEntry(p),
         Copied(depth, p)' => ContentRight(p)' /\ BelowRight(p)'
  PROVE  CopiedInv'
<1>1. p \in Paths /\ Front(p) = stack[depth].dir /\ writing \in {<<>>, p} /\ UNCHANGED <<history, src>>
  BY DEF AtEntry, history
<1>2. SUFFICES ASSUME NEW i \in 1..depth, NEW c \in Paths, Copied(i, c)'
               PROVE  ContentRight(c)' /\ BelowRight(c)'
  <2>1. depth' = depth
    BY CallsAfter
  <2> QED
    BY <1>2, <2>1 DEF CopiedInv
<1>3. /\ Front(c) = stack[i].dir /\ Exists(src, c) /\ (i < depth => c # stack[i + 1].dir)
      /\ stack[i].loop = "contents" => c \notin stack'[i].todo
  BY <1>1, <1>2, CallsAfter DEF Copied, Exists
<1>4. CASE c = p
  <2>1. Len(p) = i /\ Len(p) = depth
    BY <1>1, <1>3, <1>4, LengthIsPlace, CallsAfter
  <2>2. i = depth'
    BY <2>1, CallsAfter
  <2>3. Copied(depth, p)'
    BY <1>2, <1>4, <2>2 DEF Copied
  <2> QED
    BY <1>4, <2>3
<1>5. CASE c # p
  <2>1. c # writing
    BY <1>1, <1>5, TreeAssumption
  <2>2. Copied(i, c)
    BY <1>3, <1>5, <2>1, CallsAfter DEF Copied
  <2>3. ContentRight(c) /\ BelowRight(c)
    BY <2>2 DEF CopiedInv
  <2>4. \A q \in Paths : IsPrefix(c, q) => dst'[q] = dst[q]
    BY <1>3, <1>5, ElsewhereKept
  <2> QED
    BY <1>1, <2>3, <2>4, KeptIsRight
<1> QED
  BY <1>4, <1>5

LEMMA EntryKeepsSettled ==
  ASSUME StackInv, SettledInv, NEW p, AtEntry(p),
         Settled(depth, p)' => Right(p)' /\ BelowRight(p)'
  PROVE  SettledInv'
<1>1. p \in Paths /\ Front(p) = stack[depth].dir /\ UNCHANGED <<history, src>>
  BY DEF AtEntry, history
<1>2. SUFFICES ASSUME NEW i \in 1..depth, NEW c \in Paths, Settled(i, c)'
               PROVE  Right(c)' /\ BelowRight(c)'
  <2>1. depth' = depth
    BY CallsAfter
  <2> QED
    BY <1>2, <2>1 DEF SettledInv
<1>3. Front(c) = stack[i].dir /\ stack[i].loop = "times" /\ c \notin stack'[i].todo
  BY <1>1, <1>2, CallsAfter DEF Settled
<1>4. CASE c = p
  <2>1. Len(p) = i /\ Len(p) = depth
    BY <1>1, <1>3, <1>4, LengthIsPlace, CallsAfter
  <2>2. i = depth'
    BY <2>1, CallsAfter
  <2>3. Settled(depth, p)'
    BY <1>2, <1>4, <2>2 DEF Settled
  <2> QED
    BY <1>4, <2>3
<1>5. CASE c # p
  <2>1. Settled(i, c)
    BY <1>3, <1>5, CallsAfter DEF Settled
  <2>2. Right(c) /\ BelowRight(c)
    BY <2>1 DEF SettledInv
  <2>3. ~(i < depth)
    BY <1>3 DEF StackInv
  <2>4. \A q \in Paths : IsPrefix(c, q) => dst'[q] = dst[q]
    BY <1>3, <1>5, <2>3, ElsewhereKept
  <2> QED
    BY <1>1, <2>2, <2>4, KeptIsRight
<1> QED
  BY <1>4, <1>5

LEMMA EntryKeepsFiles ==
  ASSUME StackInv, FileInv, NEW p, AtEntry(p), Front(p) \in Paths => src[Front(p)].kind = "dir",
         \A q \in Paths : IsPrefix(p, q) /\ src[q].kind = "file" =>
                            FileFine(q)' \/ (q # p /\ dst'[q] = dst[q])
  PROVE  FileInv'
<1>1. /\ p \in Paths /\ writing \in {<<>>, p} /\ UNCHANGED <<src, before, kills, history>> /\ Under(p)
      /\ IsPrefix(p, p)
  BY FrontIsDir, PrefixOrders DEF AtEntry, history
<1>2. SUFFICES ASSUME NEW q \in Paths, src[q].kind = "file" PROVE FileFine(q)'
  BY <1>1, <1>2 DEF FileInv
<1>3. ASSUME q # p, q # writing, dst'[q] = dst[q] PROVE FileFine(q)'
  <2>1. FileFine(q) /\ (Obstructed(q)' <=> Obstructed(q))
    BY <1>1, <1>2, SameObstacles DEF FileInv
  <2> QED
    BY <1>1, <1>3, <2>1 DEF FileFine, Exists, MayOpen, Differ
<1>4. q # p => q # writing
  BY <1>1, <1>2, TreeAssumption
<1>5. CASE IsPrefix(p, q)
  BY <1>2, <1>3, <1>4, <1>5
<1>6. CASE ~IsPrefix(p, q)
  <2>1. q # Front(p) /\ q # p
    BY <1>1, <1>2, <1>6, TreeAssumption
  <2> QED
    BY <1>1, <1>3, <1>4, <1>6, <2>1 DEF Under
<1> QED
  BY <1>5, <1>6

-----------------------------------------------------------------------------
(* The first loop.                                                         *)

SyncInv == /\ TreeInv /\ StackInv /\ WriteInv /\ FileInv
           /\ CopiedInv /\ SettledInv /\ EndInv

LEMMA EntryKeepsRest ==
  ASSUME TreeInv, StackInv, NEW p, AtEntry(p)
  PROVE  TreeInv' /\ StackInv' /\ EndInv'
<1>1. depth' = depth /\ depth \in 1..depth /\ depth \in Nat
  BY CallsAfter
<1>2. stack' # <<>>
  <2>1. Len(<<>>) = 0
    BY EmptySeq
  <2> QED
    BY <1>1, <2>1 DEF depth
<1>3. TreeInv'
  BY DEF AtEntry, TreeInv, history, TreeOf, Exists
<1> QED
  BY <1>2, <1>3, EntryKeepsStack DEF EndInv

LEMMA NothingInSrc ==
  ASSUME TreeInv, NEW p \in Paths, src[p].kind = "file", NEW q \in Paths, IsPrefix(p, q), q # p
  PROVE  src[q] = NONE /\ ~Exists(src, q) /\ src[q].kind # "file"
<1>1. src[q] = NONE
  BY NothingBelow DEF TreeInv
<1> QED
  BY <1>1 DEF NONE, Exists

\* Below a file there is nothing to be made right.
LEMMA BelowFile ==
  ASSUME TreeInv, NEW p \in Paths, src[p].kind = "file", ContentRight(p)
  PROVE  BelowRight(p)
<1> SUFFICES ASSUME NEW q \in Paths, IsPrefix(p, q), q # p PROVE Right(q)
  BY DEF BelowRight
<1>1. src[q] = NONE /\ ~Exists(src, q)
  BY NothingInSrc
<1>2. CASE dst[p].kind = "dir"
  <2>1. Obstructed(p)
    BY <1>2 DEF ContentRight
  <2> QED
    BY <1>1, <2>1 DEF Right, Spoilt
<1>3. CASE dst[p].kind # "dir"
  <2>1. dst[q] = NONE
    BY <1>3, NothingBelow DEF TreeInv
  <2> QED
    BY <1>1, <2>1 DEF Right
<1> QED
  BY <1>2, <1>3

\* No blocks are the first blocks of anything.
LEMMA NoBlocksYet ==
  ASSUME NEW s \in Seq(Blocks)
  PROVE  Len(<<>>) = 0 /\ Len(<<>>) <= Len(s) /\ SubSeq(s, 1, Len(<<>>)) = <<>> /\ (Len(s) = 0 => s = <<>>)
<1>1. Len(<<>>) = 0 /\ Len(s) \in Nat
  BY EmptySeq, LenProperties
<1>2. SubSeq(s, 1, 0) = <<>>
  BY SubSeqEmpty
<1>3. Len(s) = 0 => s = <<>>
  BY EmptySeq
<1> QED
  BY <1>1, <1>2, <1>3

LEMMA DataOf ==
  ASSUME NEW t, TreeOf(t), NEW p \in Paths
  PROVE  t[p].data \in Seq(Blocks) /\ Len(t[p].data) \in Nat
<1>1. t[p].data \in Seq(Blocks)
  BY NodeAt DEF Node
<1> QED
  BY <1>1, LenProperties

\* A file has just been opened.
LEMMA OpenedKeeps ==
  ASSUME SyncInv, NEW p, In("contents", p), AtEntry(p), Done(p), writing' = p,
         src[p].kind = "file", dst'[p].kind = "file", dst'[p].data = <<>>,
         FileFine(p)'
  PROVE  SyncInv'
<1>1. /\ StackInv /\ TreeInv /\ p \in Paths /\ depth \in Nat \ {0} /\ depth \in 1..depth /\ stack[depth].loop = "contents"
      /\ Front(p) = stack[depth].dir /\ (Front(p) \in Paths => src[Front(p)].kind = "dir")
      /\ UNCHANGED <<src, history>>
  BY InLoop DEF SyncInv, AtEntry, history
<1>2. depth' = depth /\ stack'[depth].dir = stack[depth].dir /\ stack'[depth].loop = "contents"
  BY <1>1, CallsAfter
<1>3. p \notin stack'[depth].todo
  <2>1. stack \in Seq(Frame) /\ DOMAIN stack = 1..depth
    BY <1>1, LenProperties DEF StackInv, depth
  <2>2. stack[depth] \in Frame
    BY <1>1, FrameAt
  <2>3. stack'[depth] = [stack[depth] EXCEPT !.todo = @ \ {p}]
    BY <1>1, <2>1 DEF Done, depth
  <2> QED
    BY <2>2, <2>3 DEF Frame
<1>4. WriteInv'
  <2>1. src[p].data \in Seq(Blocks)
    BY <1>1, DataOf DEF TreeInv
  <2>2. Len(<<>>) <= Len(src[p].data) /\ SubSeq(src[p].data, 1, Len(<<>>)) = <<>>
    BY <2>1, NoBlocksYet
  <2> QED
    BY <1>1, <1>2, <1>3, <2>2 DEF WriteInv
<1>5. ~Copied(depth, p)' /\ ~Settled(depth, p)'
  BY <1>2 DEF Copied, Settled
<1>6. \A q \in Paths : IsPrefix(p, q) /\ src[q].kind = "file" => q = p
  BY <1>1, NothingInSrc
<1>7. CopiedInv'
  BY <1>1, <1>5, EntryKeepsCopied DEF SyncInv
<1>8. SettledInv'
  BY <1>1, <1>5, EntryKeepsSettled DEF SyncInv
<1>9. FileInv'
  BY <1>1, <1>6, EntryKeepsFiles DEF SyncInv
<1> QED
  BY <1>1, <1>4, <1>7, <1>8, <1>9, EntryKeepsRest DEF SyncInv

LEMMA CreatKeeps == ASSUME SyncInv, NEW p, Creat(p) PROVE SyncInv'
<1>1. /\ StackInv /\ TreeInv /\ In("contents", p) /\ Done(p) /\ writing' = p /\ src[p].kind = "file"
      /\ ~Exists(dst, p) /\ UNCHANGED <<history, src, before>>
  BY DEF SyncInv, Creat, history
<1>2. p \in Paths /\ depth > 0 /\ writing = <<>> /\ Front(p) = stack[depth].dir /\ TreeOf(src)
  BY <1>1, InLoop DEF TreeInv
<1>3. /\ TreeOf(dst') /\ OnlyAt(p) /\ dst'[p].kind = "file" /\ dst'[p].data = <<>>
      /\ dst'[p].mode = src[p].mode
  BY <1>1, CreatDoes
<1>4. AtEntry(p)
  BY <1>1, <1>2, <1>3, OnlyAtIsUnder, DoneKeepsCalls DEF AtEntry
<1>5. FileFine(p)'
  <2>1. FileFine(p) /\ (Obstructed(p)' <=> Obstructed(p))
    BY <1>1, <1>2, SameObstacles DEF SyncInv, FileInv
  <2>2. src[p].data # <<>> => Len(src[p].data) # Len(<<>>)
    BY <1>2, DataOf, NoBlocksYet
  <2>3. src[p].mode \in {"rw", "ro"}
    BY <1>2, NodeAt DEF Node
  <2>4. dst'[p].data = src[p].data \/ Differ(src[p], dst'[p])
    BY <1>3, <2>2 DEF Differ
  <2>5. CASE Obstructed(p)
    BY <1>3, <2>1, <2>5 DEF FileFine, Exists
  <2>6. CASE ~Exists(before, p)
    <3>1. CASE src[p].mode = "rw"
      <4>1. MayOpen(dst'[p])
        BY <1>3, <3>1 DEF MayOpen
      <4> QED
        BY <1>1, <1>3, <2>4, <4>1 DEF FileFine, Differ, MayOpen
    <3>2. CASE src[p].mode = "ro"
      BY <1>1, <1>3, <2>6, <3>2 DEF FileFine, Exists
    <3> QED
      BY <2>3, <3>1, <3>2
  <2> QED
    BY <1>1, <2>1, <2>5, <2>6 DEF FileFine, Exists
<1> QED
  BY <1>1, <1>3, <1>4, <1>5, OpenedKeeps

LEMMA TruncateKeeps == ASSUME SyncInv, NEW p, Truncate(p) PROVE SyncInv'
<1>1. /\ StackInv /\ TreeInv /\ In("contents", p) /\ Done(p) /\ writing' = p /\ src[p].kind = "file"
      /\ UNCHANGED <<history, src>>
  BY DEF SyncInv, Truncate, history
<1>2. p \in Paths /\ depth > 0 /\ writing = <<>> /\ Front(p) = stack[depth].dir /\ TreeOf(src)
  BY <1>1, InLoop DEF TreeInv
<1>3. TreeOf(dst') /\ OnlyAt(p) /\ dst'[p].kind = "file" /\ dst'[p].data = <<>> /\ dst'[p].mode = "rw"
  BY <1>1, TruncateDoes
<1>4. AtEntry(p)
  BY <1>1, <1>2, <1>3, OnlyAtIsUnder, DoneKeepsCalls DEF AtEntry
<1>5. FileFine(p)'
  <2>1. src[p].data # <<>> => Len(src[p].data) # Len(<<>>)
    BY <1>2, DataOf, NoBlocksYet
  <2>2. dst'[p].data = src[p].data \/ Differ(src[p], dst'[p])
    BY <1>3, <2>1 DEF Differ
  <2>3. MayOpen(dst'[p])
    BY <1>3 DEF MayOpen
  <2> QED
    BY <1>1, <1>3, <2>2, <2>3 DEF FileFine, Differ, MayOpen
<1> QED
  BY <1>1, <1>3, <1>4, <1>5, OpenedKeeps

LEMMA LeaveFileKeeps == ASSUME SyncInv, NEW p, LeaveFile(p) PROVE SyncInv'
<1>1. /\ StackInv /\ TreeInv /\ In("contents", p) /\ Done(p) /\ src[p].kind = "file" /\ Exists(dst, p)
      /\ ~(MayOpen(dst[p]) /\ Differ(src[p], dst[p]))
      /\ UNCHANGED <<dst, writing, history, src, before>>
  BY DEF SyncInv, LeaveFile, history
<1>2. /\ p \in Paths /\ depth > 0 /\ writing = <<>> /\ Front(p) = stack[depth].dir /\ TreeOf(dst)
      /\ (Front(p) \in Paths => src[Front(p)].kind = "dir")
  BY <1>1, InLoop DEF TreeInv
<1>3. TreeOf(dst') /\ Under(p)
  BY <1>1, <1>2 DEF Under
<1>4. AtEntry(p)
  BY <1>1, <1>2, <1>3, DoneKeepsCalls DEF AtEntry
<1>5. ContentRight(p)
  <2>1. FileFine(p)
    BY <1>1, <1>2 DEF SyncInv, FileInv
  <2>2. p # writing
    BY <1>2, TreeAssumption
  <2> QED
    BY <1>1, <2>1, <2>2 DEF FileFine, ContentRight
<1>6. BelowRight(p)
  BY <1>1, <1>2, <1>5, BelowFile
<1>7. ContentRight(p)' /\ BelowRight(p)'
  BY <1>1, <1>2, <1>5, <1>6, KeptIsRight
<1>8. ~Settled(depth, p)'
  <2>1. stack'[depth'].loop = "contents"
    BY <1>1, <1>4, CallsAfter, InLoop
  <2> QED
    BY <2>1 DEF Settled
<1>9. CopiedInv'
  BY <1>1, <1>4, <1>7, EntryKeepsCopied DEF SyncInv
<1>10. SettledInv'
  BY <1>1, <1>4, <1>8, EntryKeepsSettled DEF SyncInv
<1>11. FileInv'
  <2>1. FileFine(p)'
    BY <1>1, <1>2 DEF SyncInv, FileInv, FileFine, Obstructed, Exists, Differ, MayOpen, history
  <2> QED
    BY <1>1, <1>2, <1>4, <2>1, EntryKeepsFiles DEF SyncInv
<1>12. WriteInv'
  BY <1>1, <1>2 DEF WriteInv
<1> QED
  BY <1>1, <1>4, <1>9, <1>10, <1>11, <1>12, EntryKeepsRest DEF SyncInv

LEMMA WriteKeeps == ASSUME SyncInv, Write PROVE SyncInv'
<1>0. PICK p : p = writing
  OBVIOUS
<1>1. /\ StackInv /\ TreeInv /\ WriteInv /\ p = writing /\ p # <<>> /\ stack' = stack
      /\ UNCHANGED <<history, src, before>>
  BY <1>0 DEF SyncInv, Write, history
<1>2. /\ depth > 0 /\ stack[depth].loop = "contents" /\ p \in Paths /\ Front(p) = stack[depth].dir
      /\ p \notin stack[depth].todo /\ src[p].kind = "file" /\ dst[p].kind = "file"
      /\ Len(dst[p].data) <= Len(src[p].data)
      /\ dst[p].data = SubSeq(src[p].data, 1, Len(dst[p].data))
  BY <1>1 DEF WriteInv
<1>3. /\ depth \in Nat /\ depth \in 1..depth /\ TreeOf(src) /\ TreeOf(dst)
      /\ (Front(p) \in Paths => src[Front(p)].kind = "dir")
  <2>1. depth \in Nat /\ depth \in 1..depth
    BY <1>1, <1>2, LenProperties DEF StackInv, depth
  <2>2. <<>> \notin Paths
    BY TreeAssumption
  <2> QED
    BY <1>1, <1>2, <2>1, <2>2, FrameAt DEF IsDir, TreeInv
<1>4. Len(src[p].data) \in Nat /\ Len(dst[p].data) \in Nat /\ src[p].data \in Seq(Blocks)
  BY <1>2, <1>3, DataOf
<1>5. \A q \in Paths : IsPrefix(p, q) /\ src[q].kind = "file" => q = p
  BY <1>1, <1>2, NothingInSrc
<1>6. CASE Len(dst[p].data) < Len(src[p].data)
  <2>1. /\ TreeOf(dst') /\ OnlyAt(p) /\ dst'[p].kind = "file" /\ dst'[p].mode = dst[p].mode
        /\ dst'[p].data = SubSeq(src[p].data, 1, Len(dst[p].data) + 1)
        /\ Len(dst'[p].data) = Len(dst[p].data) + 1 /\ writing' = p
    BY <1>1, <1>6, WriteDoes DEF Write
  <2>2. AtEntry(p)
    BY <1>1, <1>2, <2>1, OnlyAtIsUnder, DoneKeepsCalls DEF AtEntry
  <2>3. WriteInv'
    <3>1. Len(dst[p].data) + 1 <= Len(src[p].data)
      BY <1>4, <1>6
    <3> QED
      BY <1>1, <1>2, <2>1, <3>1 DEF WriteInv, depth
  <2>4. FileFine(p)'
    <3>1. FileFine(p) /\ (Obstructed(p)' <=> Obstructed(p))
      BY <1>1, <1>2, SameObstacles DEF SyncInv, FileInv
    <3>2. dst[p].data # src[p].data
      BY <1>4, <1>6
    <3>3. dst'[p].data = src[p].data \/ Differ(src[p], dst'[p])
      <4>1. Len(dst'[p].data) = Len(src[p].data) => dst'[p].data = src[p].data
        BY <1>4, <2>1, SubSeqFull
      <4> QED
        BY <4>1 DEF Differ
    <3>4. CASE Obstructed(p)
      BY <2>1, <3>1, <3>4 DEF FileFine, Exists
    <3>5. CASE MayOpen(dst[p])
      <4>1. MayOpen(dst'[p])
        BY <2>1, <3>5 DEF MayOpen
      <4> QED
        BY <1>1, <2>1, <3>3, <4>1 DEF FileFine, MayOpen, Differ
    <3>6. CASE src[p].mode = "ro" /\ ~Exists(before, p)
      BY <1>1, <2>1, <3>6 DEF FileFine, Exists
    <3> QED
      BY <1>2, <3>1, <3>2, <3>4, <3>5, <3>6 DEF FileFine, Exists
  <2>5. ~Copied(depth, p)' /\ ~Settled(depth, p)'
    BY <1>1, <1>2, <2>1 DEF Copied, Settled, depth
  <2>6. CopiedInv'
    BY <1>1, <2>2, <2>5, EntryKeepsCopied DEF SyncInv
  <2>7. SettledInv'
    BY <1>1, <2>2, <2>5, EntryKeepsSettled DEF SyncInv
  <2>8. FileInv'
    BY <1>1, <1>3, <1>5, <2>2, <2>4, EntryKeepsFiles DEF SyncInv
  <2> QED
    BY <1>1, <2>2, <2>3, <2>6, <2>7, <2>8, EntryKeepsRest DEF SyncInv
<1>7. CASE ~(Len(dst[p].data) < Len(src[p].data))
  <2>1. writing' = <<>> /\ dst' = dst
    BY <1>1, <1>7 DEF Write
  <2>2. AtEntry(p)
    BY <1>1, <1>2, <1>3, <2>1, DoneKeepsCalls DEF AtEntry, Under
  <2>3. dst[p].data = src[p].data
    <3>1. Len(dst[p].data) = Len(src[p].data)
      BY <1>2, <1>4, <1>7
    <3> QED
      BY <1>2, <1>4, <3>1, SubSeqFull
  <2>4. ContentRight(p) /\ BelowRight(p)
    <3>1. ContentRight(p)
      BY <1>2, <2>3 DEF ContentRight, Exists
    <3> QED
      BY <1>1, <1>2, <3>1, BelowFile
  <2>5. ContentRight(p)' /\ BelowRight(p)'
    BY <1>1, <1>2, <2>1, <2>4, KeptIsRight
  <2>6. ~Settled(depth, p)'
    BY <1>1, <1>2 DEF Settled, depth
  <2>7. FileFine(p)'
    BY <1>1, <1>2, <2>1, <2>3 DEF FileFine
  <2>8. CopiedInv'
    BY <1>1, <2>2, <2>5, EntryKeepsCopied DEF SyncInv
  <2>9. SettledInv'
    BY <1>1, <2>2, <2>6, EntryKeepsSettled DEF SyncInv
  <2>10. FileInv'
    BY <1>1, <1>3, <1>5, <2>2, <2>7, EntryKeepsFiles DEF SyncInv
  <2>11. WriteInv'
    BY <2>1 DEF WriteInv
  <2> QED
    BY <1>1, <2>2, <2>8, <2>9, <2>10, <2>11, EntryKeepsRest DEF SyncInv
<1> QED
  BY <1>6, <1>7

\* Making place for a directory leaves the entry to be done.
LEMMA MakingPlaceKeeps ==
  ASSUME SyncInv, NEW p, In("contents", p), src[p].kind = "dir", TreeOf(dst'), OnlyAt(p),
         UNCHANGED <<stack, writing, history>>
  PROVE  SyncInv'
<1>1. /\ StackInv /\ TreeInv /\ p \in Paths /\ depth > 0 /\ writing = <<>> /\ writing' = <<>> /\ UNCHANGED src
      /\ Front(p) = stack[depth].dir /\ p \in stack[depth].todo /\ stack[depth].loop = "contents"
      /\ (Front(p) \in Paths => src[Front(p)].kind = "dir")
  BY InLoop DEF SyncInv, history
<1>2. AtEntry(p)
  BY <1>1, OnlyAtIsUnder, DoneKeepsCalls DEF AtEntry
<1>3. ~Copied(depth, p)' /\ ~Settled(depth, p)'
  BY <1>1 DEF Copied, Settled, depth
<1>4. \A q \in Paths : IsPrefix(p, q) /\ src[q].kind = "file" => q # p /\ dst'[q] = dst[q]
  <2>1. ASSUME NEW q \in Paths, IsPrefix(p, q), src[q].kind = "file" PROVE q # Front(p) /\ q # p
    BY <1>1, <2>1
  <2> QED
    BY <2>1 DEF OnlyAt
<1>5. CopiedInv'
  BY <1>1, <1>2, <1>3, EntryKeepsCopied DEF SyncInv
<1>6. SettledInv'
  BY <1>1, <1>2, <1>3, EntryKeepsSettled DEF SyncInv
<1>7. FileInv'
  BY <1>1, <1>2, <1>4, EntryKeepsFiles DEF SyncInv
<1>8. WriteInv'
  BY <1>1 DEF WriteInv
<1> QED
  BY <1>1, <1>2, <1>5, <1>6, <1>7, <1>8, EntryKeepsRest DEF SyncInv

LEMMA RemoveFileKeeps == ASSUME SyncInv, NEW p, RemoveFile(p) PROVE SyncInv'
<1>1. TreeOf(dst') /\ OnlyAt(p)
  BY RemoveFileDoes DEF SyncInv
<1> QED
  BY <1>1, MakingPlaceKeeps DEF RemoveFile

LEMMA MkdirKeeps == ASSUME SyncInv, NEW p, Mkdir(p) PROVE SyncInv'
<1>1. TreeOf(dst') /\ OnlyAt(p)
  BY MkdirDoes DEF SyncInv
<1> QED
  BY <1>1, MakingPlaceKeeps DEF Mkdir

-----------------------------------------------------------------------------
(* The second loop.                                                        *)

LEMMA SetTimesKeeps == ASSUME SyncInv, NEW p, SetTimes(p) PROVE SyncInv'
<1>1. /\ StackInv /\ TreeInv /\ CopiedInv /\ In("times", p) /\ Exists(src, p)
      /\ UNCHANGED <<stack, writing, history, src, before>>
  BY DEF SyncInv, SetTimes, history
<1>2. /\ p \in Paths /\ depth > 0 /\ depth \in 1..depth /\ writing = <<>> /\ Front(p) = stack[depth].dir /\ p \in stack[depth].todo
      /\ (Front(p) \in Paths => src[Front(p)].kind = "dir") /\ ContentRight(p) /\ BelowRight(p)
  BY <1>1, InLoop, TimesIsCopied
<1>3. /\ TreeOf(dst') /\ OnlyAt(p) /\ dst'[p].kind = dst[p].kind /\ dst'[p].data = dst[p].data
      /\ \A q \in Paths : q # p => dst'[q] = dst[q]
  BY <1>1, SetTimesDoes
<1>4. AtEntry(p)
  BY <1>1, <1>2, <1>3, OnlyAtIsUnder, DoneKeepsCalls DEF AtEntry
<1>5. ContentRight(p)' /\ BelowRight(p)'
  BY <1>1, <1>2, <1>3, SameObstacles DEF ContentRight, BelowRight, Right, Exists
<1>6. ~Settled(depth, p)'
  BY <1>1, <1>2 DEF Settled, depth
<1>7. src[p].kind = "file" => FileFine(p)'
  BY <1>1, <1>5 DEF FileFine, ContentRight
<1>8. CopiedInv'
  BY <1>1, <1>4, <1>5, EntryKeepsCopied
<1>9. SettledInv'
  BY <1>1, <1>4, <1>6, EntryKeepsSettled DEF SyncInv
<1>10. FileInv'
  BY <1>1, <1>2, <1>3, <1>4, <1>7, EntryKeepsFiles DEF SyncInv
<1>11. WriteInv'
  BY <1>1, <1>2 DEF WriteInv
<1> QED
  BY <1>1, <1>4, <1>8, <1>9, <1>10, <1>11, EntryKeepsRest DEF SyncInv

LEMMA SameNode ==
  ASSUME NEW a \in Node, NEW b \in Node,
         a.kind = b.kind, a.data = b.data, a.mtime = b.mtime, a.mode = b.mode
  PROVE  a = b
BY DEF Node

LEMMA SetModeKeeps == ASSUME SyncInv, NEW p, SetMode(p) PROVE SyncInv'
<1>1. /\ StackInv /\ TreeInv /\ CopiedInv /\ In("times", p) /\ Exists(src, p) /\ Done(p)
      /\ UNCHANGED <<writing, history, src, before>>
  BY DEF SyncInv, SetMode, history
<1>2. /\ p \in Paths /\ depth > 0 /\ depth \in 1..depth /\ writing = <<>> /\ Front(p) = stack[depth].dir
      /\ (Front(p) \in Paths => src[Front(p)].kind = "dir") /\ ContentRight(p) /\ BelowRight(p)
  BY <1>1, InLoop, TimesIsCopied
<1>3. /\ TreeOf(dst') /\ OnlyAt(p) /\ dst'[p].kind = dst[p].kind /\ dst'[p].data = dst[p].data
      /\ dst'[p].mtime = src[p].mtime /\ dst'[p].mode = src[p].mode
      /\ \A q \in Paths : q # p => dst'[q] = dst[q]
  BY <1>1, SetModeDoes
<1>4. AtEntry(p)
  BY <1>1, <1>2, <1>3, OnlyAtIsUnder, DoneKeepsCalls DEF AtEntry
<1>5. ContentRight(p)' /\ BelowRight(p)'
  BY <1>1, <1>2, <1>3, SameObstacles DEF ContentRight, BelowRight, Right, Exists
<1>6. Right(p)'
  <2>1. Obstructed(p)' => Spoilt(p)'
    BY <1>2, FrontIsDir, PrefixOrders DEF Spoilt
  <2>2. ASSUME ~(Obstructed(p)') PROVE dst'[p] = src[p]
    <3>1. dst'[p].kind = src[p].kind /\ dst'[p].data = src[p].data
      BY <1>1, <1>5, <2>2 DEF ContentRight
    <3>2. dst'[p] \in Node /\ src[p] \in Node
      BY <1>1, <1>2, <1>3 DEF TreeInv, TreeOf
    <3> QED
      BY <1>3, <3>1, <3>2, SameNode
  <2> QED
    BY <1>1, <1>3, <2>1, <2>2 DEF Right
<1>7. src[p].kind = "file" => FileFine(p)'
  BY <1>1, <1>5 DEF FileFine, ContentRight
<1>8. CopiedInv'
  BY <1>1, <1>4, <1>5, EntryKeepsCopied
<1>9. SettledInv'
  BY <1>1, <1>4, <1>5, <1>6, EntryKeepsSettled DEF SyncInv
<1>10. FileInv'
  BY <1>1, <1>2, <1>3, <1>4, <1>7, EntryKeepsFiles DEF SyncInv
<1>11. WriteInv'
  BY <1>1, <1>2 DEF WriteInv
<1> QED
  BY <1>1, <1>4, <1>8, <1>9, <1>10, <1>11, EntryKeepsRest DEF SyncInv

LEMMA RemoveExtraKeeps == ASSUME SyncInv, NEW p, RemoveExtra(p) PROVE SyncInv'
<1>1. /\ StackInv /\ TreeInv /\ In("times", p) /\ ~Exists(src, p)
      /\ UNCHANGED <<writing, history, src, before>>
  BY DEF SyncInv, RemoveExtra, history
<1>2. /\ p \in Paths /\ depth > 0 /\ depth \in 1..depth /\ writing = <<>> /\ Front(p) = stack[depth].dir /\ p \in stack[depth].todo
      /\ (Front(p) \in Paths => src[Front(p)].kind = "dir")
  BY <1>1, InLoop
<1>3. /\ TreeOf(dst') /\ Under(p)
      /\ \A q \in Paths : IsPrefix(p, q) => src[q] = NONE
      /\ stack' = stack \/ (Done(p) /\ \A q \in Paths : IsPrefix(p, q) => dst'[q] = NONE)
  BY <1>1, RemoveExtraDoes
<1>4. AtEntry(p)
  BY <1>1, <1>2, <1>3, DoneKeepsCalls DEF AtEntry
<1>5. ~Copied(depth, p)'
  BY <1>1 DEF Copied, Exists
<1>6. Settled(depth, p)' => Right(p)' /\ BelowRight(p)'
  <2>1. CASE stack' = stack
    BY <1>2, <2>1 DEF Settled, depth
  <2>2. ASSUME \A q \in Paths : IsPrefix(p, q) => dst'[q] = NONE
        PROVE  \A q \in Paths : IsPrefix(p, q) => Right(q)'
    <3>1. \A q \in Paths : IsPrefix(p, q) => dst'[q] = src'[q] /\ ~Exists(src, q)'
      BY <1>1, <1>3, <2>2 DEF NONE, Exists
    <3> QED
      BY <3>1 DEF Right
  <2>3. IsPrefix(p, p)
    BY <1>2, FrontIsDir, PrefixOrders
  <2> QED
    BY <1>2, <1>3, <2>1, <2>2, <2>3 DEF BelowRight
<1>7. \A q \in Paths : IsPrefix(p, q) => src[q].kind # "file"
  BY <1>3 DEF NONE
<1>8. CopiedInv'
  BY <1>1, <1>4, <1>5, EntryKeepsCopied DEF SyncInv
<1>9. SettledInv'
  BY <1>1, <1>4, <1>6, EntryKeepsSettled DEF SyncInv
<1>10. FileInv'
  BY <1>1, <1>2, <1>4, <1>7, EntryKeepsFiles DEF SyncInv
<1>11. WriteInv'
  BY <1>1, <1>2 DEF WriteInv
<1> QED
  BY <1>1, <1>4, <1>8, <1>9, <1>10, <1>11, EntryKeepsRest DEF SyncInv

-----------------------------------------------------------------------------
(* A call begins, goes on to its second loop, and ends.                    *)

LEMMA SameTrees ==
  ASSUME UNCHANGED <<dst, writing, history>>
  PROVE  /\ UNCHANGED <<src, dst, before, writing, kills, again>>
         /\ TreeInv => TreeInv'
         /\ FileInv => FileInv'
         /\ \A c \in Paths : /\ ContentRight(c) => ContentRight(c)'
                             /\ Right(c) => Right(c)'
                             /\ BelowRight(c) => BelowRight(c)'
         /\ \A d \in Dirs : IsDir(d) => IsDir(d)'
<1>1. UNCHANGED <<src, dst, before, writing, kills, again, history>>
  BY DEF history
<1>2. \A c \in Paths : /\ ContentRight(c) => ContentRight(c)'
                       /\ Right(c) => Right(c)'
                       /\ BelowRight(c) => BelowRight(c)'
  BY <1>1, KeptIsRight
<1>3. \A d \in Dirs : IsDir(d) => IsDir(d)'
  BY <1>1 DEF IsDir
<1>4. TreeInv => TreeInv'
  BY <1>1 DEF TreeInv
<1>5. \A q : Obstructed(q)' <=> Obstructed(q)
  BY <1>1, SameObstacles
<1>6. FileInv => FileInv'
  BY <1>1, <1>5 DEF FileInv, FileFine, Exists, MayOpen, Differ
<1> QED
  BY <1>1, <1>2, <1>3, <1>4, <1>6

\* The call for a directory that is in both trees, with all its entries to be done.
LEMMA CallIsFrame ==
  ASSUME NEW d \in Dirs
  PROVE  /\ Call(d) \in Frame /\ Call(d).dir = d /\ Call(d).loop = "contents"
         /\ Call(d).todo = Entries(src, d)
         /\ \A q \in Paths : q \in Entries(src, d) <=> Front(q) = d /\ Exists(src, q)
<1>1. Entries(src, d) \subseteq Paths
  BY DEF Entries
<1> QED
  BY <1>1 DEF Call, Frame, Entries, Dirs

LEMMA RecurseKeeps == ASSUME SyncInv, NEW p, Recurse(p) PROVE SyncInv'
<1>1. /\ StackInv /\ TreeInv /\ In("contents", p) /\ src[p].kind = "dir" /\ dst[p].kind = "dir"
      /\ UNCHANGED <<dst, writing, history, src, before>>
      /\ stack' = Append([stack EXCEPT ![Len(stack)].todo = @ \ {p}], Call(p))
  BY DEF SyncInv, Recurse, history
<1>2. /\ p \in Paths /\ depth \in Nat \ {0} /\ depth \in 1..depth /\ writing = <<>> /\ Front(p) = stack[depth].dir
      /\ Len(p) = depth /\ stack[depth].loop = "contents" /\ stack \in Seq(Frame) /\ p \in Dirs
      /\ IsPrefix(Front(p), p) /\ Front(p) \in Dirs
  BY <1>1, InLoop, FrontIsDir DEF StackInv
<1>3. PICK f : f = [stack[depth] EXCEPT !.todo = @ \ {p}]
  OBVIOUS
<1>4. f \in Frame /\ f.dir = stack[depth].dir /\ f.loop = stack[depth].loop /\ f.todo = stack[depth].todo \ {p}
  <2>1. stack[depth] \in Frame
    BY <1>1, <1>2, FrameAt
  <2> QED
    BY <1>3, <2>1 DEF Frame
<1>5. PICK s : s = [stack EXCEPT ![depth] = f]
  OBVIOUS
<1>6. /\ s \in Seq(Frame) /\ Len(s) = depth /\ s[depth] = f
      /\ \A i \in 1..depth : i # depth => s[i] = stack[i]
  BY <1>2, <1>4, <1>5, ExceptSeq DEF depth
<1>7. stack' = Append(s, Call(p))
  <2>1. DOMAIN stack = 1..depth
    BY <1>2, LenProperties DEF depth
  <2> QED
    BY <1>1, <1>2, <1>3, <1>5, <2>1 DEF depth
<1>8. /\ stack' \in Seq(Frame) /\ depth' = depth + 1
      /\ \A i \in 1..depth : stack'[i] = s[i]
      /\ stack'[depth + 1] = Call(p)
  BY <1>2, <1>6, <1>7, CallIsFrame, AppendProperties DEF depth
<1>9. /\ \A i \in 1..depth : /\ stack'[i].dir = stack[i].dir /\ stack'[i].loop = stack[i].loop
                             /\ stack'[i].todo = stack[i].todo \ {p}
      /\ stack'[depth + 1].dir = p /\ stack'[depth + 1].loop = "contents" /\ stack'[depth + 1].todo = Entries(src, p)
  <2>1. ASSUME NEW i \in 1..depth, i # depth PROVE p \notin stack[i].todo
    <3>1. p \in stack[i].todo => Len(p) = i
      BY <1>1, <1>2, LengthIsPlace DEF StackInv
    <3> QED
      BY <1>2, <2>1, <3>1
  <2>2. \A i \in 1..depth : i # depth => stack'[i] = stack[i] /\ stack'[i].todo = stack[i].todo \ {p}
    BY <1>6, <1>8, <2>1
  <2>3. stack'[depth] = f
    BY <1>2, <1>6, <1>8
  <2> QED
    BY <1>2, <1>4, <1>8, <2>2, <2>3, CallIsFrame
<1>10. \A i \in 1..(depth + 1) : i \in 1..depth \/ i = depth + 1
  BY <1>2
<1>11. \A i \in 1..depth : i < depth => i + 1 \in 1..depth
  BY <1>2
<1>12. \A i \in 1..depth : i # depth => i < depth
  BY <1>2
<1>13. \A i \in 1..depth : IsPrefix(stack[i].dir, p)
  <2>1. ASSUME NEW i \in 1..depth PROVE IsPrefix(stack[i].dir, p)
    <3>1. IsPrefix(stack[i].dir, Front(p)) /\ stack[i].dir \in Dirs
      BY <1>1, <1>2, FrameAt DEF StackInv
    <3> QED
      BY <1>2, <3>1, PrefixOrders
  <2> QED
    BY <2>1
<1>14. StackInv'
  <2>1. \A i \in 1..(depth + 1) : IsDir(stack[i].dir)'
    <3>1. ASSUME NEW i \in 1..(depth + 1) PROVE IsDir(stack[i].dir)'
      <4>1. PICK d : d = stack'[i].dir
        OBVIOUS
      <4>2. d \in Dirs /\ IsDir(d)
        <5>1. CASE i \in 1..depth
          BY <1>1, <1>9, <4>1, <5>1, FrameAt
        <5>2. CASE i = depth + 1
          BY <1>1, <1>2, <1>9, <4>1, <5>2 DEF IsDir
        <5> QED
          BY <1>10, <5>1, <5>2
      <4>3. IsDir(d)'
        BY <1>1, <4>2, SameTrees
      <4> QED
        BY <4>1, <4>3 DEF IsDir
    <3> QED
      BY <3>1
  <2>2. \A i \in 1..(depth + 1) :
          /\ Len(stack'[i].dir) = i - 1
          /\ \A c \in stack'[i].todo : Front(c) = stack'[i].dir
          /\ stack'[i].loop = "contents" => \A c \in stack'[i].todo : Exists(src, c)'
    <3>1. ASSUME NEW i \in 1..depth
          PROVE  /\ Len(stack'[i].dir) = i - 1
                 /\ \A c \in stack'[i].todo : Front(c) = stack'[i].dir
                 /\ stack'[i].loop = "contents" => \A c \in stack'[i].todo : Exists(src, c)'
      BY <1>1, <1>9 DEF StackInv, Exists
    <3>2. /\ Len(stack'[depth + 1].dir) = depth
          /\ \A c \in stack'[depth + 1].todo : Front(c) = stack'[depth + 1].dir /\ Exists(src, c)'
      <4>2. \A c \in Entries(src, p) : Front(c) = p /\ Exists(src, c)'
        BY <1>1 DEF Entries, Exists
      <4> QED
        BY <1>2, <1>9, <4>2
    <3>3. ASSUME NEW i \in 1..(depth + 1)
          PROVE  /\ Len(stack'[i].dir) = i - 1
                 /\ \A c \in stack'[i].todo : Front(c) = stack'[i].dir
                 /\ stack'[i].loop = "contents" => \A c \in stack'[i].todo : Exists(src, c)'
      <4>1. CASE i \in 1..depth
        BY <3>1, <4>1
      <4>2. CASE i = depth + 1
        <5>1. i - 1 = depth
          BY <1>2, <4>2
        <5>2. stack'[i] = stack'[depth + 1]
          BY <4>2
        <5> QED
          BY <3>2, <5>1, <5>2
      <4> QED
        BY <1>10, <4>1, <4>2
    <3> QED
      BY <3>3
  <2>3. \A i, j \in 1..(depth + 1) : i <= j => IsPrefix(stack'[i].dir, stack'[j].dir)
    <3>1. ASSUME NEW i \in 1..(depth + 1), NEW j \in 1..(depth + 1), i <= j
          PROVE  IsPrefix(stack'[i].dir, stack'[j].dir)
      <4>1. CASE i \in 1..depth /\ j \in 1..depth
        BY <1>1, <1>9, <3>1, <4>1 DEF StackInv
      <4>2. CASE i \in 1..depth /\ j = depth + 1
        BY <1>9, <1>13, <4>2
      <4>3. CASE i = depth + 1 /\ j = depth + 1
        BY <1>2, <1>9, <4>3, PrefixOrders
      <4>4. ~(i = depth + 1 /\ j \in 1..depth)
        BY <1>2, <3>1
      <4> QED
        BY <1>10, <4>1, <4>2, <4>3, <4>4
    <3> QED
      BY <3>1
  <2>4. \A i \in 1..(depth + 1) : i < depth + 1 => /\ stack'[i].loop = "contents"
                                          /\ stack'[i + 1].dir \notin stack'[i].todo
    <3>1. ASSUME NEW i \in 1..(depth + 1), i < depth + 1
          PROVE  stack'[i].loop = "contents" /\ stack'[i + 1].dir \notin stack'[i].todo
      <4>1. i \in 1..depth
        BY <1>10, <3>1
      <4>2. CASE i = depth
        BY <1>2, <1>9, <4>2
      <4>3. CASE i # depth
        BY <1>1, <1>9, <1>11, <1>12, <4>1, <4>3 DEF StackInv
      <4> QED
        BY <4>2, <4>3
    <3> QED
      BY <3>1
  <2> QED
    BY <1>8, <2>1, <2>2, <2>3, <2>4 DEF StackInv
<1>15. CopiedInv'
  <2>1. SUFFICES ASSUME NEW i \in 1..(depth + 1), NEW c \in Paths, Copied(i, c)'
                 PROVE  ContentRight(c)' /\ BelowRight(c)'
    BY <1>8, <2>1 DEF CopiedInv
  <2>2. CASE i = depth + 1
    <3>1. Front(c) = p /\ Exists(src, c) /\ c \notin Entries(src, p)
      BY <1>1, <1>9, <2>1, <2>2 DEF Copied, Exists
    <3> QED
      BY <3>1 DEF Entries
  <2>3. CASE i \in 1..depth
    <3>1. i < depth + 1 /\ (i < depth => i + 1 \in 1..depth)
      BY <1>2, <1>11, <2>3
    <3>2. /\ Front(c) = stack[i].dir /\ Exists(src, c) /\ c # writing /\ c # stack'[i + 1].dir
          /\ stack[i].loop = "contents" => c \notin stack[i].todo \ {p}
      BY <1>1, <1>8, <1>9, <2>1, <2>3, <3>1 DEF Copied, Exists
    <3>3. c # p
      <4>1. c = p => i = depth
        BY <1>1, <1>2, <2>3, <3>2, LengthIsPlace
      <4> QED
        BY <1>9, <3>2, <4>1
    <3>4. Copied(i, c)
      BY <1>9, <2>3, <3>1, <3>2, <3>3 DEF Copied
    <3> QED
      BY <1>1, <2>3, <3>4, SameTrees DEF SyncInv, CopiedInv
  <2> QED
    BY <1>10, <2>2, <2>3
<1>16. SettledInv'
  <2>1. ASSUME NEW i \in 1..depth PROVE stack'[i].loop = "contents"
    <3>1. stack'[i].loop = stack[i].loop
      BY <1>9
    <3>2. CASE i = depth
      <4>1. stack[i].loop = "contents"
        BY <1>2, <3>2
      <4> QED
        BY <3>1, <4>1
    <3>3. CASE i # depth
      <4>1. i < depth
        BY <1>12, <3>3
      <4>2. stack[i].loop = "contents"
        BY <1>1, <4>1 DEF StackInv
      <4> QED
        BY <3>1, <4>2
    <3> QED
      BY <3>2, <3>3
  <2>2. ASSUME NEW i \in 1..(depth + 1) PROVE stack'[i].loop = "contents"
    <3>1. CASE i \in 1..depth
      BY <2>1, <3>1
    <3>2. CASE i = depth + 1
      BY <1>9, <3>2
    <3> QED
      BY <1>10, <3>1, <3>2
  <2> QED
    BY <1>8, <2>2 DEF SettledInv, Settled
<1>17. EndInv' /\ WriteInv'
  <2>1. stack' # <<>>
    BY <1>2, <1>8, EmptySeq DEF depth
  <2> QED
    BY <1>1, <1>2, <2>1 DEF EndInv, WriteInv
<1> QED
  BY <1>1, <1>14, <1>15, <1>16, <1>17, SameTrees DEF SyncInv

LEMMA RewindKeeps == ASSUME SyncInv, Rewind PROVE SyncInv'
<1>1. /\ StackInv /\ TreeInv /\ CopiedInv /\ stack # <<>> /\ writing = <<>> /\ stack[depth].loop = "contents"
      /\ stack[depth].todo = {}
      /\ UNCHANGED <<dst, writing, history, src, before>>
      /\ stack' = [stack EXCEPT ![depth] = [dir |-> @.dir, loop |-> "times", todo |-> Entries(dst, stack[depth].dir)]]
  BY DEF SyncInv, Rewind, history, Last, depth
<1>2. stack \in Seq(Frame) /\ depth \in Nat /\ depth \in 1..depth /\ DOMAIN stack = 1..depth
  <2>1. stack \in Seq(Frame)
    BY <1>1 DEF StackInv
  <2>2. depth \in Nat /\ depth # 0 /\ DOMAIN stack = 1..depth
    BY <1>1, <2>1, EmptySeq, LenProperties DEF depth
  <2>3. depth \in 1..depth
    BY <2>2
  <2> QED
    BY <2>1, <2>2, <2>3
<1>3. PICK f : f = [dir |-> stack[depth].dir, loop |-> "times", todo |-> Entries(dst, stack[depth].dir)]
  OBVIOUS
<1>4. /\ f \in Frame /\ f.dir = stack[depth].dir /\ f.loop = "times" /\ f.todo = Entries(dst, stack[depth].dir)
      /\ stack[depth].dir \in Dirs
  <2>1. stack[depth].dir \in Dirs
    BY <1>1, <1>2, FrameAt
  <2>2. Entries(dst, stack[depth].dir) \subseteq Paths
    BY DEF Entries
  <2> QED
    BY <1>3, <2>1, <2>2 DEF Frame, Dirs
<1>5. stack' = [stack EXCEPT ![depth] = f]
  BY <1>1, <1>2, <1>3
<1>6. /\ stack' \in Seq(Frame) /\ depth' = depth /\ stack'[depth] = f
      /\ \A i \in 1..depth : i # depth => stack'[i] = stack[i]
  <2>1. PICK s : s = [stack EXCEPT ![depth] = f]
    OBVIOUS
  <2>2. s \in Seq(Frame) /\ Len(s) = depth /\ s[depth] = f /\ \A i \in 1..depth : i # depth => s[i] = stack[i]
    <3>1. f \in Frame /\ stack \in Seq(Frame) /\ depth = Len(stack) /\ depth \in 1..Len(stack)
      BY <1>2, <1>4 DEF depth
    <3>2. s \in Seq(Frame) /\ Len(s) = Len(stack) /\ s[depth] = f /\ \A i \in 1..depth : i # depth => s[i] = stack[i]
      BY <2>1, <3>1, ExceptSeq
    <3> QED
      BY <3>1, <3>2
  <2>3. stack' = s
    BY <1>5, <2>1
  <2> QED
    BY <2>2, <2>3 DEF depth
<1>7. /\ \A i \in 1..depth : stack'[i].dir = stack[i].dir
      /\ \A i \in 1..depth : i < depth => stack'[i] = stack[i] /\ i + 1 \in 1..depth
      /\ \A i \in 1..depth : i # depth => i < depth
  BY <1>2, <1>4, <1>6
<1>8. StackInv'
  <2>1. \A i \in 1..depth : IsDir(stack[i].dir)'
    <3>1. ASSUME NEW i \in 1..depth PROVE IsDir(stack[i].dir)'
      <4>1. PICK d : d = stack'[i].dir
        OBVIOUS
      <4>2. d \in Dirs /\ IsDir(d)
        BY <1>1, <1>7, <4>1, FrameAt
      <4>3. IsDir(d)'
        BY <1>1, <4>2, SameTrees
      <4> QED
        BY <4>1, <4>3 DEF IsDir
    <3> QED
      BY <3>1
  <2>2. \A i \in 1..depth :
          /\ Len(stack'[i].dir) = i - 1
          /\ \A c \in stack'[i].todo : Front(c) = stack'[i].dir
          /\ stack'[i].loop = "contents" => \A c \in stack'[i].todo : Exists(src, c)'
    <3>1. ASSUME NEW i \in 1..depth
          PROVE  /\ Len(stack'[i].dir) = i - 1
                 /\ \A c \in stack'[i].todo : Front(c) = stack'[i].dir
                 /\ stack'[i].loop = "contents" => \A c \in stack'[i].todo : Exists(src, c)'
      <4>1. Len(stack'[i].dir) = i - 1
        BY <1>1, <1>7 DEF StackInv
      <4>2. CASE i = depth
        BY <1>4, <1>6, <4>1, <4>2 DEF Entries
      <4>3. CASE i # depth
        BY <1>1, <1>6, <4>1, <4>3 DEF StackInv, Exists
      <4> QED
        BY <4>2, <4>3
    <3> QED
      BY <3>1
  <2>3. \A i, j \in 1..depth : i <= j => IsPrefix(stack'[i].dir, stack'[j].dir)
    BY <1>1, <1>7 DEF StackInv
  <2>4. \A i \in 1..depth : i < depth => stack'[i].loop = "contents" /\ stack'[i + 1].dir \notin stack'[i].todo
    BY <1>1, <1>7 DEF StackInv
  <2> QED
    BY <1>6, <2>1, <2>2, <2>3, <2>4 DEF StackInv
<1>9. ASSUME NEW i \in 1..depth, NEW c \in Paths, Copied(i, c)' PROVE Copied(i, c)
  <2>1. /\ Front(c) = stack[i].dir /\ Exists(src, c) /\ c # writing
        /\ (i < depth => c # stack[i + 1].dir)
    BY <1>1, <1>6, <1>7, <1>9 DEF Copied, Exists
  <2>2. stack[i].loop = "contents" => c \notin stack[i].todo
    <3>1. CASE i = depth
      BY <1>1, <3>1
    <3>2. CASE i # depth
      BY <1>6, <1>9, <3>2 DEF Copied
    <3> QED
      BY <3>1, <3>2
  <2> QED
    BY <2>1, <2>2 DEF Copied
<1>10. CopiedInv'
  BY <1>1, <1>6, <1>9, SameTrees DEF CopiedInv
<1>11. SettledInv'
  <2>1. SUFFICES ASSUME NEW i \in 1..depth, NEW c \in Paths, Settled(i, c)'
                 PROVE  Right(c)' /\ BelowRight(c)'
    BY <1>6, <2>1 DEF SettledInv
  <2>2. i = depth
    <3>1. i < depth => stack[i].loop = "contents"
      BY <1>1 DEF StackInv
    <3>2. i < depth => stack'[i].loop = "contents"
      BY <1>7, <3>1
    <3> QED
      BY <1>7, <2>1, <3>2 DEF Settled
  <2>3. Front(c) = stack[depth].dir /\ c \notin Entries(dst, stack[depth].dir)
    BY <1>4, <1>6, <2>1, <2>2 DEF Settled
  <2>4. ~Exists(dst, c)
    BY <2>3 DEF Entries
  <2>5. ~Exists(src, c)
    <3>1. Exists(src, c) => Copied(depth, c)
      BY <1>1, <1>2, <2>3, TreeAssumption DEF Copied
    <3> QED
      BY <1>1, <1>2, <2>4, <3>1 DEF CopiedInv, ContentRight
  <2>6. ASSUME NEW t, TreeOf(t), ~Exists(t, c), NEW q \in Paths, IsPrefix(c, q) PROVE t[q] = NONE
    <3>1. t[c] = NONE
      BY <2>6, NodeAt DEF WellFormed, Exists
    <3> QED
      BY <2>6, <3>1, NothingBelow DEF NONE
  <2>7. \A q \in Paths : IsPrefix(c, q) => dst[q] = NONE /\ src[q] = NONE
    BY <1>1, <2>4, <2>5, <2>6 DEF TreeInv
  <2>8. \A q \in Paths : IsPrefix(c, q) => Right(q)
    BY <2>7 DEF Right, NONE, Exists
  <2>9. Right(c) /\ BelowRight(c)
    BY <2>8, FrontIsDir, PrefixOrders DEF BelowRight
  <2> QED
    BY <1>1, <2>9, SameTrees
<1>12. EndInv' /\ WriteInv'
  <2>1. stack' # <<>>
    <3>1. Len(<<>>) = 0 /\ depth # 0
      BY <1>2, EmptySeq
    <3> QED
      BY <1>6, <3>1 DEF depth
  <2> QED
    BY <1>1, <2>1 DEF EndInv, WriteInv
<1> QED
  BY <1>1, <1>8, <1>10, <1>11, <1>12, SameTrees DEF SyncInv

LEMMA ReturnKeeps == ASSUME SyncInv, Return PROVE SyncInv'
<1>1. /\ StackInv /\ TreeInv /\ CopiedInv /\ stack # <<>> /\ stack[depth].loop = "times" /\ stack[depth].todo = {}
      /\ UNCHANGED <<dst, writing, history, src, before>>
      /\ stack' = Front(stack)
  BY DEF SyncInv, Return, history, Last, depth
<1>2. stack \in Seq(Frame) /\ depth \in Nat /\ depth \in 1..depth /\ depth > 0 /\ depth = Len(stack)
  <2>1. stack \in Seq(Frame)
    BY <1>1 DEF StackInv
  <2>2. depth \in Nat /\ depth # 0
    BY <1>1, <2>1, EmptySeq, LenProperties DEF depth
  <2> QED
    BY <2>1, <2>2 DEF depth
<1>3. writing = <<>> /\ writing' = <<>>
  BY <1>1 DEF SyncInv, WriteInv
<1>4. PICK m \in Nat : depth = m + 1
  <2>1. depth - 1 \in Nat /\ depth = depth - 1 + 1
    BY <1>2
  <2> QED
    BY <2>1
<1>5. stack' \in Seq(Frame) /\ Len(stack') = m /\ \A i \in 1..m : stack'[i] = stack[i]
  <2>1. \A i \in 1..m : stack[i] \in Frame
    <3>1. \A i \in 1..m : i \in 1..Len(stack)
      BY <1>2, <1>4
    <3> QED
      BY <1>2, <3>1, ElementOfSeq
  <2>2. /\ SubSeq(stack, 1, m) \in Seq(Frame) /\ Len(SubSeq(stack, 1, m)) = IF 1 <= m THEN m - 1 + 1 ELSE 0
        /\ \A i \in 1..(m - 1 + 1) : SubSeq(stack, 1, m)[i] = stack[1 + i - 1]
    BY <1>4, <2>1, SubSeqProperties
  <2>3. Len(SubSeq(stack, 1, m)) = m /\ \A i \in 1..m : SubSeq(stack, 1, m)[i] = stack[i]
    BY <2>2
  <2>4. stack' = SubSeq(stack, 1, m)
    BY <1>1, <1>2, <1>4 DEF Front
  <2> QED
    BY <2>2, <2>3, <2>4
<1>6. depth' = m
  BY <1>5 DEF depth
<1>7. \A i \in 1..m : i \in 1..depth /\ i < depth /\ i + 1 \in 1..depth
  BY <1>4
<1>8. \A i \in 1..m : (i < m => i + 1 \in 1..m) /\ (i # m => i < m) /\ (i = m => i + 1 = depth)
  BY <1>4
<1>9. StackInv'
  <2>1. \A i \in 1..m : IsDir(stack[i].dir)'
    <3>1. ASSUME NEW i \in 1..m PROVE IsDir(stack[i].dir)'
      <4>1. PICK d : d = stack'[i].dir
        OBVIOUS
      <4>2. d \in Dirs /\ IsDir(d)
        BY <1>1, <1>5, <1>7, <4>1, FrameAt
      <4>3. IsDir(d)'
        BY <1>1, <4>2, SameTrees
      <4> QED
        BY <4>1, <4>3 DEF IsDir
    <3> QED
      BY <3>1
  <2>2. \A i \in 1..m :
          /\ Len(stack'[i].dir) = i - 1
          /\ \A c \in stack'[i].todo : Front(c) = stack'[i].dir
          /\ stack'[i].loop = "contents" => \A c \in stack'[i].todo : Exists(src, c)'
    <3>1. ASSUME NEW i \in 1..m
          PROVE  /\ Len(stack[i].dir) = i - 1
                 /\ \A c \in stack[i].todo : Front(c) = stack[i].dir
                 /\ stack[i].loop = "contents" => \A c \in stack[i].todo : Exists(src, c)
      BY <1>1, <1>7 DEF StackInv
    <3>2. \A c : Exists(src, c) => Exists(src, c)'
      BY <1>1 DEF Exists
    <3> QED
      BY <1>5, <3>1, <3>2
  <2>3. \A i, j \in 1..m : i <= j => IsPrefix(stack'[i].dir, stack'[j].dir)
    BY <1>1, <1>5, <1>7 DEF StackInv
  <2>4. \A i \in 1..m : i < m => stack'[i].loop = "contents" /\ stack'[i + 1].dir \notin stack'[i].todo
    <3>1. ASSUME NEW i \in 1..m, i < m
          PROVE  stack'[i].loop = "contents" /\ stack'[i + 1].dir \notin stack'[i].todo
      <4>1. i \in 1..depth /\ i < depth /\ i + 1 \in 1..m
        BY <1>7, <1>8, <3>1
      <4>2. stack[i].loop = "contents" /\ stack[i + 1].dir \notin stack[i].todo
        BY <1>1, <4>1 DEF StackInv
      <4>3. stack'[i] = stack[i] /\ stack'[i + 1] = stack[i + 1]
        BY <1>5, <4>1
      <4> QED
        BY <4>2, <4>3
    <3> QED
      BY <3>1
  <2> QED
    BY <1>5, <1>6, <2>1, <2>2, <2>3, <2>4 DEF StackInv
<1>10. PICK d : d = stack[depth].dir /\ d \in Dirs /\ IsDir(d) /\ Len(d) = m
  <2>1. Len(stack[depth].dir) = depth - 1
    BY <1>1, <1>2, FrameAt
  <2>2. depth - 1 = m
    BY <1>4
  <2> QED
    BY <1>1, <1>2, <2>1, <2>2, FrameAt
<1>11. \A q \in Paths : IsPrefix(d, q) /\ d # q => Right(q)
  <2>1. ASSUME NEW q \in Paths, IsPrefix(d, q), d # q PROVE Right(q)
    <3>1. PICK e \in Paths : Front(e) = d /\ IsPrefix(e, q)
      BY <1>10, <2>1, ChildOnTheWay
    <3>2. Settled(depth, e)
      BY <1>1, <1>10, <3>1 DEF Settled
    <3>3. Right(e) /\ BelowRight(e)
      BY <1>2, <3>2 DEF SyncInv, SettledInv
    <3> QED
      BY <3>1, <3>3 DEF BelowRight
  <2> QED
    BY <2>1
<1>12. d \in Paths => ContentRight(d) /\ BelowRight(d)
  <2>1. SUFFICES ASSUME d \in Paths PROVE ContentRight(d) /\ BelowRight(d)
    OBVIOUS
  <2>2. src[d].kind = "dir" /\ dst[d].kind = "dir"
    BY <1>10, <2>1, TreeAssumption DEF IsDir
  <2>3. src[d].data = <<>> /\ dst[d].data = <<>>
    BY <1>1, <2>1, <2>2, NodeAt DEF TreeInv, WellFormed
  <2>4. ContentRight(d)
    BY <2>2, <2>3 DEF ContentRight, Exists
  <2> QED
    BY <1>11, <2>4 DEF BelowRight
<1>13. CopiedInv'
  <2>1. SUFFICES ASSUME NEW i \in 1..m, NEW c \in Paths, Copied(i, c)'
                 PROVE  ContentRight(c)' /\ BelowRight(c)'
    BY <1>6, <2>1 DEF CopiedInv
  <2>2. /\ Front(c) = stack[i].dir /\ Exists(src, c) /\ c # writing
        /\ (i < m => c # stack'[i + 1].dir)
        /\ stack[i].loop = "contents" => c \notin stack[i].todo
    BY <1>1, <1>5, <1>6, <2>1 DEF Copied, Exists
  <2>3. ContentRight(c) /\ BelowRight(c)
    <3>1. CASE c # stack[i + 1].dir
      <4>1. Copied(i, c)
        BY <2>2, <3>1 DEF Copied
      <4> QED
        BY <1>1, <1>7, <4>1 DEF CopiedInv
    <3>2. CASE c = stack[i + 1].dir
      <4>1. i = m
        BY <1>5, <1>8, <2>2, <3>2
      <4>2. c = d
        BY <1>8, <1>10, <3>2, <4>1
      <4> QED
        BY <1>12, <4>2
    <3> QED
      BY <3>1, <3>2
  <2> QED
    BY <1>1, <2>3, SameTrees
<1>14. SettledInv'
  <2>1. \A i \in 1..m : stack'[i].loop = "contents"
    BY <1>1, <1>5, <1>7 DEF StackInv
  <2> QED
    BY <1>6, <2>1 DEF SettledInv, Settled
<1>15. EndInv'
  <2>1. SUFFICES ASSUME stack' = <<>> PROVE \A q \in Paths : Right(q)'
    BY <1>3, <2>1 DEF EndInv
  <2>2. d = <<>>
    <3>1. Len(<<>>) = 0
      BY EmptySeq
    <3>2. m = 0
      BY <1>5, <2>1, <3>1
    <3> QED
      BY <1>10, <3>2, DirsAreSeqs
  <2>3. \A q \in Paths : IsPrefix(d, q) /\ d # q
    BY <2>2, FrontIsDir, PrefixOrders, TreeAssumption
  <2> QED
    BY <1>1, <1>11, <2>3, SameTrees
<1>16. WriteInv'
  BY <1>3 DEF WriteInv
<1> QED
  BY <1>1, <1>9, <1>13, <1>14, <1>15, <1>16, SameTrees DEF SyncInv

-----------------------------------------------------------------------------
(* A run begins.                                                           *)

Begins == stack = <<Call(<<>>)>> /\ writing = <<>>

LEMMA BeginsWell ==
  Begins => /\ StackInv /\ WriteInv /\ CopiedInv /\ SettledInv /\ EndInv
<1> SUFFICES ASSUME Begins PROVE StackInv /\ WriteInv /\ CopiedInv /\ SettledInv /\ EndInv
  OBVIOUS
<1>1. <<>> \in Dirs
  BY DEF Dirs
<1>2. /\ stack \in Seq(Frame) /\ depth = 1 /\ stack[1] = Call(<<>>) /\ stack # <<>>
  <2>1. Call(<<>>) \in Frame
    BY <1>1, CallIsFrame
  <2>2. PICK f \in Frame : f = Call(<<>>)
    BY <2>1
  <2>3. <<f>> \in Seq(Frame) /\ Len(<<f>>) = 1 /\ <<f>>[1] = f
    OBVIOUS
  <2>4. Len(<<>>) = 0
    BY EmptySeq
  <2> QED
    BY <2>2, <2>3, <2>4 DEF Begins, depth
<1>3. \A i \in 1..depth : i = 1
  BY <1>2
<1>4. /\ stack[1].dir = <<>> /\ stack[1].loop = "contents" /\ stack[1].todo = Entries(src, <<>>)
  BY <1>1, <1>2, CallIsFrame
<1>5. StackInv
  <2>1. IsDir(<<>>) /\ IsPrefix(<<>>, <<>>) /\ Len(<<>>) = 1 - 1
    <3>1. Len(<<>>) = 0
      BY EmptySeq
    <3> QED
      BY <1>1, <3>1, PrefixOrders DEF IsDir
  <2>2. \A p \in Entries(src, <<>>) : Front(p) = <<>> /\ Exists(src, p)
    BY DEF Entries
  <2>3. \A i \in 1..depth : /\ IsDir(stack[i].dir) /\ Len(stack[i].dir) = i - 1
                            /\ \A p \in stack[i].todo : Front(p) = stack[i].dir
                            /\ stack[i].loop = "contents" => \A p \in stack[i].todo : Exists(src, p)
    BY <1>3, <1>4, <2>1, <2>2
  <2>4. \A i, j \in 1..depth : i <= j => IsPrefix(stack[i].dir, stack[j].dir)
    BY <1>3, <1>4, <2>1
  <2>5. \A i \in 1..depth : ~(i < depth)
    BY <1>2
  <2> QED
    BY <1>2, <2>3, <2>4, <2>5 DEF StackInv
<1>6. CopiedInv
  <2>1. \A p \in Paths : ~Copied(1, p)
    BY <1>4 DEF Copied, Entries
  <2> QED
    BY <1>3, <2>1 DEF CopiedInv
<1>7. SettledInv
  BY <1>3, <1>4 DEF SettledInv, Settled
<1> QED
  BY <1>2, <1>5, <1>6, <1>7 DEF EndInv, WriteInv, Begins

LEMMA InitIsTree == Init => TreeInv /\ FileInv
<1> SUFFICES ASSUME Init PROVE TreeInv /\ FileInv
  OBVIOUS
<1>1. ASSUME NEW t \in Trees PROVE TreeOf(t)
  <2>1. /\ t \in [Paths -> Nodes] /\ \A p \in Paths : WellFormed(t[p])
        /\ \A p \in Paths : Exists(t, p) /\ Len(p) > 1 => t[Front(p)].kind = "dir"
    BY <1>1, TreeAssumption DEF Trees
  <2>2. t \in [Paths -> Node]
    BY <2>1 DEF WellFormed
  <2> QED
    BY <2>1, <2>2 DEF TreeOf
<1>2. TreeInv
  BY <1>1 DEF Init, TreeInv
<1>3. ASSUME NEW p \in Paths, src[p].kind = "file" PROVE FileFine(p)
  <2>1. before = dst /\ dst[p].kind \in {"none", "dir", "file"} /\ dst[p].mode \in {"rw", "ro"}
    BY <1>2 DEF Init, TreeInv, TreeOf, Node
  <2>2. CASE ~Exists(dst, p)
    BY <2>1, <2>2 DEF FileFine
  <2>3. CASE dst[p].kind = "dir"
    BY <1>3, <2>1, <2>3 DEF FileFine, Obstructed
  <2>4. CASE dst[p].kind = "file"
    BY <1>3, <2>1, <2>4 DEF FileFine, Obstructed, MayOpen
  <2> QED
    BY <2>1, <2>2, <2>3, <2>4 DEF Exists
<1> QED
  BY <1>2, <1>3 DEF FileInv

LEMMA KillKeeps == ASSUME SyncInv, Kill PROVE SyncInv'
<1>1. /\ TreeInv /\ FileInv /\ Begins' /\ kills' = kills + 1 /\ UNCHANGED <<src, dst, before, again>>
      /\ writing' = <<>>
  BY DEF SyncInv, Kill, Begins, Call, Entries, Exists
<1>2. /\ StackInv' /\ WriteInv' /\ CopiedInv' /\ SettledInv' /\ EndInv'
  BY <1>1, BeginsWell, PTL
<1>3. kills' \in Nat /\ kills' > 0
  BY <1>1 DEF TreeInv
<1>4. TreeInv'
  BY <1>1, <1>3 DEF TreeInv
<1>5. ASSUME NEW p \in Paths, src[p].kind = "file" PROVE FileFine(p)'
  <2>1. FileFine(p)
    BY <1>1, <1>5 DEF FileInv
  <2>2. Obstructed(p) => Obstructed(p)'
    BY <1>1, <1>3 DEF Obstructed, Exists, Differ
  <2>3. src[p].mode = "ro" /\ ~Exists(before, p) => Obstructed(p)'
    BY <1>1, <1>3, <1>5 DEF Obstructed, Exists
  <2> QED
    BY <1>1, <2>1, <2>2, <2>3 DEF FileFine, Exists, MayOpen, Differ
<1>6. FileInv'
  BY <1>1, <1>5 DEF FileInv
<1> QED
  BY <1>2, <1>4, <1>6 DEF SyncInv

LEMMA RunAgainKeeps == ASSUME SyncInv, RunAgain PROVE SyncInv'
<1>1. /\ TreeInv /\ FileInv /\ Begins' /\ UNCHANGED <<src, dst, before, kills, writing>> /\ again' = TRUE
  BY DEF SyncInv, RunAgain, Ended, EndInv, Begins, Call, Entries, Exists
<1>2. /\ StackInv' /\ WriteInv' /\ CopiedInv' /\ SettledInv' /\ EndInv'
  BY <1>1, BeginsWell, PTL
<1>3. TreeInv'
  BY <1>1 DEF TreeInv
<1>4. FileInv'
  BY <1>1 DEF FileInv, FileFine, Obstructed, Exists, MayOpen, Differ
<1> QED
  BY <1>2, <1>3, <1>4 DEF SyncInv

-----------------------------------------------------------------------------
(* The theorems.                                                           *)

\* What holds between any two system calls does so after the next one.
LEMMA StepKeepsSync == SyncInv /\ [Next]_syncVars => SyncInv'
<1> SUFFICES ASSUME SyncInv, [Next]_syncVars PROVE SyncInv'
  OBVIOUS
<1>1. CASE sync_directories
  <2>1. ASSUME NEW p \in Paths, Creat(p) PROVE SyncInv'
    BY <2>1, CreatKeeps
  <2>2. ASSUME NEW p \in Paths, Truncate(p) PROVE SyncInv'
    BY <2>2, TruncateKeeps
  <2>3. ASSUME NEW p \in Paths, LeaveFile(p) PROVE SyncInv'
    BY <2>3, LeaveFileKeeps
  <2>4. ASSUME NEW p \in Paths, RemoveFile(p) PROVE SyncInv'
    BY <2>4, RemoveFileKeeps
  <2>5. ASSUME NEW p \in Paths, Mkdir(p) PROVE SyncInv'
    BY <2>5, MkdirKeeps
  <2>6. ASSUME NEW p \in Paths, Recurse(p) PROVE SyncInv'
    BY <2>6, RecurseKeeps
  <2>7. ASSUME NEW p \in Paths, SetTimes(p) PROVE SyncInv'
    BY <2>7, SetTimesKeeps
  <2>8. ASSUME NEW p \in Paths, SetMode(p) PROVE SyncInv'
    BY <2>8, SetModeKeeps
  <2>9. ASSUME NEW p \in Paths, RemoveExtra(p) PROVE SyncInv'
    BY <2>9, RemoveExtraKeeps
  <2> QED
    BY <1>1, <2>1, <2>2, <2>3, <2>4, <2>5, <2>6, <2>7, <2>8, <2>9, WriteKeeps, RewindKeeps, ReturnKeeps
       DEF sync_directories
<1>2. CASE UNCHANGED syncVars
  <2>1. UNCHANGED <<dst, writing, history, src, before, kills, again, stack>>
    BY <1>2 DEF syncVars, history
  <2>2. TreeInv' /\ FileInv'
    BY <2>1, SameTrees DEF SyncInv
  <2>3. StackInv' /\ WriteInv' /\ CopiedInv' /\ SettledInv' /\ EndInv'
    <3>1. depth' = depth
      BY <2>1 DEF depth
    <3>2. StackInv'
      BY <2>1, <3>1 DEF SyncInv, StackInv, IsDir, Exists
    <3>3. WriteInv'
      BY <2>1, <3>1 DEF SyncInv, WriteInv
    <3>4. CopiedInv'
      BY <2>1, <3>1, SameTrees DEF SyncInv, CopiedInv, Copied, Exists
    <3>5. SettledInv'
      BY <2>1, <3>1, SameTrees DEF SyncInv, SettledInv, Settled
    <3>6. EndInv'
      BY <2>1, SameTrees DEF SyncInv, EndInv
    <3> QED
      BY <3>2, <3>3, <3>4, <3>5, <3>6
  <2> QED
    BY <2>2, <2>3 DEF SyncInv
<1> QED
  BY <1>1, <1>2, KillKeeps, RunAgainKeeps DEF Next

LEMMA SyncInvHolds == Spec => []SyncInv
<1>1. Init => SyncInv
  <2>1. Init => Begins
    BY DEF Init, Begins
  <2> QED
    BY <2>1, InitIsTree, BeginsWell DEF SyncInv
<1> QED
  BY <1>1, StepKeepsSync, PTL DEF Spec

\* When a run ends, also after others were killed at any point, dst is src but for what
\* is obstructed, with the times and permissions of src even there (main.c:59, 120).
THEOREM DirectoriesAreMirrored == Spec => []Mirrors
<1>1. SyncInv => Mirrors
  <2> SUFFICES ASSUME SyncInv, Ended, NEW p \in Paths
               PROVE  /\ Exists(src, p) => dst[p].mtime = src[p].mtime /\ dst[p].mode = src[p].mode
                      /\ dst[p] = src[p] \/ \E q \in Paths : IsPrefix(q, p) /\ Obstructed(q)
    BY DEF Mirrors
  <2>1. Right(p)
    BY DEF SyncInv, EndInv, Ended
  <2> QED
    BY <2>1 DEF Right, Spoilt
<1> QED
  BY <1>1, SyncInvHolds, PTL

\* Where dst is src there is nothing that a step could do to it.
LEMMA NothingToDo ==
  ASSUME SyncInv, dst = src, writing = <<>>, sync_directories
  PROVE  dst' = dst /\ writing' = <<>>
<1>1. TreeInv /\ StackInv /\ CopiedInv
  BY DEF SyncInv
<1>2. ASSUME NEW p \in Paths, Creat(p) PROVE FALSE
  BY <1>2 DEF Creat, Exists
<1>3. ASSUME NEW p \in Paths, Truncate(p) PROVE FALSE
  BY <1>3 DEF Truncate, Differ
<1>4. ASSUME NEW p \in Paths, RemoveFile(p) PROVE FALSE
  BY <1>4 DEF RemoveFile
<1>5. ASSUME NEW p \in Paths, Mkdir(p) PROVE FALSE
  BY <1>5 DEF Mkdir, Exists
<1>6. ASSUME NEW p \in Paths, SetTimes(p) PROVE FALSE
  BY <1>6 DEF SetTimes, TimesDiffer
<1>7. ASSUME NEW p \in Paths, RemoveExtra(p) PROVE FALSE
  <2>1. PICK q \in Paths : IsPrefix(p, q) /\ Exists(dst, q)
    BY <1>7 DEF RemoveExtra
  <2>2. src[q] = NONE
    BY <1>1, <1>7, <2>1, RemoveExtraDoes
  <2> QED
    BY <2>1, <2>2 DEF Exists, NONE
<1>8. ASSUME NEW p \in Paths, SetMode(p) PROVE dst' = dst /\ writing' = <<>>
  <2>1. dst' = [dst EXCEPT ![p].mode = src[p].mode] /\ writing' = <<>>
    BY <1>8 DEF SetMode
  <2>2. dst \in [Paths -> Node] /\ dst[p] \in Node
    BY <1>1 DEF TreeInv, TreeOf
  <2>3. [dst[p] EXCEPT !.mode = dst[p].mode] = dst[p]
    BY <2>2 DEF Node
  <2> QED
    BY <2>1, <2>2, <2>3
<1>9. ASSUME NEW p \in Paths, LeaveFile(p) \/ Recurse(p) PROVE dst' = dst /\ writing' = <<>>
  BY <1>9 DEF LeaveFile, Recurse
<1>10. ASSUME Write PROVE FALSE
  BY <1>10 DEF Write
<1>11. ASSUME Rewind \/ Return PROVE dst' = dst /\ writing' = <<>>
  BY <1>11 DEF Rewind, Return
<1> QED
  BY <1>2, <1>3, <1>4, <1>5, <1>6, <1>7, <1>8, <1>9, <1>10, <1>11 DEF sync_directories

\* The second run begins with dst as src is, or with something obstructed.
LEMMA SecondRunStarts ==
  ASSUME SyncInv, RunAgain
  PROVE  (dst = src /\ writing = <<>>) \/ \E p \in Paths : Obstructed(p)
<1>1. writing = <<>> /\ \A p \in Paths : Right(p)
  BY DEF SyncInv, EndInv, RunAgain, Ended
<1>2. CASE \A p \in Paths : dst[p] = src[p]
  <2>1. dst \in [Paths -> Node] /\ src \in [Paths -> Node]
    BY DEF SyncInv, TreeInv, TreeOf
  <2> QED
    BY <1>1, <1>2, <2>1
<1>3. CASE ~ \A p \in Paths : dst[p] = src[p]
  BY <1>1, <1>3 DEF Right, Spoilt
<1> QED
  BY <1>2, <1>3

LEMMA StepKeepsAgain == SyncInv /\ AgainInv /\ [Next]_syncVars => AgainInv'
<1> SUFFICES ASSUME SyncInv, AgainInv, [Next]_syncVars PROVE AgainInv'
  OBVIOUS
<1>1. CASE sync_directories
  <2>1. UNCHANGED history
    BY <1>1 DEF sync_directories, Creat, Truncate, LeaveFile, RemoveFile, Mkdir, Recurse, SetTimes, SetMode,
                RemoveExtra, Write, Rewind, Return
  <2>2. UNCHANGED <<src, again>> /\ \A p \in Paths : (Obstructed(p)' <=> Obstructed(p))
    BY <2>1, SameObstacles DEF history
  <2> QED
    BY <1>1, <2>2, NothingToDo DEF AgainInv
<1>2. CASE Kill
  BY <1>2 DEF AgainInv, Kill
<1>3. CASE RunAgain
  <2>1. UNCHANGED <<src, dst, before, kills, writing>>
    BY <1>3 DEF RunAgain
  <2>2. \A p \in Paths : (Obstructed(p)' <=> Obstructed(p))
    BY <2>1 DEF Obstructed, Exists, Differ
  <2> QED
    BY <1>3, <2>1, <2>2, SecondRunStarts DEF AgainInv
<1>4. CASE UNCHANGED syncVars
  <2>1. UNCHANGED <<src, dst, writing, again, history>>
    BY <1>4 DEF syncVars, history
  <2> QED
    BY <2>1, SameObstacles DEF AgainInv
<1> QED
  BY <1>1, <1>2, <1>3, <1>4 DEF Next

\* A second run changes nothing, unless something is obstructed (main.c:85, 133).
THEOREM SecondRunIsIdle == Spec => SecondRunChangesNothing
<1>1. Init => AgainInv
  BY DEF Init, AgainInv
<1>2. Spec => []AgainInv
  BY <1>1, SyncInvHolds, StepKeepsAgain, PTL DEF Spec
<1>3. SyncInv /\ AgainInv /\ [Next]_syncVars => [again => dst' = dst \/ \E p \in Paths : Obstructed(p)]_syncVars
  <2> SUFFICES ASSUME SyncInv, AgainInv, Next, again
               PROVE  dst' = dst \/ \E p \in Paths : Obstructed(p)
    OBVIOUS
  <2>1. CASE sync_directories
    BY <2>1, NothingToDo DEF AgainInv
  <2>2. CASE Kill \/ RunAgain \/ UNCHANGED syncVars
    BY <2>2 DEF Kill, RunAgain, syncVars
  <2> QED
    BY <2>1, <2>2 DEF Next
<1> QED
  BY <1>2, <1>3, SyncInvHolds, PTL DEF Spec, SecondRunChangesNothing
=============================================================================
