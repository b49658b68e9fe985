--------------------------- MODULE ComputeSumProofs ---------------------------
(***************************************************************************)
(* The partial sums of computesum.c are complete, whatever the tree, and   *)
(* the root prints the sum of what was typed.                              *)
(***************************************************************************)
EXTENDS ComputeSum, FiniteSetTheorems, WellFoundedInduction, TLAPS

Added == {"up", "root", "done"}
PastOwn == Added \cup {"lock", "add"}

Party(i) == {i} \cup Children(i)

\* A node's barrier is for the node and its children; a child is there only if
\* it has added, and whoever is past the barrier saw it complete.
ArrivedInv ==
  /\ parent \in [Nodes -> Nodes \cup {None}]
  /\ pc \in [Nodes -> PastOwn \cup {"input", "start", "own"}]
  /\ at_node \in [Nodes -> SUBSET Nodes]
  /\ \A i \in Nodes : i \notin Children(i)
  /\ \A i \in Nodes : at_node[i] \subseteq Party(i)
  /\ \A i \in Nodes : \A j \in Children(i) : j \in at_node[i] => pc[j] \in Added
  /\ \A i \in Nodes : pc[i] \in PastOwn => at_node[i] = Party(i)

\* No node of a tree is its own parent.
LEMMA NoSelfParent ==
  ASSUME NEW p \in Trees, NEW i \in Nodes
  PROVE  p[i] # i
<1>1. PICK depth \in [Nodes -> 0..Cardinality(Nodes)] :
        \A j \in Nodes : p[j] # None => depth[p[j]] < depth[j]
  BY DEF Trees
<1>2. IsFiniteSet(Nodes) /\ None \notin Nodes
  BY NodesAssumption
<1>3. Cardinality(Nodes) \in Nat
  BY <1>2, FS_CardinalityType
<1>4. ASSUME p[i] = i PROVE FALSE
  <2>1. depth[i] < depth[i]
    BY <1>1, <1>2, <1>4
  <2>2. depth[i] \in Int
    BY <1>3
  <2> QED
    BY <2>1, <2>2
<1> QED
  BY <1>4

\* A set of a node and children of it that has as many members as the barrier
\* counts to is the node and all its children.
LEMMA FullParty ==
  ASSUME NEW i \in Nodes, i \notin Children(i), NEW S, S \subseteq Party(i),
         Cardinality(S) = NodeCount(i)
  PROVE  S = Party(i)
<1>1. IsFiniteSet(Nodes)
  BY NodesAssumption
<1>2. Children(i) \in SUBSET Nodes
  BY DEF Children
<1>3. IsFiniteSet(Children(i))
  BY <1>1, <1>2, FS_Subset
<1>4. IsFiniteSet(Children(i) \cup {i}) /\ Cardinality(Children(i) \cup {i}) = NodeCount(i)
  BY <1>3, FS_AddElement DEF NodeCount
<1>5. Party(i) = Children(i) \cup {i}
  BY DEF Party
<1>6. S \in SUBSET (Children(i) \cup {i})
  BY <1>5
<1>7. Cardinality(Children(i) \cup {i}) = Cardinality(S) => Children(i) \cup {i} = S
  BY <1>4, <1>6, FS_Subset
<1> QED
  BY <1>4, <1>5, <1>7

LEMMA ArrivedInit == Init => ArrivedInv
<1> SUFFICES ASSUME Init PROVE ArrivedInv
  OBVIOUS
<1>1. parent \in [Nodes -> Nodes \cup {None}]
  BY DEF Init, Trees
<1>2. \A i \in Nodes : i \notin Children(i)
  BY NoSelfParent DEF Init, Children
<1> QED
  BY <1>1, <1>2 DEF Init, ArrivedInv, PastOwn, Added, Party

LEMMA ArrivedStep == ArrivedInv /\ [Next]_sumVars => ArrivedInv'
<1> SUFFICES ASSUME ArrivedInv, [Next]_sumVars
             PROVE  ArrivedInv'
  OBVIOUS
<1> USE DEF ArrivedInv, PastOwn, Added
<1>0. UNCHANGED parent
  BY DEF Next, t_main, ReadInput, PassStart, PassOwn, LockAndRead, AddAndUnlock,
         RootUnlock, PassParent, PassRoot, sumVars
<1>1. \A i \in Nodes : Children(i)' = Children(i) /\ Party(i)' = Party(i)
  BY <1>0 DEF Children, Party
<1>2. ASSUME NEW i \in Nodes, PassStart(i)
      PROVE  ArrivedInv'
  <2> USE <1>2 DEF PassStart, Goto, ArriveAtNode
  <2>1. at_node' = [at_node EXCEPT ![i] = @ \cup {i}] /\ i \in Party(i)
    BY DEF Party
  <2>2. \A k \in Nodes : at_node'[k] \subseteq Party(k)
    BY <2>1
  <2>3. \A k \in Nodes : \A j \in Children(k) :
          j \in at_node'[k] => j \in at_node[k] /\ pc'[j] \in Added
    BY <2>1 DEF Children
  <2>4. \A k \in Nodes : pc'[k] \in PastOwn => at_node'[k] = Party(k)
    BY <2>1
  <2> QED
    BY <1>0, <1>1, <2>1, <2>2, <2>3, <2>4
<1>3. ASSUME NEW i \in Nodes, PassOwn(i)
      PROVE  ArrivedInv'
  <2> USE <1>3 DEF PassOwn, Goto
  <2>1. at_node[i] = Party(i)
    BY FullParty
  <2> QED
    BY <1>0, <1>1, <2>1 DEF Children
<1>4. ASSUME NEW i \in Nodes, AddAndUnlock(i)
      PROVE  ArrivedInv'
  <2> USE <1>4 DEF AddAndUnlock, Goto, ArriveAtNode
  <2>1. parent[i] \in Nodes /\ i \in Children(parent[i])
    BY DEF Children
  <2>2. at_node' = [at_node EXCEPT ![parent[i]] = @ \cup {i}] /\ i \in Party(parent[i])
    BY <2>1 DEF Party
  <2>3. \A k \in Nodes : at_node'[k] \subseteq Party(k)
    BY <2>1, <2>2
  <2>4. \A k \in Nodes : \A j \in Children(k) : j \in at_node'[k] => pc'[j] \in Added
    BY <2>1, <2>2 DEF Children
  <2>5. \A k \in Nodes : pc'[k] \in PastOwn => at_node'[k] = Party(k)
    BY <2>1, <2>2
  <2> QED
    BY <1>0, <1>1, <2>1, <2>2, <2>3, <2>4, <2>5
<1>5. ASSUME NEW i \in Nodes,
             ReadInput(i) \/ LockAndRead(i) \/ RootUnlock(i) \/ PassParent(i) \/ PassRoot(i)
      PROVE  ArrivedInv'
  BY <1>0, <1>1, <1>5
     DEF ReadInput, LockAndRead, RootUnlock, PassParent, PassRoot, Goto, Children
<1>6. CASE UNCHANGED sumVars
  BY <1>0, <1>1, <1>6 DEF sumVars
<1> QED
  BY <1>2, <1>3, <1>4, <1>5, <1>6 DEF Next, t_main

\* For every set of nodes, every tree and every interleaving: a node reads and
\* passes on its partial sum only after each of its children has added to it
\* (computesum.c:42-55).
THEOREM CompletePartialSums == Spec => []ChildrenFirst
<1>1. ArrivedInv => ChildrenFirst
  BY DEF ArrivedInv, ChildrenFirst, PastOwn, Added, Party
<1> QED
  BY <1>1, ArrivedInit, ArrivedStep, PTL DEF Spec

(***************************************************************************)
(* Sums over finite sets.                                                  *)
(***************************************************************************)
Total(f, S) == MapThenSumSet(LAMBDA i : f[i], S)

Chosen(s) == CHOOSE x \in s : TRUE

\* The recursion that Total is defined by, over the subsets of U.
Sums(f, U, h) == h = [s \in SUBSET U |-> IF s = {} THEN 0 ELSE f[Chosen(s)] + h[s \ {Chosen(s)}]]

\* The same for the subsets of at most n elements.
Small(U, n) == {s \in SUBSET U : Cardinality(s) <= n}
SumsTo(f, U, n, h) ==
  h = [s \in Small(U, n) |-> IF s = {} THEN 0 ELSE f[Chosen(s)] + h[s \ {Chosen(s)}]]

Less == {ss \in Nat \X Nat : ss[1] < ss[2]}

\* A nonempty set of numbers has a smallest one: what the inductions below are from.
LEMMA SmallestNat ==
  ASSUME NEW T, T \subseteq Nat, T # {}
  PROVE  \E x \in T : \A y \in T : x <= y
<1>1. IsWellFoundedOn(Less, Nat)
  BY NatLessThanWellFounded DEF OpToRel, Less
<1>2. PICK x \in T : \A y \in T : ~(<<y, x>> \in Less)
  BY <1>1, WFMin
<1>3. \A y \in T : ~(y < x)
  <2>1. ASSUME NEW y \in T, y < x PROVE FALSE
    <3>1. <<y, x>> \in Nat \X Nat /\ <<y, x>>[1] = y /\ <<y, x>>[2] = x
      OBVIOUS
    <3> QED
      BY <1>2, <2>1, <3>1 DEF Less
  <2> QED
    BY <2>1
<1> QED
  BY <1>3

LEMMA ChosenIn == ASSUME NEW s, s # {} PROVE Chosen(s) \in s
BY DEF Chosen

\* Of a finite set, those smaller by one element.
LEMMA OneLess ==
  ASSUME NEW s, IsFiniteSet(s), NEW x \in s
  PROVE  /\ IsFiniteSet(s \ {x}) /\ Cardinality(s) \in Nat \ {0}
         /\ Cardinality(s \ {x}) = Cardinality(s) - 1
<1>1. IsFiniteSet(s \ {x}) /\ Cardinality(s \ {x}) = Cardinality(s) - 1
  BY FS_RemoveElement
<1>2. Cardinality(s) \in Nat /\ Cardinality(s) # 0
  BY FS_CardinalityType, FS_EmptySet
<1> QED
  BY <1>1, <1>2

LEMMA SumsToExist ==
  ASSUME NEW f, NEW U, IsFiniteSet(U), NEW n \in Nat
  PROVE  \E h : SumsTo(f, U, n, h)
<1> DEFINE Missing == {k \in Nat : ~ \E h : SumsTo(f, U, k, h)}
<1>1. SUFFICES ASSUME Missing # {} PROVE FALSE
  OBVIOUS
<1>2. PICK k \in Missing : \A j \in Missing : k <= j
  <2> HIDE DEF Missing
  <2>1. Missing \subseteq Nat
    BY DEF Missing
  <2> QED
    BY <1>1, <2>1, SmallestNat
<1>3. \A s \in SUBSET U : IsFiniteSet(s) /\ Cardinality(s) \in Nat
  BY FS_Subset, FS_CardinalityType
<1>4. CASE k = 0
  <2> DEFINE h == [s \in Small(U, 0) |-> 0]
  <2>1. \A s \in Small(U, 0) : s = {}
    BY <1>3, FS_EmptySet DEF Small
  <2>2. h = [s \in Small(U, 0) |-> IF s = {} THEN 0 ELSE f[Chosen(s)] + h[s \ {Chosen(s)}]]
    BY <2>1
  <2>3. SumsTo(f, U, 0, h)
    BY <2>2 DEF SumsTo
  <2> QED
    BY <1>4, <2>3
<1>5. CASE k # 0
  <2>1. k - 1 \in Nat /\ ~(k <= k - 1)
    BY <1>5
  <2>2. PICK g : SumsTo(f, U, k - 1, g)
    BY <1>2, <2>1
  <2> DEFINE h == [s \in Small(U, k) |-> IF s = {} THEN 0 ELSE f[Chosen(s)] + g[s \ {Chosen(s)}]]
  <2>3. \A s \in Small(U, k - 1) : s \in Small(U, k) /\ h[s] = g[s]
    <3>1. SUFFICES ASSUME NEW s \in Small(U, k - 1) PROVE s \in Small(U, k) /\ h[s] = g[s]
      OBVIOUS
    <3>2. s \in Small(U, k)
      BY <1>3, <2>1 DEF Small
    <3>3. g[s] = IF s = {} THEN 0 ELSE f[Chosen(s)] + g[s \ {Chosen(s)}]
      BY <2>2 DEF SumsTo
    <3> QED
      BY <3>2, <3>3
  <2>4. \A s \in Small(U, k) : s # {} => s \ {Chosen(s)} \in Small(U, k - 1)
    <3>1. SUFFICES ASSUME NEW s \in Small(U, k), s # {} PROVE s \ {Chosen(s)} \in Small(U, k - 1)
      OBVIOUS
    <3>2. s \in SUBSET U /\ Cardinality(s) <= k /\ IsFiniteSet(s) /\ Chosen(s) \in s
      BY <1>3, <3>1, ChosenIn DEF Small
    <3>3. Cardinality(s \ {Chosen(s)}) = Cardinality(s) - 1 /\ Cardinality(s) \in Nat
      BY <3>2, OneLess
    <3>4. Cardinality(s \ {Chosen(s)}) <= k - 1
      BY <2>1, <3>2, <3>3
    <3> QED
      BY <3>2, <3>4 DEF Small
  <2>5. \A s \in Small(U, k) : s # {} => h[s \ {Chosen(s)}] = g[s \ {Chosen(s)}]
    BY <2>3, <2>4
  <2>6. h = [s \in Small(U, k) |-> IF s = {} THEN 0 ELSE f[Chosen(s)] + h[s \ {Chosen(s)}]]
    <3> HIDE DEF h
    <3>1. h = [s \in Small(U, k) |-> IF s = {} THEN 0 ELSE f[Chosen(s)] + g[s \ {Chosen(s)}]]
      BY DEF h
    <3> QED
      BY <2>5, <3>1
  <2>7. SumsTo(f, U, k, h)
    BY <2>6 DEF SumsTo
  <2> QED
    BY <1>2, <2>7
<1> QED
  BY <1>4, <1>5

LEMMA SumsExist == ASSUME NEW f, NEW U, IsFiniteSet(U) PROVE \E h : Sums(f, U, h)
<1>1. Cardinality(U) \in Nat
  BY FS_CardinalityType
<1>2. \A s \in SUBSET U : Cardinality(s) <= Cardinality(U)
  BY FS_Subset
<1>3. Small(U, Cardinality(U)) = SUBSET U
  BY <1>2 DEF Small
<1>4. PICK h : SumsTo(f, U, Cardinality(U), h)
  BY <1>1, SumsToExist
<1>5. Sums(f, U, h)
  BY <1>3, <1>4 DEF Sums, SumsTo
<1> QED
  BY <1>5

LEMMA TotalIs ==
  ASSUME NEW f, NEW S, IsFiniteSet(S)
  PROVE  \E h : Sums(f, S, h) /\ Total(f, S) = h[S]
<1> DEFINE h == CHOOSE g : Sums(f, S, g)
<1>1. Sums(f, S, h)
  BY SumsExist
<1>2. Total(f, S) = h[S]
  BY DEF Total, MapThenSumSet, MapThenFoldSet, Sums, Chosen
<1> QED
  BY <1>1, <1>2

\* Two sums are the same on a set on which the functions are.
LEMMA SumsAgree ==
  ASSUME NEW f, NEW g, NEW U, NEW V, NEW h, NEW k, IsFiniteSet(U),
         Sums(f, U, h), Sums(g, V, k),
         NEW S, S \subseteq U, S \subseteq V, \A x \in S : f[x] = g[x]
  PROVE  h[S] = k[S]
<1> DEFINE Wrong == {n \in Nat : \E s \in SUBSET S : Cardinality(s) = n /\ h[s] # k[s]}
<1>1. \A s \in SUBSET S : IsFiniteSet(s) /\ Cardinality(s) \in Nat
  BY FS_Subset, FS_CardinalityType
<1>2. SUFFICES ASSUME Wrong # {} PROVE FALSE
  <2>1. h[S] # k[S] => Cardinality(S) \in Wrong
    BY <1>1
  <2> QED
    BY <2>1
<1>3. PICK n \in Wrong : \A m \in Wrong : n <= m
  <2> HIDE DEF Wrong
  <2>1. Wrong \subseteq Nat
    BY DEF Wrong
  <2> QED
    BY <1>2, <2>1, SmallestNat
<1>4. PICK s \in SUBSET S : Cardinality(s) = n /\ h[s] # k[s]
  BY <1>3
<1>5. s # {}
  BY <1>4 DEF Sums
<1>6. Chosen(s) \in s
  BY <1>5, ChosenIn
<1> DEFINE t == s \ {Chosen(s)}
<1>7. Cardinality(t) \in Nat /\ ~(n <= Cardinality(t))
  BY <1>1, <1>4, <1>6, OneLess
<1>8. t \in SUBSET S
  OBVIOUS
<1>9. h[t] = k[t]
  BY <1>3, <1>7, <1>8
<1>10. h[s] = f[Chosen(s)] + h[t] /\ k[s] = g[Chosen(s)] + k[t]
  BY <1>5 DEF Sums
<1>11. f[Chosen(s)] = g[Chosen(s)]
  BY <1>6
<1> QED
  BY <1>4, <1>9, <1>10, <1>11

LEMMA SumsAreIntegers ==
  ASSUME NEW f, NEW U, NEW h, IsFiniteSet(U), Sums(f, U, h), \A x \in U : f[x] \in Int,
         NEW S, S \subseteq U
  PROVE  h[S] \in Int
<1> DEFINE Wrong == {n \in Nat : \E s \in SUBSET S : Cardinality(s) = n /\ h[s] \notin Int}
<1>1. \A s \in SUBSET S : IsFiniteSet(s) /\ Cardinality(s) \in Nat
  BY FS_Subset, FS_CardinalityType
<1>2. SUFFICES ASSUME Wrong # {} PROVE FALSE
  <2>1. h[S] \notin Int => Cardinality(S) \in Wrong
    BY <1>1
  <2> QED
    BY <2>1
<1>3. PICK n \in Wrong : \A m \in Wrong : n <= m
  <2> HIDE DEF Wrong
  <2>1. Wrong \subseteq Nat
    BY DEF Wrong
  <2> QED
    BY <1>2, <2>1, SmallestNat
<1>4. PICK s \in SUBSET S : Cardinality(s) = n /\ h[s] \notin Int
  BY <1>3
<1>5. s # {}
  BY <1>4 DEF Sums
<1>6. Chosen(s) \in s
  BY <1>5, ChosenIn
<1> DEFINE t == s \ {Chosen(s)}
<1>7. Cardinality(t) \in Nat /\ ~(n <= Cardinality(t))
  BY <1>1, <1>4, <1>6, OneLess
<1>8. t \in SUBSET S
  OBVIOUS
<1>9. h[t] \in Int
  BY <1>3, <1>7, <1>8
<1>10. h[s] = f[Chosen(s)] + h[t]
  BY <1>5 DEF Sums
<1> QED
  BY <1>4, <1>6, <1>9, <1>10

\* The order of adding does not matter: any element can be the one added last.
LEMMA SumsAnyOrder ==
  ASSUME NEW f, NEW U, NEW h, IsFiniteSet(U), Sums(f, U, h), \A x \in U : f[x] \in Int,
         NEW S, S \subseteq U, NEW x \in S
  PROVE  h[S] = f[x] + h[S \ {x}]
<1> DEFINE Wrong == {n \in Nat : \E s \in SUBSET U : \E e \in s :
                       Cardinality(s) = n /\ h[s] # f[e] + h[s \ {e}]}
<1>1. \A s \in SUBSET U : IsFiniteSet(s) /\ Cardinality(s) \in Nat /\ h[s] \in Int
  BY FS_Subset, FS_CardinalityType, SumsAreIntegers
<1>2. SUFFICES ASSUME Wrong # {} PROVE FALSE
  <2>1. h[S] # f[x] + h[S \ {x}] => Cardinality(S) \in Wrong
    BY <1>1
  <2> QED
    BY <2>1
<1>3. PICK n \in Wrong : \A m \in Wrong : n <= m
  <2> HIDE DEF Wrong
  <2>1. Wrong \subseteq Nat
    BY DEF Wrong
  <2> QED
    BY <1>2, <2>1, SmallestNat
<1>4. PICK s \in SUBSET U : \E e \in s : Cardinality(s) = n /\ h[s] # f[e] + h[s \ {e}]
  BY <1>3
<1>5. PICK e \in s : Cardinality(s) = n /\ h[s] # f[e] + h[s \ {e}]
  BY <1>4
<1>6. \A t \in SUBSET s : \A y \in t : Cardinality(t) < n => h[t] = f[y] + h[t \ {y}]
  <2>1. SUFFICES ASSUME NEW t \in SUBSET s, NEW y \in t, Cardinality(t) < n
                 PROVE  h[t] = f[y] + h[t \ {y}]
    OBVIOUS
  <2>2. t \in SUBSET U /\ Cardinality(t) \in Nat /\ n \in Nat
    BY <1>1, <1>3
  <2>3. Cardinality(t) \notin Wrong
    <3> HIDE DEF Wrong
    <3> QED
      BY <1>3, <2>1, <2>2
  <2> QED
    BY <2>2, <2>3
<1> DEFINE c == Chosen(s)
<1>7. c \in s /\ s # {}
  BY ChosenIn
<1>8. h[s] = f[c] + h[s \ {c}]
  BY <1>7 DEF Sums
<1>9. c # e
  BY <1>5, <1>8
<1>10. /\ Cardinality(s \ {c}) < n /\ Cardinality(s \ {e}) < n
      /\ s \ {c} \in SUBSET s /\ s \ {e} \in SUBSET s /\ e \in s \ {c} /\ c \in s \ {e}
  BY <1>1, <1>5, <1>7, <1>9, OneLess
<1>11. h[s \ {c}] = f[e] + h[(s \ {c}) \ {e}]
  BY <1>6, <1>10
<1>12. h[s \ {e}] = f[c] + h[(s \ {e}) \ {c}]
  BY <1>6, <1>10
<1>13. (s \ {c}) \ {e} = (s \ {e}) \ {c}
  OBVIOUS
<1>14. PICK u \in SUBSET U : u = (s \ {c}) \ {e}
  OBVIOUS
<1>15. h[u] \in Int /\ f[c] \in Int /\ f[e] \in Int
  BY <1>1, <1>7
<1>16. h[s \ {c}] = f[e] + h[u] /\ h[s \ {e}] = f[c] + h[u]
  BY <1>11, <1>12, <1>13, <1>14
<1>17. f[c] + h[s \ {c}] = f[e] + h[s \ {e}]
  <2> HIDE DEF c
  <2> QED
    BY <1>15, <1>16
<1> QED
  BY <1>5, <1>8, <1>17

LEMMA TotalSame ==
  ASSUME NEW f, NEW g, NEW S, IsFiniteSet(S), \A x \in S : f[x] = g[x]
  PROVE  Total(f, S) = Total(g, S)
<1>1. PICK h : Sums(f, S, h) /\ Total(f, S) = h[S]
  BY TotalIs
<1>2. PICK k : Sums(g, S, k) /\ Total(g, S) = k[S]
  BY TotalIs
<1> QED
  BY <1>1, <1>2, SumsAgree

\* Total, one element at a time.
LEMMA TotalAdds ==
  ASSUME NEW f, NEW S, IsFiniteSet(S), \A x \in S : f[x] \in Int
  PROVE  /\ Total(f, S) \in Int
         /\ Total(f, {}) = 0
         /\ \A x \in S : Total(f, S) = f[x] + Total(f, S \ {x})
<1>1. PICK h : Sums(f, S, h) /\ Total(f, S) = h[S]
  BY TotalIs
<1>2. Total(f, S) \in Int
  BY <1>1, SumsAreIntegers
<1>3. Total(f, {}) = 0
  <2>1. PICK k : Sums(f, {}, k) /\ Total(f, {}) = k[{}]
    BY TotalIs, FS_EmptySet
  <2> QED
    BY <2>1 DEF Sums
<1>4. ASSUME NEW x \in S PROVE Total(f, S) = f[x] + Total(f, S \ {x})
  <2>1. IsFiniteSet(S \ {x})
    BY FS_RemoveElement
  <2>2. PICK k : Sums(f, S \ {x}, k) /\ Total(f, S \ {x}) = k[S \ {x}]
    BY <2>1, TotalIs
  <2>3. k[S \ {x}] = h[S \ {x}]
    BY <1>1, <2>1, <2>2, SumsAgree
  <2>4. h[S] = f[x] + h[S \ {x}]
    BY <1>1, SumsAnyOrder
  <2> QED
    BY <1>1, <2>2, <2>3, <2>4
<1> QED
  BY <1>2, <1>3, <1>4

LEMMA TotalOfZeros ==
  ASSUME NEW S, IsFiniteSet(S), NEW f, \A x \in S : f[x] = 0
  PROVE  Total(f, S) = 0
<1> DEFINE Wrong == {n \in Nat : \E s \in SUBSET S : Cardinality(s) = n /\ Total(f, s) # 0}
<1>1. \A s \in SUBSET S : IsFiniteSet(s) /\ Cardinality(s) \in Nat
  BY FS_Subset, FS_CardinalityType
<1>2. SUFFICES ASSUME Wrong # {} PROVE FALSE
  <2>1. Total(f, S) # 0 => Cardinality(S) \in Wrong
    BY <1>1
  <2> QED
    BY <2>1
<1>3. PICK n \in Wrong : \A m \in Wrong : n <= m
  <2> HIDE DEF Wrong
  <2>1. Wrong \subseteq Nat
    BY DEF Wrong
  <2> QED
    BY <1>2, <2>1, SmallestNat
<1>4. PICK s \in SUBSET S : Cardinality(s) = n /\ Total(f, s) # 0
  BY <1>3
<1>5. \A x \in s : f[x] = 0 /\ f[x] \in Int
  OBVIOUS
<1>6. IsFiniteSet(s)
  BY <1>1
<1>7. s # {}
  BY <1>4, <1>5, <1>6, TotalAdds
<1>8. PICK x \in s : TRUE
  BY <1>7
<1>9. Cardinality(s \ {x}) \in Nat /\ ~(n <= Cardinality(s \ {x}))
  BY <1>1, <1>4, <1>6, OneLess
<1>10. Total(f, s \ {x}) = 0
  BY <1>3, <1>9
<1>11. Total(f, s) = f[x] + Total(f, s \ {x})
  BY <1>5, <1>6, TotalAdds
<1> QED
  BY <1>4, <1>5, <1>10, <1>11

\* A sum when only the value of x changes.
ChangesAt(x, T, f, g) == \A y \in T : f[y] \in Int /\ g[y] \in Int /\ (y # x => f[y] = g[y])

LEMMA TotalChange ==
  ASSUME NEW T, NEW f, NEW g, NEW x \in T, ChangesAt(x, T, f, g), NEW S \in SUBSET T, IsFiniteSet(S)
  PROVE  Total(g, S) = IF x \in S THEN Total(f, S) - f[x] + g[x] ELSE Total(f, S)
<1>1. ASSUME x \notin S PROVE Total(g, S) = Total(f, S)
  BY <1>1, TotalSame DEF ChangesAt
<1>2. ASSUME x \in S PROVE Total(g, S) = Total(f, S) - f[x] + g[x]
  <2> DEFINE R == S \ {x}
  <2>1. IsFiniteSet(R) /\ \A y \in R : f[y] = g[y] /\ f[y] \in Int
    BY FS_RemoveElement DEF ChangesAt
  <2>2. Total(g, R) = Total(f, R) /\ Total(f, R) \in Int
    BY <2>1, TotalSame, TotalAdds
  <2>3. Total(g, S) = g[x] + Total(g, R)
    BY <1>2, TotalAdds DEF ChangesAt
  <2>4. Total(f, S) = f[x] + Total(f, R)
    BY <1>2, TotalAdds DEF ChangesAt
  <2>5. f[x] \in Int /\ g[x] \in Int
    BY DEF ChangesAt
  <2> HIDE DEF R
  <2> QED
    BY <1>2, <2>2, <2>3, <2>4, <2>5
<1> QED
  BY <1>1, <1>2

(***************************************************************************)
(* What has been typed at the leaves is what the nodes hold that have not  *)
(* yet passed their sums on.                                               *)
(***************************************************************************)
Leaves == {i \in Nodes : Children(i) = {}}
Holding == {i \in Nodes : parent[i] # None => pc[i] \notin Added}

\* Whoever is about to add has the mutex and has seen its parent's partial sum as it still
\* is; whoever is done saw everybody at the root's barrier.
SumInv ==
  /\ value \in [Nodes -> Int] /\ seen \in [Nodes -> Int]
  /\ \E r \in Nodes : \A i \in Nodes : parent[i] = None <=> i = r
  /\ \A i \in Nodes : pc[i] = "add" <=> tree_mutex = i
  /\ \A i \in Nodes : pc[i] = "add" /\ parent[i] # None => seen[i] = value[parent[i]]
  /\ at_root \subseteq Nodes /\ \A i \in at_root : pc[i] \in {"root", "done"}
  /\ \A i \in Nodes : pc[i] = "done" => Nodes \subseteq at_root
  /\ Total(value, Holding) = Total(value, Leaves)

LEMMA SumInit == Init => SumInv
<1> SUFFICES ASSUME Init PROVE SumInv
  OBVIOUS
<1>1. value = [i \in Nodes |-> 0] /\ IsFiniteSet(Nodes) /\ None \notin Nodes
  BY NodesAssumption DEF Init
<1>2. Total(value, Holding) = 0 /\ Total(value, Leaves) = 0
  <2>1. Holding \in SUBSET Nodes /\ Leaves \in SUBSET Nodes
    BY DEF Holding, Leaves
  <2>2. \A S \in SUBSET Nodes : IsFiniteSet(S) /\ \A x \in S : value[x] = 0
    BY <1>1, FS_Subset
  <2> QED
    BY <2>1, <2>2, TotalOfZeros
<1>3. \E r \in Nodes : \A i \in Nodes : parent[i] = None <=> i = r
  BY DEF Init, Trees
<1> QED
  BY <1>1, <1>2, <1>3 DEF Init, SumInv

\* The sums, when nobody has changed the tree.
LEMMA SumsKept ==
  ASSUME SumInv, parent' = parent, value' = value, Holding' = Holding
  PROVE  Total(value, Holding)' = Total(value, Leaves)'
<1>1. Leaves' = Leaves
  BY DEF Leaves, Children
<1> QED
  BY <1>1 DEF SumInv

LEMMA SumStep == ArrivedInv /\ SumInv /\ [Next]_sumVars => SumInv'
<1> SUFFICES ASSUME ArrivedInv, SumInv, [Next]_sumVars
             PROVE  SumInv'
  OBVIOUS
<1> USE NodesAssumption DEF Added
<1>0. UNCHANGED parent
  BY DEF Next, t_main, ReadInput, PassStart, PassOwn, LockAndRead, AddAndUnlock,
         RootUnlock, PassParent, PassRoot, sumVars
<1>1. Leaves' = Leaves /\ \E r \in Nodes : \A i \in Nodes : parent'[i] = None <=> i = r
  BY <1>0 DEF Leaves, Children, SumInv
<1>2. \A S \in SUBSET Nodes : IsFiniteSet(S)
  BY FS_Subset
<1>3. /\ pc \in [Nodes -> PastOwn \cup {"input", "start", "own"}]
      /\ parent \in [Nodes -> Nodes \cup {None}]
  BY DEF ArrivedInv
<1>4. Leaves \in SUBSET Nodes /\ Holding \in SUBSET Nodes
  BY DEF Leaves, Holding
\* A step of i that moves on without passing its sum.
<1>5. ASSUME NEW i \in Nodes, NEW to, pc' = [pc EXCEPT ![i] = to], value' = value,
             (pc[i] \in Added \/ parent[i] = None) <=> (to \in Added \/ parent[i] = None)
      PROVE  Total(value, Holding)' = Total(value, Leaves)'
  <2>1. Holding' = Holding
    BY <1>0, <1>3, <1>5 DEF Holding
  <2> QED
    BY <1>0, <1>5, <2>1, SumsKept
<1>6. ASSUME NEW i \in Nodes, ReadInput(i)
      PROVE  SumInv'
  <2> USE <1>6 DEF ReadInput, Goto
  <2>1. Holding' = Holding /\ i \in Holding
    BY <1>0, <1>3 DEF Holding
  <2>2. CASE value' = value
    BY <1>0, <1>1, <1>3, <2>1, <2>2, SumsKept DEF SumInv
  <2>3. CASE i \in Leaves /\ \E n \in Inputs : value' = [value EXCEPT ![i] = n]
    <3>1. PICK n \in Inputs : value' = [value EXCEPT ![i] = n]
      BY <2>3
    <3>2. value \in [Nodes -> Int] /\ n \in Int
      BY DEF SumInv
    <3>3. /\ Total(value', Holding) = Total(value, Holding) - value[i] + n
          /\ Total(value', Leaves) = Total(value, Leaves) - value[i] + n
      <4>1. ChangesAt(i, Nodes, value, value')
        BY <3>1, <3>2 DEF ChangesAt
      <4>2. \A S \in SUBSET Nodes : IsFiniteSet(S) =>
              Total(value', S) = IF i \in S THEN Total(value, S) - value[i] + value'[i] ELSE Total(value, S)
        BY <4>1, TotalChange
      <4>3. value'[i] = n
        BY <3>1, <3>2
      <4> QED
        BY <1>2, <1>4, <2>1, <2>3, <4>2, <4>3
    <3>4. Total(value, Holding)' = Total(value, Leaves)'
      <4>1. Total(value', Holding) = Total(value', Leaves)
        BY <3>3 DEF SumInv
      <4>2. Total(value, Holding)' = Total(value', Holding) /\ Total(value, Leaves)' = Total(value', Leaves)
        BY <1>1, <2>1
      <4> QED
        BY <4>1, <4>2
    <3>5. \A k \in Nodes : parent[k] # None => parent[k] # i
      BY <2>3 DEF Leaves, Children
    <3>6. value' \in [Nodes -> Int] /\ \A k \in Nodes : k # i => value'[k] = value[k]
      BY <3>1, <3>2
    <3> QED
      BY <1>0, <1>1, <1>3, <3>4, <3>5, <3>6 DEF SumInv
  <2> QED
    BY <2>2, <2>3 DEF Leaves
<1>7. ASSUME NEW i \in Nodes, LockAndRead(i)
      PROVE  SumInv'
  <2> USE <1>7 DEF LockAndRead, TakeTreeMutex, Goto
  <2>1. Total(value, Holding)' = Total(value, Leaves)'
    BY <1>5
  <2>2. seen' \in [Nodes -> Int]
    BY <1>3 DEF SumInv
  <2> QED
    BY <1>0, <1>1, <1>3, <2>1, <2>2 DEF SumInv
<1>8. ASSUME NEW i \in Nodes, AddAndUnlock(i)
      PROVE  SumInv'
  <2> USE <1>8 DEF AddAndUnlock, Goto
  <2>1. PICK q : q = parent[i]
    OBVIOUS
  <2>2. /\ q \in Nodes /\ i \in Children(q) /\ q # i /\ pc[i] = "add" /\ pc[q] \notin Added
        /\ q \notin Leaves /\ i \in Holding /\ q \in Holding
    <3>1. q \in Nodes /\ i \in Children(q) /\ pc[i] = "add"
      BY <1>3, <2>1 DEF Children
    <3>2. q # i /\ pc[q] \notin Added
      BY <3>1 DEF ArrivedInv, PastOwn, Party
    <3> QED
      BY <3>1, <3>2 DEF Leaves, Holding
  <2>3. value \in [Nodes -> Int] /\ seen[i] = value[q]
    BY <2>1, <2>2 DEF SumInv
  <2>4. PICK v \in Int : v = value[q] + value[i] /\ value' = [value EXCEPT ![q] = v]
    <3>1. value[q] + value[i] \in Int
      BY <2>2, <2>3
    <3> QED
      BY <2>1, <2>3, <3>1
  <2>5. Holding' = Holding \ {i}
    BY <1>0, <1>3, <2>2 DEF Holding
  <2>6. /\ Total(value', Leaves) = Total(value, Leaves)
        /\ Total(value', Holding \ {i}) = Total(value, Holding \ {i}) - value[q] + v
    <3>1. q \in Holding \ {i} /\ Holding \ {i} \in SUBSET Nodes
      BY <1>4, <2>2
    <3>2. ChangesAt(q, Nodes, value, value')
      BY <2>4, <2>3 DEF ChangesAt
    <3>3. \A S \in SUBSET Nodes : IsFiniteSet(S) =>
            Total(value', S) = IF q \in S THEN Total(value, S) - value[q] + value'[q] ELSE Total(value, S)
      <4>1. q \in Nodes
        BY <2>2
      <4> QED
        BY ONLY <3>2, <4>1, TotalChange
    <3>4. value'[q] = v
      BY <2>2, <2>4, <2>3
    <3> QED
      BY <1>2, <1>4, <2>2, <3>1, <3>3, <3>4
  <2>7. /\ Total(value, Holding) = value[i] + Total(value, Holding \ {i})
        /\ Total(value, Holding \ {i}) \in Int
    <3>1. \A S \in SUBSET Nodes : \A x \in S : value[x] \in Int
      BY <2>3
    <3>2. Holding \ {i} \in SUBSET Nodes
      BY <1>4
    <3> QED
      BY <1>2, <1>4, <2>2, <3>1, <3>2, TotalAdds
  <2>8. Total(value', Holding \ {i}) = Total(value, Holding)
    BY <2>2, <2>4, <2>6, <2>7, <2>3
  <2>9. Total(value, Holding)' = Total(value, Leaves)'
    <3>1. Total(value, Holding)' = Total(value', Holding \ {i}) /\ Total(value, Leaves)' = Total(value', Leaves)
      BY <1>1, <2>5
    <3> QED
      BY <2>6, <2>8, <3>1 DEF SumInv
  <2>10. \A k \in Nodes : pc'[k] = "add" => k # i /\ pc[k] = "add"
    BY <1>3
  <2>11. \A k \in Nodes : pc'[k] # "add"
    BY <2>2, <2>10 DEF SumInv
  <2>12. value' \in [Nodes -> Int]
    BY <2>4, <2>3
  <2>13. \A k \in at_root' : pc'[k] \in {"root", "done"}
    BY <1>3, <2>2 DEF SumInv
  <2>14. \A k \in Nodes : pc'[k] = "done" => Nodes \subseteq at_root'
    BY <1>3 DEF SumInv
  <2> QED
    BY <1>1, <2>9, <2>11, <2>12, <2>13, <2>14 DEF SumInv
<1>9. ASSUME NEW i \in Nodes, RootUnlock(i)
      PROVE  SumInv'
  <2> USE <1>9 DEF RootUnlock, Goto
  <2>1. Total(value, Holding)' = Total(value, Leaves)'
    BY <1>5
  <2> QED
    BY <1>0, <1>1, <1>3, <2>1 DEF SumInv
<1>10. ASSUME NEW i \in Nodes, PassRoot(i)
       PROVE  SumInv'
  <2> USE <1>10 DEF PassRoot, Goto
  <2>1. Total(value, Holding)' = Total(value, Leaves)'
    BY <1>5
  <2>2. Nodes \subseteq at_root
    <3>1. Cardinality(at_root) = Cardinality(Nodes)
      OBVIOUS
    <3>2. at_root \subseteq Nodes
      BY DEF SumInv
    <3> QED
      BY <3>1, <3>2, FS_Subset
  <2> QED
    BY <1>0, <1>1, <1>3, <2>1, <2>2 DEF SumInv
<1>11. ASSUME NEW i \in Nodes, PassStart(i) \/ PassOwn(i) \/ PassParent(i)
       PROVE  SumInv'
  <2> USE <1>11 DEF PassStart, PassOwn, PassParent, Goto
  <2>1. Total(value, Holding)' = Total(value, Leaves)'
    BY <1>5
  <2> QED
    BY <1>0, <1>1, <1>3, <2>1 DEF SumInv
<1>12. CASE UNCHANGED sumVars
  <2> USE <1>12 DEF sumVars
  <2>1. Holding' = Holding
    BY DEF Holding
  <2>2. Total(value, Holding)' = Total(value, Leaves)'
    BY <2>1, SumsKept
  <2> QED
    BY <1>1, <2>2 DEF SumInv
<1> QED
  BY <1>6, <1>7, <1>8, <1>9, <1>10, <1>11, <1>12 DEF Next, t_main

\* For every tree and everything that may be typed, whatever the interleaving, what the root
\* prints is the sum of the leaves (computesum.c:67).
THEOREM RootPrintsTheSum == Spec => []RootSum
<1>1. ArrivedInv /\ SumInv => RootSum
  <2>1. SUFFICES ASSUME ArrivedInv, SumInv, NEW r \in Nodes, parent[r] = None, pc[r] = "done"
                 PROVE  value[r] = Total(value, Leaves)
    BY DEF RootSum, Total, Leaves
  <2>2. \A i \in Nodes : pc[i] \in {"root", "done"} /\ (parent[i] = None <=> i = r)
    BY <2>1 DEF SumInv
  <2>3. Holding = {r}
    BY <2>2 DEF Holding, Added
  <2>4. value[r] \in Int
    BY <2>1 DEF SumInv
  <2>5. Total(value, {r}) = value[r] + Total(value, {r} \ {r}) /\ Total(value, {}) = 0
    <3>1. IsFiniteSet({r}) /\ \A x \in {r} : value[x] \in Int
      BY <2>4, FS_Singleton
    <3> QED
      BY <3>1, TotalAdds
  <2>6. {r} \ {r} = {}
    OBVIOUS
  <2>7. Total(value, {r}) = value[r]
    <3>1. Total(value, {r}) = value[r] + 0
      BY <2>5, <2>6
    <3> QED
      BY <2>4, <3>1
  <2> QED
    BY <2>1, <2>3, <2>7 DEF SumInv
<1>2. ArrivedInv /\ SumInv /\ [Next]_sumVars => (ArrivedInv /\ SumInv)'
  BY ArrivedStep, SumStep
<1> QED
  BY <1>1, <1>2, ArrivedInit, SumInit, PTL DEF Spec
-----------------------------------------------------------------------------
(* What is behind SumEnds: no barrier and no lock holds up everybody, and   *)
(* every run is finite.                                                    *)

\* What a thread waits for before its next step: the guards of t_main.
MayGo(i) ==
  \/ pc[i] = "input" /\ tree_mutex = None /\ (Children(i) = {} => Inputs # {})
  \/ pc[i] = "start" /\ Cardinality(at_start) = Cardinality(Nodes)
  \/ pc[i] = "own" /\ Cardinality(at_node[i]) = NodeCount(i)
  \/ pc[i] = "lock" /\ tree_mutex = None
  \/ pc[i] = "add"
  \/ pc[i] = "up" /\ Cardinality(at_node[parent[i]]) = NodeCount(parent[i])
  \/ pc[i] = "root" /\ Cardinality(at_root) = Cardinality(Nodes)

\* Who has come to a barrier is counted there, and the mutex is free or held by one that adds.
HereInv ==
  /\ parent \in Trees
  /\ \A i \in Nodes : pc[i] # "input" => i \in at_start
  /\ \A i \in Nodes : pc[i] \notin {"input", "start"} => i \in at_node[i]
  /\ \A i \in Nodes : pc[i] \in Added /\ parent[i] # None => i \in at_node[parent[i]]
  /\ \A i \in Nodes : pc[i] = "up" => parent[i] # None
  /\ \A i \in Nodes : pc[i] \in {"root", "done"} => i \in at_root
  /\ at_start \subseteq Nodes
  /\ tree_mutex # None => tree_mutex \in Nodes

LEMMA HereInit == Init => HereInv
  BY DEF Init, HereInv, Added

LEMMA HereStep == ArrivedInv /\ HereInv /\ [Next]_sumVars => HereInv'
<1> SUFFICES ASSUME ArrivedInv, HereInv, [Next]_sumVars PROVE HereInv'
  OBVIOUS
<1> USE NodesAssumption DEF HereInv, Added, Goto
<1>0. /\ pc \in [Nodes -> PastOwn \cup {"input", "start", "own"}]
      /\ at_node \in [Nodes -> SUBSET Nodes] /\ parent \in [Nodes -> Nodes \cup {None}]
  BY DEF ArrivedInv
<1>1. ASSUME NEW i \in Nodes, t_main(i) PROVE HereInv'
  <2>1. CASE ReadInput(i) BY <1>0, <2>1 DEF ReadInput
  <2>2. CASE PassStart(i) BY <1>0, <2>2 DEF PassStart, ArriveAtNode
  <2>3. CASE PassOwn(i) BY <1>0, <2>3 DEF PassOwn
  <2>4. CASE LockAndRead(i) BY <1>0, <2>4 DEF LockAndRead, TakeTreeMutex
  <2>5. CASE AddAndUnlock(i) BY <1>0, <2>5 DEF AddAndUnlock, ArriveAtNode
  <2>6. CASE RootUnlock(i) BY <1>0, <2>6 DEF RootUnlock
  <2>7. CASE PassParent(i) BY <1>0, <2>7 DEF PassParent
  <2>8. CASE PassRoot(i) BY <1>0, <2>8 DEF PassRoot
  <2> QED
    BY <1>1, <2>1, <2>2, <2>3, <2>4, <2>5, <2>6, <2>7, <2>8 DEF t_main
<1>2. CASE UNCHANGED sumVars
  BY <1>2 DEF sumVars
<1> QED
  BY <1>1, <1>2 DEF Next

\* Of the nodes in S one has no children in S.
LEMMA LowestNode ==
  ASSUME NEW S \in SUBSET Nodes, S # {}, parent \in Trees
  PROVE  \E i \in S : \A j \in Children(i) : j \notin S
<1>1. PICK depth \in [Nodes -> 0..Cardinality(Nodes)] :
        \A i \in Nodes : parent[i] # None => depth[parent[i]] < depth[i]
  BY DEF Trees
<1>2. PICK c \in Nat : c = Cardinality(Nodes)
  BY NodesAssumption, FS_CardinalityType
<1> DEFINE Heights == {c - depth[i] : i \in S}
<1>3. Heights \subseteq Nat /\ Heights # {}
  BY <1>1, <1>2
<1> HIDE DEF Heights
<1>4. PICK h \in Heights : \A x \in Heights : h <= x
  BY <1>3, SmallestNat
<1>5. PICK i \in S : h = c - depth[i]
  BY <1>4 DEF Heights
<1>6. ASSUME NEW j \in Children(i), j \in S PROVE FALSE
  <2>1. j \in Nodes /\ parent[j] = i /\ i # None
    BY NodesAssumption DEF Children
  <2>2. depth[i] < depth[j]
    BY <1>1, <2>1
  <2>3. c - depth[i] <= c - depth[j]
    BY <1>4, <1>5, <1>6 DEF Heights
  <2>4. depth[i] \in Nat /\ depth[j] \in Nat
    BY <1>1, <2>1
  <2> QED
    BY <1>2, <2>2, <2>3, <2>4
<1> QED
  BY <1>6

\* For every tree and interleaving: unless all have ended, somebody can go on;
\* the barriers of a node and its children are never waited at by everybody who
\* could complete one (computesum.c:25-75).
THEOREM SomebodyGoesOn ==
  Inputs # {} => (Spec => [](AllDone \/ \E i \in Nodes : MayGo(i)))
<1> SUFFICES ASSUME Inputs # {}
             PROVE  Spec => [](AllDone \/ \E i \in Nodes : MayGo(i))
  OBVIOUS
<1>1. ASSUME ArrivedInv, SumInv, HereInv, \A i \in Nodes : ~MayGo(i)
      PROVE  AllDone
  <2>0. /\ \A i \in Nodes : pc[i] \in {"input", "start", "own", "lock", "add", "up", "root", "done"}
        /\ \A i \in Nodes : parent[i] \in Nodes \cup {None}
        /\ \A i \in Nodes : at_node[i] \subseteq Party(i) /\ i \notin Children(i)
    BY <1>1 DEF ArrivedInv, PastOwn, Added
  <2>1. tree_mutex = None
    BY <1>1 DEF HereInv, SumInv, MayGo
  <2>2. \A i \in Nodes : pc[i] \in {"start", "own", "up", "root", "done"}
    BY <1>1, <2>0, <2>1 DEF MayGo
  <2>3. at_start = Nodes
    BY <1>1, <2>2 DEF HereInv
  <2>4. \A i \in Nodes : pc[i] \in {"own", "up", "root", "done"}
    BY <1>1, <2>2, <2>3 DEF MayGo
  <2>5. ASSUME NEW i \in Nodes, \A j \in Children(i) : pc[j] \in Added
        PROVE  Cardinality(at_node[i]) = NodeCount(i)
    <3>1. i \in at_node[i]
      BY <1>1, <2>4 DEF HereInv
    <3>2. \A j \in Children(i) : j \in at_node[i]
      BY <1>1, <2>5, NodesAssumption DEF HereInv, Children
    <3>3. at_node[i] = Children(i) \cup {i}
      BY <2>0, <3>1, <3>2 DEF Party
    <3>4. IsFiniteSet(Children(i))
      <4>1. Children(i) \subseteq Nodes
        BY DEF Children
      <4> QED
        BY <4>1, NodesAssumption, FS_Subset
    <3>5. Cardinality(Children(i) \cup {i}) = Cardinality(Children(i)) + 1
      BY <2>0, <3>4, FS_AddElement
    <3> QED
      BY <3>3, <3>5 DEF NodeCount
  <2> DEFINE S == {i \in Nodes : pc[i] = "own"}
  <2>6. S = {}
    <3>1. ASSUME S # {} PROVE FALSE
      <4>1. PICK i \in S : \A j \in Children(i) : j \notin S
        <5>1. S \in SUBSET Nodes /\ parent \in Trees
          BY <1>1 DEF HereInv
        <5> HIDE DEF S
        <5> QED
          BY <3>1, <5>1, LowestNode
      <4>2. \A j \in Children(i) : pc[j] \in Added
        BY <2>4, <4>1 DEF Children, Added
      <4> QED
        BY <1>1, <2>5, <4>1, <4>2 DEF MayGo
    <3> QED
      BY <3>1
  <2>7. \A i \in Nodes : pc[i] \in Added
    BY <2>4, <2>6 DEF Added
  <2>8. \A i \in Nodes : pc[i] # "up"
    <3>1. ASSUME NEW i \in Nodes, pc[i] = "up" PROVE FALSE
      <4>1. parent[i] \in Nodes
        BY <1>1, <2>0, <3>1 DEF HereInv
      <4>2. Cardinality(at_node[parent[i]]) = NodeCount(parent[i])
        BY <2>5, <2>7, <4>1 DEF Children
      <4> QED
        BY <1>1, <3>1, <4>2 DEF MayGo
    <3> QED
      BY <3>1
  <2>9. at_root = Nodes
    BY <1>1, <2>7, <2>8 DEF HereInv, SumInv, Added
  <2> QED
    BY <1>1, <2>7, <2>8, <2>9 DEF AllDone, MayGo, Added
<1>2. ArrivedInv /\ SumInv /\ HereInv => AllDone \/ \E i \in Nodes : MayGo(i)
  BY <1>1
<1>3. ArrivedInv /\ SumInv /\ HereInv /\ [Next]_sumVars => (ArrivedInv /\ SumInv /\ HereInv)'
  BY ArrivedStep, SumStep, HereStep
<1> QED
  BY <1>2, <1>3, ArrivedInit, SumInit, HereInit, PTL DEF Spec
=============================================================================
