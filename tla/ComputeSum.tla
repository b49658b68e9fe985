------------------------------ MODULE ComputeSum ------------------------------
(***************************************************************************)
(* Assignment7/computesum.c: one thread per node of a tree; the leaves     *)
(* read numbers, and each node adds what it has to its parent's partial    *)
(* sum once all its children have added theirs.  The barriers are those of *)
(* FooBarrier, each used once: a thread arrives, and passes when as many   *)
(* have arrived as the barrier was initialised for.  A thread goes from a  *)
(* barrier or the mutex to its next barrier without touching shared state, *)
(* so the step that leaves one arrives at the next.                        *)
(***************************************************************************)
EXTENDS Integers, FiniteSets, FiniteSetsExt

CONSTANTS Nodes,
          None,     \* the parent -1 of the root
          Inputs    \* what may be typed at a leaf

ASSUME NodesAssumption == /\ IsFiniteSet(Nodes) /\ None \notin Nodes
                          /\ Inputs \subseteq Nat

VARIABLES parent,      \* tree[i].parent, which also gives the children
          value,       \* tree[i].value
          tree_mutex,  \* who holds it, or None
          pc,          \* where each node's thread is
          seen,        \* the partial sum of its parent that a thread has read
          at_start,    \* who has arrived at start_computation
          at_node,     \* who has arrived at tree_barriers[i]
          at_root      \* who has arrived at root_barrier

sumVars == <<parent, value, tree_mutex, pc, seen, at_start, at_node, at_root>>

\* tree.txt describes a tree: every node but one has a parent nearer the root.
Trees == {p \in [Nodes -> Nodes \cup {None}] :
            /\ \E r \in Nodes : \A i \in Nodes : p[i] = None <=> i = r
            /\ \E depth \in [Nodes -> 0..Cardinality(Nodes)] :
                 \A i \in Nodes : p[i] # None => depth[p[i]] < depth[i]}

Children(i) == {j \in Nodes : parent[j] = i}

Init == /\ parent \in Trees
        /\ value = [i \in Nodes |-> 0]
        /\ tree_mutex = None
        /\ pc = [i \in Nodes |-> "input"]
        /\ seen = [i \in Nodes |-> 0]
        /\ at_start = {} /\ at_root = {}
        /\ at_node = [i \in Nodes |-> {}]

Goto(i, from, to) == pc[i] = from /\ pc' = [pc EXCEPT ![i] = to]

\* Mutant of NodeCount: the node itself is not counted.
ChildCount(i) == Cardinality(Children(i))

\* What the barrier of a node is initialised for.
NodeCount(i) == Cardinality(Children(i)) + 1

\* Mutant of TakeTreeMutex: the mutex is taken by whoever comes.
TakeInAnyCase(i) == tree_mutex' = i

TakeTreeMutex(i) == tree_mutex = None /\ tree_mutex' = i

ArriveAtNode(b, i) == at_node' = [at_node EXCEPT ![b] = @ \cup {i}]

\* Under the mutex, a leaf reads its number.
ReadInput(i) ==
  /\ Goto(i, "input", "start") /\ tree_mutex = None
  /\ IF Children(i) = {}
     THEN \E n \in Inputs : value' = [value EXCEPT ![i] = n]
     ELSE UNCHANGED value
  /\ at_start' = at_start \cup {i}
  /\ UNCHANGED <<parent, tree_mutex, seen, at_node, at_root>>

PassStart(i) ==
  /\ Goto(i, "start", "own") /\ Cardinality(at_start) = Cardinality(Nodes)
  /\ ArriveAtNode(i, i)
  /\ UNCHANGED <<parent, value, tree_mutex, seen, at_start, at_root>>

PassOwn(i) ==
  /\ Goto(i, "own", "lock") /\ Cardinality(at_node[i]) = NodeCount(i)
  /\ UNCHANGED <<parent, value, tree_mutex, seen, at_start, at_node, at_root>>

LockAndRead(i) ==
  /\ Goto(i, "lock", "add") /\ TakeTreeMutex(i)
  /\ seen' = [seen EXCEPT ![i] = IF parent[i] = None THEN 0 ELSE value[parent[i]]]
  /\ UNCHANGED <<parent, value, at_start, at_node, at_root>>

\* Mutant of AddAndUnlock: the mutex is never released.
AddOnly(i) ==
  /\ Goto(i, "add", "up") /\ parent[i] # None
  /\ value' = [value EXCEPT ![parent[i]] = seen[i] + value[i]]
  /\ ArriveAtNode(parent[i], i)
  /\ UNCHANGED <<parent, tree_mutex, seen, at_start, at_root>>

AddAndUnlock(i) ==
  /\ Goto(i, "add", "up") /\ parent[i] # None
  /\ value' = [value EXCEPT ![parent[i]] = seen[i] + value[i]]
  /\ tree_mutex' = None
  /\ ArriveAtNode(parent[i], i)
  /\ UNCHANGED <<parent, seen, at_start, at_root>>

\* The root has nobody to add to.
RootUnlock(i) ==
  /\ Goto(i, "add", "root") /\ parent[i] = None
  /\ tree_mutex' = None
  /\ at_root' = at_root \cup {i}
  /\ UNCHANGED <<parent, value, seen, at_start, at_node>>

PassParent(i) ==
  /\ Goto(i, "up", "root")
  /\ Cardinality(at_node[parent[i]]) = NodeCount(parent[i])
  /\ at_root' = at_root \cup {i}
  /\ UNCHANGED <<parent, value, tree_mutex, seen, at_start, at_node>>

\* The root prints its value, and every thread calls foothread_exit.
PassRoot(i) ==
  /\ Goto(i, "root", "done") /\ Cardinality(at_root) = Cardinality(Nodes)
  /\ UNCHANGED <<parent, value, tree_mutex, seen, at_start, at_node, at_root>>

t_main(i) == \/ ReadInput(i) \/ PassStart(i) \/ PassOwn(i) \/ LockAndRead(i)
             \/ AddAndUnlock(i) \/ RootUnlock(i) \/ PassParent(i) \/ PassRoot(i)

AllDone == \A i \in Nodes : pc[i] = "done"

Next == \/ \E i \in Nodes : t_main(i)
        \/ AllDone /\ UNCHANGED sumVars

Spec == Init /\ [][Next]_sumVars

\* The kernel runs every thread that is not blocked; somebody types.
FairSpec == Spec /\ \A i \in Nodes : WF_sumVars(t_main(i))

-----------------------------------------------------------------------------
\* A node reads and passes on its partial sum only after each of its children
\* has added to it (computesum.c:42-55).
ChildrenFirst ==
  \A i \in Nodes : pc[i] \in {"lock", "add", "up", "root", "done"} =>
    \A j \in Children(i) : pc[j] \in {"up", "root", "done"}

\* The sum the root prints is the sum of what was typed at the leaves, which
\* keep it in their nodes (computesum.c:67).
RootSum ==
  \A r \in Nodes : parent[r] = None /\ pc[r] = "done" =>
    value[r] = MapThenSumSet(LAMBDA i : value[i], {i \in Nodes : Children(i) = {}})

\* Every thread comes to its end.
SumEnds == <>AllDone
=============================================================================
