------------------------------- MODULE TopoSort -------------------------------
(***************************************************************************)
(* Assignment5: boss.c sets up the shared segments and semaphores and      *)
(* waits; a worker.c process per node, started by dowork once the boss has *)
(* said "Setup done", waits for the node's predecessors, appends the node  *)
(* to the shared array T and tells the node's successors.  A worker        *)
(* started before that finds no semaphores, or half-initialised ones: such *)
(* a start is outside this model.                                          *)
(***************************************************************************)
EXTENDS Integers, FiniteSets, Sequences, Functions

CONSTANTS N,       \* nodes in graph.txt
          Graphs   \* the sets of edges that graph.txt may hold

Nodes == 0..N-1

ASSUME GraphAssumption == N \in Nat \ {0} /\ Graphs \subseteq SUBSET (Nodes \X Nodes)

VARIABLES A,      \* the shared matrix, as the set of its edges
          sync,   \* the semaphore set sync
          mtx,    \* the semaphore mtx
          ntfy,   \* the semaphore ntfy
          idx, T, \* the shared index and array
          bpc,    \* where boss is
          wpc,    \* where each worker is
          left    \* successors a worker has yet to tell

sortVars == <<A, sync, mtx, ntfy, idx, T, bpc, wpc, left>>

Successors(v) == {u \in Nodes : <<v, u>> \in A}
Predecessors(v) == {u \in Nodes : <<u, v>> \in A}

Init == /\ A \in Graphs
        /\ sync = [v \in Nodes |-> 0]
        /\ mtx = 0 /\ ntfy = 0 /\ idx = 0
        /\ T = [k \in Nodes |-> 0]
        /\ bpc = "setup"
        /\ wpc = [v \in Nodes |-> "new"]
        /\ left = [v \in Nodes |-> {}]

-----------------------------------------------------------------------------
(* boss.c                                                                  *)

\* Mutant of Degree: the value to subtract from is read before the loop, so all
\* edges to a node take 1 off together.
LastEdgeOnly(v) == IF Predecessors(v) = {} THEN 0 ELSE 1

Degree(v) == Cardinality(Predecessors(v))

Setup == /\ bpc = "setup" /\ bpc' = "wait"
         /\ sync' = [v \in Nodes |-> N - Degree(v)]
         /\ mtx' = 1 /\ ntfy' = 0 /\ idx' = 0
         /\ UNCHANGED <<A, T, wpc, left>>

AwaitWorkers == /\ bpc = "wait" /\ bpc' = "check"
                /\ ntfy >= N /\ ntfy' = ntfy - N
                /\ UNCHANGED <<A, sync, mtx, idx, T, wpc, left>>

InOrder == \A i, j \in Nodes : i < j => <<T[j], T[i]>> \notin A

\* Boss checks the order.  If it is right boss removes everything.
Check == /\ bpc = "check"
         /\ bpc' = IF InOrder THEN "well done" ELSE "error"
         /\ UNCHANGED <<A, sync, mtx, ntfy, idx, T, wpc, left>>

-----------------------------------------------------------------------------
(* worker.c                                                                *)

Move(w, from, to) == wpc[w] = from /\ wpc' = [wpc EXCEPT ![w] = to]

Start(w) == /\ bpc # "setup" /\ Move(w, "new", "wait")
            /\ UNCHANGED <<A, sync, mtx, ntfy, idx, T, bpc, left>>

AwaitPredecessors(w) ==
  /\ Move(w, "wait", "lock")
  /\ sync[w] >= N /\ sync' = [sync EXCEPT ![w] = @ - N]
  /\ UNCHANGED <<A, mtx, ntfy, idx, T, bpc, left>>

\* Mutant of Lock: the worker does not wait for the mutex.
LockLess(w) == Move(w, "lock", "put") /\ UNCHANGED <<A, sync, mtx, ntfy, idx, T, bpc, left>>

Lock(w) == /\ Move(w, "lock", "put")
           /\ mtx > 0 /\ mtx' = mtx - 1
           /\ UNCHANGED <<A, sync, ntfy, idx, T, bpc, left>>

Put(w) == /\ Move(w, "put", "advance")
          /\ T' = [T EXCEPT ![idx] = w]
          /\ UNCHANGED <<A, sync, mtx, ntfy, idx, bpc, left>>

Advance(w) == /\ Move(w, "advance", "unlock")
              /\ idx' = idx + 1
              /\ UNCHANGED <<A, sync, mtx, ntfy, T, bpc, left>>

Unlock(w) == /\ Move(w, "unlock", "tell")
             /\ mtx' = mtx + 1
             /\ left' = [left EXCEPT ![w] = Successors(w)]
             /\ UNCHANGED <<A, sync, ntfy, idx, T, bpc>>

\* The successors are told in the order of their numbers.
Tell(w) == /\ wpc[w] = "tell"
           /\ \E v \in left[w] :
                /\ \A u \in left[w] : v <= u
                /\ sync' = [sync EXCEPT ![v] = @ + 1]
                /\ left' = [left EXCEPT ![w] = @ \ {v}]
           /\ UNCHANGED <<A, mtx, ntfy, idx, T, bpc, wpc>>

\* Mutant of ToldAll: the loop stops before the last successor.
ToldAllButOne(w) == Cardinality(left[w]) <= 1

ToldAll(w) == left[w] = {}

Notify(w) == /\ Move(w, "tell", "done") /\ ToldAll(w)
             /\ ntfy' = ntfy + 1
             /\ UNCHANGED <<A, sync, mtx, idx, T, bpc, left>>

Worker(w) == \/ Start(w) \/ AwaitPredecessors(w) \/ Lock(w) \/ Put(w) \/ Advance(w)
             \/ Unlock(w) \/ Tell(w) \/ Notify(w)

Boss == Setup \/ AwaitWorkers \/ Check

Acyclic == \E rank \in [Nodes -> Nodes] : \A e \in A : rank[e[1]] < rank[e[2]]

\* On a graph with a cycle boss, and who is behind the cycle, wait forever; in
\* the end boss has returned.
Stuck == ~Acyclic /\ \A w \in Nodes : wpc[w] = "done" \/ (wpc[w] = "wait" /\ sync[w] < N)
Returned == bpc \in {"well done", "error"}

Next == \/ Boss
        \/ \E w \in Nodes : Worker(w)
        \/ (Stuck \/ Returned) /\ UNCHANGED sortVars

Spec == Init /\ [][Next]_sortVars

\* The kernel runs every process and serves every semop that can go on; dowork
\* starts every worker.
FairSpec == Spec /\ WF_sortVars(Boss) /\ \A w \in Nodes : WF_sortVars(Worker(w))

-----------------------------------------------------------------------------
\* The type invariant.  T is never written past its end: idx is at most N, and
\* less while a worker is about to write.
SortTypeOK ==
  /\ A \in SUBSET (Nodes \X Nodes)
  /\ sync \in [Nodes -> 0..N] /\ mtx \in 0..1 /\ ntfy \in 0..N /\ idx \in 0..N
  /\ T \in [Nodes -> Nodes]
  /\ bpc \in {"setup", "wait", "check", "well done", "error"}
  /\ wpc \in [Nodes -> {"new", "wait", "lock", "put", "advance", "unlock", "tell", "done"}]
  /\ left \in [Nodes -> SUBSET Nodes]
  /\ \A w \in Nodes : wpc[w] \in {"put", "advance"} => idx < N

Sorted == INSTANCE TopologicalOrder WITH
  edges <- A,
  order <- [k \in 1..idx |-> T[k - 1]]

\* Whatever the order in which the workers run, the array grows by one node
\* whose predecessors are in it, never twice by the same (worker.c:32-86).
GrowsInOrder == Sorted!OrderSpec

\* Boss never finds the order incorrect, and never looks at it before it is
\* complete (boss.c:110-118).
BossSatisfied ==
  /\ bpc # "error"
  /\ bpc \in {"check", "well done"} => Range(T) = Nodes

\* On a graph without cycles, which is what gengraph.c writes, boss ends.
BossEnds == Acyclic ~> bpc = "well done"
=============================================================================
