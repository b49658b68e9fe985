---------------------------- MODULE TopoSortProofs ----------------------------
(***************************************************************************)
(* For every number of nodes and every graph: the state of boss and its    *)
(* workers is well-typed, the array grows in a topological order, and boss *)
(* never finds it wrong.                                                   *)
(***************************************************************************)
EXTENDS TopoSort, FiniteSetTheorems, SequenceTheorems, WellFoundedInduction, TLAPS

\* Workers past the wait for their predecessors, with the mutex, and with their
\* node in the array.
Passed(w) == wpc[w] \in {"lock", "put", "advance", "unlock", "tell", "done"}
InHand(w) == wpc[w] \in {"put", "advance", "unlock"}
Placed == {w \in Nodes : wpc[w] \in {"unlock", "tell", "done"}}
Finished == {w \in Nodes : wpc[w] = "done"}

\* Predecessors of v that have yet to tell it.
Told(u, v) == wpc[u] \in {"tell", "done"} /\ v \notin left[u]
Untold(v) == {u \in Nodes : <<u, v>> \in A /\ ~Told(u, v)}

SetupInv == bpc = "setup" => /\ \A w \in Nodes : wpc[w] = "new" /\ sync[w] = 0
                             /\ idx = 0 /\ mtx = 0 /\ ntfy = 0

LeftInv == \A w \in Nodes : /\ \A v \in left[w] : <<w, v>> \in A
                            /\ wpc[w] # "tell" => left[w] = {}

\* The semaphore of a node counts up to N as its predecessors tell it.
SyncInv ==
  \A v \in Nodes :
    /\ Passed(v) => sync[v] = 0 /\ Untold(v) = {}
    /\ ~Passed(v) /\ bpc # "setup" => sync[v] = N - Cardinality(Untold(v))

MutexInv == /\ mtx = 1 => \A w \in Nodes : ~InHand(w)
            /\ \A v, w \in Nodes : InHand(v) /\ InHand(w) => v = w

\* What is in the array, and at its end while a worker is about to count it.
PlaceInv ==
  /\ idx = Cardinality(Placed)
  /\ {T[k] : k \in 0..idx-1} = Placed
  /\ \A w \in Nodes : wpc[w] = "advance" => T[idx] = w
  /\ \A i, j \in 0..idx-1 : i < j => <<T[j], T[i]>> \notin A

NotifyInv ==
  /\ bpc \in {"setup", "wait"} => ntfy = Cardinality(Finished)
  /\ bpc \in {"check", "well done", "error"} => ntfy = 0 /\ Finished = Nodes

TypeInv ==
  /\ A \in SUBSET (Nodes \X Nodes)
  /\ sync \in [Nodes -> Int] /\ mtx \in 0..1 /\ ntfy \in Nat /\ idx \in Nat
  /\ T \in [Nodes -> Nodes]
  /\ bpc \in {"setup", "wait", "check", "well done"}
  /\ wpc \in [Nodes -> {"new", "wait", "lock", "put", "advance", "unlock", "tell", "done"}]
  /\ left \in [Nodes -> SUBSET Nodes]

IInv == /\ TypeInv /\ SetupInv /\ LeftInv /\ SyncInv /\ MutexInv /\ PlaceInv /\ NotifyInv

-----------------------------------------------------------------------------
(* Sets of nodes and their sizes.                                          *)

LEMMA NodeCount == IsFiniteSet(Nodes) /\ Cardinality(Nodes) = N
<1>1. N \in Nat \ {0}
  BY GraphAssumption
<1> QED
  BY <1>1, FS_Interval DEF Nodes

LEMMA NodeSets ==
  ASSUME NEW S \in SUBSET Nodes
  PROVE  /\ Cardinality(S) \in 0..N
         /\ Cardinality(S) = N => S = Nodes
         /\ Cardinality(S) = 0 <=> S = {}
         /\ \A x \in S : Cardinality(S \ {x}) = Cardinality(S) - 1
         /\ \A x \in Nodes \ S : /\ Cardinality(S \cup {x}) = Cardinality(S) + 1
                                 /\ Cardinality(S) < N
<1>1. IsFiniteSet(S) /\ Cardinality(S) <= N /\ (Cardinality(S) = N => S = Nodes)
  BY NodeCount, FS_Subset
<1>2. Cardinality(S) \in Nat
  BY <1>1, FS_CardinalityType
<1>3. Cardinality(S) = 0 <=> S = {}
  BY <1>1, FS_EmptySet
<1>4. \A x \in S : Cardinality(S \ {x}) = Cardinality(S) - 1
  BY <1>1, FS_RemoveElement
<1>5. \A x \in Nodes \ S : Cardinality(S \cup {x}) = Cardinality(S) + 1
  BY <1>1, FS_AddElement
<1>6. \A x \in Nodes \ S : Cardinality(S) < N
  BY <1>1, <1>2, GraphAssumption
<1> QED
  BY <1>1, <1>2, <1>3, <1>4, <1>5, <1>6, GraphAssumption

-----------------------------------------------------------------------------
LEMMA IInvInit == Init => IInv
<1> SUFFICES ASSUME Init PROVE IInv
  OBVIOUS
<1> USE GraphAssumption DEF Init
<1>1. Placed = {} /\ Finished = {} /\ Cardinality({}) = 0
  BY FS_EmptySet DEF Placed, Finished
<1>2. TypeInv
  BY DEF TypeInv, Nodes
<1>3. SetupInv /\ LeftInv /\ SyncInv /\ MutexInv
  BY DEF SetupInv, LeftInv, SyncInv, MutexInv, Passed, InHand
<1>4. PlaceInv
  BY <1>1 DEF PlaceInv
<1>5. NotifyInv
  BY <1>1 DEF NotifyInv
<1> QED
  BY <1>2, <1>3, <1>4, <1>5 DEF IInv

\* What an invariant says stays true when nothing it reads changes.
LEMMA LeftFrame == LeftInv /\ UNCHANGED <<A, wpc, left>> => LeftInv'
BY DEF LeftInv

LEMMA SyncFrame ==
  ASSUME SyncInv, UNCHANGED <<A, wpc, left, sync>>, bpc' = "setup" \/ bpc # "setup"
  PROVE  SyncInv'
<1>1. \A v \in Nodes : Untold(v)' = Untold(v) /\ (Passed(v)' <=> Passed(v))
  BY DEF Untold, Told, Passed
<1> QED
  BY <1>1 DEF SyncInv

LEMMA MutexFrame == MutexInv /\ UNCHANGED <<wpc, mtx>> => MutexInv'
BY DEF MutexInv, InHand

LEMMA PlaceFrame == PlaceInv /\ UNCHANGED <<A, wpc, idx, T>> => PlaceInv'
<1> SUFFICES ASSUME PlaceInv, UNCHANGED <<A, wpc, idx, T>>
             PROVE  PlaceInv'
  OBVIOUS
<1>1. Placed' = Placed
  BY DEF Placed
<1> QED
  BY <1>1 DEF PlaceInv

LEMMA NotifyFrame == NotifyInv /\ UNCHANGED <<wpc, ntfy, bpc>> => NotifyInv'
<1> SUFFICES ASSUME NotifyInv, UNCHANGED <<wpc, ntfy, bpc>>
             PROVE  NotifyInv'
  OBVIOUS
<1>1. Finished' = Finished
  BY DEF Finished
<1> QED
  BY <1>1 DEF NotifyInv

-----------------------------------------------------------------------------
LEMMA BossStep == IInv /\ Boss => IInv'
<1> SUFFICES ASSUME TypeInv, SetupInv, LeftInv, SyncInv, MutexInv, PlaceInv, NotifyInv, Boss
             PROVE  IInv'
  BY DEF IInv
<1> USE GraphAssumption
<1>1. CASE Setup
  <2> USE <1>1 DEF Setup
  <2>1. \A v \in Nodes : wpc[v] = "new" /\ ~Passed(v) /\ ~InHand(v)
    BY DEF SetupInv, Passed, InHand
  <2>2. \A v \in Nodes : Untold(v)' = Predecessors(v)
    BY <2>1 DEF Untold, Told, Predecessors
  <2>3. \A v \in Nodes : Cardinality(Predecessors(v)) \in 0..N
    BY NodeSets DEF Predecessors
  <2>4. TypeInv'
    BY <2>3 DEF Degree, TypeInv
  <2>5. SetupInv'
    BY DEF SetupInv
  <2>6. SyncInv'
    BY <2>1, <2>2, <2>3 DEF SyncInv, Passed, Degree
  <2>7. MutexInv'
    BY <2>1 DEF MutexInv, InHand
  <2>8. PlaceInv'
    BY PlaceFrame DEF SetupInv
  <2>9. NotifyInv'
    BY DEF NotifyInv, SetupInv, Finished
  <2> QED
    BY <2>4, <2>5, <2>6, <2>7, <2>8, <2>9, LeftFrame DEF IInv
<1>2. CASE AwaitWorkers
  <2> USE <1>2 DEF AwaitWorkers
  <2>1. Finished \in SUBSET Nodes
    BY DEF Finished
  <2>2. ntfy = N /\ Finished = Nodes
    BY <2>1, NodeSets DEF NotifyInv
  <2>3. TypeInv'
    BY <2>2 DEF TypeInv
  <2>4. SetupInv'
    BY DEF SetupInv
  <2>5. NotifyInv'
    BY <2>2 DEF NotifyInv, Finished
  <2>6. SyncInv'
    BY SyncFrame
  <2> QED
    BY <2>3, <2>4, <2>5, <2>6, LeftFrame, MutexFrame, PlaceFrame DEF IInv
<1>3. CASE Check
  <2> USE <1>3 DEF Check
  <2>1. Finished = Nodes
    BY DEF NotifyInv
  <2>2. Placed = Nodes
    BY <2>1 DEF Placed, Finished
  <2>3. idx = N
    BY <2>2, NodeCount DEF PlaceInv
  <2>4. InOrder
    BY <2>3 DEF PlaceInv, InOrder, Nodes
  <2>5. TypeInv'
    BY <2>4 DEF TypeInv
  <2>6. SetupInv'
    BY <2>4 DEF SetupInv
  <2>7. NotifyInv'
    BY <2>1, <2>4 DEF NotifyInv, Finished
  <2>8. SyncInv'
    BY SyncFrame
  <2> QED
    BY <2>5, <2>6, <2>7, <2>8, LeftFrame, MutexFrame, PlaceFrame DEF IInv
<1> QED
  BY <1>1, <1>2, <1>3 DEF Boss

\* The steps that move a worker without telling anybody leave alone who has been
\* told what.
LEMMA Untouched ==
  ASSUME TypeInv, LeftInv, NEW w \in Nodes, UNCHANGED A,
         \/ Start(w) \/ AwaitPredecessors(w) \/ Lock(w) \/ Put(w) \/ Advance(w) \/ Unlock(w)
         \/ Notify(w)
  PROVE  \A v \in Nodes : Untold(v)' = Untold(v)
<1>1. ASSUME NEW u \in Nodes, NEW v \in Nodes, <<u, v>> \in A
      PROVE  Told(u, v)' <=> Told(u, v)
  <2>1. CASE Start(w) \/ AwaitPredecessors(w) \/ Lock(w) \/ Put(w) \/ Advance(w)
    <3>1. CASE Start(w)
      BY <3>1 DEF TypeInv, Told, Start, Move
    <3>2. CASE AwaitPredecessors(w)
      BY <3>2 DEF TypeInv, Told, AwaitPredecessors, Move
    <3>3. CASE Lock(w)
      BY <3>3 DEF TypeInv, Told, Lock, Move
    <3>4. CASE Put(w)
      BY <3>4 DEF TypeInv, Told, Put, Move
    <3>5. CASE Advance(w)
      BY <3>5 DEF TypeInv, Told, Advance, Move
    <3> QED
      BY <2>1, <3>1, <3>2, <3>3, <3>4, <3>5
  <2>2. CASE Unlock(w)
    <3>1. v \in Successors(u)
      BY <1>1 DEF Successors
    <3> QED
      BY <2>2, <3>1 DEF TypeInv, Told, Unlock, Move
  <2>3. CASE Notify(w)
    BY <2>3 DEF TypeInv, Told, Notify, Move, ToldAll
  <2> QED
    BY <2>1, <2>2, <2>3
<1> QED
  BY <1>1 DEF Untold

\* The same for the semaphores, when the step takes nothing from them.
LEMMA SyncKept ==
  ASSUME TypeInv, LeftInv, SyncInv, NEW w \in Nodes, UNCHANGED <<A, sync, bpc>>,
         \/ Start(w) \/ Lock(w) \/ Put(w) \/ Advance(w) \/ Unlock(w) \/ Notify(w)
  PROVE  SyncInv'
<1>1. \A v \in Nodes : Untold(v)' = Untold(v)
  BY Untouched
<1>2. \A v \in Nodes : Passed(v)' <=> Passed(v)
  BY DEF TypeInv, Passed, Start, Lock, Put, Advance, Unlock, Notify, Move
<1> QED
  BY <1>1, <1>2 DEF SyncInv

LEMMA WorkerStep == ASSUME NEW w \in Nodes PROVE IInv /\ Worker(w) => IInv'
<1> SUFFICES ASSUME TypeInv, SetupInv, LeftInv, SyncInv, MutexInv, PlaceInv, NotifyInv,
                    Worker(w)
             PROVE  IInv'
  BY DEF IInv
<1> USE GraphAssumption
<1>0. bpc # "setup" /\ bpc' = bpc /\ A' = A
  BY DEF Worker, SetupInv, Start, AwaitPredecessors, Lock, Put, Advance, Unlock, Tell, Notify,
         Move
<1>1. SetupInv'
  BY <1>0 DEF SetupInv
<1> N \in Nat \ {0}
  BY GraphAssumption
<1>t. mtx \in 0..1 /\ ntfy \in Nat /\ idx \in Nat /\ sync \in [Nodes -> Int]
  BY DEF TypeInv
<1>m. mtx = 1 => \A v \in Nodes : ~InHand(v)
  BY DEF MutexInv
<1>2. CASE Start(w)
  <2> USE <1>2 DEF Start, Move
  <2>1. Placed' = Placed /\ Finished' = Finished
    BY DEF Placed, Finished, TypeInv
  <2>T. TypeInv'
    BY DEF TypeInv
  <2>L. LeftInv'
    BY <1>0 DEF LeftInv, TypeInv
  <2>S. SyncInv'
    BY <1>0, SyncKept
  <2>M. MutexInv'
    BY DEF MutexInv, InHand, TypeInv
  <2>P. PlaceInv'
    BY <1>0, <2>1 DEF PlaceInv, TypeInv
  <2>N. NotifyInv'
    BY <1>0, <2>1 DEF NotifyInv
  <2> QED
    BY <1>1, <2>T, <2>L, <2>S, <2>M, <2>P, <2>N DEF IInv
<1>3. CASE AwaitPredecessors(w)
  <2>0. /\ wpc[w] = "wait" /\ wpc' = [wpc EXCEPT ![w] = "lock"]
        /\ UNCHANGED <<A, mtx, ntfy, idx, T, bpc, left>>
    BY <1>3 DEF AwaitPredecessors, Move
  <2>a. sync[w] >= N /\ sync' = [sync EXCEPT ![w] = sync[w] - N]
    BY <1>3 DEF AwaitPredecessors
  <2> USE <2>0
  <2>1. Placed' = Placed /\ Finished' = Finished
    BY DEF Placed, Finished, TypeInv
  <2>2. Untold(w) \in SUBSET Nodes /\ ~Passed(w)
    BY DEF Untold, Passed
  <2>3. sync[w] = N - Cardinality(Untold(w)) /\ Cardinality(Untold(w)) \in 0..N
    BY <1>0, <2>2, NodeSets DEF SyncInv
  <2>4. Untold(w) = {} /\ sync[w] = N
    BY <2>2, <2>3, <2>a, NodeSets
  <2>5. \A v \in Nodes : Untold(v)' = Untold(v)
    BY <1>0, <1>3, Untouched
  <2>6. sync' = [sync EXCEPT ![w] = 0]
    BY <2>4, <2>a
  <2>7. sync' \in [Nodes -> Int]
    BY <1>t, <2>6
  <2>T. TypeInv'
    BY <2>7 DEF TypeInv
  <2>L. LeftInv'
    BY <1>0 DEF LeftInv, TypeInv
  <2>S. SyncInv'
    BY <1>0, <2>4, <2>5, <2>6 DEF SyncInv, Passed, TypeInv
  <2>M. MutexInv'
    BY DEF MutexInv, InHand, TypeInv
  <2>P. PlaceInv'
    BY <1>0, <2>1 DEF PlaceInv, TypeInv
  <2>N. NotifyInv'
    BY <1>0, <2>1 DEF NotifyInv
  <2> QED
    BY <1>1, <2>T, <2>L, <2>S, <2>M, <2>P, <2>N DEF IInv
<1>4. CASE Lock(w)
  <2>0. /\ wpc[w] = "lock" /\ wpc' = [wpc EXCEPT ![w] = "put"]
        /\ UNCHANGED <<A, sync, ntfy, idx, T, bpc, left>>
    BY <1>4 DEF Lock, Move
  <2>a. mtx > 0 /\ mtx' = mtx - 1
    BY <1>4 DEF Lock
  <2> USE <2>0
  <2>1. Placed' = Placed /\ Finished' = Finished
    BY DEF Placed, Finished, TypeInv
  <2>2. mtx = 1 /\ mtx' = 0 /\ \A v \in Nodes : ~InHand(v)
    BY <1>t, <1>m, <2>a
  <2>3. mtx' \in 0..1
    BY <2>2
  <2>4. \A v \in Nodes : InHand(v)' => v = w
    BY <2>2 DEF InHand, TypeInv
  <2>T. TypeInv'
    BY <2>3 DEF TypeInv
  <2>L. LeftInv'
    BY <1>0 DEF LeftInv, TypeInv
  <2>S. SyncInv'
    BY <1>0, <1>4, SyncKept
  <2>M. MutexInv'
    BY <2>2, <2>4 DEF MutexInv
  <2>P. PlaceInv'
    BY <1>0, <2>1 DEF PlaceInv, TypeInv
  <2>N. NotifyInv'
    BY <1>0, <2>1 DEF NotifyInv
  <2> QED
    BY <1>1, <2>T, <2>L, <2>S, <2>M, <2>P, <2>N DEF IInv
<1>5. CASE Put(w)
  <2> USE <1>5 DEF Put, Move
  <2>1. Placed' = Placed /\ Finished' = Finished
    BY DEF Placed, Finished, TypeInv
  <2>2. Placed \in SUBSET Nodes /\ w \in Nodes \ Placed
    BY DEF Placed
  <2>3. Cardinality(Placed) \in 0..N /\ Cardinality(Placed) < N
    BY <2>2, NodeSets
  <2>4. idx \in Nodes /\ \A k \in 0..idx-1 : k \in Nodes /\ k # idx
    BY <2>3 DEF PlaceInv, Nodes
  <2>5. \A k \in 0..idx-1 : T'[k] = T[k]
    BY <2>4 DEF TypeInv
  <2>6. T'[idx] = w
    BY <2>4 DEF TypeInv
  <2>7. \A v \in Nodes : wpc'[v] = "advance" => v = w
    BY DEF MutexInv, InHand, TypeInv
  <2>8. {T'[k] : k \in 0..idx-1} = {T[k] : k \in 0..idx-1}
    BY <2>5
  <2>T. TypeInv'
    BY DEF TypeInv
  <2>L. LeftInv'
    BY <1>0 DEF LeftInv, TypeInv
  <2>S. SyncInv'
    BY <1>0, SyncKept
  <2>M. MutexInv'
    BY DEF MutexInv, InHand, TypeInv
  <2>P. PlaceInv'
    BY <1>0, <2>1, <2>5, <2>6, <2>7, <2>8 DEF PlaceInv
  <2>N. NotifyInv'
    BY <1>0, <2>1 DEF NotifyInv
  <2> QED
    BY <1>1, <2>T, <2>L, <2>S, <2>M, <2>P, <2>N DEF IInv
<1>6. CASE Advance(w)
  <2> USE <1>6 DEF Advance, Move
  <2>1. Placed' = Placed \cup {w} /\ Finished' = Finished
    BY DEF Placed, Finished, TypeInv
  <2>2. Placed \in SUBSET Nodes /\ w \in Nodes \ Placed
    BY DEF Placed
  <2>3. idx' = Cardinality(Placed')
    BY <2>1, <2>2, NodeSets DEF PlaceInv
  <2>4. T[idx] = w /\ idx \in Nat /\ idx' = idx + 1
    BY DEF PlaceInv, TypeInv
  <2>5. 0..idx'-1 = (0..idx-1) \cup {idx}
    BY <2>4
  <2>6. {T'[k] : k \in 0..idx'-1} = {T[k] : k \in 0..idx-1} \cup {w}
    BY <2>4, <2>5
  <2>7. \A v \in Nodes : wpc'[v] # "advance"
    BY DEF MutexInv, InHand, TypeInv
  <2>8. \A i \in 0..idx-1 : <<w, T[i]>> \notin A
    <3> SUFFICES ASSUME NEW i \in 0..idx-1, <<w, T[i]>> \in A
                 PROVE  FALSE
      OBVIOUS
    <3>1. T[i] \in Placed
      BY DEF PlaceInv
    <3>2. Untold(T[i]) = {}
      BY <3>1 DEF Placed, SyncInv, Passed
    <3> QED
      BY <3>2 DEF Untold, Told
  <2>9. ASSUME NEW i \in 0..idx'-1, NEW j \in 0..idx'-1, i < j
        PROVE  <<T[j], T[i]>> \notin A
    <3>1. CASE j = idx
      BY <2>4, <2>8, <2>9, <3>1
    <3>2. CASE j # idx
      BY <2>4, <2>9, <3>2 DEF PlaceInv
    <3> QED
      BY <3>1, <3>2
  <2>10. idx' \in Nat
    BY <2>4
  <2>T. TypeInv'
    BY <2>10 DEF TypeInv
  <2>L. LeftInv'
    BY <1>0 DEF LeftInv, TypeInv
  <2>S. SyncInv'
    BY <1>0, SyncKept
  <2>M. MutexInv'
    BY DEF MutexInv, InHand, TypeInv
  <2>P. PlaceInv'
    BY <1>0, <2>1, <2>3, <2>6, <2>7, <2>9 DEF PlaceInv
  <2>N. NotifyInv'
    BY <1>0, <2>1 DEF NotifyInv
  <2> QED
    BY <1>1, <2>T, <2>L, <2>S, <2>M, <2>P, <2>N DEF IInv
<1>7. CASE Unlock(w)
  <2>0. /\ wpc[w] = "unlock" /\ wpc' = [wpc EXCEPT ![w] = "tell"]
        /\ left' = [left EXCEPT ![w] = Successors(w)]
        /\ UNCHANGED <<A, sync, ntfy, idx, T, bpc>>
    BY <1>7 DEF Unlock, Move
  <2>a. mtx' = mtx + 1
    BY <1>7 DEF Unlock
  <2> USE <2>0
  <2>1. Placed' = Placed /\ Finished' = Finished
    BY DEF Placed, Finished, TypeInv
  <2>2. InHand(w)
    BY DEF InHand
  <2>3. mtx = 0 /\ mtx' = 1
    BY <1>t, <1>m, <2>2, <2>a
  <2>4. Successors(w) \in SUBSET Nodes /\ \A v \in Successors(w) : <<w, v>> \in A
    BY DEF Successors
  <2>5. mtx' \in 0..1
    BY <2>3
  <2>6. left' \in [Nodes -> SUBSET Nodes]
    BY <2>4 DEF TypeInv
  <2>T. TypeInv'
    BY <2>5, <2>6 DEF TypeInv
  <2>L. LeftInv'
    BY <1>0, <2>4 DEF LeftInv, TypeInv
  <2>S. SyncInv'
    BY <1>0, <1>7, SyncKept
  <2>M. MutexInv'
    BY <2>2, <2>3 DEF MutexInv, InHand, TypeInv
  <2>P. PlaceInv'
    BY <1>0, <2>1 DEF PlaceInv, TypeInv
  <2>N. NotifyInv'
    BY <1>0, <2>1 DEF NotifyInv
  <2> QED
    BY <1>1, <2>T, <2>L, <2>S, <2>M, <2>P, <2>N DEF IInv
<1>8. CASE Tell(w)
  <2>1. PICK v \in left[w] : /\ sync' = [sync EXCEPT ![v] = @ + 1]
                             /\ left' = [left EXCEPT ![w] = @ \ {v}]
    BY <1>8 DEF Tell
  <2>0. wpc[w] = "tell" /\ UNCHANGED <<A, mtx, ntfy, idx, T, bpc, wpc>>
    BY <1>8 DEF Tell
  <2>a. sync' = [sync EXCEPT ![v] = @ + 1]
    BY <2>1
  <2>b. left' = [left EXCEPT ![w] = @ \ {v}]
    BY <2>1
  <2> USE <2>0
  <2>2. v \in Nodes /\ <<w, v>> \in A
    BY DEF LeftInv, TypeInv
  <2>3. w \in Untold(v) /\ Untold(v) \in SUBSET Nodes
    BY <2>2 DEF Untold, Told
  <2>4. ~Passed(v)
    BY <2>2, <2>3 DEF SyncInv
  <2>5. Untold(v)' = Untold(v) \ {w} /\ \A u \in Nodes \ {v} : Untold(u)' = Untold(u)
    <3>1. ASSUME NEW x \in Nodes, NEW u \in Nodes
          PROVE  Told(x, u)' <=> Told(x, u) \/ (x = w /\ u = v)
      <4>1. CASE x = w
        BY <2>b, <2>2, <4>1 DEF Told, TypeInv
      <4>2. CASE x # w
        BY <2>b, <4>2 DEF Told, TypeInv
      <4> QED
        BY <4>1, <4>2
    <3> QED
      BY <1>0, <2>2, <3>1 DEF Untold
  <2>6. Cardinality(Untold(v) \ {w}) = Cardinality(Untold(v)) - 1 /\ Cardinality(Untold(v)) \in 0..N
    BY <2>3, NodeSets
  <2>7. sync[v] = N - Cardinality(Untold(v))
    BY <1>0, <2>2, <2>4 DEF SyncInv
  <2>8. sync[v] \in Int /\ sync'[v] = sync[v] + 1 /\ sync' \in [Nodes -> Int]
    BY <1>t, <2>a, <2>2
  <2>9. left' \in [Nodes -> SUBSET Nodes]
    BY <2>b DEF TypeInv
  <2>T. TypeInv'
    BY <2>8, <2>9 DEF TypeInv
  <2>L. LeftInv'
    BY <2>b DEF LeftInv, TypeInv
  <2>S. SyncInv'
    <3>1. \A u \in Nodes : Passed(u)' <=> Passed(u)
      BY DEF Passed
    <3>2. sync'[v] = N - Cardinality(Untold(v)')
      BY <2>5, <2>6, <2>7, <2>8
    <3>3. \A u \in Nodes \ {v} : sync'[u] = sync[u]
      BY <2>a, <2>2 DEF TypeInv
    <3> QED
      BY <1>0, <2>2, <2>4, <2>5, <3>1, <3>2, <3>3 DEF SyncInv
  <2> QED
    BY <1>0, <1>1, <2>T, <2>L, <2>S, MutexFrame, PlaceFrame, NotifyFrame DEF IInv
<1>9. CASE Notify(w)
  <2>0. /\ wpc[w] = "tell" /\ wpc' = [wpc EXCEPT ![w] = "done"] /\ left[w] = {}
        /\ UNCHANGED <<A, sync, mtx, idx, T, bpc, left>>
    BY <1>9 DEF Notify, Move, ToldAll
  <2>a. ntfy' = ntfy + 1
    BY <1>9 DEF Notify
  <2> USE <2>0
  <2>1. Placed' = Placed /\ Finished' = Finished \cup {w}
    BY DEF Placed, Finished, TypeInv
  <2>2. Finished \in SUBSET Nodes /\ w \in Nodes \ Finished
    BY DEF Finished
  <2>3. Cardinality(Finished \cup {w}) = Cardinality(Finished) + 1
    BY <2>2, NodeSets
  <2>4. bpc = "wait"
    BY <1>0, <2>2 DEF NotifyInv, TypeInv
  <2>5. ntfy' \in Nat
    BY <1>t, <2>a
  <2>T. TypeInv'
    BY <2>5 DEF TypeInv
  <2>L. LeftInv'
    BY <1>0 DEF LeftInv, TypeInv
  <2>S. SyncInv'
    BY <1>0, <1>9, SyncKept
  <2>M. MutexInv'
    BY DEF MutexInv, InHand, TypeInv
  <2>P. PlaceInv'
    BY <1>0, <2>1 DEF PlaceInv, TypeInv
  <2>N. NotifyInv'
    BY <1>0, <2>1, <2>3, <2>4, <2>a DEF NotifyInv
  <2> QED
    BY <1>1, <2>T, <2>L, <2>S, <2>M, <2>P, <2>N DEF IInv
<1> QED
  BY <1>2, <1>3, <1>4, <1>5, <1>6, <1>7, <1>8, <1>9 DEF Worker

LEMMA IInvStep == IInv /\ [Next]_sortVars => IInv'
<1> SUFFICES ASSUME IInv, [Next]_sortVars
             PROVE  IInv'
  OBVIOUS
<1>1. CASE UNCHANGED sortVars
  <2> USE <1>1 DEF sortVars, IInv
  <2>1. TypeInv' /\ SetupInv'
    BY DEF TypeInv, SetupInv
  <2>2. SyncInv'
    BY SyncFrame DEF SyncInv, Untold, Told, Passed
  <2> QED
    BY <2>1, <2>2, LeftFrame, MutexFrame, PlaceFrame, NotifyFrame
<1> QED
  BY <1>1, BossStep, WorkerStep DEF Next

LEMMA Invariant == Spec => []IInv
BY IInvInit, IInvStep, PTL DEF Spec

-----------------------------------------------------------------------------
\* The state is well-typed; no semaphore leaves 0..N, and no worker writes past
\* the end of T (boss.c:57, worker.c:57).
THEOREM SortTypeCorrect == Spec => []SortTypeOK
<1>1. ASSUME IInv
      PROVE  SortTypeOK
  <2> USE <1>1 DEF IInv
  <2> N \in Nat \ {0}
    BY GraphAssumption
  <2>1. sync \in [Nodes -> 0..N]
    <3>1. ASSUME NEW v \in Nodes
          PROVE  sync[v] \in 0..N \/ bpc = "setup"
      <4>1. Untold(v) \in SUBSET Nodes
        BY DEF Untold
      <4>2. Cardinality(Untold(v)) \in 0..N
        BY <4>1, NodeSets
      <4>3. sync[v] = 0 \/ sync[v] = N - Cardinality(Untold(v)) \/ bpc = "setup"
        BY DEF SyncInv
      <4> QED
        BY <4>2, <4>3
    <3>2. bpc = "setup" => \A v \in Nodes : sync[v] = 0
      BY DEF SetupInv
    <3>3. \A v \in Nodes : sync[v] \in 0..N
      BY <3>1, <3>2
    <3> QED
      BY <3>3 DEF TypeInv
  <2>2. Placed \in SUBSET Nodes /\ Finished \in SUBSET Nodes
    BY DEF Placed, Finished
  <2>3. idx \in 0..N
    BY <2>2, NodeSets DEF PlaceInv
  <2>4. ntfy \in 0..N
    <3>1. Cardinality(Finished) \in 0..N /\ 0 \in 0..N
      BY <2>2, NodeSets
    <3>2. ntfy = 0 \/ ntfy = Cardinality(Finished)
      BY DEF NotifyInv, TypeInv
    <3> QED
      BY <3>1, <3>2
  <2>5. \A w \in Nodes : wpc[w] \in {"put", "advance"} => idx < N
    <3> SUFFICES ASSUME NEW w \in Nodes, wpc[w] \in {"put", "advance"}
                 PROVE  idx < N
      OBVIOUS
    <3>1. w \in Nodes \ Placed
      BY DEF Placed
    <3> QED
      BY <2>2, <3>1, NodeSets DEF PlaceInv
  <2> QED
    BY <2>1, <2>3, <2>4, <2>5 DEF TypeInv, SortTypeOK
<1> QED
  BY <1>1, Invariant, PTL

\* Boss never looks at an incomplete array and never finds the order incorrect,
\* whatever the graph (boss.c:110-118).
THEOREM BossIsSatisfied == Spec => []BossSatisfied
<1>1. ASSUME IInv
      PROVE  BossSatisfied
  <2> USE <1>1 DEF IInv
  <2>1. bpc # "error"
    BY DEF TypeInv
  <2>2. ASSUME bpc \in {"check", "well done"}
        PROVE  Range(T) = Nodes
    <3>1. Placed = Nodes
      BY <2>2 DEF NotifyInv, Placed, Finished
    <3>2. idx = N
      BY <3>1, NodeCount DEF PlaceInv
    <3>3. 0..idx-1 = Nodes
      BY <3>2 DEF Nodes
    <3>4. {T[k] : k \in Nodes} = Nodes
      BY <3>1, <3>3 DEF PlaceInv
    <3> QED
      BY <3>4 DEF Range, TypeInv
  <2> QED
    BY <2>1, <2>2 DEF BossSatisfied
<1> QED
  BY <1>1, Invariant, PTL

-----------------------------------------------------------------------------
Order == [k \in 1..idx |-> T[k - 1]]

LEMMA OrderRange ==
  ASSUME TypeInv, PlaceInv
  PROVE  Order \in Seq(Nodes) /\ Len(Order) = idx /\ Range(Order) = Placed
<1>0. N \in Nat /\ idx \in Nat
  BY GraphAssumption DEF TypeInv
<1>1. Placed \in SUBSET Nodes
  BY DEF Placed
<1>2. idx <= N
  BY <1>1, NodeSets DEF PlaceInv
<1>3. \A k \in 1..idx : k - 1 \in Nodes /\ k - 1 \in 0..idx-1
  BY <1>0, <1>2 DEF Nodes
<1>4. \A k \in 1..idx : T[k - 1] \in Nodes
  BY <1>3 DEF TypeInv
<1>5. Order \in Seq(Nodes) /\ Len(Order) = idx
  BY <1>0, <1>4 DEF Order
<1>6. \A k \in 0..idx-1 : k + 1 \in 1..idx /\ (k + 1) - 1 = k
  BY <1>0
<1>7. Range(Order) = {T[k - 1] : k \in 1..idx}
  BY DEF Range, Order
<1>8. {T[k - 1] : k \in 1..idx} = {T[k] : k \in 0..idx-1}
  <2>1. ASSUME NEW k \in 0..idx-1
        PROVE  T[k] \in {T[j - 1] : j \in 1..idx}
    <3>1. k + 1 \in 1..idx /\ T[(k + 1) - 1] = T[k]
      BY <1>6
    <3> QED
      BY <3>1
  <2> QED
    BY <1>3, <2>1
<1> QED
  BY <1>5, <1>7, <1>8 DEF PlaceInv

LEMMA LongerPrefix ==
  ASSUME NEW n \in Nat, NEW f, \A k \in 1..n+1 : f[k - 1] \in Nodes
  PROVE  [k \in 1..n+1 |-> f[k - 1]] = Append([k \in 1..n |-> f[k - 1]], f[n])
<1> DEFINE s == [k \in 1..n |-> f[k - 1]]
           t == [k \in 1..n+1 |-> f[k - 1]]
<1>1. s \in Seq(Nodes) /\ Len(s) = n /\ t \in Seq(Nodes) /\ Len(t) = n + 1
  OBVIOUS
<1>2. f[n] \in Nodes
  <2>1. n + 1 \in 1..n+1 /\ (n + 1) - 1 = n
    OBVIOUS
  <2> QED
    BY <2>1
<1>3. /\ Append(s, f[n]) \in Seq(Nodes) /\ Len(Append(s, f[n])) = n + 1
      /\ \A k \in 1..n : Append(s, f[n])[k] = s[k]
      /\ Append(s, f[n])[n + 1] = f[n]
  <2> HIDE DEF s, t
  <2> QED
    BY <1>1, <1>2, AppendProperties
<1>4. \A k \in 1..n : s[k] = t[k]
  OBVIOUS
<1>5. t[n + 1] = f[n]
  OBVIOUS
<1>6. \A k \in 1..n+1 : t[k] = Append(s, f[n])[k]
  <2> HIDE DEF s, t
  <2>1. \A k \in 1..n+1 : k \in 1..n \/ k = n + 1
    OBVIOUS
  <2> QED
    BY <1>3, <1>4, <1>5, <2>1
<1>7. t = Append(s, f[n])
  <2> HIDE DEF s, t
  <2> QED
    BY <1>1, <1>3, <1>6, SeqEqual
<1> QED
  BY <1>7

\* One step of a worker is one growth of the order, or none.
LEMMA GrowthStep ==
  ASSUME IInv, IInv', [Next]_sortVars
  PROVE  (\E v \in Nodes : Sorted!Grow(v)) \/ UNCHANGED <<A, Order>>
<1> USE DEF IInv
<1>1. CASE UNCHANGED <<A, idx, T>>
  BY <1>1 DEF Order
<1>2. ASSUME NEW w \in Nodes, Put(w)
      PROVE  UNCHANGED <<A, Order>>
  <2>1. idx \in Nat /\ UNCHANGED <<A, idx>> /\ T' = [T EXCEPT ![idx] = w]
    BY <1>2 DEF Put, TypeInv
  <2>2. \A k \in 1..idx : k - 1 # idx
    BY <2>1
  <2>3. N \in Nat /\ idx <= N
    <3>1. Placed \in SUBSET Nodes
      BY DEF Placed
    <3> QED
      BY <3>1, NodeSets, GraphAssumption DEF PlaceInv
  <2>4. \A k \in 1..idx : k - 1 \in Nodes
    BY <2>1, <2>3 DEF Nodes
  <2>5. \A k \in 1..idx : T'[k - 1] = T[k - 1]
    BY <2>1, <2>2, <2>4 DEF TypeInv
  <2> QED
    BY <2>1, <2>5 DEF Order
<1>3. ASSUME NEW w \in Nodes, Advance(w)
      PROVE  Sorted!Grow(w)
  <2>0. /\ wpc[w] = "advance" /\ idx' = idx + 1 /\ UNCHANGED <<A, T>>
        /\ idx \in Nat /\ T[idx] = w
    BY <1>3 DEF Advance, Move, PlaceInv, TypeInv
  <2>1. w \notin Range(Order)
    BY <2>0, OrderRange DEF Placed
  <2>2. ASSUME NEW u \in Nodes, <<u, w>> \in A
        PROVE  u \in Range(Order)
    <3>1. Untold(w) = {}
      BY <2>0 DEF SyncInv, Passed
    <3>2. u \in Placed
      BY <2>2, <3>1 DEF Untold, Told, Placed
    <3> QED
      BY <3>2, OrderRange
  <2>3. Order' = Append(Order, w)
    <3>1. Order' = [k \in 1..idx+1 |-> T[k - 1]]
      BY <2>0 DEF Order
    <3>2. idx < N /\ N \in Nat
      <4>1. Placed \in SUBSET Nodes /\ w \in Nodes \ Placed
        BY <2>0 DEF Placed
      <4> QED
        BY <4>1, NodeSets, GraphAssumption DEF PlaceInv
    <3>3. \A k \in 1..idx+1 : k - 1 \in Nodes
      BY <2>0, <3>2 DEF Nodes
    <3>4. \A k \in 1..idx+1 : T[k - 1] \in Nodes
      BY <3>3 DEF TypeInv
    <3> QED
      BY <2>0, <3>1, <3>4, LongerPrefix DEF Order
  <2> QED
    BY <2>0, <2>1, <2>2, <2>3 DEF Sorted!Grow, Sorted!Range, Range, Order
<1> QED
  BY <1>1, <1>2, <1>3
     DEF Next, Boss, Setup, AwaitWorkers, Check, Worker, Start, AwaitPredecessors, Lock,
         Unlock, Tell, Notify, SetupInv, sortVars

\* Boss and its workers implement TopologicalOrder: for every graph and every
\* interleaving the array grows by one node at a time, after all its
\* predecessors (worker.c:32-86).
THEOREM ArrayIsTopologicalOrder == Spec => GrowsInOrder
<1>1. Init => Sorted!OrderInit
  <2> SUFFICES ASSUME Init PROVE Sorted!OrderInit
    OBVIOUS
  <2>1. A \subseteq Nodes \X Nodes
    BY GraphAssumption DEF Init
  <2>2. [k \in 1..idx |-> T[k - 1]] = <<>>
    <3>1. 1..idx = {}
      BY DEF Init
    <3> QED
      BY <3>1
  <2> QED
    BY <2>1, <2>2 DEF Sorted!OrderInit
<1>2. IInv /\ IInv' /\ [Next]_sortVars =>
        [\E v \in Nodes : Sorted!Grow(v)]_<<A, [k \in 1..idx |-> T[k - 1]]>>
  BY GrowthStep DEF Order
<1> QED
  BY <1>1, <1>2, Invariant, PTL DEF Spec, GrowsInOrder, Sorted!OrderSpec
-----------------------------------------------------------------------------
(* What is behind BossEnds: nobody waits for ever on an acyclic graph, and  *)
(* every run is finite.                                                    *)

\* What boss and each worker wait for before their next step: the guards of Boss and Worker.
BossMayGo == bpc \in {"setup", "check"} \/ (bpc = "wait" /\ ntfy >= N)
WorkerMayGo(w) == \/ wpc[w] = "new" /\ bpc # "setup"
                  \/ wpc[w] = "wait" /\ sync[w] >= N
                  \/ wpc[w] = "lock" /\ mtx > 0
                  \/ wpc[w] \in {"put", "advance", "unlock", "tell"}

\* Once set up, the mutex is free or in the hands of a worker.
HeldInv == bpc # "setup" /\ mtx = 0 => \E w \in Nodes : InHand(w)

Less == {ss \in Nat \X Nat : ss[1] < ss[2]}

\* A nonempty set of numbers has a smallest one.
LEMMA SmallestNat ==
  ASSUME NEW S, S \subseteq Nat, S # {}
  PROVE  \E x \in S : \A y \in S : x <= y
<1>1. IsWellFoundedOn(Less, Nat)
  BY NatLessThanWellFounded DEF OpToRel, Less
<1>2. PICK x \in S : \A y \in S : ~(<<y, x>> \in Less)
  BY <1>1, WFMin
<1>3. ASSUME NEW y \in S, y < x PROVE FALSE
  <2>1. <<y, x>> \in Nat \X Nat /\ <<y, x>>[1] = y /\ <<y, x>>[2] = x
    OBVIOUS
  <2> QED
    BY <1>2, <1>3, <2>1 DEF Less
<1> QED
  BY <1>3

LEMMA HeldStep == IInv /\ HeldInv /\ [Next]_sortVars => HeldInv'
<1> SUFFICES ASSUME TypeInv, SetupInv, HeldInv, [Next]_sortVars PROVE HeldInv'
  BY DEF IInv
<1>1. CASE Boss \/ UNCHANGED sortVars
  <2>1. CASE Setup
    BY <2>1 DEF HeldInv, Setup
  <2>2. CASE UNCHANGED <<mtx, wpc>> /\ bpc # "setup"
    BY <2>2 DEF HeldInv, InHand
  <2>3. CASE UNCHANGED sortVars
    BY <2>3 DEF HeldInv, InHand, sortVars
  <2> QED
    BY <1>1, <2>1, <2>2, <2>3 DEF Boss, AwaitWorkers, Check
<1>2. ASSUME NEW w \in Nodes, Worker(w) PROVE HeldInv'
  <2>1. bpc # "setup" /\ bpc' = bpc /\ wpc \in [Nodes -> {"new", "wait", "lock", "put", "advance",
                                                        "unlock", "tell", "done"}]
    BY <1>2 DEF Worker, SetupInv, TypeInv, Start, AwaitPredecessors, Lock, Put, Advance, Unlock,
       Tell, Notify, Move
  <2>2. CASE Start(w) \/ AwaitPredecessors(w) \/ Notify(w)
    <3>1. mtx' = mtx /\ \A v \in Nodes : InHand(v) => v # w
      BY <2>2 DEF Start, AwaitPredecessors, Notify, Move, InHand
    <3>2. \A v \in Nodes : v # w => wpc'[v] = wpc[v]
      BY <2>1, <2>2 DEF Start, AwaitPredecessors, Notify, Move
    <3> QED
      BY <2>1, <3>1, <3>2 DEF HeldInv, InHand
  <2>3. CASE Lock(w) \/ Put(w) \/ Advance(w)
    <3>1. wpc'[w] \in {"put", "advance", "unlock"}
      BY <2>1, <2>3 DEF Lock, Put, Advance, Move
    <3> QED
      BY <3>1 DEF HeldInv, InHand
  <2>4. CASE Unlock(w)
    <3>1. mtx' = mtx + 1 /\ mtx \in 0..1
      BY <2>4 DEF Unlock, TypeInv
    <3>2. mtx' # 0
      BY <3>1
    <3> QED
      BY <3>2 DEF HeldInv
  <2>5. CASE Tell(w)
    BY <2>1, <2>5 DEF Tell, HeldInv, InHand
  <2> QED
    BY <1>2, <2>2, <2>3, <2>4, <2>5 DEF Worker
<1> QED
  BY <1>1, <1>2 DEF Next

\* On an acyclic graph, of the nodes that wait for predecessors one waits for none that does.
LEMMA FirstWaiting ==
  ASSUME Acyclic, A \in SUBSET (Nodes \X Nodes), NEW W \in SUBSET Nodes, W # {}
  PROVE  \E w \in W : \A u \in Nodes : <<u, w>> \in A => u \notin W
<1>1. PICK rank \in [Nodes -> Nodes] : \A e \in A : rank[e[1]] < rank[e[2]]
  BY DEF Acyclic
<1> DEFINE Ranks == {rank[w] : w \in W}
<1>2. Ranks \subseteq Nat /\ Ranks # {}
  <2>1. Nodes \subseteq Nat
    BY GraphAssumption DEF Nodes
  <2>2. \A w \in W : rank[w] \in Nat
    BY <2>1
  <2> QED
    BY <2>2
<1> HIDE DEF Ranks
<1>3. PICK r \in Ranks : \A x \in Ranks : r <= x
  BY <1>2, SmallestNat
<1>4. PICK w \in W : r = rank[w]
  BY <1>3 DEF Ranks
<1>5. ASSUME NEW u \in Nodes, <<u, w>> \in A, u \in W PROVE FALSE
  <2>1. rank[u] < rank[w]
    BY <1>1, <1>5
  <2>2. rank[w] <= rank[u]
    BY <1>3, <1>4, <1>5 DEF Ranks
  <2>3. rank[u] \in Nat /\ rank[w] \in Nat
    BY <1>2, <1>4, <1>5 DEF Ranks
  <2> QED
    BY <2>1, <2>2, <2>3
<1> QED
  BY <1>5

\* For every graph: boss has returned, or somebody can go on, or the graph has a cycle and every
\* worker has ended or waits behind it (boss.c:104-108, worker.c:36-83).
THEOREM OnlyCyclesBlock ==
  Spec => [](BossMayGo \/ (\E w \in Nodes : WorkerMayGo(w)) \/ Stuck \/ Returned)
<1>1. ASSUME IInv, HeldInv, ~BossMayGo, ~Returned, \A w \in Nodes : ~WorkerMayGo(w)
      PROVE  Stuck
  <2> USE GraphAssumption
  <2>1. bpc = "wait" /\ ~(ntfy >= N)
    BY <1>1 DEF IInv, TypeInv, BossMayGo, Returned
  <2>2. \A w \in Nodes : ~InHand(w) /\ wpc[w] \in {"wait", "lock", "done"}
    BY <1>1, <2>1 DEF IInv, TypeInv, WorkerMayGo, InHand
  <2>3. mtx = 1
    BY <1>1, <2>1, <2>2 DEF HeldInv, IInv, TypeInv
  <2>4. \A w \in Nodes : wpc[w] = "done" \/ (wpc[w] = "wait" /\ ~(sync[w] >= N))
    BY <1>1, <2>2, <2>3 DEF WorkerMayGo
  <2>5. \A w \in Nodes : wpc[w] = "done" \/ (wpc[w] = "wait" /\ sync[w] < N)
    <3>1. \A w \in Nodes : sync[w] \in Int
      BY <1>1 DEF IInv, TypeInv
    <3>2. \A x \in Int : ~(x >= N) => x < N
      OBVIOUS
    <3> QED
      BY <2>4, <3>1, <3>2
  <2> DEFINE W == {w \in Nodes : wpc[w] = "wait"}
  <2>6. W # {}
    <3>1. ASSUME W = {} PROVE FALSE
      <4>1. Finished = Nodes
        BY <2>4, <3>1 DEF Finished
      <4>2. ntfy = N
        BY <1>1, <2>1, <4>1, NodeCount DEF IInv, NotifyInv
      <4> QED
        BY <2>1, <4>2
    <3> QED
      BY <3>1
  <2>7. ASSUME Acyclic PROVE FALSE
    <3>1. PICK w \in W : \A u \in Nodes : <<u, w>> \in A => u \notin W
      <4>1. A \in SUBSET (Nodes \X Nodes) /\ W \in SUBSET Nodes
        BY <1>1 DEF IInv, TypeInv
      <4> HIDE DEF W
      <4> QED
        BY <2>6, <2>7, <4>1, FirstWaiting
    <3>2. Untold(w) = {}
      <4>1. ASSUME NEW u \in Nodes, <<u, w>> \in A PROVE Told(u, w)
        <5>1. wpc[u] = "done"
          BY <2>4, <3>1, <4>1
        <5> QED
          BY <1>1, <5>1 DEF IInv, LeftInv, Told
      <4> QED
        BY <4>1 DEF Untold
    <3>3. sync[w] = N
      <4>1. sync[w] = N - Cardinality({})
        BY <1>1, <2>1, <3>2 DEF IInv, SyncInv, Passed
      <4> QED
        BY <4>1, FS_EmptySet
    <3> QED
      BY <2>5, <3>3
  <2> QED
    BY <2>5, <2>7 DEF Stuck
<1>2. Init => HeldInv
  BY DEF Init, HeldInv
<1>3. IInv /\ HeldInv => BossMayGo \/ (\E w \in Nodes : WorkerMayGo(w)) \/ Stuck \/ Returned
  BY <1>1
<1> QED
  BY <1>2, <1>3, HeldStep, Invariant, PTL DEF Spec
\* What is still to be done: the steps of workers, the successors to be told, the steps of boss.
StepsLeft == [new |-> 7, wait |-> 6, lock |-> 5, put |-> 4, advance |-> 3, unlock |-> 2,
              tell |-> 1, done |-> 0]
WorkTodo == {ws \in Nodes \X (1..7) : ws[2] <= StepsLeft[wpc[ws[1]]]}
TellTodo == {e \in A : ~Told(e[1], e[2])}
BossTodo == IF bpc = "setup" THEN {"setup", "wait", "check"}
            ELSE IF bpc = "wait" THEN {"wait", "check"}
            ELSE IF bpc = "check" THEN {"check"} ELSE {}

FiniteTodo == IsFiniteSet(WorkTodo) /\ IsFiniteSet(TellTodo) /\ IsFiniteSet(BossTodo)

LessTodo == /\ WorkTodo' \subseteq WorkTodo /\ TellTodo' \subseteq TellTodo /\ BossTodo' \subseteq BossTodo
            /\ WorkTodo' # WorkTodo \/ TellTodo' # TellTodo \/ BossTodo' # BossTodo

LEMMA TodoIsFinite == ASSUME TypeInv PROVE FiniteTodo
<1>1. IsFiniteSet(Nodes) /\ IsFiniteSet(1..7)
  <2>1. \A a, b \in Int : IsFiniteSet(a..b)
    BY FS_Interval
  <2>2. PICK a \in Int, b \in Int : a = 1 /\ b = 7
    OBVIOUS
  <2>3. IsFiniteSet(a..b)
    BY <2>1
  <2> QED
    BY <2>2, <2>3, NodeCount
<1>2. IsFiniteSet(Nodes \X (1..7)) /\ IsFiniteSet(Nodes \X Nodes)
  BY <1>1, FS_Product
<1>3. IsFiniteSet(WorkTodo)
  <2>1. WorkTodo \subseteq Nodes \X (1..7)
    BY DEF WorkTodo
  <2> QED
    BY <1>2, <2>1, FS_Subset
<1>4. IsFiniteSet(TellTodo)
  <2>1. TellTodo \subseteq Nodes \X Nodes
    BY DEF TellTodo, TypeInv
  <2> QED
    BY <1>2, <2>1, FS_Subset
<1>5. IsFiniteSet(BossTodo)
  <2>1. IsFiniteSet({"setup", "wait", "check"}) /\ BossTodo \subseteq {"setup", "wait", "check"}
    <3>1. IsFiniteSet({"check"}) /\ IsFiniteSet({"check"} \cup {"wait"})
      BY FS_Singleton, FS_AddElement
    <3>2. IsFiniteSet(({"check"} \cup {"wait"}) \cup {"setup"})
      BY <3>1, FS_AddElement
    <3>3. ({"check"} \cup {"wait"}) \cup {"setup"} = {"setup", "wait", "check"}
      OBVIOUS
    <3> QED
      BY <3>2, <3>3 DEF BossTodo
  <2> QED
    BY <2>1, FS_Subset
<1> QED
  BY <1>3, <1>4, <1>5 DEF FiniteTodo

\* A worker that goes on to its next place has one step less to do.
LEMMA MoveCounts ==
  ASSUME TypeInv, NEW w \in Nodes, NEW from, NEW to, Move(w, from, to),
         from \in DOMAIN StepsLeft, to \in DOMAIN StepsLeft, StepsLeft[from] = StepsLeft[to] + 1
  PROVE  WorkTodo' \subseteq WorkTodo /\ WorkTodo' # WorkTodo
<1>1. DOMAIN StepsLeft = {"new", "wait", "lock", "put", "advance", "unlock", "tell", "done"}
      /\ \A place \in DOMAIN StepsLeft : StepsLeft[place] \in 0..7
  BY DEF StepsLeft
<1>2. wpc \in [Nodes -> DOMAIN StepsLeft] /\ wpc[w] = from /\ wpc' = [wpc EXCEPT ![w] = to]
  BY <1>1 DEF TypeInv, Move
<1>3. \A v \in Nodes : StepsLeft[wpc'[v]] <= StepsLeft[wpc[v]]
  <2>1. ASSUME NEW v \in Nodes PROVE StepsLeft[wpc'[v]] <= StepsLeft[wpc[v]]
    <3>1. StepsLeft[wpc[v]] \in 0..7 /\ StepsLeft[to] \in 0..7
      BY <1>1, <1>2
    <3>2. CASE v = w
      BY <1>2, <3>1, <3>2
    <3>3. CASE v # w
      BY <1>2, <3>1, <3>3
    <3> QED
      BY <3>2, <3>3
  <2> QED
    BY <2>1
<1>4. \A v \in Nodes : StepsLeft[wpc'[v]] \in 0..7 /\ StepsLeft[wpc[v]] \in 0..7
  BY <1>1, <1>2
<1>5. WorkTodo' \subseteq WorkTodo
  <2>1. ASSUME NEW ws \in WorkTodo' PROVE ws \in WorkTodo
    <3>1. ws \in Nodes \X (1..7) /\ ws[1] \in Nodes /\ ws[2] \in 1..7 /\ ws[2] <= StepsLeft[wpc'[ws[1]]]
      BY DEF WorkTodo
    <3>2. \A x, y, z \in Int : x <= y /\ y <= z => x <= z
      OBVIOUS
    <3>3. ws[2] <= StepsLeft[wpc[ws[1]]]
      BY <1>3, <1>4, <3>1, <3>2
    <3> QED
      BY <3>1, <3>3 DEF WorkTodo
  <2> QED
    BY <2>1
<1>6. PICK k : k = StepsLeft[from]
  OBVIOUS
<1>7. k \in 1..7 /\ StepsLeft[to] = k - 1
  BY <1>1, <1>6
<1>8. <<w, k>> \in WorkTodo
  BY <1>2, <1>6, <1>7 DEF WorkTodo
<1>9. <<w, k>> \notin WorkTodo'
  <2>1. ~(k <= StepsLeft[wpc'[w]])
    BY <1>2, <1>7
  <2>2. ASSUME <<w, k>> \in WorkTodo' PROVE FALSE
    <3>1. <<w, k>>[2] <= StepsLeft[wpc'[<<w, k>>[1]]]
      BY <2>2 DEF WorkTodo
    <3> QED
      BY <2>1, <3>1
  <2> QED
    BY <2>2
<1> QED
  BY <1>5, <1>8, <1>9

\* Every step does something that is then done for good, and there are only finitely many things
\* to do: with OnlyCyclesBlock, a run that is not held up forever ends (worker.c:36-83).
THEOREM EveryStepCounts == Spec => []FiniteTodo /\ [][LessTodo]_sortVars
<1>1. ASSUME IInv, Next, ~UNCHANGED sortVars PROVE LessTodo
  <2> USE GraphAssumption
  <2>0. TypeInv /\ SetupInv /\ LeftInv
    BY <1>1 DEF IInv
  <2>1. ASSUME Boss PROVE LessTodo
    <3>1. UNCHANGED <<A, wpc, left>>
      BY <2>1 DEF Boss, Setup, AwaitWorkers, Check
    <3>2. WorkTodo' = WorkTodo /\ TellTodo' = TellTodo
      BY <3>1 DEF WorkTodo, TellTodo, Told
    <3>3. BossTodo' \subseteq BossTodo /\ BossTodo' # BossTodo
      BY <2>1 DEF Boss, Setup, AwaitWorkers, Check, BossTodo
    <3> QED
      BY <3>2, <3>3 DEF LessTodo
  <2>2. ASSUME NEW w \in Nodes, Worker(w) PROVE LessTodo
    <3>1. BossTodo' = BossTodo /\ A' = A
      BY <2>2 DEF Worker, Start, AwaitPredecessors, Lock, Put, Advance, Unlock, Tell, Notify, BossTodo
    <3>2. CASE Tell(w)
      <4>1. PICK v \in left[w] : left' = [left EXCEPT ![w] = @ \ {v}] /\ wpc' = wpc /\ wpc[w] = "tell"
        BY <3>2 DEF Tell
      <4>2. WorkTodo' = WorkTodo
        BY <4>1 DEF WorkTodo
      <4>3. left \in [Nodes -> SUBSET Nodes] /\ v \in Nodes /\ <<w, v>> \in A
        BY <2>0, <4>1 DEF TypeInv, LeftInv
      <4>4. \A u \in Nodes, x \in Nodes : Told(u, x) => Told(u, x)'
        BY <4>1, <4>3 DEF Told
      <4>5. \A e \in A : e[1] \in Nodes /\ e[2] \in Nodes
        BY <2>0 DEF TypeInv
      <4>6. TellTodo' \subseteq TellTodo
        BY <3>1, <4>4, <4>5 DEF TellTodo
      <4>7. <<w, v>> \in TellTodo
        BY <4>1, <4>3 DEF TellTodo, Told
      <4>8. Told(w, v)'
        BY <4>1, <4>3 DEF Told
      <4>9. <<w, v>> \notin TellTodo'
        BY <4>8 DEF TellTodo
      <4> QED
        BY <3>1, <4>2, <4>6, <4>7, <4>9 DEF LessTodo
    <3>3. ASSUME NEW from, NEW to, Move(w, from, to), from \in DOMAIN StepsLeft, to \in DOMAIN StepsLeft,
                 StepsLeft[from] = StepsLeft[to] + 1, \A v \in Nodes : Untold(v)' = Untold(v)
          PROVE  LessTodo
      <4>1. WorkTodo' \subseteq WorkTodo /\ WorkTodo' # WorkTodo
        BY <2>0, <3>3, MoveCounts
      <4>2. \A u, v \in Nodes : <<u, v>> \in A => (Told(u, v)' <=> Told(u, v))
        BY <3>1, <3>3 DEF Untold
      <4>3. ASSUME NEW e \in A PROVE Told(e[1], e[2])' <=> Told(e[1], e[2])
        <5>0. e \in Nodes \X Nodes
          BY <2>0, <4>3 DEF TypeInv
        <5>1. PICK u \in Nodes, v \in Nodes : e = <<u, v>>
          BY <5>0
        <5>2. e[1] = u /\ e[2] = v /\ <<u, v>> \in A
          BY <4>3, <5>1
        <5> QED
          BY <4>2, <5>2
      <4>4. TellTodo' = TellTodo
        BY <3>1, <4>3 DEF TellTodo
      <4> QED
        BY <3>1, <4>1, <4>4 DEF LessTodo
    <3>4. CASE ~Tell(w)
      <4>1. \A v \in Nodes : Untold(v)' = Untold(v)
        BY <2>0, <2>2, <3>1, <3>4, Untouched DEF Worker
      <4>2. \E from, to \in DOMAIN StepsLeft : Move(w, from, to) /\ StepsLeft[from] = StepsLeft[to] + 1
        <5> USE DEF StepsLeft
        <5>1. CASE Start(w)
          BY <5>1 DEF Start
        <5>2. CASE AwaitPredecessors(w)
          BY <5>2 DEF AwaitPredecessors
        <5>3. CASE Lock(w)
          BY <5>3 DEF Lock
        <5>4. CASE Put(w)
          BY <5>4 DEF Put
        <5>5. CASE Advance(w)
          BY <5>5 DEF Advance
        <5>6. CASE Unlock(w)
          BY <5>6 DEF Unlock
        <5>7. CASE Notify(w)
          BY <5>7 DEF Notify
        <5> QED
          BY <2>2, <3>4, <5>1, <5>2, <5>3, <5>4, <5>5, <5>6, <5>7 DEF Worker
      <4> QED
        BY <3>3, <4>1, <4>2
    <3> QED
      BY <3>2, <3>4
  <2> QED
    BY <1>1, <2>1, <2>2 DEF Next
<1>2. IInv => FiniteTodo
  BY TodoIsFinite DEF IInv
<1>3. IInv /\ [Next]_sortVars => [LessTodo]_sortVars
  BY <1>1
<1> QED
  BY <1>2, <1>3, Invariant, PTL DEF Spec
=============================================================================
