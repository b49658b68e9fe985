--------------------------- MODULE TopologicalOrder ---------------------------
(***************************************************************************)
(* What boss and its workers promise: an order of the nodes that grows, at *)
(* its end, by a node whose predecessors are all in it already.            *)
(***************************************************************************)
EXTENDS Sequences, Functions

CONSTANT Nodes

VARIABLES edges,   \* pairs of a node and a successor of it
          order    \* the nodes so far

OrderInit == edges \subseteq Nodes \X Nodes /\ order = <<>>

Grow(v) == /\ v \notin Range(order)
           /\ \A u \in Nodes : <<u, v>> \in edges => u \in Range(order)
           /\ order' = Append(order, v)
           /\ UNCHANGED edges

OrderSpec == OrderInit /\ [][\E v \in Nodes : Grow(v)]_<<edges, order>>
=============================================================================
