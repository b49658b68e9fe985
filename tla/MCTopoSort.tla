------------------------------ MODULE MCTopoSort ------------------------------
(***************************************************************************)
(* Model values for TopoSort.                                              *)
(***************************************************************************)
EXTENDS TopoSort

\* Every graph on the nodes, those with cycles and self-loops included.
AllGraphs == SUBSET (Nodes \X Nodes)
=============================================================================
