--------------------------- MODULE PagedExecution ---------------------------
(***************************************************************************)
(* What Assignment8 promises, without scheduler, messages or page tables.  *)
(* Each process has a list of pages to refer to, its work, and is served   *)
(* page by page, only pages of its own that are in memory.  All processes  *)
(* together never keep more than Capacity pages there; a page is pushed out*)
(* only when memory is full and only by a page of the same process; and    *)
(* nothing is reported before every process has done its work, or has come *)
(* to a page it does not have, and has left memory.                        *)
(***************************************************************************)
EXTENDS Naturals, Sequences, FiniteSets

CONSTANTS Procs, Pages, Capacity

VARIABLES phase,     \* "setup", "run", "reported", "over"
          owned,     \* the pages each process has
          work,      \* the pages each process refers to, in order
          served,    \* how many of them it has been served
          resident   \* its pages in memory

absVars == <<phase, owned, work, served, resident>>

\* How many pages are in memory, with those of p being r[p].
InMemory(r) == Cardinality({pg \in Procs \X Pages : pg[2] \in r[pg[1]]})

Done(p) == served[p] = Len(work[p]) \/ work[p][served[p] + 1] \notin owned[p]

AbsInit == /\ phase = "setup"
           /\ served = [p \in Procs |-> 0]
           /\ resident = [p \in Procs |-> {}]

\* Master decides on the work and on the pages that start in memory.
Prepare == /\ phase = "setup"
           /\ phase' \in {"setup", "run"}
           /\ InMemory(resident') <= Capacity
           /\ UNCHANGED served

Serve(p) == /\ phase = "run"
            /\ ~Done(p) /\ work[p][served[p] + 1] \in resident[p]
            /\ served' = [served EXCEPT ![p] = @ + 1]
            /\ UNCHANGED <<phase, owned, work, resident>>

\* The page that p needs comes in: instead of one of its own when memory is
\* full, beside the others when it is not.
PageIn(p) ==
  /\ phase = "run"
  /\ ~Done(p) /\ work[p][served[p] + 1] \notin resident[p]
  /\ LET new == work[p][served[p] + 1]
     IN  \/ /\ InMemory(resident) < Capacity
            /\ resident' = [resident EXCEPT ![p] = @ \cup {new}]
         \/ /\ InMemory(resident) = Capacity
            /\ \E old \in resident[p] :
                 resident' = [resident EXCEPT ![p] = (@ \ {old}) \cup {new}]
  /\ UNCHANGED <<phase, owned, work, served>>

Leave(p) == /\ phase = "run"
            /\ Done(p)
            /\ resident' = [resident EXCEPT ![p] = {}]
            /\ UNCHANGED <<phase, owned, work, served>>

Report == /\ phase = "run" /\ phase' = "reported"
          /\ \A p \in Procs : Done(p) /\ resident[p] = {}
          /\ UNCHANGED <<owned, work, served, resident>>

\* The end, after the report or by an interrupt or trap before it; nothing is
\* promised about what a process still running then believes.
Stop == phase # "over" /\ phase' = "over"
AfterStop == phase = "over" /\ phase' = "over"

AbsNext == \/ Prepare
           \/ \E p \in Procs : Serve(p) \/ PageIn(p) \/ Leave(p)
           \/ Report \/ Stop \/ AfterStop

AbsSpec == AbsInit /\ [][AbsNext]_absVars
=============================================================================
