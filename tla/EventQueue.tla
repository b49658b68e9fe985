------------------------------ MODULE EventQueue ------------------------------
(***************************************************************************)
(* The event queue of Assignment6/event.c: a binary heap of the arrivals   *)
(* of arrival.txt.  E is the list of the arrivals as the file has them,    *)
(* and a queue holds positions in that list; its indices begin at 1, where *)
(* those of E.Q begin at 0.                                                *)
(***************************************************************************)
EXTENDS Integers, Sequences

\* eventcmp(e, f) < 0: by time, and at one time the more urgent kind first.  Of two
\* like events each precedes the other.
Urgency == [R |-> 1, P |-> 2, S |-> 3]
Precedes(e, f) == \/ e.time < f.time
                  \/ e.time = f.time /\ Urgency[e.type] <= Urgency[f.type]

\* Mutant of FirstChild: the left one is taken.
LeftChild(E, q, i) == 2 * i

FirstChild(E, q, i) ==
  LET l == 2 * i
      r == 2 * i + 1
  IN  IF r > Len(q) \/ Precedes(E[q[l]], E[q[r]]) THEN l ELSE r

Swap(q, i, j) == [q EXCEPT ![i] = q[j], ![j] = q[i]]

\* The event at i goes down until it precedes both its children.
SiftDown(E, q, i) ==
  LET n == Len(q)
      down[s \in [1..n -> DOMAIN E] \X (1..n)] ==
        LET p == s[1]
            k == s[2]
            m == FirstChild(E, p, k)
        IN  IF 2 * k > n \/ Precedes(E[p[k]], E[p[m]]) THEN p ELSE down[<<Swap(p, k, m), m>>]
  IN  down[<<q, i>>]

initEQ(E) ==
  LET n == Len(E)
      heap[j \in 1..n + 1] == IF j > n \div 2 THEN [i \in 1..n |-> i] ELSE SiftDown(E, heap[j + 1], j)
  IN  heap[1]

\* The last event takes the place of the first.
delevent(E, q) ==
  IF Len(q) <= 1 THEN <<>>
  ELSE SiftDown(E, [SubSeq(q, 1, Len(q) - 1) EXCEPT ![1] = q[Len(q)]], 1)
=============================================================================
