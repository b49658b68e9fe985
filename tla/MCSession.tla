------------------------------ MODULE MCSession ------------------------------
(***************************************************************************)
(* Model values for Session: with quotas of 2 patients and 1 sales         *)
(* representative, days with one visitor too few, and one too many.        *)
(***************************************************************************)
EXTENDS Session

Lasts == [P |-> 2, R |-> 1, S |-> 1]

\* When each kind comes: before the session begins, at its begin, and in or after
\* the first visits; no reporter comes early (arrival.c:20).
Comes == [P |-> {-1, 0, 2}, R |-> {0, 2}, S |-> {-1, 2}]

\* The lists of n visitors of a kind, in any order.
Lists(k, n) ==
  {[i \in 1..n |-> [type |-> k, time |-> t[i], duration |-> Lasts[k]]] : t \in [1..n -> Comes[k]]}

SmallDays == {p \o r \o s : p \in UNION {Lists("P", n) : n \in 1..3},
                            r \in Lists("R", 1),
                            s \in UNION {Lists("S", n) : n \in 0..2}}
=============================================================================
