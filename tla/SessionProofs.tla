----------------------------- MODULE SessionProofs -----------------------------
(***************************************************************************)
(* For every list of arrivals and any quotas:                              *)
(*  - the doctor sees one visitor at a time, so the visitors and the       *)
(*    assistant never change cur_time together, though no mutex keeps      *)
(*    them apart;                                                          *)
(*  - the queue is a heap of the visitors still to come, whatever their    *)
(*    number: what SiftDown, initEQ and delevent compute, by induction on  *)
(*    the height of the node;                                              *)
(*  - the doctor leaves last, is never idle while somebody waits, and      *)
(*    calls nobody before a more urgent visitor who has arrived.           *)
(***************************************************************************)
EXTENDS Session, FiniteSetTheorems, SequenceTheorems, WellFoundedInduction, TLAPS

With == {"in", "visited"}
There(v) == vpc[v] \in With
IsCalled(k) == ~SLEEP[k]

FlagTypeOK == /\ day \in Days
              /\ SLEEP \in [Kinds -> BOOLEAN]
              /\ ONGOING_SESSION \in BOOLEAN
              /\ dpc \in {"lock", "asleep", "decide", "call", "await", "in session", "gone"}
              /\ vpc \in [Visitors -> {"none", "lock", "asleep", "gone"} \cup Inside]

\* Between two sessions nobody is called and nobody is there.
Idle == dpc \notin {"await", "in session"} =>
          /\ \A k \in Kinds : ~IsCalled(k)
          /\ \A v \in Visitors : ~There(v)

\* A session that is begun goes on as long as somebody is called or there.
KeepsOn ==
  /\ dpc = "call" => ONGOING_SESSION
  /\ (\E k \in Kinds : IsCalled(k)) \/ (\E v \in Visitors : There(v)) => ONGOING_SESSION

\* One kind is called or one visitor is there.
Single == /\ \A j, k \in Kinds : IsCalled(j) /\ IsCalled(k) => j = k
          /\ \A v, w \in Visitors : There(v) /\ There(w) => v = w
          /\ \A k \in Kinds, v \in Visitors : ~(IsCalled(k) /\ There(v))

\* The inductive invariant.
IInv == FlagTypeOK /\ Idle /\ KeepsOn /\ Single

-----------------------------------------------------------------------------
LEMMA ArrivalsAreVisitors ==
  ASSUME NEW d \in Days, NEW v \in DOMAIN d
  PROVE  v \in Visitors /\ d[v].type \in Kinds
<1>1. PICK n \in 0..N : d \in [1..n -> Arrival]
  BY DaysAssumption
<1>2. v \in Visitors
  BY <1>1, DaysAssumption DEF Visitors
<1>3. d[v] \in Arrival
  BY <1>1
<1> QED
  BY <1>2, <1>3 DEF Arrival

LEMMA IInvInit == Init => IInv
BY DEF Init, IInv, FlagTypeOK, Idle, KeepsOn, Single, There, IsCalled, With, Kinds

\* The assistant changes no flag of the doctor's session; it starts and wakes.
LEMMA AssistantKeeps == IInv /\ Assistant => IInv'
<1> SUFFICES ASSUME IInv, Assistant PROVE IInv'
  OBVIOUS
<1> USE DEF IInv
<1>1. UNCHANGED <<day, SLEEP, ONGOING_SESSION>>
  BY DEF Assistant, AssistantSleeps, ClearFlag, Begin, Admit, WakeDoctor, AdvanceTime, Drain
<1>2. dpc' = dpc \/ dpc' = Woken(dpc)
  BY DEF Assistant, AssistantSleeps, ClearFlag, Begin, Admit, WakeDoctor, AdvanceTime, Drain
<1>3. vpc' = vpc \/ vpc' = [vpc EXCEPT ![queue[1]] = "lock"]
  BY DEF Assistant, AssistantSleeps, ClearFlag, Begin, Admit, WakeDoctor, AdvanceTime, Drain
<1>4. FlagTypeOK'
  BY <1>1, <1>2, <1>3 DEF FlagTypeOK, Woken
<1>5. \A v \in Visitors : There(v)' => There(v)
  BY <1>3 DEF FlagTypeOK, There, With
<1>6. \A k \in Kinds : IsCalled(k)' <=> IsCalled(k)
  BY <1>1 DEF IsCalled
<1>7. dpc \in {"await", "in session"} => dpc' = dpc
  BY <1>2 DEF Woken
<1>8. Idle'
  BY <1>5, <1>6, <1>7 DEF Idle
<1>9. KeepsOn'
  <2>1. dpc' = "call" => dpc = "call"
    BY <1>2 DEF Woken
  <2> QED
    BY <1>1, <1>5, <1>6, <2>1 DEF KeepsOn
<1>10. Single'
  BY <1>5, <1>6 DEF Single
<1> QED
  BY <1>4, <1>8, <1>9, <1>10

LEMMA DoctorKeeps == IInv /\ Doctor => IInv'
<1> SUFFICES ASSUME IInv, Doctor PROVE IInv'
  OBVIOUS
<1> USE DEF IInv
<1>1. CASE DoctorLocks
  BY <1>1 DEF DoctorLocks, FlagTypeOK, Idle, KeepsOn, Single, There, IsCalled
<1>2. CASE DoctorLeaves
  BY <1>2 DEF DoctorLeaves, FlagTypeOK, Idle, KeepsOn, Single, There, IsCalled
<1>3. CASE DoctorStays
  BY <1>3 DEF DoctorStays, FlagTypeOK, Idle, KeepsOn, Single, There, IsCalled
<1>4. CASE DoctorCalls
  <2>1. Called \in Kinds
    BY DEF Called, Kinds
  <2>2. SLEEP' = SLEEP \/ SLEEP' = [SLEEP EXCEPT ![Called] = FALSE]
    BY <1>4 DEF DoctorCalls
  <2>3. vpc' = vpc \/ \E v \in DOMAIN day : vpc[v] = "asleep" /\ vpc' = [vpc EXCEPT ![v] = "lock"]
    BY <1>4 DEF DoctorCalls, WakeOne, Woken
  <2>4. dpc = "call" /\ dpc' = "await" /\ UNCHANGED <<day, ONGOING_SESSION>>
    BY <1>4 DEF DoctorCalls
  <2>5. FlagTypeOK'
    BY <2>1, <2>2, <2>3, <2>4 DEF FlagTypeOK
  <2>6. \A v \in Visitors : ~There(v)'
    BY <2>3, <2>4 DEF Idle, FlagTypeOK, There, With
  <2>7. \A k \in Kinds : IsCalled(k)' => k = Called
    BY <2>1, <2>2, <2>4 DEF Idle, FlagTypeOK, IsCalled
  <2> QED
    BY <2>4, <2>5, <2>6, <2>7 DEF Idle, KeepsOn, Single
<1>5. CASE DoctorAwaits
  BY <1>5 DEF DoctorAwaits, FlagTypeOK, Idle, KeepsOn, Single, There, IsCalled
<1>6. CASE DoctorIsDone
  BY <1>6 DEF DoctorIsDone, FlagTypeOK, Idle, KeepsOn, Single, There, IsCalled
<1> QED
  BY <1>1, <1>2, <1>3, <1>4, <1>5, <1>6 DEF Doctor

\* The visitor who finds its kind called takes the call; when it ends the session
\* nobody else is there to go on with it.
LEMMA VisitorKeeps ==
  ASSUME NEW v \in DOMAIN day PROVE IInv /\ Visitor(v) => IInv'
<1> SUFFICES ASSUME IInv, Visitor(v) PROVE IInv'
  OBVIOUS
<1> USE DEF IInv
<1>0. v \in Visitors /\ day[v].type \in Kinds
  BY ArrivalsAreVisitors DEF FlagTypeOK
<1>1. CASE Enter(v)
  <2> DEFINE k == day[v].type
  <2>1. UNCHANGED <<day, ONGOING_SESSION, dpc>> /\ vpc[v] = "lock"
    BY <1>1 DEF Enter
  <2>2. CASE SLEEP[k]
    <3>1. SLEEP' = SLEEP /\ vpc' = [vpc EXCEPT ![v] = "asleep"]
      BY <1>1, <2>2 DEF Enter
    <3>2. \A w \in Visitors : There(w)' <=> There(w)
      BY <2>1, <3>1 DEF FlagTypeOK, There, With
    <3>3. FlagTypeOK'
      BY <1>0, <2>1, <3>1 DEF FlagTypeOK
    <3> QED
      BY <2>1, <3>1, <3>2, <3>3 DEF Idle, KeepsOn, Single, IsCalled
  <2>3. CASE ~SLEEP[k]
    <3>1. SLEEP' = [SLEEP EXCEPT ![k] = TRUE] /\ vpc' = [vpc EXCEPT ![v] = "in"]
      BY <1>1, <2>3 DEF Enter, ResetFlag
    <3>2. IsCalled(k) /\ k \in Kinds
      BY <1>0, <2>3 DEF IsCalled
    <3>3. dpc \in {"await", "in session"} /\ ONGOING_SESSION
      BY <3>2 DEF Idle, KeepsOn
    <3>4. \A j \in Kinds : ~IsCalled(j)'
      <4> TAKE j \in Kinds
      <4>1. SLEEP' = [SLEEP EXCEPT ![k] = TRUE] /\ SLEEP \in [Kinds -> BOOLEAN]
        BY <3>1 DEF FlagTypeOK
      <4>2. CASE j = k
        BY <4>1, <4>2, <3>2 DEF IsCalled
      <4>3. CASE j # k
        <5>1. ~IsCalled(j)
          BY <3>2, <4>3 DEF Single
        <5> QED
          BY <5>1, <4>1, <4>3 DEF IsCalled
      <4> QED
        BY <4>2, <4>3
    <3>5. \A w \in Visitors : There(w)' <=> w = v
      BY <1>0, <3>1, <3>2 DEF Single, FlagTypeOK, There, With
    <3>6. FlagTypeOK'
      BY <1>0, <2>1, <3>1, <3>2 DEF FlagTypeOK, Inside
    <3> QED
      BY <2>1, <3>3, <3>4, <3>5, <3>6 DEF Idle, KeepsOn, Single
  <2> QED
    BY <2>2, <2>3
<1>2. CASE Visit(v)
  <2>1. UNCHANGED <<day, SLEEP, ONGOING_SESSION, dpc>> /\ vpc[v] = "in"
        /\ vpc' = [vpc EXCEPT ![v] = "visited"]
    BY <1>2 DEF Visit
  <2>2. \A w \in Visitors : There(w)' <=> There(w)
    BY <1>0, <2>1 DEF FlagTypeOK, There, With
  <2>3. FlagTypeOK'
    BY <1>0, <2>1 DEF FlagTypeOK, Inside
  <2> QED
    BY <2>1, <2>2, <2>3 DEF Idle, KeepsOn, Single, IsCalled
<1>3. CASE EndSession(v)
  <2>1. UNCHANGED <<day, SLEEP>> /\ vpc[v] = "visited" /\ vpc' = [vpc EXCEPT ![v] = "out"]
        /\ ONGOING_SESSION' = FALSE /\ dpc' = IF dpc = "in session" THEN "await" ELSE dpc
    BY <1>3 DEF EndSession
  <2>2. There(v)
    BY <2>1 DEF There, With
  <2>3. dpc \in {"await", "in session"} /\ dpc' = "await"
    BY <1>0, <2>1, <2>2 DEF Idle
  <2>4. \A w \in Visitors : ~There(w)'
    BY <1>0, <2>1, <2>2 DEF Single, FlagTypeOK, There, With
  <2>5. \A k \in Kinds : ~IsCalled(k)'
    BY <1>0, <2>1, <2>2 DEF Single, IsCalled
  <2>6. FlagTypeOK'
    BY <1>0, <2>1, <2>3 DEF FlagTypeOK, Inside
  <2> QED
    BY <2>3, <2>4, <2>5, <2>6 DEF Idle, KeepsOn, Single
<1>4. CASE UnlockKind(v)
  <2>1. UNCHANGED <<day, SLEEP, ONGOING_SESSION, dpc>> /\ vpc[v] = "out"
        /\ vpc' = [vpc EXCEPT ![v] = "gone"]
    BY <1>4 DEF UnlockKind
  <2>2. \A w \in Visitors : There(w)' <=> There(w)
    BY <1>0, <2>1 DEF FlagTypeOK, There, With
  <2>3. FlagTypeOK'
    BY <1>0, <2>1 DEF FlagTypeOK, Inside
  <2> QED
    BY <2>1, <2>2, <2>3 DEF Idle, KeepsOn, Single, IsCalled
<1> QED
  BY <1>1, <1>2, <1>3, <1>4 DEF Visitor

LEMMA IInvStep == IInv /\ [Next]_sessionVars => IInv'
<1>1. ASSUME IInv, UNCHANGED sessionVars PROVE IInv'
  BY <1>1 DEF sessionVars, IInv, FlagTypeOK, Idle, KeepsOn, Single, There, IsCalled
<1> QED
  BY <1>1, AssistantKeeps, DoctorKeeps, VisitorKeeps DEF Next

-----------------------------------------------------------------------------
\* A set whose members are all alike has one at most.
LEMMA AtMostOne ==
  ASSUME NEW S, \A x, y \in S : x = y
  PROVE  (S = {} /\ Cardinality(S) = 0) \/ Cardinality(S) = 1
<1>1. CASE S = {}
  BY <1>1, FS_EmptySet
<1>2. ASSUME NEW x \in S PROVE Cardinality(S) = 1
  <2>1. S = {x}
    OBVIOUS
  <2> QED
    BY <2>1, FS_Singleton
<1> QED
  BY <1>1, <1>2

LEMMA OneFromIInv == IInv => OneInChamber
<1> SUFFICES ASSUME IInv PROVE OneInChamber
  OBVIOUS
<1> DEFINE there == {v \in Visitors : vpc[v] \in {"in", "visited"}}
           called == {k \in Kinds : ~SLEEP[k]}
<1>1. /\ \A v \in Visitors : v \in there <=> There(v)
      /\ \A k \in Kinds : k \in called <=> IsCalled(k)
  BY DEF There, With, IsCalled
<1>2. /\ \A v, w \in there : v = w
      /\ \A j, k \in called : j = k
      /\ there = {} \/ called = {}
  BY <1>1 DEF IInv, Single
<1>3. Cardinality(there) + Cardinality(called) <= 1
  <2>1. (there = {} /\ Cardinality(there) = 0) \/ Cardinality(there) = 1
    BY <1>2, AtMostOne
  <2>2. (called = {} /\ Cardinality(called) = 0) \/ Cardinality(called) = 1
    BY <1>2, AtMostOne
  <2>3. Cardinality({}) = 0
    BY FS_EmptySet
  <2> HIDE DEF there, called
  <2> QED
    BY <1>2, <2>1, <2>2, <2>3
<1>4. there \cup called # {} => ONGOING_SESSION /\ dpc \in {"await", "in session"}
  BY <1>1 DEF IInv, Idle, KeepsOn
<1> QED
  BY <1>3, <1>4 DEF OneInChamber

\* One visitor at a time, and only while the doctor waits for it, for every list of
\* arrivals and any quotas (session.c:134, 158, 189, 220).
THEOREM OneVisitorAtATime == Spec => []OneInChamber
<1>1. Init => IInv
  BY IInvInit
<1>2. IInv /\ [Next]_sessionVars => IInv'
  BY IInvStep
<1> QED
  BY <1>1, <1>2, OneFromIInv, PTL DEF Spec

-----------------------------------------------------------------------------
(* The heap of EventQueue.                                                 *)

IsList(E) == \E n \in Nat : E \in [1..n -> Arrival]

IsChild(c, k) == c = 2 * k \/ c = 2 * k + 1

\* p holds each member of S once.
HoldsEach(p, n, S) == /\ p \in [1..n -> S]
                      /\ \A a, b \in 1..n : p[a] = p[b] => a = b
                      /\ \A x \in S : \E a \in 1..n : p[a] = x

\* From node j on, each node precedes its children.
Heap(E, p, n, j) ==
  \A a, c \in 1..n : a >= j /\ IsChild(c, a) => Precedes(E[p[a]], E[p[c]])

\* The same, but for k, over whose children its parent has been already.
HeapBut(E, p, n, j, k) ==
  /\ \A a, c \in 1..n : a >= j /\ a # k /\ IsChild(c, a) => Precedes(E[p[a]], E[p[c]])
  /\ \A a, c \in 1..n : a >= j /\ IsChild(k, a) /\ IsChild(c, k) => Precedes(E[p[a]], E[p[c]])

Stays(E, p, n, k) == 2 * k > n \/ Precedes(E[p[k]], E[p[FirstChild(E, p, k)]])

\* The recursion of SiftDown.
Sifts(E, n, f) ==
  f = [s \in [1..n -> DOMAIN E] \X (1..n) |->
         IF Stays(E, s[1], n, s[2]) THEN s[1]
         ELSE f[<<Swap(s[1], s[2], FirstChild(E, s[1], s[2])), FirstChild(E, s[1], s[2])>>]]

\* The same for the last d nodes.
Deep(E, n, d) == {s \in [1..n -> DOMAIN E] \X (1..n) : n - s[2] <= d}
SiftsTo(E, n, d, f) ==
  f = [s \in Deep(E, n, d) |->
         IF Stays(E, s[1], n, s[2]) THEN s[1]
         ELSE f[<<Swap(s[1], s[2], FirstChild(E, s[1], s[2])), FirstChild(E, s[1], s[2])>>]]

Less == {ss \in Nat \X Nat : ss[1] < ss[2]}

\* A nonempty set of numbers has a smallest one: what the inductions below are from.
LEMMA SmallestNat ==
  ASSUME NEW T, T \subseteq Nat, T # {}
  PROVE  \E x \in T : \A y \in T : x <= y
<1>1. IsWellFoundedOn(Less, Nat)
  BY NatLessThanWellFounded DEF OpToRel, Less
<1>2. PICK x \in T : \A y \in T : ~(<<y, x>> \in Less)
  BY <1>1, WFMin
<1>3. \A y \in T : ~(y < x)
  <2>1. ASSUME NEW y \in T, y < x PROVE FALSE
    <3>1. <<y, x>> \in Nat \X Nat /\ <<y, x>>[1] = y /\ <<y, x>>[2] = x
      OBVIOUS
    <3> QED
      BY <1>2, <2>1, <3>1 DEF Less
  <2> QED
    BY <2>1
<1> QED
  BY <1>3

\* eventcmp orders the events, though events alike precede each other.
LEMMA PrecedesOrders ==
  ASSUME NEW e \in Arrival, NEW f \in Arrival, NEW g \in Arrival
  PROVE  /\ Precedes(e, f) \/ Precedes(f, e)
         /\ Precedes(e, f) /\ Precedes(f, g) => Precedes(e, g)
<1>1. /\ e.time \in Int /\ f.time \in Int /\ g.time \in Int
      /\ e.type \in Kinds /\ f.type \in Kinds /\ g.type \in Kinds
  BY DEF Arrival
<1>2. \A k \in Kinds : Urgency[k] \in Int
  BY DEF Urgency, Kinds
<1>3. Urgency[e.type] \in Int /\ Urgency[f.type] \in Int /\ Urgency[g.type] \in Int
  BY <1>1, <1>2
<1> QED
  BY <1>1, <1>3 DEF Precedes

LEMMA ListOf ==
  ASSUME NEW E, IsList(E)
  PROVE  \A x \in DOMAIN E : E[x] \in Arrival
BY DEF IsList

LEMMA LengthOf ==
  ASSUME NEW S, NEW n \in Nat, NEW p \in [1..n -> S]
  PROVE  p \in Seq(S) /\ Len(p) = n
<1>1. p \in Seq(S)
  OBVIOUS
<1>2. DOMAIN p = 1..Len(p) /\ Len(p) \in Nat
  BY <1>1, LenProperties
<1>3. 1..n = 1..Len(p)
  BY <1>2
<1> QED
  BY <1>1, <1>2, <1>3

LEMMA FirstChildComesFirst ==
  ASSUME NEW E, IsList(E), NEW n \in Nat, NEW p \in [1..n -> DOMAIN E], NEW k \in 1..n, 2 * k <= n
  PROVE  LET m == FirstChild(E, p, k)
         IN  /\ m \in 1..n /\ m > k /\ IsChild(m, k)
             /\ \A c \in 1..n : IsChild(c, k) => Precedes(E[p[m]], E[p[c]])
<1> DEFINE l == 2 * k
           r == 2 * k + 1
           m == FirstChild(E, p, k)
<1>1. Len(p) = n
  BY LengthOf
<1>2. \A a \in 1..n : E[p[a]] \in Arrival
  BY ListOf
<1>3. \A a, b \in 1..n : Precedes(E[p[a]], E[p[b]]) \/ Precedes(E[p[b]], E[p[a]])
  BY <1>2, PrecedesOrders
<1>4. l \in 1..n /\ l > k /\ r > k /\ l # r /\ (r <= n => r \in 1..n) /\ r \in Int
  OBVIOUS
<1>5. CASE r > n
  <2>1. m = l
    BY <1>1, <1>5 DEF FirstChild
  <2>2. \A c \in 1..n : IsChild(c, k) => c = l
    BY <1>5 DEF IsChild
  <2> QED
    BY <1>3, <1>4, <2>1, <2>2 DEF IsChild
<1>6. CASE ~(r > n)
  <2>1. r \in 1..n
    BY <1>4, <1>6
  <2>2. \A c \in 1..n : IsChild(c, k) <=> c = l \/ c = r
    BY DEF IsChild
  <2>3. m = IF Precedes(E[p[l]], E[p[r]]) THEN l ELSE r
    BY <1>1, <1>6 DEF FirstChild
  <2> QED
    BY <1>3, <1>4, <2>1, <2>2, <2>3
<1> QED
  BY <1>5, <1>6

LEMMA Swapped ==
  ASSUME NEW n \in Nat, NEW S, NEW p \in [1..n -> S], NEW a \in 1..n, NEW b \in 1..n, a # b
  PROVE  LET q == Swap(p, a, b)
         IN  /\ q \in [1..n -> S] /\ q[a] = p[b] /\ q[b] = p[a]
             /\ \A c \in 1..n : c # a /\ c # b => q[c] = p[c]
             /\ HoldsEach(p, n, S) => HoldsEach(q, n, S)
<1> DEFINE q == Swap(p, a, b)
<1>1. /\ q \in [1..n -> S] /\ q[a] = p[b] /\ q[b] = p[a]
      /\ \A c \in 1..n : c # a /\ c # b => q[c] = p[c]
  BY DEF Swap
<1> HIDE DEF q
<1>2. ASSUME HoldsEach(p, n, S) PROVE HoldsEach(q, n, S)
  <2>1. ASSUME NEW c \in 1..n, NEW d \in 1..n, q[c] = q[d] PROVE c = d
    <3>1. \A x, y \in 1..n : p[x] = p[y] => x = y
      BY <1>2 DEF HoldsEach
    <3>2. CASE c = a
      <4>1. p[b] = q[d]
        BY <1>1, <2>1, <3>2
      <4> QED
        BY <1>1, <3>1, <3>2, <4>1
    <3>3. CASE c = b
      <4>1. p[a] = q[d]
        BY <1>1, <2>1, <3>3
      <4> QED
        BY <1>1, <3>1, <3>3, <4>1
    <3>4. CASE c # a /\ c # b
      <4>1. p[c] = q[d]
        BY <1>1, <2>1, <3>4
      <4> QED
        BY <1>1, <3>1, <3>4, <4>1
    <3> QED
      BY <3>2, <3>3, <3>4
  <2>2. ASSUME NEW x \in S PROVE \E c \in 1..n : q[c] = x
    <3>1. PICK c \in 1..n : p[c] = x
      BY <1>2 DEF HoldsEach
    <3> QED
      BY <1>1, <3>1
  <2> QED
    BY <1>1, <2>1, <2>2 DEF HoldsEach
<1> QED
  BY <1>1, <1>2 DEF q


\* A step of SiftDown leads to a smaller problem of the same kind.
LEMMA NextProblem ==
  ASSUME NEW E, IsList(E), NEW n \in Nat, NEW p \in [1..n -> DOMAIN E], NEW k \in 1..n, ~Stays(E, p, n, k)
  PROVE  LET m == FirstChild(E, p, k)
         IN  /\ m \in 1..n /\ m > k /\ IsChild(m, k) /\ Swap(p, k, m) \in [1..n -> DOMAIN E]
             /\ \A d \in Nat : n - k <= d + 1 => <<Swap(p, k, m), m>> \in Deep(E, n, d)
<1> DEFINE m == FirstChild(E, p, k)
           q == Swap(p, k, m)
<1>1. 2 * k <= n
  BY DEF Stays
<1>2. m \in 1..n /\ m > k /\ IsChild(m, k)
  BY <1>1, FirstChildComesFirst
<1>3. q \in [1..n -> DOMAIN E]
  <2> HIDE DEF m
  <2> QED
    BY <1>2, Swapped
<1>4. ASSUME NEW d \in Nat, n - k <= d + 1 PROVE <<q, m>> \in Deep(E, n, d)
  <2> HIDE DEF q, m
  <2>1. n - m <= d
    BY <1>2, <1>4
  <2> QED
    BY <1>2, <1>3, <2>1 DEF Deep
<1> QED
  BY <1>2, <1>3, <1>4

LEMMA SiftsToExist ==
  ASSUME NEW E, IsList(E), NEW n \in Nat, NEW d \in Nat
  PROVE  \E f : SiftsTo(E, n, d, f)
<1> DEFINE Missing == {k \in Nat : ~ \E f : SiftsTo(E, n, k, f)}
<1>1. SUFFICES ASSUME Missing # {} PROVE FALSE
  OBVIOUS
<1>2. PICK k \in Missing : \A j \in Missing : k <= j
  <2> HIDE DEF Missing
  <2>1. Missing \subseteq Nat
    BY DEF Missing
  <2> QED
    BY <1>1, <2>1, SmallestNat
<1> DEFINE To(s) == <<Swap(s[1], s[2], FirstChild(E, s[1], s[2])), FirstChild(E, s[1], s[2])>>
<1>3. \A j \in Nat : \A s \in Deep(E, n, j) :
        /\ s[1] \in [1..n -> DOMAIN E] /\ s[2] \in 1..n /\ n - s[2] <= j
        /\ s[2] = n => Stays(E, s[1], n, s[2])
  BY DEF Deep, Stays
<1>4. CASE k = 0
  <2> DEFINE f == [s \in Deep(E, n, 0) |-> s[1]]
  <2>1. \A s \in Deep(E, n, 0) : Stays(E, s[1], n, s[2])
    BY <1>3
  <2>2. f = [s \in Deep(E, n, 0) |-> IF Stays(E, s[1], n, s[2]) THEN s[1] ELSE f[To(s)]]
    BY <2>1
  <2>3. SiftsTo(E, n, 0, f)
    BY <2>2 DEF SiftsTo
  <2> QED
    BY <1>4, <2>3
<1>5. CASE k # 0
  <2>1. k - 1 \in Nat /\ ~(k <= k - 1)
    BY <1>5
  <2>2. PICK g : SiftsTo(E, n, k - 1, g)
    BY <1>2, <2>1
  <2> HIDE DEF To
  <2> DEFINE f == [s \in Deep(E, n, k) |-> IF Stays(E, s[1], n, s[2]) THEN s[1] ELSE g[To(s)]]
  <2>3. \A s \in Deep(E, n, k - 1) : s \in Deep(E, n, k) /\ f[s] = g[s]
    <3>1. \A s \in Deep(E, n, k - 1) : s \in Deep(E, n, k)
      BY <2>1 DEF Deep
    <3>2. g = [s \in Deep(E, n, k - 1) |-> IF Stays(E, s[1], n, s[2]) THEN s[1] ELSE g[To(s)]]
      BY <2>2 DEF SiftsTo, To
    <3> QED
      BY <3>1, <3>2
  <2>4. \A s \in Deep(E, n, k) : ~Stays(E, s[1], n, s[2]) => To(s) \in Deep(E, n, k - 1)
    BY <1>3, <2>1, NextProblem DEF To
  <2>5. \A s \in Deep(E, n, k) : ~Stays(E, s[1], n, s[2]) => f[To(s)] = g[To(s)]
    BY <2>3, <2>4
  <2>6. f = [s \in Deep(E, n, k) |-> IF Stays(E, s[1], n, s[2]) THEN s[1] ELSE f[To(s)]]
    <3> HIDE DEF f
    <3>1. f = [s \in Deep(E, n, k) |-> IF Stays(E, s[1], n, s[2]) THEN s[1] ELSE g[To(s)]]
      BY DEF f
    <3> QED
      BY <2>5, <3>1
  <2>7. SiftsTo(E, n, k, f)
    BY <2>6 DEF SiftsTo, To
  <2> QED
    BY <1>2, <2>7
<1> QED
  BY <1>4, <1>5

LEMMA SiftDownSifts ==
  ASSUME NEW E, IsList(E), NEW n \in Nat, NEW p \in [1..n -> DOMAIN E], NEW k \in 1..n
  PROVE  \E f : Sifts(E, n, f) /\ SiftDown(E, p, k) = f[<<p, k>>]
<1>1. Deep(E, n, n) = [1..n -> DOMAIN E] \X (1..n)
  BY DEF Deep
<1>2. PICK g : SiftsTo(E, n, n, g)
  BY SiftsToExist
<1>3. Sifts(E, n, g)
  BY <1>1, <1>2 DEF Sifts, SiftsTo
<1> DEFINE f == CHOOSE h : Sifts(E, n, h)
<1>4. Sifts(E, n, f)
  BY <1>3
<1>5. Len(p) = n
  BY LengthOf
<1>6. SiftDown(E, p, k) = (CHOOSE h : Sifts(E, Len(p), h))[<<p, k>>]
  BY DEF SiftDown, Sifts, Stays
<1>7. SiftDown(E, p, k) = f[<<p, k>>]
  BY <1>5, <1>6
<1> QED
  BY <1>4, <1>7

\* One step of SiftDown moves the hole from k to the child that comes first.
LEMMA HoleMoves ==
  ASSUME NEW E, IsList(E), NEW n \in Nat, NEW p \in [1..n -> DOMAIN E], NEW j \in Nat \ {0},
         NEW k \in 1..n, k >= j, HeapBut(E, p, n, j, k)
  PROVE  /\ Stays(E, p, n, k) => Heap(E, p, n, j)
         /\ ~Stays(E, p, n, k) =>
              LET m == FirstChild(E, p, k) IN HeapBut(E, Swap(p, k, m), n, j, m)
<1>1. \A a \in 1..n : E[p[a]] \in Arrival
  BY ListOf
<1>2. \A a, b, c \in 1..n :
        /\ Precedes(E[p[a]], E[p[b]]) \/ Precedes(E[p[b]], E[p[a]])
        /\ Precedes(E[p[a]], E[p[b]]) /\ Precedes(E[p[b]], E[p[c]]) => Precedes(E[p[a]], E[p[c]])
  BY <1>1, PrecedesOrders
<1>3. CASE 2 * k > n
  <2>1. \A c \in 1..n : ~IsChild(c, k)
    BY <1>3 DEF IsChild
  <2> QED
    BY <1>3, <2>1 DEF HeapBut, Heap, Stays
<1>4. CASE 2 * k <= n
  <2> DEFINE m == FirstChild(E, p, k)
             q == Swap(p, k, m)
  <2>1. /\ m \in 1..n /\ m > k /\ IsChild(m, k) /\ m # k
        /\ \A c \in 1..n : IsChild(c, k) => Precedes(E[p[m]], E[p[c]])
    BY <1>4, FirstChildComesFirst
  <2>2. Stays(E, p, n, k) <=> Precedes(E[p[k]], E[p[m]])
    BY <1>4 DEF Stays
  <2>3. q \in [1..n -> DOMAIN E] /\ q[k] = p[m] /\ q[m] = p[k] /\ \A c \in 1..n : c # k /\ c # m => q[c] = p[c]
    <3> HIDE DEF m
    <3>1. m \in 1..n /\ k # m
      BY <2>1
    <3>2. q \in [1..n -> DOMAIN E]
      BY <3>1, Swapped
    <3>3. q[k] = p[m] /\ q[m] = p[k] /\ \A c \in 1..n : c # k /\ c # m => q[c] = p[c]
      BY <3>1 DEF Swap
    <3> QED
      BY <3>2, <3>3
  <2> HIDE DEF m, q
  <2>4. ASSUME Stays(E, p, n, k) PROVE Heap(E, p, n, j)
    BY <1>2, <2>1, <2>2, <2>4 DEF Heap, HeapBut
  <2>5. ASSUME ~Stays(E, p, n, k) PROVE HeapBut(E, q, n, j, m)
    <3>1. ASSUME NEW a \in 1..n, NEW c \in 1..n, a >= j, a # m, IsChild(c, a)
          PROVE  Precedes(E[q[a]], E[q[c]])
      <4>1. CASE a = k /\ c = m
        BY <1>2, <2>1, <2>2, <2>3, <2>5, <4>1
      <4>2. CASE a = k /\ c # m
        <5>1. c # k
          BY <3>1, <4>2 DEF IsChild
        <5> QED
          BY <2>1, <2>3, <3>1, <4>2, <5>1
      <4>3. CASE a # k /\ c = k
        BY <2>1, <2>3, <3>1, <4>3 DEF HeapBut
      <4>4. CASE a # k /\ c # k
        <5>1. c # m
          BY <2>1, <3>1, <4>4 DEF IsChild
        <5> QED
          BY <2>3, <3>1, <4>4, <5>1 DEF HeapBut
      <4> QED
        BY <4>1, <4>2, <4>3, <4>4
    <3>2. ASSUME NEW a \in 1..n, NEW c \in 1..n, a >= j, IsChild(m, a), IsChild(c, m)
          PROVE  Precedes(E[q[a]], E[q[c]])
      <4>1. a = k
        BY <2>1, <3>2 DEF IsChild
      <4>2. c # m /\ c # k
        BY <2>1, <3>2 DEF IsChild
      <4>3. Precedes(E[p[m]], E[p[c]])
        BY <2>1, <3>2 DEF HeapBut
      <4> QED
        BY <2>3, <4>1, <4>2, <4>3
    <3> QED
      BY <3>1, <3>2 DEF HeapBut
  <2> QED
    BY <2>4, <2>5 DEF m, q
<1> QED
  BY <1>3, <1>4

\* SiftDown repairs the heap from j on, and loses and doubles nobody.
LEMMA SiftDownRepairs ==
  ASSUME NEW E, IsList(E), NEW n \in Nat, NEW S \in SUBSET DOMAIN E, NEW p, HoldsEach(p, n, S),
         NEW j \in Nat \ {0}, NEW k \in 1..n, k >= j, HeapBut(E, p, n, j, k)
  PROVE  HoldsEach(SiftDown(E, p, k), n, S) /\ Heap(E, SiftDown(E, p, k), n, j)
<1>1. \A q : HoldsEach(q, n, S) => q \in [1..n -> S] /\ q \in [1..n -> DOMAIN E]
  BY DEF HoldsEach
<1>2. PICK f : Sifts(E, n, f) /\ SiftDown(E, p, k) = f[<<p, k>>]
  BY <1>1, SiftDownSifts
<1> DEFINE Right(q) == HoldsEach(q, n, S) /\ Heap(E, q, n, j)
           Asked(q, i) == HoldsEach(q, n, S) /\ i >= j /\ HeapBut(E, q, n, j, i)
           Wrong == {d \in Nat : \E i \in 1..n : \E q : d = n - i /\ Asked(q, i) /\ ~Right(f[<<q, i>>])}
<1>3. SUFFICES ASSUME Wrong # {} PROVE FALSE
  <2>1. n - k \in Nat /\ Asked(p, k)
    OBVIOUS
  <2> HIDE DEF Asked, Right
  <2>2. ~Right(f[<<p, k>>]) => n - k \in Wrong
    BY <2>1
  <2> USE DEF Asked, Right
  <2> QED
    BY <1>2, <2>2
<1>4. PICK d \in Wrong : \A e \in Wrong : d <= e
  <2> HIDE DEF Wrong
  <2>1. Wrong \subseteq Nat
    BY DEF Wrong
  <2> QED
    BY <1>3, <2>1, SmallestNat
<1> HIDE DEF Right, Asked
<1>5. PICK i \in 1..n : \E q : d = n - i /\ Asked(q, i) /\ ~Right(f[<<q, i>>])
  BY <1>4
<1>6. PICK q : d = n - i /\ Asked(q, i) /\ ~Right(f[<<q, i>>])
  BY <1>5
<1>7. /\ HoldsEach(q, n, S) /\ i >= j /\ HeapBut(E, q, n, j, i)
      /\ q \in [1..n -> S] /\ q \in [1..n -> DOMAIN E]
  BY <1>1, <1>6 DEF Asked
<1> DEFINE m == FirstChild(E, q, i)
<1>8. f[<<q, i>>] = IF Stays(E, q, n, i) THEN q ELSE f[<<Swap(q, i, m), m>>]
  BY <1>2, <1>7 DEF Sifts
<1>9. CASE Stays(E, q, n, i)
  BY <1>6, <1>7, <1>8, <1>9, HoleMoves DEF Right
<1>10. CASE ~Stays(E, q, n, i)
  <2>1. m \in 1..n /\ m > i
    BY <1>7, <1>10, NextProblem
  <2>2. HeapBut(E, Swap(q, i, m), n, j, m)
    BY <1>7, <1>10, HoleMoves
  <2> HIDE DEF m
  <2>3. HoldsEach(Swap(q, i, m), n, S)
    BY <1>7, <2>1, Swapped
  <2>4. Asked(Swap(q, i, m), m)
    BY <1>7, <2>1, <2>2, <2>3 DEF Asked
  <2>5. n - m \in Nat /\ ~(d <= n - m)
    BY <1>6, <2>1
  <2>6. Right(f[<<Swap(q, i, m), m>>])
    BY <1>4, <2>1, <2>4, <2>5
  <2> QED
    BY <1>6, <1>8, <1>10, <2>6
<1> QED
  BY <1>9, <1>10


\* The first of a heap precedes all.
LEMMA FirstOfAll ==
  ASSUME NEW E, IsList(E), NEW n \in Nat, NEW p \in [1..n -> DOMAIN E], Heap(E, p, n, 1), NEW c \in 1..n
  PROVE  Precedes(E[p[1]], E[p[c]])
<1>1. \A a, b, d \in 1..n :
        /\ Precedes(E[p[a]], E[p[b]]) \/ Precedes(E[p[b]], E[p[a]])
        /\ Precedes(E[p[a]], E[p[b]]) /\ Precedes(E[p[b]], E[p[d]]) => Precedes(E[p[a]], E[p[d]])
  <2>1. \A a \in 1..n : E[p[a]] \in Arrival
    BY ListOf
  <2> QED
    BY <2>1, PrecedesOrders
<1> DEFINE Wrong == {d \in Nat : d \in 1..n /\ ~Precedes(E[p[1]], E[p[d]])}
<1>2. SUFFICES ASSUME Wrong # {} PROVE FALSE
  OBVIOUS
<1>3. PICK d \in Wrong : \A e \in Wrong : d <= e
  <2> HIDE DEF Wrong
  <2>1. Wrong \subseteq Nat
    BY DEF Wrong
  <2> QED
    BY <1>2, <2>1, SmallestNat
<1>4. d \in 1..n /\ d # 1
  BY <1>1, <1>3
<1>5. PICK a \in Nat : d = 2 * a \/ d = 2 * a + 1
  <2>1. d \div 2 \in Nat /\ (d = 2 * (d \div 2) \/ d = 2 * (d \div 2) + 1)
    BY <1>4
  <2> QED
    BY <2>1
<1>6. a \in 1..n /\ a >= 1 /\ IsChild(d, a) /\ ~(d <= a)
  BY <1>4, <1>5 DEF IsChild
<1>7. Precedes(E[p[1]], E[p[a]])
  BY <1>3, <1>6
<1>8. Precedes(E[p[a]], E[p[d]])
  BY <1>4, <1>6 DEF Heap
<1>9. 1 \in 1..n
  BY <1>4
<1> QED
  BY <1>1, <1>3, <1>4, <1>6, <1>7, <1>8, <1>9

\* What is left of a heap without its last is one, and with another first it is but for that.
LEMMA deleventKeepsHeap ==
  ASSUME NEW E, IsList(E), NEW n \in Nat \ {0}, NEW S \in SUBSET DOMAIN E, NEW q, HoldsEach(q, n, S),
         Heap(E, q, n, 1)
  PROVE  /\ HoldsEach(delevent(E, q), n - 1, S \ {q[1]})
         /\ Heap(E, delevent(E, q), n - 1, 1)
<1>1. q \in [1..n -> S] /\ Len(q) = n /\ q \in Seq(S) /\ 1 \in 1..n /\ n \in 1..n
  BY LengthOf DEF HoldsEach
<1>2. CASE n = 1
  <2>1. delevent(E, q) = <<>>
    BY <1>1, <1>2 DEF delevent
  <2>2. S \ {q[1]} = {}
    BY <1>1, <1>2 DEF HoldsEach
  <2>3. <<>> \in [1..0 -> S \ {q[1]}]
    BY LenProperties, EmptySeq
  <2>4. 1..(n - 1) = {} /\ n - 1 = 0
    BY <1>2
  <2> QED
    BY <2>1, <2>2, <2>3, <2>4 DEF HoldsEach, Heap
<1>3. CASE n # 1
  <2> DEFINE T == S \ {q[1]}
             r == [SubSeq(q, 1, Len(q) - 1) EXCEPT ![1] = q[Len(q)]]
  <2>1. n - 1 \in Nat \ {0} /\ 1 \in 1..(n - 1)
    BY <1>3
  <2>2. /\ DOMAIN r = 1..(n - 1) /\ r[1] = q[n]
        /\ \A c \in 1..(n - 1) : c # 1 => r[c] = q[c]
    <3>1. /\ SubSeq(q, 1, n - 1) \in Seq(S)
          /\ Len(SubSeq(q, 1, n - 1)) = n - 1
          /\ \A c \in 1..(n - 1) : SubSeq(q, 1, n - 1)[c] = q[c]
      BY <1>1, <2>1, SubSeqProperties
    <3>2. DOMAIN SubSeq(q, 1, n - 1) = 1..(n - 1)
      BY <3>1, LenProperties
    <3> QED
      BY <1>1, <2>1, <3>1, <3>2
  <2>3. r = [c \in 1..(n - 1) |-> r[c]]
    <3>1. r = [c \in DOMAIN SubSeq(q, 1, Len(q) - 1) |-> IF c = 1 THEN q[Len(q)] ELSE SubSeq(q, 1, Len(q) - 1)[c]]
      OBVIOUS
    <3> QED
      BY <2>2, <3>1
  <2> HIDE DEF r
  <2>4. \A c \in 1..(n - 1) : r[c] \in T
    BY <1>1, <1>3, <2>1, <2>2 DEF HoldsEach
  <2>5. r \in [1..(n - 1) -> T]
    BY <2>3, <2>4
  <2>6. \A a, b \in 1..(n - 1) : r[a] = r[b] => a = b
    BY <1>1, <2>1, <2>2 DEF HoldsEach
  <2>7. ASSUME NEW x \in T PROVE \E a \in 1..(n - 1) : r[a] = x
    <3>1. PICK a \in 1..n : q[a] = x
      BY DEF HoldsEach
    <3>2. a # 1
      BY <3>1
    <3>3. CASE a = n
      BY <2>1, <2>2, <3>1, <3>3
    <3>4. CASE a # n
      <4>1. a \in 1..(n - 1)
        BY <3>4
      <4> QED
        BY <2>2, <3>1, <3>2, <4>1
    <3> QED
      BY <3>3, <3>4
  <2>8. HoldsEach(r, n - 1, T)
    BY <2>5, <2>6, <2>7 DEF HoldsEach
  <2>9. HeapBut(E, r, n - 1, 1, 1)
    <3>1. ASSUME NEW a \in 1..(n - 1), NEW c \in 1..(n - 1), a # 1, IsChild(c, a)
          PROVE  Precedes(E[r[a]], E[r[c]])
      <4>1. c # 1 /\ a \in 1..n /\ c \in 1..n /\ a >= 1
        BY <3>1 DEF IsChild
      <4>2. r[a] = q[a] /\ r[c] = q[c]
        BY <2>2, <3>1, <4>1
      <4> QED
        BY <3>1, <4>1, <4>2 DEF Heap
    <3>2. \A a \in 1..(n - 1) : ~IsChild(1, a)
      BY DEF IsChild
    <3> QED
      BY <3>1, <3>2 DEF HeapBut
  <2>10. T \in SUBSET DOMAIN E
    OBVIOUS
  <2>11. HoldsEach(SiftDown(E, r, 1), n - 1, T) /\ Heap(E, SiftDown(E, r, 1), n - 1, 1)
    <3> HIDE DEF T
    <3>1. 1 \in Nat \ {0} /\ 1 >= 1 /\ n - 1 \in Nat
      BY <2>1
    <3> QED
      BY <2>1, <2>8, <2>9, <2>10, <3>1, SiftDownRepairs
  <2>12. delevent(E, q) = SiftDown(E, r, 1)
    BY <1>1, <1>3 DEF delevent, r
  <2> QED
    BY <2>11, <2>12
<1> QED
  BY <1>2, <1>3

\* initEQ, from the last inner node to the first.
Builds(E, n, i, h) ==
  h = [j \in i..n + 1 |-> IF j > n \div 2 THEN [a \in 1..n |-> a] ELSE SiftDown(E, h[j + 1], j)]

LEMMA BuildsExist ==
  ASSUME NEW E, NEW n \in Nat, NEW d \in Nat, d <= n
  PROVE  \E h : Builds(E, n, n + 1 - d, h)
<1> DEFINE Missing == {k \in Nat : k <= n /\ ~ \E h : Builds(E, n, n + 1 - k, h)}
<1>1. SUFFICES ASSUME Missing # {} PROVE FALSE
  OBVIOUS
<1>2. PICK k \in Missing : \A j \in Missing : k <= j
  <2> HIDE DEF Missing
  <2>1. Missing \subseteq Nat
    BY DEF Missing
  <2> QED
    BY <1>1, <2>1, SmallestNat
<1> DEFINE i == n + 1 - k
           id == [a \in 1..n |-> a]
<1>3. k \in Nat /\ k <= n /\ i \in 1..n + 1
  BY <1>2
<1>4. CASE k = 0
  <2> DEFINE h == [j \in i..n + 1 |-> id]
  <2>1. \A j \in i..n + 1 : j > n \div 2
    BY <1>4
  <2>2. h = [j \in i..n + 1 |-> IF j > n \div 2 THEN id ELSE SiftDown(E, h[j + 1], j)]
    BY <2>1
  <2>3. Builds(E, n, i, h)
    BY <2>2 DEF Builds
  <2> QED
    BY <1>2, <2>3
<1>5. CASE k # 0
  <2>1. k - 1 \in Nat /\ k - 1 <= n /\ ~(k <= k - 1) /\ n + 1 - (k - 1) = i + 1
    BY <1>3, <1>5
  <2>2. PICK g : Builds(E, n, i + 1, g)
    BY <1>2, <2>1
  <2> HIDE DEF i, id
  <2> DEFINE h == [j \in i..n + 1 |-> IF j > n \div 2 THEN id ELSE SiftDown(E, g[j + 1], j)]
  <2>3. \A j \in i + 1..n + 1 : j \in i..n + 1 /\ h[j] = g[j]
    <3>1. \A j \in i + 1..n + 1 : j \in i..n + 1
      BY <1>3
    <3>2. g = [j \in i + 1..n + 1 |-> IF j > n \div 2 THEN id ELSE SiftDown(E, g[j + 1], j)]
      BY <2>2 DEF Builds, id
    <3> QED
      BY <3>1, <3>2
  <2>4. \A j \in i..n + 1 : ~(j > n \div 2) => j + 1 \in i + 1..n + 1
    BY <1>3
  <2>5. \A j \in i..n + 1 : ~(j > n \div 2) => h[j + 1] = g[j + 1]
    BY <2>3, <2>4
  <2>6. h = [j \in i..n + 1 |-> IF j > n \div 2 THEN id ELSE SiftDown(E, h[j + 1], j)]
    <3> HIDE DEF h
    <3>1. h = [j \in i..n + 1 |-> IF j > n \div 2 THEN id ELSE SiftDown(E, g[j + 1], j)]
      BY DEF h
    <3> QED
      BY <2>5, <3>1
  <2>7. Builds(E, n, i, h)
    BY <2>6 DEF Builds, id
  <2> QED
    BY <1>2, <2>7 DEF i
<1> QED
  BY <1>4, <1>5

LEMMA initEQIsHeap ==
  ASSUME NEW n \in Nat, NEW E \in [1..n -> Arrival]
  PROVE  HoldsEach(initEQ(E), n, 1..n) /\ Heap(E, initEQ(E), n, 1)
<1>1. IsList(E) /\ Len(E) = n /\ DOMAIN E = 1..n
  BY LengthOf DEF IsList
<1> DEFINE h == CHOOSE g : Builds(E, n, 1, g)
<1>2. Builds(E, n, 1, h)
  <2>1. \E g : Builds(E, n, 1, g)
    <3>1. n <= n /\ n + 1 - n = 1
      OBVIOUS
    <3>2. \E g : Builds(E, n, n + 1 - n, g)
      BY <3>1, BuildsExist
    <3> QED
      BY <3>1, <3>2
  <2> QED
    BY <2>1
<1>3. initEQ(E) = h[1]
  <2>1. initEQ(E) = (CHOOSE g : Builds(E, Len(E), 1, g))[1]
    BY DEF initEQ, Builds
  <2> QED
    BY <1>1, <2>1
<1> HIDE DEF h
<1> DEFINE Right(j) == HoldsEach(h[j], n, 1..n) /\ Heap(E, h[j], n, j)
           Wrong == {d \in Nat : \E j \in 1..n + 1 : d = n + 1 - j /\ ~Right(j)}
<1>4. SUFFICES ASSUME Wrong # {} PROVE FALSE
  <2>1. ~Right(1) => n \in Wrong
    <3> HIDE DEF Right
    <3>1. 1 \in 1..n + 1 /\ n = n + 1 - 1
      OBVIOUS
    <3> QED
      BY <3>1
  <2> QED
    BY <1>3, <2>1
<1>5. PICK d \in Wrong : \A e \in Wrong : d <= e
  <2> HIDE DEF Wrong
  <2>1. Wrong \subseteq Nat
    BY DEF Wrong
  <2> QED
    BY <1>4, <2>1, SmallestNat
<1> HIDE DEF Right
<1>6. PICK j \in 1..n + 1 : d = n + 1 - j /\ ~Right(j)
  BY <1>5
<1>7. h[j] = IF j > n \div 2 THEN [a \in 1..n |-> a] ELSE SiftDown(E, h[j + 1], j)
  BY <1>2 DEF Builds
<1>8. CASE j > n \div 2
  <2>1. HoldsEach([a \in 1..n |-> a], n, 1..n)
    BY DEF HoldsEach
  <2>2. \A a, c \in 1..n : a >= j => ~IsChild(c, a)
    BY <1>8 DEF IsChild
  <2> QED
    BY <1>6, <1>7, <1>8, <2>1, <2>2 DEF Right, Heap
<1>9. CASE ~(j > n \div 2)
  <2>1. j \in 1..n /\ j + 1 \in 1..n + 1 /\ n + 1 - (j + 1) \in Nat /\ ~(d <= n + 1 - (j + 1))
    BY <1>6, <1>9
  <2>2. Right(j + 1)
    BY <1>5, <2>1
  <2>3. HoldsEach(h[j + 1], n, 1..n) /\ Heap(E, h[j + 1], n, j + 1)
    BY <2>2 DEF Right
  <2>4. HeapBut(E, h[j + 1], n, j, j)
    <3>1. \A a \in 1..n : a >= j /\ a # j => a >= j + 1
      BY <2>1
    <3>2. \A a \in 1..n : a >= j => ~IsChild(j, a)
      BY <2>1 DEF IsChild
    <3> QED
      BY <2>3, <3>1, <3>2 DEF HeapBut, Heap
  <2>5. HoldsEach(SiftDown(E, h[j + 1], j), n, 1..n) /\ Heap(E, SiftDown(E, h[j + 1], j), n, j)
    <3>1. j \in Nat \ {0} /\ j >= j /\ 1..n \in SUBSET DOMAIN E
      BY <1>1
    <3> QED
      BY <1>1, <2>1, <2>3, <2>4, <3>1, SiftDownRepairs
  <2> QED
    BY <1>6, <1>7, <1>9, <2>5 DEF Right
<1> QED
  BY <1>8, <1>9

-----------------------------------------------------------------------------
(* The parts of the invariant of the whole day.                            *)

\* The queue is a heap of the visitors that have not arrived, each once; those that
\* have are in the totals.
QueueInv == /\ HoldsEach(queue, Len(queue), Queued)
            /\ queue \in Seq(DOMAIN day)
            /\ Heap(day, queue, Len(queue), 1)
            /\ TOTAL \in [Kinds -> Nat]
            /\ Cardinality(Queued) + TOTAL["P"] + TOTAL["R"] + TOTAL["S"] = Len(day)

\* Of a kind, those that wait and have not been called.
Waiting(k) == {v \in DOMAIN day : day[v].type = k /\ vpc[v] \in {"lock", "asleep"}}

Counted(k) == /\ SLEEP[k] => Cardinality(Waiting(k)) = CUR[k]
              /\ ~SLEEP[k] => Cardinality(Waiting(k)) = CUR[k] + 1

\* The visitors that wait are the ones counted and the one called; who is in the
\* queue has no thread yet, and no other numbers ever get one.
WaitInv == /\ CUR \in [Kinds -> Int]
           /\ \A k \in Kinds : Counted(k)
           /\ \A v \in Visitors : v \in Queued \/ v \notin DOMAIN day => vpc[v] = "none"

\* When the doctor has left, it was with the quotas reached and nobody there.
LeaveInv == /\ SESSION \in 0..2
            /\ SESSION = 2 => QuotaReached /\ \A v \in Visitors : ~Started(v)

\* The visitors of a kind that were started are all that came, up to the quota.
LetIn(k) == {v \in DOMAIN day : day[v].type = k /\ vpc[v] # "none"}
QuotaOf(k) == IF k = "P" THEN PatientQuota ELSE SalesQuota
RoomInv == \A k \in {"P", "S"} :
  Cardinality(LetIn(k)) = IF TOTAL[k] < QuotaOf(k) THEN TOTAL[k] ELSE QuotaOf(k)

\* Before the session the doctor sleeps and the time is 0; nobody is started early.
TimeInv == /\ cur_time \in Int
           /\ SLEEPING \in BOOLEAN
           /\ SESSION = 0 => SLEEPING /\ dpc \in {"lock", "asleep"} /\ cur_time = 0
           /\ \A v \in DOMAIN day : Started(v) => day[v].time <= cur_time

\* From the assistant's wake-up to the call, everybody that has arrived is started.
Woke == ~SLEEPING \/ dpc \in {"decide", "call"}
CallInv == /\ ~SLEEPING => dpc \in {"lock", "gone"} /\ ASSIST_SLEEP /\ apc \in {"lock", "asleep"}
           /\ Woke => \A v \in Queued : day[v].time > cur_time

-----------------------------------------------------------------------------
(* The queue.                                                              *)

LEMMA DayIsList ==
  ASSUME NEW d \in Days
  PROVE  /\ IsList(d) /\ Len(d) \in Nat /\ d \in [1..Len(d) -> Arrival] /\ DOMAIN d = 1..Len(d)
         /\ IsFiniteSet(DOMAIN d) /\ Cardinality(DOMAIN d) = Len(d)
<1>1. PICK n \in 0..N : d \in [1..n -> Arrival]
  BY DaysAssumption
<1>2. n \in Nat
  BY DaysAssumption
<1>3. Len(d) = n
  BY <1>1, <1>2, LengthOf
<1>4. IsFiniteSet(1..n) /\ Cardinality(1..n) = n
  BY <1>2, FS_Interval
<1> QED
  BY <1>1, <1>2, <1>3, <1>4 DEF IsList

LEMMA HeldInAll ==
  ASSUME NEW q, NEW n \in Nat, NEW S, HoldsEach(q, n, S)
  PROVE  /\ q \in Seq(S) /\ Len(q) = n /\ DOMAIN q = 1..n
         /\ {q[i] : i \in DOMAIN q} = S
         /\ IsFiniteSet(S) /\ Cardinality(S) = n
<1>1. q \in [1..n -> S] /\ DOMAIN q = 1..n
  BY DEF HoldsEach
<1>2. {q[i] : i \in DOMAIN q} = S
  BY <1>1 DEF HoldsEach
<1>3. ExistsBijection(1..n, S)
  <2>1. q \in Bijection(1..n, S)
    BY <1>1 DEF HoldsEach, Bijection, Injection, Surjection, IsInjective
  <2> QED
    BY <2>1 DEF ExistsBijection
<1>4. IsFiniteSet(S) /\ Cardinality(S) = n
  BY <1>3, FS_CountingElements, FS_NatBijection
<1>5. q \in Seq(S) /\ Len(q) = n
  BY <1>1, LengthOf
<1> QED
  BY <1>1, <1>2, <1>4, <1>5

LEMMA QueueInvInit == Init => QueueInv
<1> SUFFICES ASSUME Init PROVE QueueInv
  OBVIOUS
<1> DEFINE n == Len(day)
<1>1. day \in Days /\ queue = initEQ(day) /\ TOTAL = [k \in Kinds |-> 0]
  BY DEF Init
<1>2. n \in Nat /\ day \in [1..n -> Arrival] /\ DOMAIN day = 1..n /\ Cardinality(DOMAIN day) = n
  BY <1>1, DayIsList
<1> HIDE DEF n
<1>3. HoldsEach(queue, n, 1..n) /\ Heap(day, queue, n, 1)
  BY <1>1, <1>2, initEQIsHeap
<1>4. Len(queue) = n /\ Queued = 1..n
  BY <1>2, <1>3, HeldInAll DEF Queued
<1>5. TOTAL \in [Kinds -> Nat] /\ TOTAL["P"] = 0 /\ TOTAL["R"] = 0 /\ TOTAL["S"] = 0
  BY <1>1 DEF Kinds
<1>6. Cardinality(Queued) + TOTAL["P"] + TOTAL["R"] + TOTAL["S"] = n
  BY <1>2, <1>4, <1>5
<1>7. queue \in Seq(DOMAIN day)
  BY <1>2, <1>3, HeldInAll
<1> QED
  BY <1>2, <1>3, <1>4, <1>5, <1>6, <1>7 DEF QueueInv, n

\* The visitor on top is one of those queued, and comes before all of them.
LEMMA TopIsFirst ==
  ASSUME day \in Days, QueueInv
  PROVE  /\ Len(queue) \in Nat /\ Queued \subseteq DOMAIN day
         /\ IsFiniteSet(Queued) /\ Cardinality(Queued) = Len(queue)
         /\ queue # <<>> => Len(queue) # 0 /\ queue[1] \in Queued
         /\ \A v \in Queued : queue # <<>> /\ Precedes(ev, day[v])
<1> DEFINE n == Len(queue)
<1>1. HoldsEach(queue, n, Queued) /\ queue \in Seq(DOMAIN day) /\ Heap(day, queue, n, 1) /\ IsList(day)
  BY DayIsList DEF QueueInv
<1>2. n \in Nat /\ queue \in [1..n -> DOMAIN day] /\ DOMAIN queue = 1..n
  BY <1>1, LenProperties
<1>3. Queued \subseteq DOMAIN day
  BY <1>2 DEF Queued
<1>4. IsFiniteSet(Queued) /\ Cardinality(Queued) = n
  BY <1>1, <1>2, HeldInAll
<1>5. queue # <<>> <=> n # 0
  BY <1>1, EmptySeq
<1>6. \A i \in 1..n : queue[i] \in Queued
  BY <1>2 DEF Queued
<1>7. n # 0 => queue[1] \in Queued
  BY <1>2, <1>6
<1>8. ASSUME NEW v \in Queued PROVE queue # <<>> /\ Precedes(ev, day[v])
  <2>1. PICK i \in 1..n : v = queue[i]
    BY <1>2 DEF Queued
  <2>2. n # 0
    BY <1>2, <2>1
  <2>3. Precedes(day[queue[1]], day[queue[i]])
    <3> HIDE DEF n
    <3> QED
      BY <1>1, <1>2, <2>1, FirstOfAll
  <2> QED
    BY <1>5, <2>1, <2>2, <2>3 DEF ev
<1> QED
  BY <1>2, <1>3, <1>4, <1>5, <1>7, <1>8

LEMMA OrderFromInv == day \in Days /\ QueueInv => QueueInOrder
BY TopIsFirst DEF QueueInv, QueueInOrder

\* Admit takes the first of the queue, and Drain all of it; nobody else touches it.
LEMMA AdmitTakes ==
  ASSUME day \in Days, QueueInv, Admit
  PROVE  QueueInv' /\ Queued' = Queued \ {queue[1]} /\ queue[1] \in Queued
<1> DEFINE n == Len(queue)
           w == queue[1]
           k == ev.type
<1>1. day' = day /\ queue # <<>> /\ queue' = delevent(day, queue) /\ TOTAL' = [TOTAL EXCEPT ![k] = @ + 1]
  BY DEF Admit
<1>2. /\ n \in Nat \ {0} /\ w \in Queued /\ Queued \in SUBSET DOMAIN day
      /\ IsFiniteSet(Queued) /\ Cardinality(Queued) = n
  BY <1>1, TopIsFirst
<1>3. IsList(day) /\ HoldsEach(queue, n, Queued) /\ Heap(day, queue, n, 1)
  BY DayIsList DEF QueueInv
<1>4. HoldsEach(queue', n - 1, Queued \ {w}) /\ Heap(day, queue', n - 1, 1)
  <2> HIDE DEF n
  <2> QED
    BY <1>1, <1>2, <1>3, deleventKeepsHeap
<1>5. n - 1 \in Nat
  BY <1>2
<1>6. /\ queue' \in Seq(Queued \ {w}) /\ Len(queue') = n - 1 /\ Queued' = Queued \ {w}
      /\ Cardinality(Queued \ {w}) = n - 1
  <2> HIDE DEF n
  <2> QED
    BY <1>4, <1>5, HeldInAll DEF Queued
<1>7. queue' \in Seq(DOMAIN day')
  <2>1. queue' \in [1..(n - 1) -> DOMAIN day]
    BY <1>2, <1>4 DEF HoldsEach
  <2> QED
    BY <1>1, <1>5, <2>1, LengthOf
<1>8. /\ TOTAL' \in [Kinds -> Nat]
      /\ TOTAL'["P"] + TOTAL'["R"] + TOTAL'["S"] = TOTAL["P"] + TOTAL["R"] + TOTAL["S"] + 1
  <2>1. k \in Kinds
    BY <1>2, ArrivalsAreVisitors DEF ev
  <2>2. TOTAL \in [Kinds -> Nat]
    BY DEF QueueInv
  <2> HIDE DEF k
  <2> QED
    BY <1>1, <2>1, <2>2 DEF Kinds
<1>9. Cardinality(Queued') + TOTAL'["P"] + TOTAL'["R"] + TOTAL'["S"] = Len(day')
  <2>1. Cardinality(Queued) + TOTAL["P"] + TOTAL["R"] + TOTAL["S"] = Len(day) /\ TOTAL \in [Kinds -> Nat]
    BY DEF QueueInv
  <2>2. \A j \in Kinds : TOTAL[j] \in Nat /\ TOTAL'[j] \in Nat
    BY <1>8, <2>1
  <2>3. "P" \in Kinds /\ "R" \in Kinds /\ "S" \in Kinds
    BY DEF Kinds
  <2>4. Len(day) \in Nat
    BY DayIsList
  <2>5. Cardinality(Queued') = Cardinality(Queued) - 1 /\ Cardinality(Queued) \in Nat
    BY <1>2, <1>6
  <2>6. TOTAL'["P"] + TOTAL'["R"] + TOTAL'["S"] = TOTAL["P"] + TOTAL["R"] + TOTAL["S"] + 1
    BY <1>8
  <2>7. Len(day') = Len(day)
    BY <1>1
  <2>8. /\ TOTAL["P"] \in Nat /\ TOTAL["R"] \in Nat /\ TOTAL["S"] \in Nat
        /\ TOTAL'["P"] \in Nat /\ TOTAL'["R"] \in Nat /\ TOTAL'["S"] \in Nat
    BY <2>2, <2>3
  <2>9. \A c, x, y, z, p, r, s \in Nat :
          x + y + z = p + r + s + 1 /\ c + p + r + s = Len(day) => (c - 1) + x + y + z = Len(day)
    BY <2>4
  <2>10. (Cardinality(Queued) - 1) + TOTAL'["P"] + TOTAL'["R"] + TOTAL'["S"] = Len(day)
    <3> DEFINE c == Cardinality(Queued)
               x == TOTAL'["P"]
               y == TOTAL'["R"]
               z == TOTAL'["S"]
               p == TOTAL["P"]
               r == TOTAL["R"]
               s == TOTAL["S"]
    <3>1. c \in Nat /\ x \in Nat /\ y \in Nat /\ z \in Nat /\ p \in Nat /\ r \in Nat /\ s \in Nat
      BY <2>5, <2>8
    <3>2. x + y + z = p + r + s + 1 /\ c + p + r + s = Len(day)
      BY <2>1, <2>6
    <3> HIDE DEF c, x, y, z, p, r, s
    <3>3. (c - 1) + x + y + z = Len(day)
      BY <2>9, <3>1, <3>2
    <3> QED
      BY <3>3 DEF c, x, y, z, p, r, s
  <2> QED
    BY <2>5, <2>7, <2>10
<1> QED
  BY <1>1, <1>2, <1>4, <1>6, <1>7, <1>8, <1>9 DEF QueueInv

LEMMA DrainTakes ==
  ASSUME day \in Days, QueueInv, Drain
  PROVE  QueueInv' /\ Queued' = {}
<1> DEFINE I(k) == {i \in DOMAIN queue : day[queue[i]].type = k}
           n == Len(queue)
<1>1. day' = day /\ queue' = <<>> /\ TOTAL' = [k \in Kinds |-> TOTAL[k] + Cardinality(I(k))]
  BY DEF Drain
<1>2. n \in Nat /\ Cardinality(Queued) = n
  BY TopIsFirst
<1>3. queue \in Seq(DOMAIN day) /\ DOMAIN queue = 1..n
  BY LenProperties DEF QueueInv
<1>4. \A i \in 1..n : day[queue[i]].type \in Kinds
  BY <1>3, ArrivalsAreVisitors
<1>5. IsFiniteSet(1..n) /\ Cardinality(1..n) = n
  <2> HIDE DEF n
  <2> QED
    BY <1>2, FS_Interval
<1>6. \A k \in Kinds : IsFiniteSet(I(k)) /\ Cardinality(I(k)) \in Nat
  BY <1>3, <1>5, FS_Subset, FS_CardinalityType
<1>7. Cardinality(I("P")) + Cardinality(I("R")) + Cardinality(I("S")) = n
  <2> DEFINE A == I("P")
             B == I("R")
             C == I("S")
  <2>1. IsFiniteSet(A) /\ IsFiniteSet(B) /\ IsFiniteSet(C)
        /\ Cardinality(A) \in Nat /\ Cardinality(B) \in Nat /\ Cardinality(C) \in Nat
    <3>1. "P" \in Kinds /\ "R" \in Kinds /\ "S" \in Kinds
      BY DEF Kinds
    <3> QED
      BY <1>6, <3>1
  <2>2. A \cap B = {} /\ (A \cup B) \cap C = {} /\ (A \cup B) \cup C = 1..n
    BY <1>3, <1>4 DEF Kinds
  <2> HIDE DEF A, B, C
  <2>0. Cardinality(A \cap B) = 0 /\ Cardinality((A \cup B) \cap C) = 0
    <3>1. \A S : S = {} => Cardinality(S) = 0
      BY FS_EmptySet
    <3> QED
      BY <2>2, <3>1
  <2>3. IsFiniteSet(A \cup B) /\ Cardinality(A \cup B) = Cardinality(A) + Cardinality(B)
    <3>1. IsFiniteSet(A \cup B) /\ Cardinality(A \cup B) = Cardinality(A) + Cardinality(B) - Cardinality(A \cap B)
      BY <2>1, FS_Union
    <3> QED
      BY ONLY <2>0, <2>1, <3>1
  <2>4. Cardinality((A \cup B) \cup C) = Cardinality(A) + Cardinality(B) + Cardinality(C)
    <3>1. Cardinality((A \cup B) \cup C) = Cardinality(A \cup B) + Cardinality(C) - Cardinality((A \cup B) \cap C)
      BY <2>1, <2>3, FS_Union
    <3> QED
      BY ONLY <2>0, <2>1, <2>3, <3>1
  <2>5. Cardinality(A) + Cardinality(B) + Cardinality(C) = n
    BY <1>5, <2>2, <2>4
  <2> QED
    BY <2>5 DEF A, B, C
<1>8. queue' \in Seq(DOMAIN day') /\ Len(queue') = 0
  BY <1>1, EmptySeq
<1>9. Queued' = {}
  <2>1. DOMAIN queue' = {}
    BY <1>8, LenProperties
  <2> QED
    BY <2>1 DEF Queued
<1>10. HoldsEach(queue', 0, {}) /\ Heap(day, queue', 0, 1)
  <2>1. queue' \in [1..0 -> {}] /\ 1..0 = {}
    BY <1>8, <1>9, LenProperties
  <2> QED
    BY <2>1 DEF HoldsEach, Heap
<1>11. /\ TOTAL' \in [Kinds -> Nat]
       /\ TOTAL'["P"] + TOTAL'["R"] + TOTAL'["S"] = TOTAL["P"] + TOTAL["R"] + TOTAL["S"] + n
  <2>1. TOTAL \in [Kinds -> Nat]
    BY DEF QueueInv
  <2>2. TOTAL' \in [Kinds -> Nat] /\ \A k \in Kinds : TOTAL'[k] = TOTAL[k] + Cardinality(I(k))
    <3> HIDE DEF I
    <3>1. \A k \in Kinds : TOTAL[k] + Cardinality(I(k)) \in Nat
      BY <1>6, <2>1
    <3> QED
      BY <1>1, <3>1
  <2>3. "P" \in Kinds /\ "R" \in Kinds /\ "S" \in Kinds
    BY DEF Kinds
  <2>4. \A k \in Kinds : TOTAL[k] \in Nat
    BY <2>1
  <2> HIDE DEF I, n
  <2> QED
    BY <1>2, <1>6, <1>7, <2>2, <2>3, <2>4
<1>12. Cardinality(Queued') + TOTAL'["P"] + TOTAL'["R"] + TOTAL'["S"] = Len(day')
  <2>1. Cardinality(Queued) + TOTAL["P"] + TOTAL["R"] + TOTAL["S"] = Len(day) /\ TOTAL \in [Kinds -> Nat]
    BY DEF QueueInv
  <2>2. \A j \in Kinds : TOTAL[j] \in Nat /\ TOTAL'[j] \in Nat
    BY <1>11, <2>1
  <2>3. "P" \in Kinds /\ "R" \in Kinds /\ "S" \in Kinds
    BY DEF Kinds
  <2>4. Cardinality(Queued') = 0 /\ Cardinality(Queued) = n /\ Len(day') = Len(day)
    BY <1>1, <1>2, <1>9, FS_EmptySet
  <2> HIDE DEF n
  <2> QED
    BY <1>2, <1>11, <2>1, <2>2, <2>3, <2>4
<1> QED
  BY <1>1, <1>8, <1>9, <1>10, <1>11, <1>12 DEF QueueInv

\* The other steps leave the queue and the totals as they are.
Others == \/ AssistantSleeps \/ ClearFlag \/ Begin \/ WakeDoctor \/ AdvanceTime \/ Doctor
          \/ \E v \in DOMAIN day : Visitor(v)

LEMMA OthersTakeNobody ==
  Others => UNCHANGED <<day, queue, TOTAL>> /\ Queued' = Queued /\ (QueueInv => QueueInv')
<1>1. Others => UNCHANGED <<day, queue, TOTAL>>
  BY DEF Others, AssistantSleeps, ClearFlag, Begin, WakeDoctor, AdvanceTime, Doctor, DoctorLocks,
         DoctorLeaves, DoctorStays, DoctorCalls, DoctorAwaits, DoctorIsDone,
         Visitor, Enter, Visit, EndSession, UnlockKind
<1>2. UNCHANGED <<day, queue, TOTAL>> => Queued' = Queued
  BY DEF Queued
<1>3. UNCHANGED <<day, queue, TOTAL>> /\ QueueInv => QueueInv'
  BY <1>2 DEF QueueInv
<1> QED
  BY <1>1, <1>2, <1>3

LEMMA StepIsOne == [Next]_sessionVars => UNCHANGED sessionVars \/ Others \/ Admit \/ Drain
BY DEF Next, Assistant, Others

LEMMA QueueInvStep == day \in Days /\ QueueInv /\ [Next]_sessionVars => QueueInv'
<1>1. UNCHANGED sessionVars /\ QueueInv => QueueInv'
  BY DEF sessionVars, QueueInv, Queued
<1> QED
  BY <1>1, StepIsOne, OthersTakeNobody, AdmitTakes, DrainTakes

-----------------------------------------------------------------------------
(* Who waits.                                                              *)

LEMMA WaitingIsFinite ==
  ASSUME day \in Days, NEW k
  PROVE  IsFiniteSet(Waiting(k)) /\ Cardinality(Waiting(k)) \in Nat
<1>1. IsFiniteSet(DOMAIN day)
  BY DayIsList
<1>2. Waiting(k) \in SUBSET DOMAIN day
  BY DEF Waiting
<1> QED
  BY <1>1, <1>2, FS_Subset, FS_CardinalityType

\* What a step of one visitor's thread does to those that wait.
LEMMA OneMoves ==
  ASSUME FlagTypeOK, NEW v \in DOMAIN day, NEW pc, day' = day, vpc' = [vpc EXCEPT ![v] = pc]
  PROVE  /\ \A u \in Visitors : u # v => vpc'[u] = vpc[u]
         /\ v \in Visitors /\ vpc'[v] = pc
         /\ (pc \in {"lock", "asleep"} <=> vpc[v] \in {"lock", "asleep"})
              => \A k : Waiting(k)' = Waiting(k)
         /\ pc \in {"lock", "asleep"}
              => \A k : Waiting(k)' = IF day[v].type = k THEN Waiting(k) \cup {v} ELSE Waiting(k)
         /\ pc \notin {"lock", "asleep"}
              => \A k : Waiting(k)' = IF day[v].type = k THEN Waiting(k) \ {v} ELSE Waiting(k)
<1>1. \A u \in DOMAIN day : u \in Visitors
  BY ArrivalsAreVisitors DEF FlagTypeOK
<1>2. /\ \A u \in Visitors : u # v => vpc'[u] = vpc[u]
      /\ v \in Visitors /\ vpc'[v] = pc
  BY <1>1 DEF FlagTypeOK
<1>3. \A k : Waiting(k)' = {u \in DOMAIN day : day[u].type = k /\ vpc'[u] \in {"lock", "asleep"}}
  BY DEF Waiting
<1>4. \A k, u : u \in Waiting(k)' <=>
        /\ u \in DOMAIN day /\ day[u].type = k
        /\ IF u = v THEN pc \in {"lock", "asleep"} ELSE vpc[u] \in {"lock", "asleep"}
  BY <1>1, <1>2, <1>3
<1>5. \A k, u : u \in Waiting(k) <=>
        u \in DOMAIN day /\ day[u].type = k /\ vpc[u] \in {"lock", "asleep"}
  BY DEF Waiting
<1>6. ASSUME pc \in {"lock", "asleep"} <=> vpc[v] \in {"lock", "asleep"}, NEW k
      PROVE  Waiting(k)' = Waiting(k)
  BY <1>4, <1>5, <1>6
<1>7. ASSUME pc \in {"lock", "asleep"}, NEW k
      PROVE  Waiting(k)' = IF day[v].type = k THEN Waiting(k) \cup {v} ELSE Waiting(k)
  BY <1>4, <1>5, <1>7
<1>8. ASSUME pc \notin {"lock", "asleep"}, NEW k
      PROVE  Waiting(k)' = IF day[v].type = k THEN Waiting(k) \ {v} ELSE Waiting(k)
  BY <1>4, <1>5, <1>8
<1> QED
  BY <1>2, <1>6, <1>7, <1>8

LEMMA WaitInvInit == Init => WaitInv
<1> SUFFICES ASSUME Init PROVE WaitInv
  OBVIOUS
<1>1. /\ CUR = [k \in Kinds |-> 0] /\ SLEEP = [k \in Kinds |-> TRUE]
      /\ vpc = [v \in Visitors |-> "none"] /\ day \in Days
  BY DEF Init
<1>2. \A k : Waiting(k) = {}
  BY <1>1, ArrivalsAreVisitors DEF Waiting
<1>3. \A k \in Kinds : Counted(k)
  BY <1>1, <1>2, FS_EmptySet DEF Counted
<1> QED
  BY <1>1, <1>3 DEF WaitInv

\* A step that starts, calls and lets in nobody.
Calm == /\ Queued' \subseteq Queued
        /\ UNCHANGED <<day, CUR, SLEEP, vpc>>

LEMMA CalmKeeps == WaitInv /\ Calm => WaitInv'
<1> SUFFICES ASSUME WaitInv, Calm PROVE WaitInv'
  OBVIOUS
<1>1. \A k : Waiting(k)' = Waiting(k)
  BY DEF Waiting, Calm
<1> QED
  BY <1>1 DEF WaitInv, Counted, Calm

LEMMA AdmitWaits == IInv /\ QueueInv /\ WaitInv /\ Admit => WaitInv'
<1> SUFFICES ASSUME IInv, QueueInv, WaitInv, Admit PROVE WaitInv'
  OBVIOUS
<1> DEFINE w == queue[1]
           k == ev.type
<1>1. FlagTypeOK /\ day \in Days
  BY DEF IInv, FlagTypeOK
<1>2. Queued' = Queued \ {w} /\ w \in Queued
  BY <1>1, AdmitTakes
<1>3. CASE UNCHANGED <<CUR, vpc>>
  BY <1>2, <1>3, CalmKeeps DEF Admit, Calm
<1>4. CASE CUR' = [CUR EXCEPT ![k] = @ + 1] /\ vpc' = [vpc EXCEPT ![w] = "lock"]
  <2>1. w \in DOMAIN day /\ w \in Visitors /\ vpc[w] = "none" /\ k = day[w].type /\ k \in Kinds
    BY <1>1, <1>2, TopIsFirst, ArrivalsAreVisitors DEF WaitInv, ev
  <2>2. UNCHANGED <<day, SLEEP>>
    BY DEF Admit
  <2> HIDE DEF w, k
  <2>3. /\ \A u \in Visitors : u # w => vpc'[u] = vpc[u]
        /\ \A j : Waiting(j)' = IF k = j THEN Waiting(j) \cup {w} ELSE Waiting(j)
    BY <1>1, <1>4, <2>1, <2>2, OneMoves
  <2>4. w \notin Waiting(k) /\ Cardinality(Waiting(k)) \in Nat
        /\ Cardinality(Waiting(k) \cup {w}) = Cardinality(Waiting(k)) + 1
    <3>1. w \notin Waiting(k)
      BY <2>1 DEF Waiting
    <3>2. IsFiniteSet(Waiting(k)) /\ Cardinality(Waiting(k)) \in Nat
      BY <1>1, WaitingIsFinite
    <3> QED
      BY <3>1, <3>2, FS_AddElement
  <2>5. \A j \in Kinds : Cardinality(Waiting(j)') = Cardinality(Waiting(j)) + IF j = k THEN 1 ELSE 0
    <3> TAKE j \in Kinds
    <3>1. Cardinality(Waiting(j)) \in Nat
      BY <1>1, WaitingIsFinite
    <3> QED
      BY <2>3, <2>4, <3>1
  <2>6. CUR' \in [Kinds -> Int] /\ \A j \in Kinds : CUR'[j] = CUR[j] + IF j = k THEN 1 ELSE 0
    BY <1>4, <2>1 DEF WaitInv
  <2>7. \A j \in Kinds : Counted(j)'
    <3> TAKE j \in Kinds
    <3>1. CUR[j] \in Int /\ Counted(j)
      BY DEF WaitInv
    <3>2. SLEEP'[j] = SLEEP[j]
      BY <2>2
    <3>3. /\ Cardinality(Waiting(j)') = Cardinality(Waiting(j)) + IF j = k THEN 1 ELSE 0
          /\ CUR'[j] = CUR[j] + IF j = k THEN 1 ELSE 0
      BY <2>5, <2>6
    <3> QED
      BY <3>1, <3>2, <3>3 DEF Counted
  <2>8. \A v \in Visitors : v \in Queued' \/ v \notin DOMAIN day' => vpc'[v] = "none"
    BY <1>2, <2>1, <2>2, <2>3 DEF WaitInv, w
  <2> QED
    BY <2>6, <2>7, <2>8 DEF WaitInv
<1> QED
  BY <1>3, <1>4 DEF Admit

LEMMA DoctorCallsWaits == IInv /\ WaitInv /\ DoctorCalls => WaitInv'
<1> SUFFICES ASSUME IInv, WaitInv, DoctorCalls PROVE WaitInv'
  OBVIOUS
<1> DEFINE c == Called
<1>0. Queued' = Queued /\ UNCHANGED <<day, queue>>
  BY DEF DoctorCalls, Queued
<1>1. CASE NobodyWaits
  BY <1>0, <1>1, CalmKeeps DEF DoctorCalls, Calm
<1>2. CASE ~NobodyWaits
  <2>1. /\ SLEEP' = [SLEEP EXCEPT ![c] = FALSE] /\ CUR' = [CUR EXCEPT ![c] = @ - 1]
        /\ WakeOne(c) /\ dpc = "call"
    BY <1>2 DEF DoctorCalls
  <2>2. c \in Kinds
    BY DEF Called, Kinds
  <2> HIDE DEF c
  <2>3. SLEEP \in [Kinds -> BOOLEAN] /\ SLEEP[c] /\ FlagTypeOK
    BY <2>1, <2>2 DEF IInv, FlagTypeOK, Idle, IsCalled
  <2>4. /\ \A j : Waiting(j)' = Waiting(j)
        /\ \A v \in Visitors : vpc[v] = "none" => vpc'[v] = "none"
    <3>1. CASE vpc' = vpc
      BY <1>0, <3>1 DEF Waiting
    <3>2. ASSUME NEW v \in DOMAIN day, vpc[v] = "asleep", vpc' = [vpc EXCEPT ![v] = "lock"]
          PROVE  /\ \A j : Waiting(j)' = Waiting(j)
                 /\ \A u \in Visitors : vpc[u] = "none" => vpc'[u] = "none"
      BY <1>0, <2>3, <3>2, OneMoves
    <3> QED
      BY <2>1, <3>1, <3>2 DEF WakeOne, Woken
  <2>5. CUR' \in [Kinds -> Int] /\ \A j \in Kinds : CUR'[j] = CUR[j] - IF j = c THEN 1 ELSE 0
    BY <2>1, <2>2 DEF WaitInv
  <2>6. \A j \in Kinds : SLEEP'[j] = (j # c /\ SLEEP[j])
    BY <2>1, <2>2, <2>3
  <2>7. \A j \in Kinds : Counted(j)'
    <3> TAKE j \in Kinds
    <3>1. CUR[j] \in Int
      BY DEF WaitInv
    <3>2. CASE j = c
      <4>1. CUR'[j] = CUR[j] - 1 /\ ~SLEEP'[j] /\ SLEEP[j]
        BY <2>3, <2>5, <2>6, <3>2
      <4>2. Cardinality(Waiting(j)) = CUR[j]
        BY <4>1 DEF WaitInv, Counted
      <4>3. Cardinality(Waiting(j)') = CUR[j]
        BY <2>4, <4>2
      <4> QED
        BY <3>1, <4>1, <4>3 DEF Counted
    <3>3. CASE j # c
      <4>1. CUR'[j] = CUR[j] /\ SLEEP'[j] = SLEEP[j] /\ Waiting(j)' = Waiting(j)
        BY <2>3, <2>4, <2>5, <2>6, <3>1, <3>3
      <4>2. Counted(j)
        BY DEF WaitInv
      <4> QED
        BY <4>1, <4>2 DEF Counted
    <3> QED
      BY <3>2, <3>3
  <2>8. \A v \in Visitors : v \in Queued' \/ v \notin DOMAIN day' => vpc'[v] = "none"
    BY <1>0, <2>4 DEF WaitInv
  <2> QED
    BY <2>5, <2>7, <2>8 DEF WaitInv
<1> QED
  BY <1>1, <1>2

LEMMA VisitorWaits ==
  ASSUME NEW v \in DOMAIN day PROVE IInv /\ WaitInv /\ Visitor(v) => WaitInv'
<1> SUFFICES ASSUME IInv, WaitInv, Visitor(v) PROVE WaitInv'
  OBVIOUS
<1> DEFINE k == day[v].type
<1>0. Queued' = Queued /\ UNCHANGED <<day, queue, CUR>> /\ FlagTypeOK
  BY DEF Visitor, Enter, Visit, EndSession, UnlockKind, Queued, IInv
<1>1. v \in Visitors /\ k \in Kinds
  BY <1>0, ArrivalsAreVisitors DEF FlagTypeOK
<1>2. PICK pc : vpc' = [vpc EXCEPT ![v] = pc]
  BY DEF Visitor, Enter, Visit, EndSession, UnlockKind
<1>3. vpc[v] # "none"
  BY DEF Visitor, Enter, Visit, EndSession, UnlockKind
<1>4. \A u \in Visitors : u \in Queued' \/ u \notin DOMAIN day' => vpc'[u] = "none"
  BY <1>0, <1>2, <1>3, OneMoves DEF WaitInv
<1>5. CASE UNCHANGED SLEEP /\ (pc \in {"lock", "asleep"} <=> vpc[v] \in {"lock", "asleep"})
  <2>1. \A j : Waiting(j)' = Waiting(j)
    BY <1>0, <1>2, <1>5, OneMoves
  <2>2. \A j \in Kinds : Counted(j)'
    BY <1>0, <1>5, <2>1 DEF WaitInv, Counted
  <2> QED
    BY <1>0, <1>4, <2>2 DEF WaitInv
<1>6. CASE Enter(v) /\ ~SLEEP[k]
  <2>1. vpc[v] = "lock" /\ vpc' = [vpc EXCEPT ![v] = "in"] /\ SLEEP' = [SLEEP EXCEPT ![k] = TRUE]
    BY <1>6 DEF Enter, ResetFlag
  <2> HIDE DEF k
  <2>2. \A j : Waiting(j)' = IF k = j THEN Waiting(j) \ {v} ELSE Waiting(j)
    BY <1>0, <2>1, OneMoves DEF k
  <2>3. v \in Waiting(k) /\ Cardinality(Waiting(k)) \in Nat
        /\ Cardinality(Waiting(k) \ {v}) = Cardinality(Waiting(k)) - 1
    <3>1. v \in Waiting(k)
      BY <2>1 DEF Waiting, k
    <3>2. IsFiniteSet(Waiting(k)) /\ Cardinality(Waiting(k)) \in Nat
      BY <1>0, WaitingIsFinite DEF FlagTypeOK
    <3> QED
      BY <3>1, <3>2, FS_RemoveElement
  <2>4. \A j \in Kinds : SLEEP'[j] = (j = k \/ SLEEP[j])
    BY <1>0, <1>1, <2>1 DEF FlagTypeOK
  <2>5. \A j \in Kinds : Counted(j)'
    <3> TAKE j \in Kinds
    <3>1. CUR[j] \in Int /\ CUR' = CUR
      BY <1>0 DEF WaitInv
    <3>2. CASE j = k
      <4>1. SLEEP'[j] /\ Cardinality(Waiting(j)') = Cardinality(Waiting(j)) - 1
        BY <2>2, <2>3, <2>4, <3>2
      <4>2. Cardinality(Waiting(j)) = CUR[j] + 1
        BY <1>6, <3>2 DEF WaitInv, Counted, k
      <4> QED
        BY <3>1, <4>1, <4>2 DEF Counted
    <3>3. CASE j # k
      <4>1. SLEEP'[j] = SLEEP[j] /\ Waiting(j)' = Waiting(j)
        BY <1>0, <2>2, <2>4, <3>3 DEF FlagTypeOK
      <4>2. Counted(j)
        BY DEF WaitInv
      <4> QED
        BY <3>1, <4>1, <4>2 DEF Counted
    <3> QED
      BY <3>2, <3>3
  <2> QED
    BY <1>0, <1>4, <2>5 DEF WaitInv
<1>7. vpc'[v] = pc
  BY <1>0, <1>2, OneMoves
<1>8. ASSUME ~(Enter(v) /\ ~SLEEP[k])
      PROVE  UNCHANGED SLEEP /\ (pc \in {"lock", "asleep"} <=> vpc[v] \in {"lock", "asleep"})
  <2>1. CASE Enter(v)
    <3>1. UNCHANGED SLEEP /\ vpc[v] = "lock" /\ vpc' = [vpc EXCEPT ![v] = "asleep"]
      BY <1>8, <2>1 DEF Enter
    <3>2. pc = "asleep"
      BY <1>0, <1>1, <1>7, <3>1 DEF FlagTypeOK
    <3> QED
      BY <3>1, <3>2
  <2>2. CASE Visit(v) \/ EndSession(v) \/ UnlockKind(v)
    <3>1. /\ UNCHANGED SLEEP /\ vpc[v] \in {"in", "visited", "out"}
          /\ \E p \in {"visited", "out", "gone"} : vpc' = [vpc EXCEPT ![v] = p]
      BY <2>2 DEF Visit, EndSession, UnlockKind
    <3>2. pc \in {"visited", "out", "gone"}
      BY <1>0, <1>1, <1>7, <3>1 DEF FlagTypeOK
    <3> QED
      BY <3>1, <3>2
  <2> QED
    BY <2>1, <2>2 DEF Visitor
<1> QED
  BY <1>5, <1>6, <1>8

LEMMA WaitInvStep == IInv /\ QueueInv /\ WaitInv /\ [Next]_sessionVars => WaitInv'
<1> SUFFICES ASSUME IInv, QueueInv, WaitInv, [Next]_sessionVars PROVE WaitInv'
  OBVIOUS
<1>0. day \in Days
  BY DEF IInv, FlagTypeOK
<1>1. CASE UNCHANGED sessionVars
  BY <1>1, CalmKeeps DEF sessionVars, Calm, Queued
<1>2. CASE Drain
  BY <1>0, <1>2, DrainTakes, CalmKeeps DEF Drain, Calm
<1>3. CASE Others
  <2>1. CASE \E v \in DOMAIN day : Visitor(v)
    BY <2>1, VisitorWaits
  <2>2. CASE DoctorCalls
    BY <2>2, DoctorCallsWaits
  <2>3. CASE \/ AssistantSleeps \/ ClearFlag \/ Begin \/ WakeDoctor \/ AdvanceTime
             \/ DoctorLocks \/ DoctorLeaves \/ DoctorStays \/ DoctorAwaits \/ DoctorIsDone
    <3>1. UNCHANGED <<day, CUR, SLEEP, vpc>>
      BY <2>3 DEF AssistantSleeps, ClearFlag, Begin, WakeDoctor, AdvanceTime, DoctorLocks,
                  DoctorLeaves, DoctorStays, DoctorAwaits, DoctorIsDone
    <3> QED
      BY <1>3, <3>1, OthersTakeNobody, CalmKeeps DEF Calm
  <2> QED
    BY <1>3, <2>1, <2>2, <2>3 DEF Others, Doctor
<1> QED
  BY <1>1, <1>2, <1>3, StepIsOne, AdmitWaits

-----------------------------------------------------------------------------
(* The end of the day, and its time.                                       *)

\* Nobody of a kind waits when nobody is counted and nobody is called.
LEMMA NoneWaits ==
  ASSUME day \in Days, WaitInv, NEW k \in Kinds, SLEEP[k], CUR[k] = 0
  PROVE  \A v \in DOMAIN day : day[v].type = k => vpc[v] \notin {"lock", "asleep"}
<1>1. Cardinality(Waiting(k)) = 0 /\ IsFiniteSet(Waiting(k))
  BY WaitingIsFinite DEF WaitInv, Counted
<1>2. Waiting(k) = {}
  BY <1>1, FS_EmptySet
<1> QED
  BY <1>2 DEF Waiting

\* Nobody waits when nobody is counted and the doctor is not in a session.
LEMMA ChamberEmpty ==
  ASSUME IInv, WaitInv, NobodyWaits, dpc \notin {"await", "in session"}
  PROVE  \A v \in Visitors : ~Started(v) \/ vpc[v] = "out"
<1>1. /\ day \in Days /\ \A k \in Kinds : SLEEP[k] /\ CUR[k] = 0
      /\ \A v \in Visitors : vpc[v] \notin {"in", "visited"}
  BY DEF IInv, FlagTypeOK, Idle, IsCalled, There, With, NobodyWaits
<1>2. \A v \in DOMAIN day : vpc[v] \notin {"lock", "asleep"}
  BY <1>1, NoneWaits, ArrivalsAreVisitors
<1>3. \A v \in Visitors : v \notin DOMAIN day => vpc[v] = "none"
  BY DEF WaitInv
<1> QED
  BY <1>1, <1>2, <1>3 DEF Started, Inside

\* Only Admit starts a visitor: the one on top.
LEMMA NobodyElseStarts ==
  ASSUME FlagTypeOK, [Next]_sessionVars
  PROVE  /\ day' = day
         /\ \A v \in Visitors : Started(v)' => Started(v) \/ (Admit /\ v = queue[1])
<1>1. CASE Admit
  BY <1>1 DEF Admit, Started, FlagTypeOK
<1>2. CASE \E v \in DOMAIN day : Visitor(v)
  <2>1. PICK v \in DOMAIN day : Visitor(v)
    BY <1>2
  <2>2. day' = day /\ Started(v) /\ \E p : vpc' = [vpc EXCEPT ![v] = p]
    BY <2>1 DEF Visitor, Enter, Visit, EndSession, UnlockKind, Started, Inside
  <2> QED
    BY <2>2 DEF Started, FlagTypeOK
<1>3. CASE DoctorCalls
  <2>1. day' = day /\ (vpc' = vpc \/ \E v \in DOMAIN day : vpc[v] = "asleep" /\ vpc' = [vpc EXCEPT ![v] = "lock"])
    BY <1>3 DEF DoctorCalls, WakeOne, Woken
  <2> QED
    BY <2>1 DEF Started, FlagTypeOK
<1>4. CASE UNCHANGED <<day, vpc>>
  BY <1>4 DEF Started
<1>5. UNCHANGED sessionVars \/ Drain => UNCHANGED <<day, vpc>>
  BY DEF sessionVars, Drain
<1>6. Others => (\E v \in DOMAIN day : Visitor(v)) \/ DoctorCalls \/ UNCHANGED <<day, vpc>>
  BY DEF Others, AssistantSleeps, ClearFlag, Begin, WakeDoctor, AdvanceTime, Doctor, DoctorLocks,
         DoctorLeaves, DoctorStays, DoctorAwaits, DoctorIsDone
<1> QED
  BY <1>1, <1>2, <1>3, <1>4, <1>5, <1>6, StepIsOne

LEMMA TotalsGrow ==
  ASSUME day \in Days, QueueInv, [Next]_sessionVars
  PROVE  \A k \in Kinds : TOTAL[k] \in Nat /\ TOTAL'[k] \in Nat /\ TOTAL'[k] >= TOTAL[k]
<1>1. TOTAL \in [Kinds -> Nat] /\ TOTAL' \in [Kinds -> Nat]
  BY QueueInvStep DEF QueueInv
<1>2. CASE Admit
  BY <1>1, <1>2 DEF Admit
<1>3. CASE Drain
  <2> DEFINE I(k) == {i \in DOMAIN queue : day[queue[i]].type = k}
  <2>1. TOTAL' = [k \in Kinds |-> TOTAL[k] + Cardinality(I(k))]
    BY <1>3 DEF Drain
  <2>2. IsFiniteSet(DOMAIN queue)
    <3>1. queue \in Seq(DOMAIN day)
      BY DEF QueueInv
    <3>2. DOMAIN queue = 1..Len(queue) /\ Len(queue) \in Nat
      BY <3>1, LenProperties
    <3> HIDE DEF QueueInv
    <3>3. \A n \in Nat : IsFiniteSet(1..n)
      BY FS_Interval
    <3> QED
      BY <3>2, <3>3
  <2>3. \A k \in Kinds : Cardinality(I(k)) \in Nat
    BY <2>2, FS_Subset, FS_CardinalityType
  <2> HIDE DEF I
  <2> QED
    BY <1>1, <2>1, <2>3
<1>4. CASE TOTAL' = TOTAL
  BY <1>1, <1>4
<1> QED
  BY <1>2, <1>3, <1>4, StepIsOne, OthersTakeNobody DEF sessionVars

LEMMA SessionGoesOn == [Next]_sessionVars => DoctorLeaves \/ Begin \/ SESSION' = SESSION
BY DEF Next, Assistant, AssistantSleeps, ClearFlag, Admit, WakeDoctor, AdvanceTime, Drain,
       Doctor, DoctorLocks, DoctorStays, DoctorCalls, DoctorAwaits, DoctorIsDone,
       Visitor, Enter, Visit, EndSession, UnlockKind, sessionVars

LEMMA LeaveInvStep == IInv /\ QueueInv /\ WaitInv /\ LeaveInv /\ [Next]_sessionVars => LeaveInv'
<1> SUFFICES ASSUME IInv, QueueInv, WaitInv, LeaveInv, [Next]_sessionVars PROVE LeaveInv'
  OBVIOUS
<1>0. FlagTypeOK /\ day \in Days
  BY DEF IInv, FlagTypeOK
<1>1. QuotaReached => QuotaReached'
  <2>1. \A k \in Kinds : TOTAL[k] \in Nat /\ TOTAL'[k] \in Nat /\ TOTAL'[k] >= TOTAL[k]
    BY <1>0, TotalsGrow
  <2>2. "P" \in Kinds /\ "S" \in Kinds
    BY DEF Kinds
  <2>3. /\ TOTAL["P"] \in Nat /\ TOTAL'["P"] \in Nat /\ TOTAL'["P"] >= TOTAL["P"]
        /\ TOTAL["S"] \in Nat /\ TOTAL'["S"] \in Nat /\ TOTAL'["S"] >= TOTAL["S"]
    BY <2>1, <2>2
  <2> QED
    BY <2>3, DaysAssumption DEF QuotaReached
<1>2. CASE DoctorLeaves
  <2>1. SESSION' = 2 /\ UNCHANGED <<day, vpc>> /\ QuotaReached /\ NobodyWaits /\ dpc = "decide"
        /\ \A k \in Kinds : KindMutexFree(k)
    BY <1>2 DEF DoctorLeaves, WorkDone
  <2>2. \A v \in Visitors : ~Started(v) \/ vpc[v] = "out"
    BY <2>1, ChamberEmpty
  <2>3. \A v \in Visitors : vpc[v] # "out"
    <3>1. \A v \in DOMAIN day : vpc[v] # "out"
      BY <1>0, <2>1, ArrivalsAreVisitors DEF KindMutexFree, Inside
    <3>2. \A v \in Visitors : v \notin DOMAIN day => vpc[v] = "none"
      BY DEF WaitInv
    <3> QED
      BY <3>1, <3>2
  <2>4. \A v \in Visitors : ~Started(v)'
    BY <2>1, <2>2, <2>3 DEF Started
  <2> QED
    BY <1>1, <2>1, <2>4 DEF LeaveInv
<1>3. CASE Begin
  BY <1>3 DEF Begin, LeaveInv
<1>4. CASE SESSION' = SESSION
  <2>1. SESSION = 2 => ~Admit
    BY DEF Admit
  <2> QED
    BY <1>0, <1>1, <1>4, <2>1, NobodyElseStarts DEF LeaveInv
<1> QED
  BY <1>2, <1>3, <1>4, SessionGoesOn

LEMMA RoomInvInit == Init => RoomInv
<1> SUFFICES ASSUME Init, NEW k \in {"P", "S"}
             PROVE  Cardinality(LetIn(k)) = IF TOTAL[k] < QuotaOf(k) THEN TOTAL[k] ELSE QuotaOf(k)
  BY DEF RoomInv
<1>1. LetIn(k) = {}
  BY ArrivalsAreVisitors DEF Init, LetIn
<1>2. Cardinality(LetIn(k)) = 0
  BY <1>1, FS_EmptySet
<1>3. TOTAL[k] = 0 /\ QuotaOf(k) \in Nat
  BY DaysAssumption DEF Init, QuotaOf, Kinds
<1> QED
  BY <1>2, <1>3

\* Only the assistant starts anybody.
LEMMA OthersLetNobodyIn ==
  ASSUME FlagTypeOK, Others \/ Drain
  PROVE  \A k : LetIn(k)' = LetIn(k)
<1>1. \A v \in DOMAIN day : v \in Visitors
  BY ArrivalsAreVisitors DEF FlagTypeOK
<1>2. day' = day /\ \A v \in DOMAIN day : vpc'[v] = "none" <=> vpc[v] = "none"
  <2>1. CASE \E v \in DOMAIN day : Visitor(v)
    <3>1. PICK v \in DOMAIN day : Visitor(v)
      BY <2>1
    <3>2. /\ day' = day /\ vpc[v] # "none"
          /\ \E p \in {"asleep", "in", "visited", "out", "gone"} : vpc' = [vpc EXCEPT ![v] = p]
      BY <3>1 DEF Visitor, Enter, Visit, EndSession, UnlockKind
    <3> QED
      BY <1>1, <3>2 DEF FlagTypeOK
  <2>2. CASE DoctorCalls
    <3>1. day' = day /\ (vpc' = vpc \/ \E v \in DOMAIN day : vpc[v] = "asleep" /\ vpc' = [vpc EXCEPT ![v] = "lock"])
      BY <2>2 DEF DoctorCalls, WakeOne, Woken
    <3> QED
      BY <1>1, <3>1 DEF FlagTypeOK
  <2>3. CASE UNCHANGED <<day, vpc>>
    BY <2>3
  <2>4. (\E v \in DOMAIN day : Visitor(v)) \/ DoctorCalls \/ UNCHANGED <<day, vpc>>
    BY DEF Others, AssistantSleeps, ClearFlag, Begin, WakeDoctor, AdvanceTime, Drain,
           Doctor, DoctorLocks, DoctorLeaves, DoctorStays, DoctorAwaits, DoctorIsDone
  <2> QED
    BY <2>1, <2>2, <2>3, <2>4
<1> QED
  BY <1>2 DEF LetIn

LEMMA RoomInvStep ==
  IInv /\ QueueInv /\ WaitInv /\ LeaveInv /\ RoomInv /\ [Next]_sessionVars => RoomInv'
<1> SUFFICES ASSUME IInv, QueueInv, WaitInv, LeaveInv, RoomInv, [Next]_sessionVars, NEW k \in {"P", "S"}
             PROVE  Cardinality(LetIn(k)') = IF TOTAL'[k] < QuotaOf(k) THEN TOTAL'[k] ELSE QuotaOf(k)
  BY DEF RoomInv, QuotaOf
<1>0. FlagTypeOK /\ day \in Days
  BY DEF IInv, FlagTypeOK
<1>1. /\ TOTAL[k] \in Nat /\ TOTAL'[k] \in Nat /\ TOTAL'[k] >= TOTAL[k] /\ QuotaOf(k) \in Nat
      /\ Cardinality(LetIn(k)) = IF TOTAL[k] < QuotaOf(k) THEN TOTAL[k] ELSE QuotaOf(k)
  <2>1. \A j \in Kinds : TOTAL[j] \in Nat /\ TOTAL'[j] \in Nat /\ TOTAL'[j] >= TOTAL[j]
    BY <1>0, TotalsGrow
  <2>2. k \in Kinds /\ QuotaOf(k) \in Nat
    BY DaysAssumption DEF Kinds, QuotaOf
  <2> QED
    BY <2>1, <2>2 DEF RoomInv
<1>2. CASE Others \/ UNCHANGED sessionVars
  <2>1. TOTAL' = TOTAL /\ LetIn(k)' = LetIn(k)
    BY <1>0, <1>2, OthersTakeNobody, OthersLetNobodyIn DEF sessionVars, LetIn
  <2> QED
    BY <1>1, <2>1
<1>3. CASE Drain
  <2>1. QuotaReached /\ LetIn(k)' = LetIn(k)
    BY <1>0, <1>3, OthersLetNobodyIn DEF Drain, LeaveInv
  <2>2. TOTAL[k] >= QuotaOf(k)
    BY <2>1 DEF QuotaReached, QuotaOf
  <2> QED
    BY <1>1, <2>1, <2>2
<1>4. CASE Admit
  <2> DEFINE w == queue[1]
  <2>1. w \in DOMAIN day /\ w \in Visitors /\ vpc[w] = "none" /\ ev.type = day[w].type
    <3>1. w \in Queued
      BY <1>0, <1>4, AdmitTakes
    <3> QED
      BY <1>0, <1>4, <3>1, TopIsFirst, ArrivalsAreVisitors DEF WaitInv, ev, Admit
  <2>2. day' = day /\ TOTAL' = [TOTAL EXCEPT ![day[w].type] = @ + 1]
    BY <1>4, <2>1 DEF Admit
  <2>3. vpc' = IF Room(day[w].type) THEN [vpc EXCEPT ![w] = "lock"] ELSE vpc
    BY <1>4, <2>1 DEF Admit
  <2> HIDE DEF w
  <2>4. TOTAL'[k] = IF day[w].type = k THEN TOTAL[k] + 1 ELSE TOTAL[k]
    <3>1. TOTAL \in [Kinds -> Nat] /\ k \in Kinds
      BY DEF QueueInv, Kinds
    <3> QED
      BY <2>2, <3>1
  <2>5. Room(k) <=> TOTAL[k] < QuotaOf(k)
    BY DEF Room, QuotaOf
  <2>6. CASE day[w].type = k /\ Room(k)
    <3>1. LetIn(k)' = LetIn(k) \cup {w} /\ w \notin LetIn(k)
      BY <1>0, <2>1, <2>2, <2>3, <2>6, ArrivalsAreVisitors DEF LetIn, FlagTypeOK
    <3>2. IsFiniteSet(LetIn(k))
      <4>1. IsFiniteSet(DOMAIN day)
        BY <1>0, DayIsList
      <4> QED
        BY <4>1, FS_Subset DEF LetIn
    <3>3. Cardinality(LetIn(k)') = Cardinality(LetIn(k)) + 1
      BY <3>1, <3>2, FS_AddElement
    <3> QED
      BY <1>1, <2>4, <2>5, <2>6, <3>3
  <2>7. CASE day[w].type # k \/ ~Room(k)
    <3>1. LetIn(k)' = LetIn(k)
      BY <1>0, <2>1, <2>2, <2>3, <2>7, ArrivalsAreVisitors DEF LetIn, FlagTypeOK
    <3> QED
      BY <1>1, <2>4, <2>5, <2>7, <3>1
  <2> QED
    BY <2>6, <2>7
<1> QED
  BY <1>2, <1>3, <1>4, StepIsOne

\* When the doctor has left, who was let in is gone.
LEMMA AllWereSeen ==
  ASSUME FlagTypeOK, QueueInv, LeaveInv, RoomInv
  PROVE  LeavesLast
<1> SUFFICES ASSUME SESSION = 2
             PROVE  Cardinality(Seen("P")) = PatientQuota /\ Cardinality(Seen("S")) = SalesQuota
  BY DEF LeavesLast, LeaveInv
<1>1. \A v \in DOMAIN day : vpc[v] = "gone" <=> vpc[v] # "none"
  BY ArrivalsAreVisitors DEF FlagTypeOK, LeaveInv, Started
<1>2. \A k : Seen(k) = LetIn(k)
  BY <1>1 DEF Seen, LetIn
<1>3. \A k \in {"P", "S"} : TOTAL[k] \in Nat /\ QuotaOf(k) \in Nat /\ TOTAL[k] >= QuotaOf(k)
  BY DaysAssumption DEF LeaveInv, QuotaReached, QuotaOf, QueueInv, Kinds
<1>4. \A k \in {"P", "S"} : Cardinality(Seen(k)) = QuotaOf(k)
  BY <1>2, <1>3 DEF RoomInv
<1> QED
  BY <1>4 DEF QuotaOf

\* While a visitor is with the doctor, the time is past its arrival.
LEMMA VisitTakesItsLength ==
  ASSUME FlagTypeOK, TimeInv, NEW v \in DOMAIN day, Visit(v)
  PROVE  /\ cur_time' = cur_time + day[v].duration
         /\ cur_time \in Int /\ day[v].duration \in Nat \ {0}
<1>1. v \in Visitors /\ day[v] \in Arrival
  BY ArrivalsAreVisitors, DayIsList DEF FlagTypeOK
<1>2. Started(v)
  BY DEF Visit, Started, Inside
<1>3. day[v].time \in Int /\ day[v].duration \in Nat \ {0} /\ cur_time \in Int /\ day[v].time <= cur_time
  BY <1>1, <1>2 DEF Arrival, TimeInv
<1>4. cur_time' = day[v].duration + IF cur_time < day[v].time THEN day[v].time ELSE cur_time
  BY DEF Visit
<1> QED
  BY <1>3, <1>4

\* What a step does to the time.
LEMMA TimeGoesOn ==
  ASSUME IInv, QueueInv, TimeInv, [Next]_sessionVars
  PROVE  \/ cur_time' = cur_time
         \/ AdvanceTime /\ cur_time' \in Int /\ cur_time' > cur_time
         \/ \E v \in DOMAIN day : /\ Visit(v) /\ cur_time' \in Int /\ cur_time' > cur_time
                                  /\ cur_time' = cur_time + day[v].duration
<1>0. FlagTypeOK /\ day \in Days
  BY DEF IInv, FlagTypeOK
<1>1. ASSUME NEW v \in DOMAIN day, Visit(v)
      PROVE  /\ Visit(v) /\ cur_time' \in Int /\ cur_time' > cur_time
             /\ cur_time' = cur_time + day[v].duration
  <2>1. cur_time' = cur_time + day[v].duration /\ cur_time \in Int /\ day[v].duration \in Nat \ {0}
    BY <1>0, <1>1, VisitTakesItsLength
  <2> QED
    BY <1>1, <2>1
<1>2. CASE AdvanceTime
  <2>1. queue # <<>> /\ ev.time > cur_time /\ cur_time' = ev.time
    BY <1>2 DEF AdvanceTime, NextIsLater
  <2>2. queue[1] \in DOMAIN day
    BY <1>0, <2>1, TopIsFirst
  <2>3. ev.time \in Int
    BY <1>0, <2>2, DayIsList DEF ev, Arrival
  <2> QED
    BY <1>2, <2>1, <2>3
<1>3. CASE Begin
  BY <1>3 DEF Begin, TimeInv
<1>4. Next => \/ AdvanceTime \/ Begin \/ \E v \in DOMAIN day : Visit(v)
              \/ cur_time' = cur_time
  BY DEF Next, Assistant, AssistantSleeps, ClearFlag, Admit, WakeDoctor, Drain,
         Doctor, DoctorLocks, DoctorLeaves, DoctorStays, DoctorCalls, DoctorAwaits, DoctorIsDone,
         Visitor, Enter, EndSession, UnlockKind, sessionVars
<1>5. UNCHANGED sessionVars => cur_time' = cur_time
  BY DEF sessionVars
<1> QED
  BY <1>1, <1>2, <1>3, <1>4, <1>5

LEMMA TimeInvStep == IInv /\ QueueInv /\ TimeInv /\ [Next]_sessionVars => TimeInv'
<1> SUFFICES ASSUME IInv, QueueInv, TimeInv, [Next]_sessionVars PROVE TimeInv'
  OBVIOUS
<1>0. FlagTypeOK /\ day \in Days /\ day' = day /\ FlagTypeOK'
  BY NobodyElseStarts, IInvStep DEF IInv, FlagTypeOK
<1>1. cur_time \in Int /\ cur_time' \in Int /\ cur_time' >= cur_time
  <2>1. cur_time \in Int
    BY DEF TimeInv
  <2> QED
    BY <2>1, TimeGoesOn
<1>2. SLEEPING' \in BOOLEAN
  <2>1. SLEEPING' = SLEEPING \/ SLEEPING' = TRUE \/ SLEEPING' = FALSE
    BY DEF Next, Assistant, AssistantSleeps, ClearFlag, Begin, Admit, WakeDoctor, AdvanceTime, Drain,
         Doctor, DoctorLocks, DoctorLeaves, DoctorStays, DoctorCalls, DoctorAwaits, DoctorIsDone,
         Visitor, Enter, Visit, EndSession, UnlockKind, sessionVars
  <2> QED
    BY <2>1 DEF TimeInv
<1>3. ASSUME NEW v \in DOMAIN day, Started(v)' PROVE day[v].time <= cur_time'
  <2>1. v \in Visitors /\ day[v].time \in Int
    BY <1>0, ArrivalsAreVisitors, DayIsList DEF Arrival
  <2>2. CASE Started(v)
    BY <1>1, <2>1, <2>2 DEF TimeInv
  <2>3. CASE Admit /\ v = queue[1]
    <3>1. ev = day[v] /\ (SESSION = 0 => cur_time = 0) /\ ((SESSION = 0 /\ ev.time < 0) \/ ev.time <= cur_time)
      BY <2>3 DEF Admit, ev, TimeInv
    <3>2. ev.time <= cur_time
      BY <1>1, <2>1, <3>1
    <3> QED
      BY <1>1, <2>1, <3>1, <3>2
  <2> QED
    BY <1>0, <1>3, <2>1, <2>2, <2>3, NobodyElseStarts
<1>4. SESSION' = 0 => SESSION = 0
  <2>1. Begin => SESSION' = 1
    BY DEF Begin
  <2>2. DoctorLeaves => SESSION' = 2
    BY DEF DoctorLeaves
  <2> QED
    BY <2>1, <2>2, SessionGoesOn
<1>5. ASSUME SESSION = 0 PROVE SLEEPING' /\ dpc' \in {"lock", "asleep"} /\ (cur_time' = cur_time \/ SESSION' # 0)
  <2>1. SLEEPING /\ dpc \in {"lock", "asleep"}
    BY <1>5 DEF TimeInv
  <2>2. \A v \in DOMAIN day : vpc[v] \notin {"in", "visited"}
    BY <1>0, <2>1, ArrivalsAreVisitors DEF IInv, Idle, There, With
  <2>3. \A v \in DOMAIN day : Visitor(v) => UNCHANGED <<SLEEPING, dpc, cur_time>>
    BY <2>1, <2>2 DEF Visitor, Enter, Visit, EndSession, UnlockKind
  <2>4. Assistant => UNCHANGED <<SLEEPING, dpc>> /\ (cur_time' = cur_time \/ SESSION' # 0)
    BY <1>5 DEF Assistant, AssistantSleeps, ClearFlag, Begin, Admit, WakeDoctor, AdvanceTime, Drain
  <2>5. Doctor => SLEEPING' /\ dpc' = "asleep" /\ cur_time' = cur_time
    BY <2>1 DEF Doctor, DoctorLocks, DoctorLeaves, DoctorStays, DoctorCalls, DoctorAwaits, DoctorIsDone
  <2>6. UNCHANGED sessionVars => UNCHANGED <<SLEEPING, dpc, cur_time>>
    BY DEF sessionVars
  <2> QED
    BY <2>1, <2>3, <2>4, <2>5, <2>6 DEF Next
<1>6. SESSION' = 0 => SLEEPING' /\ dpc' \in {"lock", "asleep"} /\ cur_time' = 0
  BY <1>4, <1>5 DEF TimeInv
<1> QED
  BY <1>0, <1>1, <1>2, <1>3, <1>6 DEF TimeInv

-----------------------------------------------------------------------------
(* The call.                                                               *)

\* Whoever is on top of the queue has not arrived: then nobody in it has.
LEMMA AllAreLater ==
  ASSUME FlagTypeOK, QueueInv, TimeInv, queue = <<>> \/ NextIsLater
  PROVE  \A v \in Queued : day[v].time > cur_time
<1> SUFFICES ASSUME NEW v \in Queued PROVE day[v].time > cur_time
  OBVIOUS
<1>1. day \in Days
  BY DEF FlagTypeOK
<1>2. queue # <<>> /\ Precedes(ev, day[v]) /\ queue[1] \in DOMAIN day /\ v \in DOMAIN day
  BY <1>1, TopIsFirst
<1>3. ev.time > cur_time
  BY <1>2 DEF NextIsLater
<1>4. ev.time \in Int /\ day[v].time \in Int /\ cur_time \in Int
  BY <1>1, <1>2, DayIsList DEF ev, Arrival, TimeInv
<1> QED
  BY <1>2, <1>3, <1>4 DEF Precedes

LEMMA CallInvStep == IInv /\ QueueInv /\ TimeInv /\ CallInv /\ [Next]_sessionVars => CallInv'
<1> SUFFICES ASSUME IInv, QueueInv, TimeInv, CallInv, [Next]_sessionVars PROVE CallInv'
  OBVIOUS
<1>0. FlagTypeOK /\ day \in Days /\ day' = day
  BY NobodyElseStarts DEF IInv, FlagTypeOK
<1>1. SLEEPING \in BOOLEAN
  BY DEF TimeInv
<1>2. Queued' \subseteq Queued
  <2>1. UNCHANGED sessionVars => Queued' = Queued
    BY DEF sessionVars, Queued
  <2> QED
    BY <1>0, <2>1, StepIsOne, OthersTakeNobody, AdmitTakes, DrainTakes
<1>3. CASE WakeDoctor
  <2>1. /\ queue = <<>> \/ NextIsLater
        /\ UNCHANGED <<queue, cur_time>> /\ ASSIST_SLEEP' = TRUE /\ apc' = "lock" /\ DocMutexFree
        /\ dpc' = Woken(dpc)
    BY <1>3 DEF WakeDoctor, AssistantAwake
  <2>2. \A v \in Queued' : day'[v].time > cur_time'
    BY <1>0, <1>2, <2>1, AllAreLater
  <2>3. dpc' \in {"lock", "gone"}
    BY <1>0, <2>1 DEF DocMutexFree, Woken, FlagTypeOK
  <2> QED
    BY <2>1, <2>2, <2>3 DEF CallInv
<1>4. ASSUME ~WakeDoctor
      PROVE  /\ ~SLEEPING' => ~SLEEPING /\ dpc' \in {"lock", "gone"} /\ ASSIST_SLEEP' /\ apc' \in {"lock", "asleep"}
             /\ Woke' => Woke
  <2>1. ASSUME Assistant
        PROVE  /\ SLEEPING' = SLEEPING /\ dpc' = dpc
               /\ ~SLEEPING => ASSIST_SLEEP' /\ apc' \in {"lock", "asleep"}
    <3>1. ~SLEEPING => ASSIST_SLEEP /\ apc \in {"lock", "asleep"}
      BY DEF CallInv
    <3>2. SLEEPING' = SLEEPING /\ dpc' = dpc
      BY <1>4, <2>1 DEF Assistant, AssistantSleeps, ClearFlag, Begin, Admit, AdvanceTime, Drain
    <3>3. ~SLEEPING => AssistantSleeps
      BY <1>4, <2>1, <3>1 DEF Assistant, ClearFlag, Begin, Admit, AdvanceTime, Drain, AssistantAwake
    <3>4. AssistantSleeps => ASSIST_SLEEP' /\ apc' = "asleep"
      BY DEF AssistantSleeps
    <3> QED
      BY <3>2, <3>3, <3>4
  <2>2. ASSUME DoctorLocks PROVE SLEEPING' /\ (Woke' => Woke)
    BY <1>1, <2>2 DEF DoctorLocks, Woke
  <2>3. ASSUME Doctor, ~DoctorLocks PROVE SLEEPING /\ SLEEPING' /\ (Woke' => Woke)
    <3>1. dpc \in {"decide", "call", "await"} /\ SLEEPING' = SLEEPING
      BY <2>3 DEF Doctor, DoctorLeaves, DoctorStays, DoctorCalls, DoctorAwaits, DoctorIsDone
    <3>2. SLEEPING
      BY <3>1 DEF CallInv
    <3>3. dpc' \in {"decide", "call"} => dpc \in {"decide", "call"}
      BY <2>3 DEF Doctor, DoctorLeaves, DoctorStays, DoctorCalls, DoctorAwaits, DoctorIsDone
    <3> QED
      BY <3>1, <3>2, <3>3 DEF Woke
  <2>4. ASSUME NEW v \in DOMAIN day, Visitor(v)
        PROVE  /\ UNCHANGED <<SLEEPING, ASSIST_SLEEP, apc>>
               /\ dpc' = dpc \/ (dpc = "in session" /\ dpc' = "await")
    BY <2>4 DEF Visitor, Enter, Visit, EndSession, UnlockKind
  <2>5. ASSUME UNCHANGED sessionVars PROVE UNCHANGED <<SLEEPING, ASSIST_SLEEP, apc, dpc>>
    BY <2>5 DEF sessionVars
  <2>6. ~SLEEPING => dpc \in {"lock", "gone"} /\ ASSIST_SLEEP /\ apc \in {"lock", "asleep"}
    BY DEF CallInv
  <2>7. CASE UNCHANGED <<SLEEPING, ASSIST_SLEEP, apc>> /\ (dpc' = dpc \/ (dpc = "in session" /\ dpc' = "await"))
    BY <2>6, <2>7 DEF Woke
  <2>8. CASE Assistant
    BY <2>1, <2>6, <2>8 DEF Woke
  <2>9. CASE Doctor
    BY <2>2, <2>3, <2>9
  <2> QED
    BY <2>4, <2>5, <2>7, <2>8, <2>9 DEF Next
<1>5. ASSUME ~WakeDoctor, Woke' PROVE \A v \in Queued' : day'[v].time > cur_time'
  <2>1. Woke /\ \A v \in Queued : day[v].time > cur_time
    BY <1>4, <1>5 DEF CallInv
  <2>2. ~AdvanceTime
    BY <2>1 DEF AdvanceTime, AssistantAwake, DocMutexFree, CallInv, Woke
  <2>3. ASSUME NEW v \in DOMAIN day, Visit(v) PROVE FALSE
    <3>1. v \in Visitors /\ There(v)
      BY <1>0, <2>3, ArrivalsAreVisitors DEF Visit, There, With
    <3>2. dpc \in {"await", "in session"}
      BY <3>1 DEF IInv, Idle
    <3> QED
      BY <2>1, <3>2 DEF CallInv, Woke
  <2>4. cur_time' = cur_time
    BY <2>2, <2>3, TimeGoesOn
  <2> QED
    BY <1>0, <1>2, <2>1, <2>4
<1>6. CASE ~WakeDoctor
  BY <1>4, <1>5, <1>6 DEF CallInv
<1> QED
  BY <1>3, <1>6

-----------------------------------------------------------------------------
\* The inductive invariant of the whole day.
DayInv == IInv /\ QueueInv /\ WaitInv /\ LeaveInv /\ RoomInv /\ TimeInv /\ CallInv

LEMMA DayInvInit == Init => DayInv
<1> SUFFICES ASSUME Init PROVE DayInv
  OBVIOUS
<1>1. LeaveInv
  BY DEF Init, LeaveInv
<1>2. TimeInv
  BY ArrivalsAreVisitors DEF Init, TimeInv, Started, Inside
<1>3. CallInv
  BY DEF Init, CallInv, Woke
<1> QED
  BY <1>1, <1>2, <1>3, IInvInit, QueueInvInit, WaitInvInit, RoomInvInit DEF DayInv

LEMMA DayInvStep == DayInv /\ [Next]_sessionVars => DayInv'
<1>1. DayInv => day \in Days
  BY DEF DayInv, IInv, FlagTypeOK
<1> QED
  BY <1>1, IInvStep, QueueInvStep, WaitInvStep, LeaveInvStep, RoomInvStep, TimeInvStep,
     CallInvStep DEF DayInv

LEMMA AlwaysDayInv == Spec => []DayInv
BY DayInvInit, DayInvStep, PTL DEF Spec

\* Time passes only with a visit or when nobody is there.
LEMMA StepIsNotIdle ==
  DayInv /\ [Next]_sessionVars =>
    (cur_time' # cur_time =>
       \/ \E v \in Visitors : vpc[v] = "in" /\ cur_time' = cur_time + day[v].duration
       \/ cur_time' > cur_time /\ \A v \in Visitors : ~Started(v) \/ vpc[v] = "out")
<1> SUFFICES ASSUME DayInv, [Next]_sessionVars, cur_time' # cur_time
             PROVE  \/ \E v \in Visitors : vpc[v] = "in" /\ cur_time' = cur_time + day[v].duration
                    \/ cur_time' > cur_time /\ \A v \in Visitors : ~Started(v) \/ vpc[v] = "out"
  OBVIOUS
<1>1. IInv /\ QueueInv /\ WaitInv /\ TimeInv /\ day \in Days
  BY DEF DayInv, IInv, FlagTypeOK
<1>2. ASSUME NEW v \in DOMAIN day, Visit(v), cur_time' = cur_time + day[v].duration
      PROVE  \E u \in Visitors : vpc[u] = "in" /\ cur_time' = cur_time + day[u].duration
  BY <1>1, <1>2, ArrivalsAreVisitors DEF Visit
<1>3. ASSUME AdvanceTime PROVE \A v \in Visitors : ~Started(v) \/ vpc[v] = "out"
  <2>1. NobodyWaits /\ dpc \notin {"await", "in session"}
    BY <1>3 DEF AdvanceTime, AssistantAwake, DocMutexFree
  <2> QED
    BY <1>1, <2>1, ChamberEmpty
<1> QED
  BY <1>1, <1>2, <1>3, TimeGoesOn

\* The doctor calls the most urgent kind of those that have arrived.
LEMMA StepCallsUrgent ==
  DayInv /\ [Next]_sessionVars =>
    \A k \in Kinds : SLEEP[k] /\ ~SLEEP'[k] =>
      \A v \in DOMAIN day :
        day[v].time <= cur_time /\ Urgency[day[v].type] < Urgency[k] =>
          v \notin Queued /\ ~Started(v)
<1> SUFFICES ASSUME DayInv, [Next]_sessionVars, NEW k \in Kinds, SLEEP[k], ~SLEEP'[k],
                    NEW v \in DOMAIN day, day[v].time <= cur_time, Urgency[day[v].type] < Urgency[k]
             PROVE  v \notin Queued /\ ~Started(v)
  OBVIOUS
<1>1. IInv /\ WaitInv /\ TimeInv /\ CallInv /\ FlagTypeOK /\ day \in Days
  BY DEF DayInv, IInv, FlagTypeOK
<1>2. v \in Visitors /\ day[v].type \in Kinds /\ day[v].time \in Int /\ cur_time \in Int
  BY <1>1, ArrivalsAreVisitors, DayIsList DEF Arrival, TimeInv
<1>3. DoctorCalls
  <2>1. SLEEP' # SLEEP
    OBVIOUS
  <2>2. \A u \in DOMAIN day : Visitor(u) => SLEEP' = SLEEP \/ \E j : SLEEP' = [SLEEP EXCEPT ![j] = TRUE]
    BY DEF Visitor, Enter, ResetFlag, Visit, EndSession, UnlockKind
  <2>3. \A j : SLEEP' = [SLEEP EXCEPT ![j] = TRUE] => SLEEP'[k] = TRUE
    BY <1>1 DEF FlagTypeOK
  <2>4. Assistant => SLEEP' = SLEEP
    BY DEF Assistant, AssistantSleeps, ClearFlag, Begin, Admit, WakeDoctor, AdvanceTime, Drain
  <2>5. Doctor => DoctorCalls \/ SLEEP' = SLEEP
    BY DEF Doctor, DoctorLocks, DoctorLeaves, DoctorStays, DoctorAwaits, DoctorIsDone
  <2>6. UNCHANGED sessionVars => SLEEP' = SLEEP
    BY DEF sessionVars
  <2> QED
    BY <2>1, <2>2, <2>3, <2>4, <2>5, <2>6 DEF Next
<1>4. dpc = "call" /\ (\A j \in Kinds : KindMutexFree(j)) /\ ~NobodyWaits
      /\ SLEEP' = [SLEEP EXCEPT ![Called] = FALSE]
  BY <1>3 DEF DoctorCalls
<1>5. k = Called
  BY <1>1, <1>4 DEF FlagTypeOK
<1>6. v \notin Queued
  <2>1. \A u \in Queued : day[u].time > cur_time
    BY <1>1, <1>4 DEF CallInv, Woke
  <2> QED
    BY <1>2, <2>1
<1>7. \A j \in Kinds : SLEEP[j] /\ CUR[j] \in Int
  BY <1>1, <1>4 DEF IInv, Idle, IsCalled, WaitInv
<1>8. ~(CUR[day[v].type] > 0)
  BY <1>2, <1>5 DEF Called, Urgency, Kinds
<1>9. CUR[day[v].type] = 0
  <2>1. Cardinality(Waiting(day[v].type)) = CUR[day[v].type]
    BY <1>1, <1>2, <1>7 DEF WaitInv, Counted
  <2>2. Cardinality(Waiting(day[v].type)) \in Nat
    BY <1>1, WaitingIsFinite
  <2> QED
    BY <1>8, <2>1, <2>2
<1>10. vpc[v] \notin {"lock", "asleep"}
  BY <1>1, <1>2, <1>7, <1>9, NoneWaits
<1>11. vpc[v] \notin Inside
  BY <1>2, <1>4 DEF KindMutexFree
<1> QED
  BY <1>6, <1>10, <1>11 DEF Started

-----------------------------------------------------------------------------
\* The queue holds exactly the visitors still to come, the first of them on top, for
\* every list of arrivals: the heap of event.c works (event.c:44-54, 77-96).
THEOREM QueueIsAHeap == Spec => []QueueInOrder
<1>1. DayInv => QueueInOrder
  BY OrderFromInv DEF DayInv, IInv, FlagTypeOK
<1> QED
  BY <1>1, AlwaysDayInv, PTL

\* The doctor leaves with the quotas reached and every started visitor seen off, and
\* has seen as many as the quotas allow, for every list of arrivals (session.c:76,
\* 325, 443).
THEOREM DoctorLeavesLast == Spec => []LeavesLast
<1>1. DayInv => LeavesLast
  BY AllWereSeen DEF DayInv, IInv
<1> QED
  BY <1>1, AlwaysDayInv, PTL

\* Time passes by the length of a visit, or to the next arrival when nobody waits
\* (session.c:159, 559).
THEOREM TimeNeverWaits == Spec => NoIdleTime
BY AlwaysDayInv, StepIsNotIdle, PTL DEF Spec, NoIdleTime

\* The doctor calls nobody while somebody more urgent has arrived (session.c:111-127, 473).
THEOREM UrgentAreCalledFirst == Spec => UrgentFirst
BY AlwaysDayInv, StepCallsUrgent, PTL DEF Spec, UrgentFirst
-----------------------------------------------------------------------------
(* Where the day may stop.                                                 *)

\* The guards of the assistant's turns, of the doctor's steps and of a visitor's.
AssistantMayGo ==
  \/ /\ apc = "lock" /\ DocMutexFree
     /\ \/ ASSIST_SLEEP
        \/ SESSION = 0 /\ (queue # <<>> => ev.time >= 0)
        \/ queue # <<>> /\ SESSION = 0 /\ ev.time < 0
        \/ queue # <<>> /\ SESSION = 1 /\ ev.time <= cur_time
        \/ SESSION = 1 /\ (queue = <<>> \/ (NextIsLater /\ (~NobodyWaits \/ QuotaReached)))
        \/ SESSION = 1 /\ NextIsLater /\ NobodyWaits /\ ~QuotaReached
        \/ SESSION = 2
  \/ apc = "unlocked"
DoctorMayGo == \/ dpc \in {"lock", "await"}
               \/ dpc \in {"decide", "call"} /\ \A k \in Kinds : KindMutexFree(k)
VisitorMayGo(v) == \/ vpc[v] = "lock" /\ KindMutexFree(day[v].type)
                   \/ vpc[v] \in Inside

\* The assistant sleeps exactly while the doctor is up: each is woken by the other.
DoctorUp == (~SLEEPING /\ dpc = "lock") \/ dpc \in {"decide", "call", "await", "in session"}
TurnInv ==
  /\ ASSIST_SLEEP \in BOOLEAN
  /\ apc \in {"lock", "asleep", "unlocked", "exit"}
  /\ DoctorUp => ASSIST_SLEEP /\ apc \in {"lock", "asleep"}
  /\ ASSIST_SLEEP /\ apc \in {"lock", "asleep"} => DoctorUp
  /\ apc = "asleep" => ASSIST_SLEEP
  /\ dpc = "gone" => SESSION = 2

\* Of a kind that is called, somebody is awake and on the way in.
ComesInv == \A k \in Kinds : IsCalled(k) => \E v \in DOMAIN day : day[v].type = k /\ vpc[v] = "lock"

\* The doctor is in a session with nobody only when nobody is there or will come
\* and the quotas are not reached.
Alone == (\A k \in Kinds : ~IsCalled(k)) /\ (\A v \in Visitors : ~There(v))
AloneInv ==
  /\ Woke => queue = <<>> \/ ~NobodyWaits \/ QuotaReached
  /\ dpc = "call" => ~WorkDone
  /\ dpc = "in session" => ONGOING_SESSION
  /\ dpc \in {"await", "in session"} /\ ONGOING_SESSION /\ Alone
       => queue = <<>> /\ NobodyWaits /\ ~QuotaReached

\* The totals count who has been taken from the queue.
Taken(k) == {v \in DOMAIN day : day[v].type = k /\ v \notin Queued}
TotalsInv == ~Over => \A k \in Kinds : TOTAL[k] = Cardinality(Taken(k))

LEMMA TurnInvStep == IInv /\ TimeInv /\ CallInv /\ TurnInv /\ [Next]_sessionVars => TurnInv'
<1> SUFFICES ASSUME IInv, TimeInv, CallInv, TurnInv, [Next]_sessionVars PROVE TurnInv'
  OBVIOUS
<1>0. /\ SLEEPING \in BOOLEAN /\ ASSIST_SLEEP \in BOOLEAN
      /\ dpc \in {"lock", "asleep", "decide", "call", "await", "in session", "gone"}
      /\ apc \in {"lock", "asleep", "unlocked", "exit"}
  BY DEF IInv, FlagTypeOK, TimeInv, TurnInv
<1>g. dpc = "gone" => SESSION = 2
  BY DEF TurnInv
<1>1. CASE UNCHANGED sessionVars
  BY <1>1 DEF sessionVars, TurnInv, DoctorUp
<1>2. CASE AssistantSleeps \/ ClearFlag
  <2>1. /\ UNCHANGED <<SLEEPING, dpc, SESSION>>
        /\ \/ apc = "lock" /\ ASSIST_SLEEP /\ apc' = "asleep" /\ ASSIST_SLEEP' = ASSIST_SLEEP
           \/ apc = "unlocked" /\ apc' = "lock" /\ ASSIST_SLEEP' = FALSE
    BY <1>2 DEF AssistantSleeps, ClearFlag
  <2>2. DoctorUp' <=> DoctorUp
    BY <2>1 DEF DoctorUp
  <2>3. dpc' = "gone" => SESSION' = 2
    BY <2>1 DEF TurnInv
  <2>4. CASE apc = "lock"
    <3>1. ASSIST_SLEEP /\ apc' = "asleep" /\ ASSIST_SLEEP' = ASSIST_SLEEP
      BY <2>1, <2>4
    <3> QED
      BY <2>2, <2>3, <2>4, <3>1 DEF TurnInv
  <2>5. CASE apc = "unlocked"
    <3>1. apc' = "lock" /\ ASSIST_SLEEP' = FALSE /\ ~DoctorUp
      BY <2>1, <2>5 DEF TurnInv
    <3> QED
      BY <2>2, <2>3, <3>1 DEF TurnInv
  <2> QED
    BY <2>1, <2>4, <2>5
<1>3. CASE WakeDoctor
  <2>1. /\ SLEEPING' = FALSE /\ ASSIST_SLEEP' = TRUE /\ apc' = "lock" /\ dpc' = Woken(dpc)
        /\ SESSION = 1 /\ SESSION' = SESSION /\ dpc \notin {"decide", "call", "await", "in session"}
    BY <1>3 DEF WakeDoctor, AssistantAwake, DocMutexFree
  <2>2. dpc # "gone"
    <3>1. SESSION = 1
      BY <1>3 DEF WakeDoctor
    <3> QED
      BY <1>g, <3>1
  <2>3. dpc' = "lock"
    BY <1>0, <2>1, <2>2 DEF Woken
  <2> QED
    BY <2>1, <2>3 DEF TurnInv, DoctorUp
<1>4. CASE Begin \/ Admit \/ AdvanceTime \/ Drain
  <2>1. /\ ASSIST_SLEEP' = TRUE /\ apc' \in {"unlocked", "exit"}
        /\ UNCHANGED <<SLEEPING, dpc>>
        /\ SESSION = 2 => SESSION' = 2
        /\ apc = "lock" /\ ~ASSIST_SLEEP
    BY <1>4 DEF Begin, Admit, AdvanceTime, Drain, AssistantAwake, Unlocks
  <2>2. ~DoctorUp
    BY <2>1 DEF TurnInv
  <2>3. ~DoctorUp'
    BY <2>1, <2>2 DEF DoctorUp
  <2>4. dpc' = "gone" => SESSION' = 2
    BY <2>1 DEF TurnInv
  <2> QED
    BY <2>1, <2>3, <2>4 DEF TurnInv
<1>5. CASE DoctorLocks
  <2>1. /\ dpc = "lock" /\ SLEEPING' = TRUE /\ UNCHANGED <<ASSIST_SLEEP, apc, SESSION>>
        /\ IF SLEEPING THEN dpc' = "asleep" ELSE dpc' = "decide"
    BY <1>5 DEF DoctorLocks
  <2>2. DoctorUp' <=> DoctorUp
    BY <1>0, <2>1 DEF DoctorUp
  <2>3. dpc' # "gone"
    BY <2>1
  <2> QED
    BY <2>1, <2>2, <2>3 DEF TurnInv
<1>6. CASE DoctorLeaves \/ DoctorIsDone
  <2>1. /\ ASSIST_SLEEP' = FALSE /\ apc' = Woken(apc) /\ UNCHANGED SLEEPING
        /\ \/ dpc = "decide" /\ dpc' = "gone" /\ SESSION' = 2
           \/ dpc = "await" /\ dpc' = "lock"
    BY <1>6 DEF DoctorLeaves, DoctorIsDone
  <2>2. SLEEPING /\ apc \in {"lock", "asleep"}
    BY <1>0, <2>1 DEF CallInv, TurnInv, DoctorUp
  <2>3. apc' = "lock" /\ ~DoctorUp'
    BY <2>1, <2>2 DEF Woken, DoctorUp
  <2> QED
    BY <2>1, <2>3 DEF TurnInv
<1>7. CASE DoctorStays \/ DoctorCalls \/ DoctorAwaits \/ \E v \in DOMAIN day : Visitor(v)
  <2>1. /\ UNCHANGED <<SLEEPING, ASSIST_SLEEP, apc, SESSION>>
        /\ \/ dpc' = dpc
           \/ /\ dpc \in {"decide", "call", "await", "in session"}
              /\ dpc' \in {"call", "await", "in session"}
    BY <1>7 DEF DoctorStays, DoctorCalls, DoctorAwaits, Visitor, Enter, Visit, EndSession, UnlockKind
  <2> QED
    BY <2>1 DEF TurnInv, DoctorUp
<1> QED
  BY <1>1, <1>2, <1>3, <1>4, <1>5, <1>6, <1>7 DEF Next, Assistant, Doctor

LEMMA ComesInvStep == IInv /\ QueueInv /\ WaitInv /\ ComesInv /\ [Next]_sessionVars => ComesInv'
<1> SUFFICES ASSUME IInv, QueueInv, WaitInv, ComesInv, [Next]_sessionVars PROVE ComesInv'
  OBVIOUS
<1>0. FlagTypeOK /\ day \in Days /\ DOMAIN day \subseteq Visitors
  BY ArrivalsAreVisitors DEF IInv, FlagTypeOK
<1>1. CASE UNCHANGED <<day, SLEEP, vpc>>
  BY <1>1 DEF ComesInv, IsCalled
<1>2. CASE Admit
  <2>1. /\ UNCHANGED <<day, SLEEP>>
        /\ vpc' = vpc \/ vpc' = [vpc EXCEPT ![queue[1]] = "lock"]
    BY <1>2 DEF Admit
  <2>2. \A v \in DOMAIN day : vpc[v] = "lock" => vpc'[v] = "lock"
    BY <1>0, <2>1 DEF FlagTypeOK
  <2> QED
    BY <2>1, <2>2 DEF ComesInv, IsCalled
<1>3. CASE DoctorCalls /\ ~NobodyWaits
  <2> DEFINE c == Called
  <2>1. /\ SLEEP' = [SLEEP EXCEPT ![c] = FALSE] /\ WakeOne(c) /\ day' = day /\ dpc = "call"
    BY <1>3 DEF DoctorCalls
  <2>2. c \in Kinds /\ CUR[c] # 0
    <3>1. CUR \in [Kinds -> Int] /\ \A k \in Kinds : SLEEP[k] /\ Counted(k)
      BY <2>1 DEF WaitInv, IInv, Idle, IsCalled
    <3>2. \A k \in Kinds : CUR[k] \in Nat
      BY <1>0, <3>1, WaitingIsFinite DEF Counted
    <3>3. CUR["P"] \in Nat /\ CUR["R"] \in Nat /\ CUR["S"] \in Nat
      BY <3>2 DEF Kinds
    <3>4. CUR["P"] # 0 \/ CUR["R"] # 0 \/ CUR["S"] # 0
      BY <1>3 DEF NobodyWaits, Kinds
    <3> QED
      BY <3>3, <3>4 DEF Called, Kinds
  <2> HIDE DEF c
  <2>3. \A k \in Kinds : SLEEP[k] /\ (~SLEEP'[k] => k = c)
    BY <1>0, <2>1 DEF IInv, Idle, IsCalled, FlagTypeOK
  <2>4. PICK w \in DOMAIN day : day[w].type = c /\ vpc[w] \in {"lock", "asleep"}
    <3>1. Cardinality(Waiting(c)) = CUR[c]
      BY <2>2, <2>3 DEF WaitInv, Counted
    <3>2. Waiting(c) # {}
      BY <2>2, <3>1, FS_EmptySet
    <3> QED
      BY <3>2 DEF Waiting
  <2>5. \E v \in DOMAIN day : day[v].type = c /\ vpc'[v] = "lock"
    <3>1. CASE vpc[w] = "lock" /\ \A v \in DOMAIN day : day[v].type = c => vpc[v] # "asleep"
      <4>1. vpc' = vpc
        BY <2>1, <3>1 DEF WakeOne
      <4> QED
        BY <2>4, <3>1, <4>1
    <3>2. CASE \E v \in DOMAIN day : day[v].type = c /\ vpc[v] = "asleep"
      <4>1. PICK v \in DOMAIN day : /\ day[v].type = c /\ vpc[v] = "asleep"
                                    /\ vpc' = [vpc EXCEPT ![v] = Woken(vpc[v])]
        BY <2>1, <3>2 DEF WakeOne
      <4>2. vpc'[v] = "lock"
        BY <1>0, <4>1 DEF FlagTypeOK, Woken
      <4> QED
        BY <4>1, <4>2
    <3> QED
      BY <2>4, <3>1, <3>2
  <2> QED
    BY <2>1, <2>3, <2>5 DEF ComesInv, IsCalled
<1>4. ASSUME NEW v \in DOMAIN day, Visitor(v) PROVE ComesInv'
  <2>1. day' = day /\ v \in Visitors /\ vpc \in [Visitors -> {"none", "lock", "asleep", "gone"} \cup Inside]
    BY <1>0, <1>4 DEF FlagTypeOK, Visitor, Enter, Visit, EndSession, UnlockKind
  <2>2. CASE Enter(v)
    <3> DEFINE k == day[v].type
    <3>1. CASE SLEEP[k]
      <4>1. vpc' = [vpc EXCEPT ![v] = "asleep"] /\ SLEEP' = SLEEP
        BY <2>2, <3>1 DEF Enter
      <4>2. ASSUME NEW j \in Kinds, ~SLEEP[j]
            PROVE  \E u \in DOMAIN day : day[u].type = j /\ vpc'[u] = "lock"
        <5>1. PICK u \in DOMAIN day : day[u].type = j /\ vpc[u] = "lock"
          BY <4>2 DEF ComesInv, IsCalled
        <5>2. u # v /\ u \in Visitors
          BY <1>0, <3>1, <4>2, <5>1
        <5> QED
          BY <2>1, <4>1, <5>1, <5>2
      <4> QED
        BY <2>1, <4>1, <4>2 DEF ComesInv, IsCalled
    <3>2. CASE ~SLEEP[k]
      <4>1. SLEEP' = [SLEEP EXCEPT ![k] = TRUE] /\ k \in Kinds
        BY <1>0, <2>2, <3>2, ArrivalsAreVisitors DEF Enter, ResetFlag
      <4>2. \A j \in Kinds : SLEEP'[j]
        BY <1>0, <3>2, <4>1 DEF IInv, Single, IsCalled, FlagTypeOK
      <4> QED
        BY <4>2 DEF ComesInv, IsCalled
    <3> QED
      BY <3>1, <3>2
  <2>3. CASE Visit(v) \/ EndSession(v) \/ UnlockKind(v)
    <3>1. /\ SLEEP' = SLEEP /\ vpc[v] \in {"in", "visited", "out"}
          /\ \E there : vpc' = [vpc EXCEPT ![v] = there]
      BY <2>3 DEF Visit, EndSession, UnlockKind
    <3>2. \A u \in DOMAIN day : vpc[u] = "lock" => vpc'[u] = "lock"
      BY <1>0, <2>1, <3>1
    <3> QED
      BY <2>1, <3>1, <3>2 DEF ComesInv, IsCalled
  <2> QED
    BY <1>4, <2>2, <2>3 DEF Visitor
<1>5. UNCHANGED sessionVars \/ Drain => UNCHANGED <<day, SLEEP, vpc>>
  BY DEF sessionVars, Drain
<1>6. Others => \/ \E v \in DOMAIN day : Visitor(v)
                \/ DoctorCalls /\ ~NobodyWaits
                \/ UNCHANGED <<day, SLEEP, vpc>>
  BY DEF Others, AssistantSleeps, ClearFlag, Begin, WakeDoctor, AdvanceTime, Doctor, DoctorLocks,
         DoctorLeaves, DoctorStays, DoctorCalls, DoctorAwaits, DoctorIsDone
<1> QED
  BY <1>1, <1>2, <1>3, <1>4, <1>5, <1>6, StepIsOne

\* From its wake-up on the doctor has the day to itself but for the visitors.
LEMMA UpIsAlone ==
  ASSUME TurnInv, CallInv, Assistant, Woke \/ dpc \in {"await", "in session"}
  PROVE  /\ UNCHANGED <<queue, TOTAL, CUR, SLEEP, SLEEPING, ONGOING_SESSION, dpc, vpc>>
<1>1. DoctorUp \/ dpc = "gone"
  BY DEF Woke, CallInv, DoctorUp
<1>2. ASSIST_SLEEP /\ apc \in {"lock", "asleep"}
  BY <1>1 DEF TurnInv, Woke, CallInv
<1>3. AssistantSleeps
  BY <1>2 DEF Assistant, ClearFlag, Begin, Admit, WakeDoctor, AdvanceTime, Drain, AssistantAwake
<1> QED
  BY <1>3 DEF AssistantSleeps

LEMMA AloneInvStep ==
  IInv /\ CallInv /\ TurnInv /\ AloneInv /\ [Next]_sessionVars => AloneInv'
<1> SUFFICES ASSUME IInv, CallInv, TurnInv, AloneInv, [Next]_sessionVars PROVE AloneInv'
  OBVIOUS
<1>0. FlagTypeOK /\ DOMAIN day \subseteq Visitors
  BY ArrivalsAreVisitors DEF IInv, FlagTypeOK
<1>1. CASE UNCHANGED sessionVars
  BY <1>1 DEF sessionVars, AloneInv, Woke, WorkDone, QuotaReached, NobodyWaits, Alone, IsCalled,
     There, With
<1>2. CASE Assistant
  <2>1. CASE Woke \/ dpc \in {"await", "in session"}
    <3>1. UNCHANGED <<queue, TOTAL, CUR, SLEEP, SLEEPING, ONGOING_SESSION, dpc, vpc>>
      BY <1>2, <2>1, UpIsAlone
    <3> QED
      BY <3>1 DEF AloneInv, Woke, WorkDone, QuotaReached, NobodyWaits, Alone, IsCalled, There, With
  <2>2. CASE ~Woke /\ dpc \notin {"await", "in session"} /\ ~WakeDoctor
    <3>1. UNCHANGED <<SLEEPING, dpc>>
      BY <1>2, <2>2 DEF Assistant, AssistantSleeps, ClearFlag, Begin, Admit, AdvanceTime, Drain
    <3> QED
      BY <2>2, <3>1 DEF AloneInv, Woke
  <2>3. CASE ~Woke /\ dpc \notin {"await", "in session"} /\ WakeDoctor
    <3>1. /\ queue = <<>> \/ ~NobodyWaits \/ QuotaReached
          /\ UNCHANGED <<queue, TOTAL, CUR>> /\ dpc' = Woken(dpc)
      BY <2>3 DEF WakeDoctor
    <3>2. dpc' \notin {"call", "await", "in session"}
      BY <2>3, <3>1 DEF Woken, Woke
    <3>3. queue' = <<>> \/ ~NobodyWaits' \/ QuotaReached'
      BY <3>1 DEF NobodyWaits, QuotaReached
    <3> QED
      BY <3>2, <3>3 DEF AloneInv
  <2> QED
    BY <2>1, <2>2, <2>3
<1>3. CASE DoctorLocks \/ DoctorStays \/ DoctorLeaves \/ DoctorIsDone
  <2>1. /\ UNCHANGED <<queue, TOTAL, CUR>>
        /\ Woke' => Woke
        /\ dpc' \notin {"await", "in session"}
        /\ dpc' = "call" => ~WorkDone
    <3>1. dpc = "lock" \/ dpc = "decide" \/ (dpc = "await" /\ SLEEPING' = SLEEPING)
      BY <1>3 DEF DoctorLocks, DoctorStays, DoctorLeaves, DoctorIsDone
    <3>2. UNCHANGED <<queue, TOTAL, CUR>> /\ dpc' \notin {"await", "in session"}
      BY <1>3 DEF DoctorLocks, DoctorStays, DoctorLeaves, DoctorIsDone
    <3>3. dpc' = "call" => ~WorkDone
      BY <1>3 DEF DoctorLocks, DoctorStays, DoctorLeaves, DoctorIsDone
    <3>4. Woke' => Woke
      <4>1. CASE DoctorLocks
        BY <4>1 DEF DoctorLocks, Woke
      <4>2. CASE DoctorStays
        BY <4>2 DEF DoctorStays, Woke
      <4>3. CASE DoctorLeaves \/ DoctorIsDone
        BY <4>3 DEF DoctorLeaves, DoctorIsDone, Woke
      <4> QED
        BY <1>3, <4>1, <4>2, <4>3
    <3> QED
      BY <3>2, <3>3, <3>4
  <2>2. (NobodyWaits' <=> NobodyWaits) /\ (QuotaReached' <=> QuotaReached) /\ (WorkDone' <=> WorkDone)
    BY <2>1 DEF NobodyWaits, QuotaReached, WorkDone
  <2> QED
    BY <2>1, <2>2 DEF AloneInv
<1>4. CASE DoctorCalls
  <2>1. /\ dpc = "call" /\ dpc' = "await" /\ UNCHANGED <<queue, TOTAL, SLEEPING>>
        /\ IF NobodyWaits THEN UNCHANGED <<SLEEP, CUR, vpc>>
           ELSE SLEEP' = [SLEEP EXCEPT ![Called] = FALSE]
    BY <1>4 DEF DoctorCalls
  <2>2. ~Woke'
    BY <2>1 DEF CallInv, Woke
  <2>3. CASE NobodyWaits
    <3>1. queue = <<>> /\ ~QuotaReached
      BY <2>1, <2>3 DEF AloneInv, Woke, WorkDone
    <3>2. queue' = <<>> /\ NobodyWaits' /\ ~QuotaReached'
      BY <2>1, <2>3, <3>1 DEF NobodyWaits, QuotaReached
    <3> QED
      BY <2>1, <2>2, <3>2 DEF AloneInv
  <2>4. CASE ~NobodyWaits
    <3>1. Called \in Kinds
      BY DEF Called, Kinds
    <3>2. ~SLEEP'[Called]
      BY <1>0, <2>1, <2>4, <3>1 DEF FlagTypeOK
    <3>3. \E k \in Kinds : ~SLEEP'[k]
      BY <3>1, <3>2
    <3>4. ~Alone'
      BY <3>3 DEF Alone, IsCalled
    <3> QED
      BY <2>1, <2>2, <3>4 DEF AloneInv
  <2> QED
    BY <2>3, <2>4
<1>5. CASE DoctorAwaits
  <2>1. /\ dpc = "await" /\ dpc' = "in session" /\ ONGOING_SESSION
        /\ UNCHANGED <<queue, TOTAL, CUR, SLEEP, SLEEPING, ONGOING_SESSION, vpc>>
    BY <1>5 DEF DoctorAwaits
  <2>2. Woke' => Woke
    BY <2>1 DEF Woke
  <2>3. ONGOING_SESSION'
    BY <2>1
  <2>4. /\ NobodyWaits' <=> NobodyWaits
        /\ QuotaReached' <=> QuotaReached
        /\ Alone' <=> Alone
    BY <2>1 DEF NobodyWaits, QuotaReached, Alone, IsCalled, There, With
  <2> QED
    BY <2>1, <2>2, <2>3, <2>4 DEF AloneInv
<1>6. ASSUME NEW v \in DOMAIN day, Visitor(v) PROVE AloneInv'
  <2>1. UNCHANGED <<queue, TOTAL, CUR, SLEEPING>>
    BY <1>6 DEF Visitor, Enter, Visit, EndSession, UnlockKind
  <2>2. /\ NobodyWaits' <=> NobodyWaits
        /\ QuotaReached' <=> QuotaReached
        /\ WorkDone' <=> WorkDone
    BY <2>1 DEF NobodyWaits, QuotaReached, WorkDone
  <2>3. CASE EndSession(v)
    <3>1. ~ONGOING_SESSION' /\ dpc' # "in session" /\ (dpc' = dpc \/ dpc' = "await")
      BY <2>3 DEF EndSession
    <3>2. Woke' => Woke
      BY <2>1, <3>1 DEF Woke
    <3> QED
      BY <2>1, <2>2, <3>1, <3>2 DEF AloneInv
  <2>4. CASE ~EndSession(v)
    <3>1. UNCHANGED <<dpc, ONGOING_SESSION>>
      BY <1>6, <2>4 DEF Visitor, Enter, Visit, UnlockKind
    <3>2. Woke' <=> Woke
      BY <2>1, <3>1 DEF Woke
    <3>3. Alone' => Alone
      <4>1. v \in Visitors /\ vpc \in [Visitors -> {"none", "lock", "asleep", "gone"} \cup Inside]
        BY <1>0 DEF FlagTypeOK
      <4>2. CASE Enter(v)
        <5>1. \/ SLEEP' = SLEEP /\ vpc' = [vpc EXCEPT ![v] = "asleep"] /\ vpc[v] = "lock"
              \/ vpc' = [vpc EXCEPT ![v] = "in"]
          BY <4>2 DEF Enter
        <5> QED
          BY <4>1, <5>1 DEF Alone, IsCalled, There, With
      <4>3. CASE Visit(v)
        <5>1. vpc' = [vpc EXCEPT ![v] = "visited"]
          BY <4>3 DEF Visit
        <5> QED
          BY <4>1, <5>1 DEF Alone, There, With
      <4>4. CASE UnlockKind(v)
        <5>1. vpc[v] = "out" /\ vpc' = [vpc EXCEPT ![v] = "gone"] /\ SLEEP' = SLEEP
          BY <4>4 DEF UnlockKind
        <5> QED
          BY <4>1, <5>1 DEF Alone, IsCalled, There, With
      <4> QED
        BY <1>6, <2>4, <4>2, <4>3, <4>4 DEF Visitor
    <3> QED
      BY <2>1, <2>2, <3>1, <3>2, <3>3 DEF AloneInv
  <2> QED
    BY <2>3, <2>4
<1> QED
  BY <1>1, <1>2, <1>3, <1>4, <1>5, <1>6 DEF Next, Doctor

\* Whoever is taken from the queue is counted in the totals of its kind.
LEMMA TotalsInvStep ==
  day \in Days /\ QueueInv /\ TotalsInv /\ [Next]_sessionVars => TotalsInv'
<1> SUFFICES ASSUME day \in Days, QueueInv, TotalsInv, [Next]_sessionVars, ~Over'
             PROVE  \A k \in Kinds : TOTAL'[k] = Cardinality(Taken(k)')
  BY DEF TotalsInv
<1>0. TOTAL \in [Kinds -> Nat]
  BY DEF QueueInv
<1>1. ~Over
  BY DEF Next, Over, sessionVars
<1>2. \A k \in Kinds : TOTAL[k] = Cardinality(Taken(k))
  BY <1>1 DEF TotalsInv
<1>3. CASE UNCHANGED <<day, TOTAL>> /\ Queued' = Queued
  <2>1. \A k : Taken(k)' = Taken(k)
    BY <1>3 DEF Taken
  <2> QED
    BY <1>2, <1>3, <2>1
<1>4. CASE Admit
  <2> DEFINE w == queue[1]
             k == ev.type
  <2>1. /\ Queued' = Queued \ {w} /\ w \in Queued /\ w \in DOMAIN day /\ day' = day
        /\ k = day[w].type /\ TOTAL' = [TOTAL EXCEPT ![k] = @ + 1]
    BY <1>4, AdmitTakes, TopIsFirst DEF Admit, ev
  <2> HIDE DEF w, k
  <2>2. \A j : Taken(j)' = IF j = k THEN Taken(j) \cup {w} ELSE Taken(j)
    <3>1. \A j, v : v \in Taken(j)' <=> v \in DOMAIN day /\ day[v].type = j /\ (v \notin Queued \/ v = w)
      BY <2>1 DEF Taken
    <3>2. \A j, v : v \in Taken(j) <=> v \in DOMAIN day /\ day[v].type = j /\ v \notin Queued
      BY DEF Taken
    <3> TAKE j
    <3>3. CASE j = k
      <4>1. \A v : v \in Taken(j)' <=> v \in Taken(j) \/ v = w
        BY <2>1, <3>1, <3>2, <3>3
      <4> QED
        BY <3>3, <4>1
    <3>4. CASE j # k
      <4>1. \A v : v \in Taken(j)' <=> v \in Taken(j)
        BY <2>1, <3>1, <3>2, <3>4
      <4> QED
        BY <3>4, <4>1
    <3> QED
      BY <3>3, <3>4
  <2>3. IsFiniteSet(Taken(k)) /\ w \notin Taken(k)
    <3>1. Taken(k) \in SUBSET DOMAIN day
      BY DEF Taken
    <3>2. IsFiniteSet(DOMAIN day)
      BY DayIsList
    <3>3. w \notin Taken(k)
      BY <2>1 DEF Taken
    <3> QED
      BY <3>1, <3>2, <3>3, FS_Subset
  <2>4. Cardinality(Taken(k) \cup {w}) = Cardinality(Taken(k)) + 1
    BY <2>3, FS_AddElement
  <2>5. \A j \in Kinds : TOTAL'[j] = IF j = k THEN TOTAL[j] + 1 ELSE TOTAL[j]
    BY <1>0, <2>1
  <2> TAKE j \in Kinds
  <2>6. CASE j = k
    BY <1>2, <2>2, <2>4, <2>5, <2>6
  <2>7. CASE j # k
    BY <1>2, <2>2, <2>5, <2>7
  <2> QED
    BY <2>6, <2>7
<1>5. ~Drain
  BY DEF Drain, Over
<1>6. UNCHANGED sessionVars => UNCHANGED <<day, TOTAL>> /\ Queued' = Queued
  BY DEF sessionVars, Queued
<1> QED
  BY <1>3, <1>4, <1>5, <1>6, StepIsOne, OthersTakeNobody

\* The inductive invariant of the day with those who take turns in it.
TurnsInv == DayInv /\ TurnInv /\ ComesInv /\ AloneInv /\ TotalsInv

LEMMA TurnsInvInit == Init => TurnsInv
<1> SUFFICES ASSUME Init PROVE TurnsInv
  OBVIOUS
<1>1. DayInv /\ day \in Days
  BY DayInvInit DEF Init
<1>2. /\ SLEEP = [k \in Kinds |-> TRUE] /\ TOTAL = [k \in Kinds |-> 0]
      /\ SLEEPING = TRUE /\ ASSIST_SLEEP = FALSE /\ dpc = "lock" /\ apc = "lock"
  BY DEF Init
<1>3. TurnInv
  BY <1>2 DEF TurnInv, DoctorUp
<1>4. ComesInv
  BY <1>2 DEF ComesInv, IsCalled
<1>5. AloneInv
  BY <1>2 DEF AloneInv, Woke
<1>6. TotalsInv
  <2>1. Queued = DOMAIN day
    <3>1. IsFiniteSet(Queued) /\ Cardinality(Queued) = Len(day) /\ Queued \subseteq DOMAIN day
      <4>1. /\ Cardinality(Queued) + TOTAL["P"] + TOTAL["R"] + TOTAL["S"] = Len(day)
            /\ queue \in Seq(DOMAIN day)
        BY <1>1 DEF DayInv, QueueInv
      <4>2. Queued \subseteq DOMAIN day
        BY <4>1 DEF Queued
      <4>3. IsFiniteSet(Queued) /\ Cardinality(Queued) \in Nat
        BY <1>1, <4>2, DayIsList, FS_Subset, FS_CardinalityType
      <4>4. TOTAL["P"] = 0 /\ TOTAL["R"] = 0 /\ TOTAL["S"] = 0
        BY <1>2 DEF Kinds
      <4> QED
        BY <4>1, <4>2, <4>3, <4>4
    <3>2. IsFiniteSet(DOMAIN day) /\ Cardinality(DOMAIN day) = Len(day)
      BY <1>1, DayIsList
    <3> QED
      BY <3>1, <3>2, FS_Subset
  <2>2. \A k : Taken(k) = {}
    BY <2>1 DEF Taken
  <2> QED
    BY <1>2, <2>2, FS_EmptySet DEF TotalsInv
<1> QED
  BY <1>1, <1>3, <1>4, <1>5, <1>6 DEF TurnsInv

LEMMA TurnsInvStep == TurnsInv /\ [Next]_sessionVars => TurnsInv'
<1> SUFFICES ASSUME TurnsInv, [Next]_sessionVars PROVE TurnsInv'
  OBVIOUS
<1>1. IInv /\ QueueInv /\ WaitInv /\ TimeInv /\ CallInv /\ day \in Days
  BY DEF TurnsInv, DayInv, IInv, FlagTypeOK
<1>2. TurnInv /\ ComesInv /\ AloneInv /\ TotalsInv
  BY DEF TurnsInv
<1>3. DayInv'
  BY DayInvStep DEF TurnsInv
<1>4. TurnInv' /\ AloneInv'
  BY <1>1, <1>2, TurnInvStep, AloneInvStep
<1>5. ComesInv' /\ TotalsInv'
  BY <1>1, <1>2, ComesInvStep, TotalsInvStep
<1> QED
  BY <1>3, <1>4, <1>5 DEF TurnsInv

\* The assistant with the mutex always has a turn to take.
LEMMA AssistantTurns ==
  ASSUME TurnsInv, apc = "lock", DocMutexFree
  PROVE  AssistantMayGo
<1>1. SESSION \in {0, 1, 2} /\ cur_time \in Int /\ day \in Days /\ QueueInv
  <2>1. SESSION \in 0..2 /\ cur_time \in Int
    BY DEF TurnsInv, DayInv, LeaveInv, TimeInv
  <2>2. day \in Days /\ QueueInv
    BY DEF TurnsInv, DayInv, IInv, FlagTypeOK
  <2> QED
    BY <2>1, <2>2
<1>2. queue # <<>> => ev.time \in Int
  BY <1>1, TopIsFirst, DayIsList DEF ev, Arrival
<1>3. CASE SESSION = 0
  BY <1>2, <1>3 DEF AssistantMayGo
<1>4. CASE SESSION = 1
  <2>1. CASE queue = <<>>
    BY <1>4, <2>1 DEF AssistantMayGo
  <2>2. CASE queue # <<>> /\ ev.time <= cur_time
    BY <1>4, <2>2 DEF AssistantMayGo
  <2>3. CASE queue # <<>> /\ ~(ev.time <= cur_time)
    <3>1. NextIsLater
      BY <1>1, <1>2, <2>3 DEF NextIsLater
    <3> QED
      BY <1>4, <3>1 DEF AssistantMayGo
  <2> QED
    BY <2>1, <2>2, <2>3
<1>5. CASE SESSION = 2
  BY <1>5 DEF AssistantMayGo
<1> QED
  BY <1>1, <1>3, <1>4, <1>5

\* When nobody has a step to take, it is because the doctor is in a session with
\* nobody, on a day with too few visitors.
LEMMA NobodyGoesOnlyStalled ==
  ASSUME TurnsInv, ~Over, ~AssistantMayGo, ~DoctorMayGo, \A v \in DOMAIN day : ~VisitorMayGo(v)
  PROVE  Stalled
<1>0. FlagTypeOK /\ day \in Days /\ DOMAIN day \subseteq Visitors /\ WaitInv
  BY ArrivalsAreVisitors DEF TurnsInv, DayInv, IInv, FlagTypeOK
<1>1. \A k : KindMutexFree(k)
  BY DEF KindMutexFree, VisitorMayGo
<1>2. \A v \in DOMAIN day : vpc[v] # "lock" /\ vpc[v] \notin Inside
  BY <1>1 DEF VisitorMayGo
<1>3. dpc \in {"asleep", "in session", "gone"}
  BY <1>0, <1>1 DEF FlagTypeOK, DoctorMayGo
<1>4. apc \in {"lock", "asleep"}
  BY DEF TurnsInv, TurnInv, Over, AssistantMayGo
<1>5. dpc = "in session"
  <2> SUFFICES ASSUME dpc # "in session" PROVE FALSE
    OBVIOUS
  <2>1. DocMutexFree /\ ~DoctorUp
    BY <1>3 DEF DocMutexFree, DoctorUp
  <2>2. apc = "asleep"
    BY <1>4, <2>1, AssistantTurns
  <2> QED
    BY <2>1, <2>2 DEF TurnsInv, TurnInv
<1>6. Alone
  <2>1. \A k \in Kinds : ~IsCalled(k)
    BY <1>2 DEF TurnsInv, ComesInv
  <2>2. \A v \in Visitors : ~There(v)
    BY <1>0, <1>2 DEF WaitInv, There, With, Inside
  <2> QED
    BY <2>1, <2>2 DEF Alone
<1>7. queue = <<>> /\ NobodyWaits /\ ~QuotaReached
  BY <1>5, <1>6 DEF TurnsInv, AloneInv
<1>8. ~EnoughCome
  <2>1. Queued = {}
    BY <1>7 DEF Queued
  <2>2. \A k \in Kinds : TOTAL[k] = Cardinality({v \in DOMAIN day : day[v].type = k})
    <3>1. \A k : Taken(k) = {v \in DOMAIN day : day[v].type = k}
      BY <2>1 DEF Taken
    <3>2. \A k \in Kinds : TOTAL[k] = Cardinality(Taken(k))
      BY DEF TurnsInv, TotalsInv
    <3> QED
      BY <3>1, <3>2
  <2>3. TOTAL["P"] = Arrivals("P") /\ TOTAL["S"] = Arrivals("S")
    BY <2>2 DEF Arrivals, Kinds
  <2> QED
    BY <1>7, <2>3 DEF EnoughCome, QuotaReached
<1>9. \A v \in Visitors : vpc[v] \in {"none", "gone"}
  <2>1. \A k \in Kinds : SLEEP[k] /\ CUR[k] = 0
    BY <1>6, <1>7 DEF Alone, IsCalled, NobodyWaits
  <2>2. \A v \in DOMAIN day : vpc[v] \notin {"lock", "asleep"}
    BY <1>0, <2>1, NoneWaits, ArrivalsAreVisitors
  <2>3. \A v \in DOMAIN day : vpc[v] \in {"none", "gone"}
    BY <1>0, <1>2, <2>2 DEF FlagTypeOK
  <2> QED
    BY <1>0, <2>3 DEF WaitInv
<1> QED
  BY <1>4, <1>5, <1>7, <1>8, <1>9 DEF Stalled

\* For every day and all quotas: until the day is over somebody has a step to take,
\* or too few visitors came and the doctor is in a session with nobody
\* (session.c:70, 134, 456).  The safety half of DayEnds: no wake-up is lost.
THEOREM OnlyTooFewStall ==
  Spec => [](Over \/ Stalled \/ AssistantMayGo \/ DoctorMayGo \/ \E v \in DOMAIN day : VisitorMayGo(v))
<1>1. TurnsInv => Over \/ Stalled \/ AssistantMayGo \/ DoctorMayGo \/ \E v \in DOMAIN day : VisitorMayGo(v)
  BY NobodyGoesOnlyStalled
<1> QED
  BY <1>1, TurnsInvInit, TurnsInvStep, PTL DEF Spec
=============================================================================
