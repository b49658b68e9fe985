------------------------- MODULE VirtualMemoryProofs -------------------------
(***************************************************************************)
(* For any number of processes, pages and frames, any reference strings,   *)
(* with or without the Scheduler's timing and with any leftover semaphores:*)
(* the state of Assignment8 is well-typed, which says that Master hands out*)
(* no more frames than there are, and no frame ever serves two pages.      *)
(* With the timing, also: one process runs at a time, takes the replies to *)
(* its own requests, loses its least recently used page, and has given     *)
(* everything back when Master reports; and the whole implements           *)
(* PagedExecution.                                                         *)
(***************************************************************************)
EXTENDS VirtualMemory, SequenceTheorems, FiniteSetTheorems, TLAPS

-----------------------------------------------------------------------------
(* What each operation on the page tables preserves.                       *)

\* The tables are well-formed and share no frame.
TableInv == TableTypeOK /\ FramesExclusive

\* While Master hands frames out, exactly the first c are taken.
HandedOut(c) ==
  /\ c \in 0..F
  /\ \A x \in Frames : free_frames[x] = 1 <=> x < c
  /\ \A p \in Procs, g \in Pages : valid_bit[p][g] = 1 => frame[p][g] < c

-----------------------------------------------------------------------------
\* A reference to a resident page changes no mapping.
LEMMA TouchKeeps ==
  ASSUME NEW p \in Procs, NEW g \in Pages, TableInv, Touch(p, g)
  PROVE  TableInv'
<1>1. lru_counter' \in [Procs -> [Pages -> Nat]]
  <2>1. \A h \in Pages : lru_counter[p][h] \in Nat /\ lru_counter[p][h] + 1 \in Nat
    BY DEF TableInv, TableTypeOK
  <2> QED
    BY <2>1 DEF Touch, TableInv, TableTypeOK
<1>2. UNCHANGED <<size, frame, valid_bit, free_frames>>
  BY DEF Touch
<1> QED
  BY <1>1, <1>2 DEF TableInv, TableTypeOK, FramesExclusive

\* A page put into a free frame takes it from no other page.
LEMMA LoadKeeps ==
  ASSUME NEW p \in Procs, NEW g \in Pages, TableInv, LoadInFreeFrame(p, g)
  PROVE  TableInv'
<1>1. PICK x \in Frames :
        /\ ScanStopsAt(x)
        /\ frame' = [frame EXCEPT ![p][g] = x]
        /\ free_frames' = [free_frames EXCEPT ![x] = 1]
  BY DEF LoadInFreeFrame
<1>2. x \in 0..F /\ x # F /\ free_frames[x] = 0
  BY <1>1, PagingAssumption DEF ScanStopsAt, Frames, TableInv, TableTypeOK
<1>3. /\ valid_bit' = [valid_bit EXCEPT ![p][g] = 1]
      /\ lru_counter' = [lru_counter EXCEPT ![p][g] = 0]
      /\ size' = size
  BY DEF LoadInFreeFrame
<1>4. TableTypeOK'
  <2>1. frame' \in [Procs -> [Pages -> -1 .. F-1]]
    BY <1>1, PagingAssumption DEF Frames, TableInv, TableTypeOK
  <2>2. valid_bit' \in [Procs -> [Pages -> {0, 1}]]
    BY <1>3 DEF TableInv, TableTypeOK
  <2>3. lru_counter' \in [Procs -> [Pages -> Nat]]
    BY <1>3 DEF TableInv, TableTypeOK
  <2>4. /\ free_frames' \in [0..F -> {-1, 0, 1}]
        /\ \A y \in 0..F : free_frames'[y] = -1 <=> y = F
    BY <1>1, <1>2 DEF TableInv, TableTypeOK
  <2> QED
    BY <1>3, <2>1, <2>2, <2>3, <2>4 DEF TableInv, TableTypeOK
<1>5. \A q \in Procs, h \in Pages :
        valid_bit[q][h] = 1 => frame[q][h] \in Frames /\ frame[q][h] # x
                               /\ free_frames[frame[q][h]] = 1
  BY <1>2 DEF TableInv, FramesExclusive
<1>6. \A q \in Procs, h \in Pages :
        /\ frame'[q][h] = IF q = p /\ h = g THEN x ELSE frame[q][h]
        /\ valid_bit'[q][h] = IF q = p /\ h = g THEN 1 ELSE valid_bit[q][h]
  BY <1>1, <1>3 DEF TableInv, TableTypeOK
<1>7. \A y \in Frames : free_frames'[y] = IF y = x THEN 1 ELSE free_frames[y]
  BY <1>1, <1>2, PagingAssumption DEF Frames, TableInv, TableTypeOK
<1>8. FramesExclusive'
  <2> SUFFICES ASSUME NEW q \in Procs, NEW r \in Procs, NEW h \in Pages, NEW i \in Pages,
                      valid_bit'[q][h] = 1
               PROVE  /\ frame'[q][h] \in Frames
                      /\ free_frames'[frame'[q][h]] = 1
                      /\ valid_bit'[r][i] = 1 /\ frame'[r][i] = frame'[q][h]
                           => r = q /\ i = h
    BY DEF FramesExclusive, Procs, Pages, Frames
  <2>1. CASE q = p /\ h = g
    BY <2>1, <1>5, <1>6, <1>7
  <2>2. CASE ~(q = p /\ h = g)
    BY <2>2, <1>5, <1>6, <1>7 DEF TableInv, FramesExclusive
  <2> QED
    BY <2>1, <2>2
<1> QED
  BY <1>4, <1>8 DEF TableInv

\* A replacement hands one frame from one page of the process to another.
LEMMA ReplaceKeeps ==
  ASSUME NEW p \in Procs, NEW g \in Pages, TableInv, ReplaceOwnPage(p, g)
  PROVE  TableInv'
<1>1. PICK v \in Pages :
        /\ IsMaxLru(p, v)
        /\ frame' = [frame EXCEPT ![p] = [@ EXCEPT ![v] = -1, ![g] = frame[p][v]]]
        /\ valid_bit' = [valid_bit EXCEPT ![p] = [@ EXCEPT ![v] = 0, ![g] = 1]]
  BY DEF ReplaceOwnPage
<1>2. valid_bit[p][v] = 1 /\ v # g /\ frame[p][v] \in Frames
  BY <1>1 DEF IsMaxLru, Resident, ReplaceOwnPage, TableInv, FramesExclusive
<1>3. /\ lru_counter' = [lru_counter EXCEPT ![p][g] = 0]
      /\ UNCHANGED <<size, free_frames>>
  BY DEF ReplaceOwnPage
<1>4. \A q \in Procs, h \in Pages :
        /\ frame'[q][h] = IF q = p /\ h = g THEN frame[p][v]
                          ELSE IF q = p /\ h = v THEN -1 ELSE frame[q][h]
        /\ valid_bit'[q][h] = IF q = p /\ h = g THEN 1
                              ELSE IF q = p /\ h = v THEN 0 ELSE valid_bit[q][h]
  BY <1>1, <1>2 DEF TableInv, TableTypeOK
<1>5. TableTypeOK'
  <2>1. frame' \in [Procs -> [Pages -> -1 .. F-1]]
    <3>1. frame[p] \in [Pages -> -1 .. F-1] /\ frame[p][v] \in -1 .. F-1 /\ -1 \in -1 .. F-1
      BY PagingAssumption DEF TableInv, TableTypeOK
    <3>2. [frame[p] EXCEPT ![v] = -1, ![g] = frame[p][v]] \in [Pages -> -1 .. F-1]
      BY <3>1
    <3> QED
      BY <1>1, <3>2 DEF TableInv, TableTypeOK
  <2>2. valid_bit' \in [Procs -> [Pages -> {0, 1}]]
    BY <1>1 DEF TableInv, TableTypeOK
  <2>3. lru_counter' \in [Procs -> [Pages -> Nat]]
    BY <1>3 DEF TableInv, TableTypeOK
  <2> QED
    BY <1>3, <2>1, <2>2, <2>3 DEF TableInv, TableTypeOK
<1>6. FramesExclusive'
  <2> SUFFICES ASSUME NEW q \in Procs, NEW r \in Procs, NEW h \in Pages, NEW i \in Pages,
                      valid_bit'[q][h] = 1
               PROVE  /\ frame'[q][h] \in Frames
                      /\ free_frames'[frame'[q][h]] = 1
                      /\ valid_bit'[r][i] = 1 /\ frame'[r][i] = frame'[q][h]
                           => r = q /\ i = h
    BY DEF FramesExclusive, Procs, Pages, Frames
  <2>1. CASE q = p /\ h = g
    BY <2>1, <1>2, <1>3, <1>4 DEF TableInv, FramesExclusive
  <2>2. CASE ~(q = p /\ h = g)
    BY <2>2, <1>2, <1>3, <1>4 DEF TableInv, FramesExclusive
  <2> QED
    BY <2>1, <2>2
<1> QED
  BY <1>5, <1>6 DEF TableInv

\* Giving frames back unmaps every page of the process that held one of them.
LEMMA ReleaseKeeps ==
  ASSUME NEW p \in Procs, TableInv, Release(p)
  PROVE  TableInv'
<1>1. \A q \in Procs, h \in Pages :
        /\ frame'[q][h] = IF q = p /\ h \in Resident(p) THEN -1 ELSE frame[q][h]
        /\ valid_bit'[q][h] = IF q = p /\ h \in Resident(p) THEN 0 ELSE valid_bit[q][h]
  BY DEF Release, TableInv, TableTypeOK
<1>2. \A x \in 0..F : free_frames'[x] =
        IF \E g \in Resident(p) : frame[p][g] = x THEN 0 ELSE free_frames[x]
  BY DEF Release
<1>3. \A g \in Resident(p) : g \in Pages /\ valid_bit[p][g] = 1 /\ frame[p][g] \in Frames
  BY DEF Resident, TableInv, FramesExclusive
<1>4. TableTypeOK'
  <2>1. frame' \in [Procs -> [Pages -> -1 .. F-1]]
    BY PagingAssumption DEF Release, TableInv, TableTypeOK
  <2>2. valid_bit' \in [Procs -> [Pages -> {0, 1}]]
    BY DEF Release, TableInv, TableTypeOK
  <2>3. free_frames' \in [0..F -> {-1, 0, 1}]
    BY DEF Release, TableInv, TableTypeOK
  <2>4. \A x \in 0..F : free_frames'[x] = -1 <=> x = F
    BY <1>2, <1>3, PagingAssumption DEF Frames, TableInv, TableTypeOK
  <2> QED
    BY <2>1, <2>2, <2>3, <2>4 DEF Release, TableInv, TableTypeOK
<1>5. FramesExclusive'
  <2> SUFFICES ASSUME NEW q \in Procs, NEW r \in Procs, NEW h \in Pages, NEW i \in Pages,
                      valid_bit'[q][h] = 1
               PROVE  /\ frame'[q][h] \in Frames
                      /\ free_frames'[frame'[q][h]] = 1
                      /\ valid_bit'[r][i] = 1 /\ frame'[r][i] = frame'[q][h]
                           => r = q /\ i = h
    BY DEF FramesExclusive, Procs, Pages, Frames
  <2>1. /\ valid_bit[q][h] = 1 /\ frame'[q][h] = frame[q][h]
        /\ ~(q = p /\ h \in Resident(p))
    BY <1>1
  <2>2. frame[q][h] \in Frames /\ free_frames[frame[q][h]] = 1
    BY <2>1 DEF TableInv, FramesExclusive
  <2>3. \A g \in Resident(p) : frame[p][g] # frame[q][h]
    BY <2>1, <1>3 DEF TableInv, FramesExclusive
  <2>4. free_frames'[frame[q][h]] = 1
    BY <2>2, <2>3, <1>2, PagingAssumption DEF Frames
  <2>5. ASSUME valid_bit'[r][i] = 1, frame'[r][i] = frame'[q][h]
        PROVE  r = q /\ i = h
    <3>1. valid_bit[r][i] = 1 /\ frame[r][i] = frame[q][h]
      BY <2>1, <2>5, <1>1
    <3>2. \A a, b \in Procs : \A c, d \in Pages :
            valid_bit[a][c] = 1 /\ valid_bit[b][d] = 1 /\ frame[b][d] = frame[a][c]
              => b = a /\ d = c
      BY DEF TableInv, FramesExclusive
    <3> QED
      BY <3>1, <3>2, <2>1
  <2> QED
    BY <2>1, <2>2, <2>4, <2>5
<1> QED
  BY <1>4, <1>5 DEF TableInv

-----------------------------------------------------------------------------
\* Two entries of the flat array of slabs at the same distance from the same
\* place are one entry.
LEMMA SlabsDisjoint ==
  ASSUME NEW p \in Procs, NEW q \in Procs, NEW r \in Procs,
         NEW g \in Pages, NEW h \in Pages,
         (q - p) * M + g = (r - p) * M + h
  PROVE  q = r /\ g = h
<1>1. DEFINE d == q - r
<1>2. d \in Int /\ M \in Nat /\ M > 0 /\ g \in Int /\ h \in Int
  BY PagingAssumption DEF Procs, Pages
<1>3. d * M = h - g
  BY <1>2 DEF Procs
<1>4. -M < d * M /\ d * M < M
  BY <1>2, <1>3 DEF Pages
<1> HIDE DEF d
<1>5. d = 0
  <2>1. CASE d >= 1
    <3>1. d * M >= M
      BY <2>1, <1>2
    <3> QED
      BY <3>1, <1>2, <1>4
  <2>2. CASE d <= -1
    <3>1. d * M <= -M
      BY <2>2, <1>2
    <3> QED
      BY <3>1, <1>2, <1>4
  <2> QED
    BY <2>1, <2>2, <1>2
<1> QED
  BY <1>3, <1>5, <1>2 DEF d, Procs

\* Master's loop gives the next n frames to n different entries.
LEMMA GrantKeeps ==
  ASSUME NEW p \in Procs, NEW c \in Nat, NEW n \in Nat, c + n <= F,
         TableInv, HandedOut(c), Grant(p, c, n)
  PROVE  TableInv' /\ HandedOut(c + n)'
<1> DEFINE offset(q, g) == (q - p) * M + g
           granted(q, g) == 0 <= offset(q, g) /\ offset(q, g) < n
<1>1. \A q \in Procs, g \in Pages : offset(q, g) \in Int
  BY PagingAssumption DEF Procs, Pages
<1>2. \A q, r \in Procs : \A g, h \in Pages : offset(q, g) = offset(r, h) => q = r /\ g = h
  BY SlabsDisjoint
<1>3. /\ frame' = [q \in Procs |-> [g \in Pages |->
                    IF granted(q, g) THEN c + offset(q, g) ELSE frame[q][g]]]
      /\ valid_bit' = [q \in Procs |-> [g \in Pages |->
                    IF granted(q, g) THEN 1 ELSE valid_bit[q][g]]]
      /\ free_frames' = [x \in 0..F |->
                    IF c <= x /\ x < c + n THEN 1 ELSE free_frames[x]]
      /\ UNCHANGED <<size, lru_counter>>
  BY DEF Grant
<1> HIDE DEF offset
<1>4. TableTypeOK'
  <2>1. frame' \in [Procs -> [Pages -> -1 .. F-1]]
    BY <1>1, <1>3, PagingAssumption DEF TableInv, TableTypeOK
  <2>2. valid_bit' \in [Procs -> [Pages -> {0, 1}]]
    BY <1>3 DEF TableInv, TableTypeOK
  <2>3. /\ free_frames' \in [0..F -> {-1, 0, 1}]
        /\ \A x \in 0..F : free_frames'[x] = -1 <=> x = F
    BY <1>3, PagingAssumption DEF TableInv, TableTypeOK
  <2> QED
    BY <1>3, <2>1, <2>2, <2>3 DEF TableInv, TableTypeOK
<1>5. \A q \in Procs, g \in Pages :
        \/ granted(q, g) /\ valid_bit'[q][g] = 1 /\ frame'[q][g] = c + offset(q, g)
        \/ ~granted(q, g) /\ valid_bit'[q][g] = valid_bit[q][g] /\ frame'[q][g] = frame[q][g]
  BY <1>3
<1>6. \A x \in Frames : free_frames'[x] = 1 <=> x < c + n
  BY <1>3, PagingAssumption DEF HandedOut, Frames
<1>7. \A q \in Procs, g \in Pages : valid_bit[q][g] = 1 =>
        frame[q][g] \in Frames /\ frame[q][g] < c
  BY DEF HandedOut, TableInv, FramesExclusive
<1>8. \A q \in Procs, g \in Pages : valid_bit'[q][g] = 1 =>
        frame'[q][g] \in Frames /\ frame'[q][g] < c + n
  BY <1>1, <1>5, <1>7, PagingAssumption DEF Frames
<1>9. HandedOut(c + n)'
  BY <1>6, <1>8, PagingAssumption DEF HandedOut
<1>10. FramesExclusive'
  <2> SUFFICES ASSUME NEW q \in Procs, NEW r \in Procs, NEW h \in Pages, NEW i \in Pages,
                      valid_bit'[q][h] = 1
               PROVE  /\ frame'[q][h] \in Frames
                      /\ free_frames'[frame'[q][h]] = 1
                      /\ valid_bit'[r][i] = 1 /\ frame'[r][i] = frame'[q][h]
                           => r = q /\ i = h
    BY DEF FramesExclusive, Procs, Pages, Frames
  <2>1. frame'[q][h] \in Frames /\ free_frames'[frame'[q][h]] = 1
    BY <1>6, <1>8
  <2>2. ASSUME valid_bit'[r][i] = 1, frame'[r][i] = frame'[q][h]
        PROVE  r = q /\ i = h
    <3>1. CASE granted(q, h) /\ granted(r, i)
      <4>1. offset(r, i) = offset(q, h)
        BY <3>1, <2>2, <1>1, <1>5
      <4> QED
        BY <4>1, <1>2
    <3>2. CASE ~granted(q, h) /\ ~granted(r, i)
      BY <3>2, <2>2, <1>5 DEF TableInv, FramesExclusive
    <3>3. CASE ~(granted(q, h) <=> granted(r, i))
      BY <3>3, <2>2, <1>1, <1>5, <1>7 DEF Frames
    <3> QED
      BY <3>1, <3>2, <3>3
  <2> QED
    BY <2>1, <2>2
<1> QED
  BY <1>4, <1>9, <1>10 DEF TableInv

-----------------------------------------------------------------------------
(* The whole.                                                              *)

Setup == {"sizes", "illegal", "grant", "fork_sched", "fork_mmu"}

\* The processes whose size and string Master has drawn are those below Chosen;
\* an interrupt may have come before any.
Chosen == CASE mpc = "sizes"  -> mi
            [] mpc = "killed" -> 0
            [] OTHER          -> K

\* What Master's loops have established so far: partial sums of the sizes, and
\* shares whose sum is no more than the part of the frames due so far.
Planned ==
  /\ pages_upto[0] = 0
  /\ \A i \in 0 .. Chosen-1 : /\ pages_upto[i+1] = pages_upto[i] + size[i]
                              /\ Len(ref_str[i]) > 0
  /\ \A i, j \in 0 .. Chosen : i <= j => pages_upto[i] <= pages_upto[j]
  /\ mpc \in {"sizes", "illegal"} => cur_free_frame = 0
  /\ mpc \in {"sizes", "illegal", "grant"} => HandedOut(cur_free_frame)
  /\ mpc = "grant" => cur_free_frame * pages_upto[K] <= F * pages_upto[mi]

\* Nobody runs before it is forked, and a process that asks for a page has one
\* left to ask for.
InString ==
  /\ mpc \in Setup => \A p \in Procs : ppc[p] = "unborn"
  /\ mpc = "fork_procs" => \A p \in Procs : p >= mi => ppc[p] = "unborn"
  /\ mpc \in Setup \ {"fork_mmu"} => spc = "unborn"
  /\ mpc \in Setup => mmu_pc = "unborn"
  /\ \A p \in Procs : ppc[p] = "unborn" => ref_idx[p] = 0
  /\ \A p \in Procs : ppc[p] \in {"enqueue", "await", "request", "receive"} =>
                        ref_idx[p] < Len(ref_str[p])

\* The inductive invariant.
IInv == TypeOK /\ FramesExclusive /\ Planned /\ InString

-----------------------------------------------------------------------------
\* A product within a product, divided out.
LEMMA QuotientBound ==
  ASSUME NEW c \in Nat, NEW t \in Nat \ {0}, NEW f \in Nat, NEW s \in Nat,
         s <= t, c * t <= f * s
  PROVE  c <= f
<1>1. f * s <= f * t
  OBVIOUS
<1>2. SUFFICES ASSUME c >= f + 1 PROVE FALSE
  OBVIOUS
<1>3. c * t >= (f + 1) * t
  BY <1>2
<1>4. (f + 1) * t = f * t + t
  OBVIOUS
<1> QED
  BY <1>1, <1>3, <1>4

\* C's division of a sum of products.
LEMMA Quotient ==
  ASSUME NEW a \in Nat, NEW t \in Nat \ {0}
  PROVE  a \div t \in Nat /\ (a \div t) * t <= a
OBVIOUS

\* The next share, added to the shares before it, stays within what is due.
LEMMA ShareFits ==
  ASSUME NEW c \in Nat, NEW t \in Nat \ {0}, NEW f \in Nat, NEW u \in Nat, NEW s \in Nat,
         c * t <= f * u, u + s <= t
  PROVE  /\ (f * s) \div t \in Nat
         /\ (c + (f * s) \div t) * t <= f * (u + s)
         /\ c + (f * s) \div t <= f
<1> DEFINE n == (f * s) \div t
<1>1. f * s \in Nat
  OBVIOUS
<1>2. n \in Nat /\ n * t <= f * s
  BY <1>1, Quotient
<1> HIDE DEF n
<1>3. (c + n) * t = c * t + n * t /\ f * (u + s) = f * u + f * s
  BY <1>2
<1>4. (c + n) * t <= f * (u + s)
  BY <1>1, <1>2, <1>3
<1>5. c + n <= f
  BY <1>2, <1>4, QuotientBound
<1> QED
  BY <1>2, <1>4, <1>5 DEF n

-----------------------------------------------------------------------------
\* The tables stay well-formed when nobody touches them.
LEMMA TablesKept ==
  ASSUME TableInv, UNCHANGED tableVars
  PROVE  TableInv'
BY DEF TableInv, TableTypeOK, FramesExclusive, tableVars

\* After the last grant, what Master planned only has to be left alone.
LEMMA PlannedKept ==
  ASSUME Planned,
         mpc \notin {"sizes", "illegal", "grant"}, mpc' \notin {"sizes", "illegal", "grant"},
         mpc = "killed" => mpc' = "killed",
         UNCHANGED <<size, pages_upto, ref_str>>
  PROVE  Planned'
BY DEF Planned, Chosen

\* A process that runs shows that Master has forked it.
LEMMA ForkedLate ==
  ASSUME IInv, NEW p \in Procs, ppc[p] # "unborn"
  PROVE  mpc \notin {"sizes", "illegal", "grant"}
BY DEF IInv, InString, Setup

\* The same for the MMU.
LEMMA ForkedMMULate ==
  ASSUME IInv, mmu_pc # "unborn"
  PROVE  mpc \notin {"sizes", "illegal", "grant"}
BY DEF IInv, InString, Setup

LEMMA InitIInv == Init => IInv
<1> SUFFICES ASSUME Init PROVE IInv
  OBVIOUS
<1>1. 0 \in Procs /\ K \in Nat /\ F \in Nat /\ M \in Nat
  BY PagingAssumption DEF Procs
<1>2. TableTypeOK
  BY <1>1, PagingAssumption DEF Init, TableInit, TableTypeOK
<1>3. MasterTypeOK
  <2>1. <<>> \in Seq(Pages)
    BY EmptySeq
  <2> QED
    BY <1>1, <2>1 DEF Init, MasterTypeOK
<1>4. MessageTypeOK
  BY EmptySeq DEF Init, MessageTypeOK
<1>5. WorkerTypeOK
  BY <1>1 DEF Init, WorkerTypeOK
<1>6. RecordTypeOK
  BY DEF Init, RecordTypeOK
<1>7. FramesExclusive
  BY DEF Init, TableInit, FramesExclusive
<1>8. Planned
  <2>1. HandedOut(0)
    BY <1>1 DEF Init, TableInit, HandedOut, Frames
  <2> QED
    BY <1>1, <2>1 DEF Init, Planned, Chosen
<1>9. InString
  BY DEF Init, InString, Setup
<1> QED
  BY <1>2, <1>3, <1>4, <1>5, <1>6, <1>7, <1>8, <1>9 DEF IInv, TypeOK

\* The loop index stays a process; the next index is its successor or the loop
\* is over.
LEMMA AdvanceStep ==
  ASSUME mi \in Procs, NEW next, Advance(next)
  PROVE  /\ mi' \in Procs
         /\ \/ mpc' = mpc /\ mi' = mi + 1
            \/ mpc' = next /\ mi' = 0 /\ mi + 1 = K
BY PagingAssumption DEF Advance, Procs

LEMMA ChooseTableKeeps == IInv /\ ChooseTable => IInv'
<1> SUFFICES ASSUME IInv, ChooseTable PROVE IInv'
  OBVIOUS
<1>1. PICK s \in 1..M, str \in Strings :
        /\ 2*s <= Len(str)
        /\ size' = [size EXCEPT ![mi] = s]
        /\ ref_str' = [ref_str EXCEPT ![mi] = str]
        /\ pages_upto' = [pages_upto EXCEPT ![mi+1] = pages_upto[mi] + s]
  BY DEF ChooseTable
<1>2. /\ mpc = "sizes" /\ Advance("illegal")
      /\ UNCHANGED <<frame, valid_bit, lru_counter, free_frames, cur_free_frame, ipc>>
      /\ UNCHANGED <<semVars, queueVars, schedVars, procVars, mmuVars, results, history>>
  BY DEF ChooseTable
<1>3. TypeOK /\ FramesExclusive /\ Planned /\ InString
  BY DEF IInv
<1>4. mi \in Procs /\ mi \in 0..K /\ mi + 1 \in 0..K /\ K \in Nat
  BY <1>3, PagingAssumption DEF TypeOK, MasterTypeOK, Procs
<1>5. /\ mi' \in Procs
      /\ \/ mpc' = "sizes" /\ mi' = mi + 1
         \/ mpc' = "illegal" /\ mi' = 0 /\ mi + 1 = K
  BY <1>2, <1>4, AdvanceStep
<1>6. str \in Seq(Pages) /\ Len(str) > 0
  <2>1. str \in Seq(Pages)
    BY VMAssumption
  <2>2. Len(str) \in Nat
    BY <2>1, LenProperties
  <2> QED
    BY <1>1, <2>1, <2>2
<1>7. TableTypeOK'
  BY <1>1, <1>2, <1>3 DEF TypeOK, TableTypeOK
<1>8. MasterTypeOK'
  <2>1. pages_upto[mi] + s \in Nat
    BY <1>3, <1>4 DEF TypeOK, MasterTypeOK
  <2> QED
    BY <1>1, <1>2, <1>3, <1>5, <1>6, <2>1 DEF TypeOK, MasterTypeOK
<1>9. MessageTypeOK' /\ WorkerTypeOK' /\ RecordTypeOK'
  BY <1>2, <1>3 DEF TypeOK, MessageTypeOK, WorkerTypeOK, RecordTypeOK,
                    semVars, queueVars, schedVars, procVars, mmuVars, history
<1>10. FramesExclusive'
  BY <1>2, <1>3 DEF FramesExclusive
<1>11. Planned'
  <2>1. Chosen = mi /\ Chosen' = mi + 1
    BY <1>2, <1>5 DEF Chosen
  <2>2. /\ \A i \in 0..K : pages_upto'[i] = IF i = mi + 1 THEN pages_upto[mi] + s
                                            ELSE pages_upto[i]
        /\ \A i \in 0..K : pages_upto[i] \in Nat
    BY <1>1, <1>3 DEF TypeOK, MasterTypeOK
  <2>3. \A i \in Procs : /\ size'[i] = IF i = mi THEN s ELSE size[i]
                         /\ ref_str'[i] = IF i = mi THEN str ELSE ref_str[i]
    BY <1>1, <1>3 DEF TypeOK, TableTypeOK, MasterTypeOK
  <2>4. pages_upto'[0] = 0
    BY <2>2, <1>3, <1>4 DEF Planned, Procs
  <2>5. \A i \in 0 .. mi : /\ pages_upto'[i+1] = pages_upto'[i] + size'[i]
                           /\ Len(ref_str'[i]) > 0
    <3> SUFFICES ASSUME NEW i \in 0 .. mi
                 PROVE  /\ pages_upto'[i+1] = pages_upto'[i] + size'[i]
                        /\ Len(ref_str'[i]) > 0
      OBVIOUS
    <3>1. i \in Procs /\ i \in 0..K /\ i+1 \in 0..K /\ i # mi + 1
      BY <1>4 DEF Procs
    <3>2. CASE i = mi
      BY <3>1, <3>2, <2>2, <2>3, <1>6
    <3>3. CASE i # mi
      <4>1. i \in 0 .. Chosen - 1 /\ i + 1 # mi + 1
        BY <3>3, <2>1, <1>4 DEF Procs
      <4>2. pages_upto[i+1] = pages_upto[i] + size[i] /\ Len(ref_str[i]) > 0
        BY <4>1, <1>3 DEF Planned
      <4> QED
        BY <3>1, <3>3, <4>1, <4>2, <2>2, <2>3
    <3> QED
      BY <3>2, <3>3
  <2>6. \A i, j \in 0 .. mi + 1 : i <= j => pages_upto'[i] <= pages_upto'[j]
    <3> SUFFICES ASSUME NEW i \in 0 .. mi + 1, NEW j \in 0 .. mi + 1, i <= j
                 PROVE  pages_upto'[i] <= pages_upto'[j]
      OBVIOUS
    <3>1. /\ i \in 0..K /\ j \in 0..K
          /\ \A a, b \in 0 .. mi : a <= b => pages_upto[a] <= pages_upto[b]
      BY <1>3, <1>4, <2>1 DEF Planned, Procs
    <3>2. CASE j = mi + 1 /\ i # mi + 1
      <4>1. pages_upto[i] <= pages_upto[mi]
        BY <3>1, <3>2, <1>4 DEF Procs
      <4> QED
        BY <4>1, <3>1, <3>2, <2>2, <1>4
    <3>3. CASE j = mi + 1 /\ i = mi + 1
      BY <3>1, <3>3, <2>2, <1>4
    <3>4. CASE j # mi + 1
      BY <3>1, <3>4, <2>2, <1>4 DEF Procs
    <3> QED
      BY <3>2, <3>3, <3>4
  <2>7. cur_free_frame' = 0 /\ HandedOut(cur_free_frame)'
    BY <1>2, <1>3 DEF Planned, HandedOut
  <2> QED
    BY <1>5, <2>1, <2>4, <2>5, <2>6, <2>7, <1>4 DEF Planned
<1>12. InString'
  <2>1. /\ \A p \in Procs : ppc'[p] = "unborn" /\ ref_idx'[p] = 0
        /\ mmu_pc' = "unborn" /\ spc' = "unborn"
    BY <1>2, <1>3 DEF InString, Setup, procVars, mmuVars, schedVars
  <2> QED
    BY <2>1, <1>5 DEF InString
<1> QED
  BY <1>7, <1>8, <1>9, <1>10, <1>11, <1>12 DEF IInv, TypeOK

LEMMA AddIllegalPageKeeps == IInv /\ AddIllegalPage => IInv'
<1> SUFFICES ASSUME IInv, AddIllegalPage PROVE IInv'
  OBVIOUS
<1>1. /\ mpc = "illegal"
      /\ UNCHANGED <<tableVars, pages_upto, cur_free_frame, ipc>>
      /\ UNCHANGED <<semVars, queueVars, schedVars, procVars, mmuVars, results, history>>
  BY DEF AddIllegalPage
<1>2. TypeOK /\ FramesExclusive /\ Planned /\ InString /\ TableInv
  BY DEF IInv, TypeOK, TableInv
<1>3. mi \in Procs /\ K \in Nat \ {0}
  BY <1>2, PagingAssumption DEF TypeOK, MasterTypeOK
<1>4. \A p \in Procs : ref_str[p] \in Seq(Pages) /\ Len(ref_str[p]) > 0
  BY <1>1, <1>2 DEF TypeOK, MasterTypeOK, Planned, Chosen, Procs
<1>5. /\ ref_str' \in [Procs -> Seq(Pages)]
      /\ \A p \in Procs : Len(ref_str'[p]) > 0
      /\ mi' \in Procs
      /\ \/ mpc' \in {"illegal", "sigfpe"}
         \/ mpc' = "grant" /\ mi' = 0
  <2>1. CASE ref_str' = ref_str /\ Advance("grant")
    BY <2>1, <1>1, <1>2, <1>3, <1>4, AdvanceStep DEF TypeOK, MasterTypeOK
  <2>2. CASE /\ size[mi] < M
             /\ \E j \in 1..Len(ref_str[mi]), g \in size[mi] .. M-1 :
                  ref_str' = [ref_str EXCEPT ![mi][j] = g]
             /\ Advance("grant")
    <3>1. PICK j \in 1..Len(ref_str[mi]), g \in size[mi] .. M-1 :
            ref_str' = [ref_str EXCEPT ![mi] = [ref_str[mi] EXCEPT ![j] = g]]
      BY <2>2
    <3>2. g \in Pages
      BY <1>2, <1>3, <3>1, PagingAssumption DEF TypeOK, TableTypeOK, Pages
    <3> DEFINE new == [ref_str[mi] EXCEPT ![j] = g]
    <3>3. new \in Seq(Pages) /\ Len(new) = Len(ref_str[mi])
      BY <1>3, <1>4, <3>2, ExceptSeq
    <3> HIDE DEF new
    <3>4. ref_str' = [ref_str EXCEPT ![mi] = new]
      BY <3>1 DEF new
    <3>5. /\ ref_str' \in [Procs -> Seq(Pages)]
          /\ \A p \in Procs : Len(ref_str'[p]) > 0
      BY <1>2, <1>3, <1>4, <3>3, <3>4 DEF TypeOK, MasterTypeOK
    <3> QED
      BY <3>5, <2>2, <1>1, <1>3, AdvanceStep
  <2>3. CASE mpc' = "sigfpe" /\ UNCHANGED <<mi, ref_str>>
    BY <2>3, <1>2, <1>3, <1>4 DEF TypeOK, MasterTypeOK
  <2> QED
    BY <2>1, <2>2, <2>3 DEF AddIllegalPage
<1>6. TableInv'
  BY <1>1, <1>2, TablesKept
<1>7. MasterTypeOK'
  BY <1>1, <1>2, <1>5 DEF TypeOK, MasterTypeOK
<1>8. MessageTypeOK' /\ WorkerTypeOK' /\ RecordTypeOK'
  BY <1>1, <1>2 DEF TypeOK, MessageTypeOK, WorkerTypeOK, RecordTypeOK,
                    semVars, queueVars, schedVars, procVars, mmuVars, history
<1>9. Planned'
  <2>1. Chosen = K /\ Chosen' = K
    BY <1>1, <1>5 DEF Chosen
  <2>2. /\ pages_upto[0] = 0 /\ cur_free_frame = 0 /\ HandedOut(0)
        /\ \A i \in 0 .. K-1 : pages_upto[i+1] = pages_upto[i] + size[i]
        /\ \A i, j \in 0 .. K : i <= j => pages_upto[i] <= pages_upto[j]
        /\ pages_upto[K] \in Nat
    BY <1>1, <1>2, <1>3, <2>1 DEF Planned, TypeOK, MasterTypeOK
  <2>3. UNCHANGED <<size, frame, valid_bit, free_frames, pages_upto, cur_free_frame>>
    BY <1>1 DEF tableVars
  <2>4. HandedOut(0)'
    BY <2>2, <2>3 DEF HandedOut
  <2>5. cur_free_frame' * pages_upto'[K] = 0 /\ F * pages_upto'[0] = 0
    BY <2>2, <2>3, PagingAssumption
  <2> QED
    BY <1>5, <2>1, <2>2, <2>3, <2>4, <2>5 DEF Planned, Procs
<1>10. InString'
  <2>1. /\ \A p \in Procs : ppc'[p] = "unborn" /\ ref_idx'[p] = 0
        /\ mmu_pc' = "unborn" /\ spc' = "unborn"
    BY <1>1, <1>2 DEF InString, Setup, procVars, mmuVars, schedVars
  <2> QED
    BY <2>1, <1>5 DEF InString
<1> QED
  BY <1>6, <1>7, <1>8, <1>9, <1>10 DEF IInv, TypeOK, TableInv

LEMMA AllocateFramesKeeps == IInv /\ AllocateFrames => IInv'
<1> SUFFICES ASSUME IInv, AllocateFrames PROVE IInv'
  OBVIOUS
<1>1. /\ mpc = "grant"
      /\ Grant(mi, cur_free_frame, Share(mi))
      /\ cur_free_frame' = cur_free_frame + Share(mi)
      /\ Advance("fork_sched")
      /\ UNCHANGED <<pages_upto, ref_str, ipc>>
      /\ UNCHANGED <<semVars, queueVars, schedVars, procVars, mmuVars, results, history>>
  BY DEF AllocateFrames
<1>2. TypeOK /\ FramesExclusive /\ Planned /\ InString /\ TableInv
  BY DEF IInv, TypeOK, TableInv
<1>3. /\ mi \in Procs /\ mi \in 0..K-1 /\ mi + 1 \in 0..K /\ K \in 0..K /\ mi \in 0..K
      /\ K \in Nat \ {0} /\ F \in Nat
      /\ mi' \in Procs
      /\ \/ mpc' = "grant" /\ mi' = mi + 1
         \/ mpc' = "fork_sched" /\ mi' = 0 /\ mi + 1 = K
  BY <1>1, <1>2, PagingAssumption, AdvanceStep DEF TypeOK, MasterTypeOK, Procs
<1>4. /\ \A i \in 0 .. K-1 : pages_upto[i+1] = pages_upto[i] + size[i]
      /\ \A i, j \in 0 .. K : i <= j => pages_upto[i] <= pages_upto[j]
      /\ HandedOut(cur_free_frame)
      /\ cur_free_frame * pages_upto[K] <= F * pages_upto[mi]
      /\ \A i \in 0 .. K-1 : Len(ref_str[i]) > 0
  BY <1>1, <1>2 DEF Planned, Chosen
<1>5. /\ cur_free_frame \in Nat /\ pages_upto[mi] \in Nat /\ pages_upto[K] \in Nat
      /\ size[mi] \in Nat /\ size[mi] > 0
  <2>1. pages_upto \in [0..K -> Nat] /\ cur_free_frame \in 0..F /\ size \in [Procs -> 1..M]
    BY <1>2 DEF TypeOK, MasterTypeOK, TableTypeOK
  <2>2. pages_upto[mi] \in Nat /\ pages_upto[K] \in Nat
    BY <1>3, <2>1
  <2>3. cur_free_frame \in Nat
    BY <1>3, <2>1
  <2>4. size[mi] \in 1..M /\ M \in Nat
    BY <1>3, <2>1, PagingAssumption
  <2> QED
    BY <2>2, <2>3, <2>4
<1>6. pages_upto[mi] + size[mi] = pages_upto[mi+1] /\ pages_upto[mi+1] <= pages_upto[K]
  BY <1>3, <1>4
<1>7. pages_upto[K] \in Nat \ {0}
  BY <1>5, <1>6
<1>8. /\ Share(mi) \in Nat
      /\ (cur_free_frame + Share(mi)) * pages_upto[K] <= F * pages_upto[mi+1]
      /\ cur_free_frame + Share(mi) <= F
  <2>1. PICK c \in Nat, t \in Nat \ {0}, u \in Nat, s \in Nat :
          c = cur_free_frame /\ t = pages_upto[K] /\ u = pages_upto[mi] /\ s = size[mi]
    BY <1>5, <1>7
  <2>2. c * t <= F * u /\ u + s <= t
    BY <2>1, <1>4, <1>6
  <2>3. /\ (F * s) \div t \in Nat
        /\ (c + (F * s) \div t) * t <= F * (u + s)
        /\ c + (F * s) \div t <= F
    BY <2>2, <1>3, ShareFits, Zenon
  <2>4. Share(mi) = (F * s) \div t /\ u + s = pages_upto[mi+1]
    BY <2>1, <1>6 DEF Share
  <2> QED
    BY <2>1, <2>3, <2>4
<1>9. TableInv' /\ HandedOut(cur_free_frame)'
  <2>1. PICK p \in Procs, c \in Nat, n \in Nat :
          p = mi /\ c = cur_free_frame /\ n = Share(mi)
    BY <1>3, <1>5, <1>8
  <2>2. TableInv /\ HandedOut(c) /\ Grant(p, c, n) /\ c + n <= F
    BY <2>1, <1>1, <1>2, <1>4, <1>8
  <2>3. TableInv' /\ HandedOut(c + n)'
    BY <2>2, GrantKeeps
  <2>4. cur_free_frame' = c + n
    BY <2>1, <1>1
  <2> QED
    BY <2>3, <2>4 DEF HandedOut
<1>10. MasterTypeOK'
  BY <1>1, <1>2, <1>3, <1>9 DEF TypeOK, MasterTypeOK, HandedOut
<1>11. MessageTypeOK' /\ WorkerTypeOK' /\ RecordTypeOK'
  BY <1>1, <1>2 DEF TypeOK, MessageTypeOK, WorkerTypeOK, RecordTypeOK,
                    semVars, queueVars, schedVars, procVars, mmuVars, history
<1>12. Planned'
  <2>1. Chosen' = K /\ UNCHANGED <<size, pages_upto, ref_str>>
    BY <1>1, <1>3 DEF Chosen, Grant
  <2>2. mpc' = "grant" => cur_free_frame' * pages_upto'[K] <= F * pages_upto'[mi']
    BY <1>1, <1>3, <1>8, <2>1
  <2> QED
    BY <1>2, <1>3, <1>4, <1>9, <2>1, <2>2 DEF Planned
<1>13. InString'
  <2>1. /\ \A p \in Procs : ppc'[p] = "unborn" /\ ref_idx'[p] = 0
        /\ mmu_pc' = "unborn" /\ spc' = "unborn"
    BY <1>1, <1>2 DEF InString, Setup, procVars, mmuVars, schedVars
  <2> QED
    BY <2>1, <1>5 DEF InString
<1> QED
  BY <1>9, <1>10, <1>11, <1>12, <1>13 DEF IInv, TypeOK, TableInv

\* The rest of Master only forks, waits and removes.
LEMMA LaterMasterKeeps ==
  ASSUME IInv,
         \/ ForkScheduler \/ ForkMMU \/ ForkProcess \/ WaitForScheduler
         \/ KillMMU \/ Reorder \/ Cleanup \/ Interrupt
  PROVE  IInv'
<1> DEFINE Kept == UNCHANGED <<tableVars, pages_upto, cur_free_frame, ref_str, history>>
<1>1. TypeOK /\ FramesExclusive /\ Planned /\ InString /\ TableInv
  BY DEF IInv, TypeOK, TableInv
<1>2. mi \in Procs /\ 0 \in Procs
  BY <1>1, PagingAssumption DEF TypeOK, MasterTypeOK, Procs
<1>3. ASSUME Kept, MasterTypeOK', MessageTypeOK', WorkerTypeOK', RecordTypeOK', InString',
             mpc \notin {"sizes", "illegal", "grant", "killed"},
             mpc' \notin {"sizes", "illegal", "grant"}
      PROVE  IInv'
  BY <1>1, <1>3, TablesKept, PlannedKept DEF IInv, TypeOK, TableInv, tableVars
<1>4. ASSUME RemoveQueues PROVE MessageTypeOK' <=> (sem1' \in Nat /\ sem2' \in [Procs -> Nat])
  BY <1>4, EmptySeq DEF RemoveQueues, MessageTypeOK
<1>5. CASE ForkScheduler
  BY <1>1, <1>3, <1>5 DEF ForkScheduler, TypeOK, MasterTypeOK, MessageTypeOK, WorkerTypeOK,
     RecordTypeOK, InString, Setup, semVars, queueVars, procVars, mmuVars, history
<1>6. CASE ForkMMU
  BY <1>1, <1>3, <1>6 DEF ForkMMU, TypeOK, MasterTypeOK, MessageTypeOK, WorkerTypeOK,
     RecordTypeOK, InString, Setup, semVars, queueVars, schedVars, procVars, history
<1>7. CASE ForkProcess
  <2>1. /\ mpc = "fork_procs" /\ mi' \in Procs
        /\ \/ mpc' = "fork_procs" /\ mi' = mi + 1
           \/ mpc' = "wait"
        /\ ppc' = [ppc EXCEPT ![mi] = "enqueue"]
        /\ UNCHANGED <<tableVars, pages_upto, cur_free_frame, ref_str, ipc, ref_idx>>
        /\ UNCHANGED <<semVars, queueVars, schedVars, mmuVars, results, history>>
    BY <1>2, <1>7, AdvanceStep DEF ForkProcess
  <2>2. MasterTypeOK' /\ MessageTypeOK' /\ WorkerTypeOK' /\ RecordTypeOK'
    BY <1>1, <2>1 DEF TypeOK, MasterTypeOK, MessageTypeOK, WorkerTypeOK, RecordTypeOK,
       semVars, queueVars, schedVars, mmuVars, history
  <2>3. InString'
    <3>1. ref_idx[mi] = 0 /\ Len(ref_str[mi]) > 0
      BY <1>1, <1>2, <2>1 DEF InString, Planned, Chosen, Procs
    <3>2. \A p \in Procs : ppc'[p] = IF p = mi THEN "enqueue" ELSE ppc[p]
      BY <1>1, <1>2, <2>1 DEF TypeOK, WorkerTypeOK
    <3>3. mpc' = "fork_procs" => \A p \in Procs : p >= mi' => p # mi /\ p >= mi
      BY <1>2, <2>1 DEF Procs
    <3>4. UNCHANGED <<ref_idx, ref_str>> /\ mpc' \notin Setup
      BY <2>1 DEF Setup
    <3> QED
      BY <1>1, <1>2, <2>1, <3>1, <3>2, <3>3, <3>4 DEF InString
  <2> QED
    BY <1>3, <2>1, <2>2, <2>3
<1>8. CASE WaitForScheduler
  <2>1. /\ mpc = "wait" /\ mpc' = "kill" /\ sem1 > 0 /\ sem1' = sem1 - 1
        /\ UNCHANGED <<tableVars, mi, pages_upto, cur_free_frame, ref_str, ipc, sem2>>
        /\ UNCHANGED <<queueVars, schedVars, procVars, mmuVars, results, history>>
    BY <1>8 DEF WaitForScheduler
  <2>2. MasterTypeOK' /\ WorkerTypeOK' /\ RecordTypeOK'
    BY <1>1, <2>1 DEF TypeOK, MasterTypeOK, WorkerTypeOK, RecordTypeOK, schedVars, procVars,
       mmuVars, history
  <2>3. MessageTypeOK'
    BY <1>1, <2>1 DEF TypeOK, MessageTypeOK, queueVars
  <2>4. InString'
    BY <1>1, <2>1 DEF InString, Setup, schedVars, procVars, mmuVars
  <2> QED
    BY <1>3, <2>1, <2>2, <2>3, <2>4
<1>9. CASE KillMMU
  BY <1>1, <1>3, <1>9 DEF KillMMU, TypeOK, MasterTypeOK, MessageTypeOK, WorkerTypeOK,
     RecordTypeOK, InString, Setup, semVars, queueVars, schedVars, procVars, mmuVars, history
<1>10. CASE Reorder
  BY <1>1, <1>3, <1>10 DEF Reorder, TypeOK, MasterTypeOK, MessageTypeOK, WorkerTypeOK,
     RecordTypeOK, InString, Setup, semVars, queueVars, schedVars, procVars, mmuVars, history
<1>11. CASE Cleanup
  BY <1>1, <1>3, <1>4, <1>11 DEF Cleanup, RemoveQueues, TypeOK, MasterTypeOK, MessageTypeOK,
     WorkerTypeOK, RecordTypeOK, InString, Setup, semVars, schedVars, procVars, mmuVars, history
<1>12. CASE Interrupt
  <2>1. /\ mpc' = "killed" /\ UNCHANGED <<mi, tableVars, pages_upto, cur_free_frame, ref_str>>
        /\ ipc' = FALSE /\ UNCHANGED <<sem1, sem2, k_left, ref_idx>>
        /\ UNCHANGED <<mmu_pc, mmu_pid, results, hits, last_ref>>
        /\ spc' = "dead" /\ ppc' = [p \in Procs |-> "dead"]
    BY <1>12 DEF Interrupt, RemoveQueues, semVars, mmuVars, history
  <2>2. MasterTypeOK'
    BY <1>1, <2>1 DEF TypeOK, MasterTypeOK
  <2>3. MessageTypeOK'
    BY <1>1, <1>4, <1>12, <2>1 DEF Interrupt, TypeOK, MessageTypeOK
  <2>4. WorkerTypeOK' /\ RecordTypeOK'
    BY <1>1, <2>1 DEF TypeOK, WorkerTypeOK, RecordTypeOK
  <2>5. InString'
    BY <2>1 DEF InString, Setup
  <2>6. Planned'
    <3>1. Chosen' = 0 /\ pages_upto'[0] = 0
      BY <1>1, <2>1 DEF Chosen, Planned
    <3>2. pages_upto[0] \in Nat
      BY <1>1, <1>2 DEF Planned
    <3>3. QED BY <2>1, <3>1, <3>2 DEF Planned
  <2>7. TableInv'
    BY <1>1, <2>1, TablesKept DEF tableVars
  <2>8. QED BY <2>2, <2>3, <2>4, <2>5, <2>6, <2>7 DEF IInv, TypeOK, TableInv
<1> QED
  BY <1>5, <1>6, <1>7, <1>8, <1>9, <1>10, <1>11, <1>12

-----------------------------------------------------------------------------
\* What a step that leaves Master alone has to show.
LEMMA OthersStep ==
  ASSUME IInv, mpc \notin {"sizes", "illegal", "grant"}, UNCHANGED masterVars, size' = size,
         TableInv', MessageTypeOK', WorkerTypeOK', RecordTypeOK', InString'
  PROVE  IInv'
<1>1. MasterTypeOK'
  BY DEF IInv, TypeOK, MasterTypeOK, masterVars
<1>2. Planned'
  BY PlannedKept DEF IInv, masterVars
<1> QED
  BY <1>1, <1>2 DEF IInv, TypeOK, TableInv

LEMMA SchedulerKeeps == IInv /\ Scheduler => IInv'
<1> SUFFICES ASSUME IInv, Scheduler PROVE IInv'
  OBVIOUS
<1>1. TypeOK /\ InString /\ TableInv
  BY DEF IInv, TypeOK, TableInv
<1>2. /\ UNCHANGED <<tableVars, masterVars, mq3_req, mq3_resp>>
      /\ UNCHANGED <<procVars, mmuVars, results, history>>
      /\ spc # "unborn"
  BY DEF Scheduler, Dispatch, ReceiveFromMMU, SignalMaster, queueVars
<1>3. TableInv' /\ size' = size
  BY <1>1, <1>2, TablesKept DEF tableVars
<1>4. RecordTypeOK' /\ InString' /\ mpc \notin {"sizes", "illegal", "grant"}
  BY <1>1, <1>2 DEF TypeOK, RecordTypeOK, InString, Setup, masterVars, procVars, mmuVars, history
<1>5. MessageTypeOK' /\ WorkerTypeOK'
  <2>1. CASE Dispatch
    <3>1. Head(mq1) \in Procs /\ Tail(mq1) \in Seq(Procs)
      BY <1>1, <2>1, HeadTailProperties DEF TypeOK, MessageTypeOK, Dispatch
    <3>2. /\ spc' = "mq2" /\ mq1' = Tail(mq1) /\ UNCHANGED <<sem1, mq2, k_left>>
          /\ \/ sem2' = sem2
             \/ sem2' = [sem2 EXCEPT ![Head(mq1)] = @ + 1]
      BY <2>1 DEF Dispatch
    <3>3. sem2' \in [Procs -> Nat]
      BY <1>1, <3>1, <3>2 DEF TypeOK, MessageTypeOK
    <3>4. MessageTypeOK'
      BY <1>1, <1>2, <3>1, <3>2, <3>3 DEF TypeOK, MessageTypeOK
    <3>5. WorkerTypeOK'
      BY <1>1, <1>2, <3>2 DEF TypeOK, WorkerTypeOK, procVars, mmuVars
    <3> QED
      BY <3>4, <3>5
  <2>2. CASE ReceiveFromMMU
    <3>1. Tail(mq2) \in Seq([type : {1, 2}, pid : Procs])
      BY <1>1, <2>2, HeadTailProperties DEF TypeOK, MessageTypeOK, ReceiveFromMMU
    <3>2. StillLive(Head(mq2)) \in Int
      BY <1>1 DEF TypeOK, WorkerTypeOK, StillLive
    <3> QED
      BY <1>1, <1>2, <2>2, <3>1, <3>2 DEF TypeOK, MessageTypeOK, WorkerTypeOK, ReceiveFromMMU,
         semVars, procVars, mmuVars
  <2>3. CASE SignalMaster
    BY <1>1, <1>2, <2>3 DEF TypeOK, MessageTypeOK, WorkerTypeOK, SignalMaster, queueVars,
       procVars, mmuVars
  <2> QED
    BY <2>1, <2>2, <2>3 DEF Scheduler
<1> QED
  BY <1>2, <1>3, <1>4, <1>5, OthersStep

\* Process p changes its place and index, and asks for no page past its string.
MovesWithin(p) ==
  \E pc \in {"enqueue", "await", "request", "receive", "quit", "dead"}, n \in Nat :
    /\ ppc' = [ppc EXCEPT ![p] = pc] /\ ref_idx' = [ref_idx EXCEPT ![p] = n]
    /\ pc \in {"enqueue", "await", "request", "receive"} => n < Len(ref_str[p])

\* A process changes no table; it may take a turn, a reply or its leave.
LEMMA ProcessKeeps ==
  ASSUME IInv, NEW p \in Procs, Process(p)
  PROVE  IInv'
<1>1. TypeOK /\ InString /\ TableInv
  BY DEF IInv, TypeOK, TableInv
<1>2. /\ UNCHANGED <<tableVars, masterVars, schedVars, mmuVars, results, history>>
      /\ ppc[p] \notin {"unborn", "dead"}
  BY DEF Process, Enqueue, AwaitTurn, Request, Receive, Quit
<1>3. TableInv' /\ size' = size
  BY <1>1, <1>2, TablesKept DEF tableVars
<1>4. RecordTypeOK' /\ mpc \notin Setup
  BY <1>1, <1>2 DEF TypeOK, RecordTypeOK, InString, history
<1>5. MessageTypeOK'
  <2>1. CASE Enqueue(p)
    <3>1. Append(mq1, p) \in Seq(Procs)
      BY <1>1, AppendProperties DEF TypeOK, MessageTypeOK
    <3> QED
      BY <1>1, <2>1, <3>1 DEF TypeOK, MessageTypeOK, Enqueue, semVars
  <2>2. CASE AwaitTurn(p)
    <3>1. sem2' \in [Procs -> Nat]
      <4>1. sem2 \in [Procs -> Nat] /\ sem2[p] \in Nat
        BY <1>1 DEF TypeOK, MessageTypeOK
      <4>2. CASE sem2' = sem2
        BY <4>1, <4>2
      <4>3. CASE sem2[p] > 0 /\ sem2' = [sem2 EXCEPT ![p] = sem2[p] - 1]
        <5>1. sem2[p] - 1 \in Nat
          BY <4>1, <4>3
        <5> QED
          BY <4>1, <4>3, <5>1
      <4> QED
        BY <2>2, <4>2, <4>3 DEF AwaitTurn
    <3> QED
      BY <1>1, <2>2, <3>1 DEF TypeOK, MessageTypeOK, AwaitTurn, queueVars
  <2>3. CASE Request(p)
    <3>1. NextPage(p) \in Pages
      BY <1>1, <2>3, ElementOfSeq DEF TypeOK, MasterTypeOK, WorkerTypeOK, InString, Request, NextPage
    <3>2. [pid |-> p, page |-> NextPage(p)] \in Requests
      BY <3>1 DEF Requests
    <3>3. Append(mq3_req, [pid |-> p, page |-> NextPage(p)]) \in Seq(Requests)
      BY <1>1, <3>2, AppendProperties DEF TypeOK, MessageTypeOK
    <3> QED
      BY <1>1, <2>3, <3>3 DEF TypeOK, MessageTypeOK, Request, semVars
  <2>4. CASE Receive(p)
    <3>1. mq3_resp' \in Seq(Replies)
      BY <1>1, <2>4, HeadTailProperties DEF TypeOK, MessageTypeOK, Receive
    <3> QED
      BY <1>1, <2>4, <3>1 DEF TypeOK, MessageTypeOK, Receive, semVars
  <2>5. CASE Quit(p)
    <3>1. [pid |-> p, page |-> QUIT] \in Requests
      BY DEF Requests
    <3>2. Append(mq3_req, [pid |-> p, page |-> QUIT]) \in Seq(Requests)
      BY <1>1, <3>1, AppendProperties DEF TypeOK, MessageTypeOK
    <3> QED
      BY <1>1, <2>5, <3>2 DEF TypeOK, MessageTypeOK, Quit, semVars
  <2> QED
    BY <2>1, <2>2, <2>3, <2>4, <2>5 DEF Process
<1>6. MovesWithin(p)
  <2>1. /\ ref_idx = [ref_idx EXCEPT ![p] = ref_idx[p]] /\ ref_idx[p] \in Nat
        /\ ref_idx[p] + 1 \in Nat
    BY <1>1 DEF TypeOK, WorkerTypeOK
  <2>2. ppc[p] \in {"enqueue", "await", "request", "receive"} => ref_idx[p] < Len(ref_str[p])
    BY <1>1 DEF InString
  <2>3. CASE Enqueue(p) \/ AwaitTurn(p) \/ Request(p) \/ Quit(p)
    BY <2>1, <2>2, <2>3 DEF Enqueue, AwaitTurn, Request, Quit, MovesWithin
  <2>4. ASSUME NEW answer, Obey(p, answer), ppc[p] = "receive"
        PROVE  MovesWithin(p)
    <3>1. CASE answer = FAULT
      BY <2>1, <2>2, <2>4, <3>1 DEF Obey, FAULT, INVALID, MovesWithin
    <3>2. CASE answer = INVALID
      BY <2>1, <2>4, <3>2 DEF Obey, FAULT, INVALID, MovesWithin
    <3>3. CASE answer # FAULT /\ answer # INVALID
      BY <2>1, <2>4, <3>3 DEF Obey, MovesWithin
    <3> QED
      BY <3>1, <3>2, <3>3
  <2> QED
    BY <2>3, <2>4 DEF Process, Receive
<1>7. WorkerTypeOK' /\ InString'
  BY <1>1, <1>2, <1>4, <1>6 DEF TypeOK, WorkerTypeOK, InString, Setup, masterVars,
     schedVars, mmuVars, MovesWithin
<1> QED
  BY <1>2, <1>3, <1>4, <1>5, <1>7, OthersStep DEF Setup

\* The MMU is alive, so that Master has handed out all its frames.
LEMMA MMUStep ==
  ASSUME IInv, mmu_pc # "unborn", UNCHANGED <<masterVars, schedVars, procVars>>, size' = size,
         TableInv', MessageTypeOK', WorkerTypeOK', RecordTypeOK', mmu_pc' # "unborn"
  PROVE  IInv'
<1>1. InString' /\ mpc \notin {"sizes", "illegal", "grant"}
  BY DEF IInv, InString, Setup, masterVars, schedVars, procVars
<1> QED
  BY <1>1, OthersStep

\* A request that is taken leaves a queue of requests.
LEMMA IncomingTyped ==
  ASSUME MessageTypeOK, NEW p, NEW g, Incoming(p, g)
  PROVE  mq3_req' \in Seq(Requests) /\ mmu_pc = "recv"
BY HeadTailProperties DEF MessageTypeOK, Incoming

LEMMA ReplyTyped ==
  ASSUME MessageTypeOK, NEW p \in Procs, NEW g \in Pages, NEW answer \in -2 .. F-1,
         Reply(p, g, answer)
  PROVE  mq3_resp' \in Seq(Replies)
<1>1. [pid |-> p, page |-> g, frame |-> answer] \in Replies
  BY DEF Replies
<1>2. Append(mq3_resp, [pid |-> p, page |-> g, frame |-> answer]) \in Seq(Replies)
  BY <1>1, AppendProperties DEF MessageTypeOK
<1> QED
  BY <1>2 DEF Reply, MessageTypeOK

LEMMA TellTyped ==
  ASSUME MessageTypeOK, NEW p \in Procs, NEW kind \in {1, 2}, TellScheduler(p, kind)
  PROVE  mq2' \in Seq([type : {1, 2}, pid : Procs])
<1>1. [type |-> kind, pid |-> p] \in [type : {1, 2}, pid : Procs]
  OBVIOUS
<1>2. Append(mq2, [type |-> kind, pid |-> p]) \in Seq([type : {1, 2}, pid : Procs])
  BY <1>1, AppendProperties DEF MessageTypeOK
<1> QED
  BY <1>2 DEF TellScheduler, MessageTypeOK

LEMMA MMUTerminateKeeps ==
  ASSUME IInv, NEW p \in Procs, MMUTerminate(p)
  PROVE  IInv'
<1>1. MessageTypeOK /\ WorkerTypeOK /\ RecordTypeOK /\ TableInv
  BY DEF IInv, TypeOK, TableInv
<1>2. /\ mq3_req' \in Seq(Requests) /\ mmu_pc = "recv"
      /\ mq2' \in Seq([type : {1, 2}, pid : Procs])
      /\ UNCHANGED <<masterVars, semVars, mq1, mq3_resp, schedVars, procVars, mmuVars,
                     results, history>>
  BY <1>1, IncomingTyped, TellTyped DEF MMUTerminate
<1>3. TableInv' /\ size' = size
  BY <1>1, ReleaseKeeps DEF MMUTerminate, Release
<1>4. MessageTypeOK' /\ WorkerTypeOK' /\ RecordTypeOK'
  BY <1>1, <1>2 DEF MessageTypeOK, WorkerTypeOK, RecordTypeOK, semVars, schedVars, procVars,
     mmuVars, history
<1> QED
  BY <1>2, <1>3, <1>4, MMUStep DEF mmuVars

LEMMA MMUInvalidKeeps ==
  ASSUME IInv, NEW p \in Procs, NEW g \in Pages, MMUInvalid(p, g)
  PROVE  IInv'
<1>1. MessageTypeOK /\ WorkerTypeOK /\ RecordTypeOK /\ TableInv
  BY DEF IInv, TypeOK, TableInv
<1>2. INVALID \in -2 .. F-1
  BY PagingAssumption DEF INVALID
<1>3. /\ mq3_req' \in Seq(Requests) /\ mmu_pc = "recv"
      /\ mq3_resp' \in Seq(Replies)
      /\ UNCHANGED <<tableVars, masterVars, semVars, mq1, mq2, schedVars, procVars, history>>
      /\ mmu_pc' = "invalid" /\ mmu_pid' = p
  BY <1>1, <1>2, IncomingTyped, ReplyTyped DEF MMUInvalid
<1>4. TableInv' /\ size' = size
  BY <1>1, <1>3, TablesKept DEF tableVars
<1>5. MessageTypeOK' /\ WorkerTypeOK' /\ RecordTypeOK'
  BY <1>1, <1>3 DEF MessageTypeOK, WorkerTypeOK, RecordTypeOK, semVars, schedVars, procVars,
     history, MMUInvalid, LogReference
<1> QED
  BY <1>3, <1>4, <1>5, MMUStep

LEMMA MMUFreeInvalidKeeps ==
  ASSUME IInv, MMUFreeInvalid
  PROVE  IInv'
<1>1. MessageTypeOK /\ WorkerTypeOK /\ RecordTypeOK /\ TableInv
  BY DEF IInv, TypeOK, TableInv
<1>2. PICK p \in Procs : p = mmu_pid
  BY <1>1 DEF WorkerTypeOK
<1>3. Release(p) /\ TellScheduler(p, 2)
  BY <1>2 DEF MMUFreeInvalid
<1>4. /\ mq2' \in Seq([type : {1, 2}, pid : Procs])
      /\ mmu_pc = "invalid" /\ mmu_pc' = "recv"
      /\ UNCHANGED <<masterVars, semVars, mq1, mq3_req, mq3_resp, schedVars, procVars,
                     mmu_pid, results, history>>
  BY <1>1, <1>3, TellTyped DEF MMUFreeInvalid
<1>5. TableInv' /\ size' = size
  BY <1>1, <1>3, ReleaseKeeps DEF Release
<1>6. MessageTypeOK' /\ WorkerTypeOK' /\ RecordTypeOK'
  BY <1>1, <1>4 DEF MessageTypeOK, WorkerTypeOK, RecordTypeOK, semVars, schedVars, procVars,
     history
<1> QED
  BY <1>4, <1>5, <1>6, MMUStep

LEMMA MMUHitKeeps ==
  ASSUME IInv, NEW p \in Procs, NEW g \in Pages, MMUHit(p, g)
  PROVE  IInv'
<1>1. MessageTypeOK /\ WorkerTypeOK /\ RecordTypeOK /\ TableInv
  BY DEF IInv, TypeOK, TableInv
<1>2. PICK x \in -2 .. F-1 : x = frame[p][g]
  BY <1>1, PagingAssumption DEF TableInv, TableTypeOK
<1>3. Incoming(p, g) /\ Reply(p, g, x) /\ Touch(p, g)
  BY <1>2 DEF MMUHit
<1>4. /\ mq3_req' \in Seq(Requests) /\ mmu_pc = "recv"
      /\ mq3_resp' \in Seq(Replies)
      /\ UNCHANGED <<masterVars, semVars, mq1, mq2, schedVars, procVars, mmuVars>>
  BY <1>1, <1>3, IncomingTyped, ReplyTyped DEF MMUHit
<1>5. TableInv' /\ size' = size
  BY <1>1, <1>3, TouchKeeps DEF Touch
<1>6. RecordTypeOK'
  <2>1. hits[p] + 1 \in Nat
    BY <1>1 DEF RecordTypeOK
  <2>2. hits' \in [Procs -> Nat] /\ last_ref' \in [Procs -> [Pages -> Nat]]
    BY <1>1, <2>1 DEF RecordTypeOK, MMUHit, history
  <2> QED
    BY <1>1, <2>2 DEF RecordTypeOK, MMUHit, LogReference
<1>7. MessageTypeOK' /\ WorkerTypeOK'
  BY <1>1, <1>4 DEF MessageTypeOK, WorkerTypeOK, semVars, schedVars, procVars, mmuVars
<1> QED
  BY <1>4, <1>5, <1>6, <1>7, MMUStep DEF mmuVars

LEMMA MMUFaultKeeps ==
  ASSUME IInv, NEW p \in Procs, NEW g \in Pages, MMUFault(p, g)
  PROVE  IInv'
<1>1. MessageTypeOK /\ WorkerTypeOK /\ RecordTypeOK /\ TableInv
  BY DEF IInv, TypeOK, TableInv
<1>2. FAULT \in -2 .. F-1
  BY PagingAssumption DEF FAULT
<1>3. /\ mq3_req' \in Seq(Requests) /\ mmu_pc = "recv"
      /\ mq3_resp' \in Seq(Replies)
      /\ UNCHANGED <<masterVars, semVars, mq1, mq2, schedVars, procVars, history>>
      /\ mmu_pc' = "fault" /\ mmu_pid' = p
  BY <1>1, <1>2, IncomingTyped, ReplyTyped DEF MMUFault
<1>4. TableInv' /\ size' = size
  <2>1. CASE LoadInFreeFrame(p, g)
    BY <2>1, <1>1, LoadKeeps DEF LoadInFreeFrame
  <2>2. CASE ReplaceOwnPage(p, g)
    BY <2>2, <1>1, ReplaceKeeps DEF ReplaceOwnPage
  <2>3. CASE NoFrameForFault(p, g)
    BY <2>3, <1>1, TablesKept DEF NoFrameForFault, tableVars
  <2> QED
    BY <2>1, <2>2, <2>3 DEF MMUFault
<1>5. MessageTypeOK' /\ WorkerTypeOK' /\ RecordTypeOK'
  BY <1>1, <1>3 DEF MessageTypeOK, WorkerTypeOK, RecordTypeOK, semVars, schedVars, procVars,
     history, MMUFault, LogReference
<1> QED
  BY <1>3, <1>4, <1>5, MMUStep

LEMMA MMURestKeeps ==
  ASSUME IInv, MMUFaultHandled \/ MMUDie
  PROVE  IInv'
<1>1. MessageTypeOK /\ WorkerTypeOK /\ RecordTypeOK /\ TableInv
  BY DEF IInv, TypeOK, TableInv
<1>2. TableInv' /\ size' = size
  BY <1>1, TablesKept DEF MMUFaultHandled, MMUDie, tableVars
<1>3. CASE MMUFaultHandled
  <2>1. PICK p \in Procs : p = mmu_pid
    BY <1>1 DEF WorkerTypeOK
  <2>2. TellScheduler(p, 1)
    BY <1>3, <2>1 DEF MMUFaultHandled
  <2>3. mq2' \in Seq([type : {1, 2}, pid : Procs])
    BY <1>1, <2>2, TellTyped
  <2>4. MessageTypeOK' /\ WorkerTypeOK' /\ RecordTypeOK'
    BY <1>1, <1>3, <2>3 DEF MMUFaultHandled, MessageTypeOK, WorkerTypeOK, RecordTypeOK,
       semVars, schedVars, procVars, history
  <2> QED
    BY <1>2, <1>3, <2>4, MMUStep DEF MMUFaultHandled
<1>4. CASE MMUDie
  <2>1. MessageTypeOK' /\ WorkerTypeOK' /\ RecordTypeOK'
    BY <1>1, <1>4 DEF MMUDie, MessageTypeOK, WorkerTypeOK, RecordTypeOK,
       semVars, queueVars, schedVars, procVars, history
  <2> QED
    BY <1>2, <1>4, <2>1, MMUStep DEF MMUDie
<1> QED
  BY <1>3, <1>4

-----------------------------------------------------------------------------
\* The invariant holds at the start and every step keeps it.
THEOREM IInvInvariant == Spec => []IInv
<1>1. Init => IInv
  BY InitIInv
<1>2. IInv /\ [Next]_vars => IInv'
  <2> SUFFICES ASSUME IInv, [Next]_vars PROVE IInv'
    OBVIOUS
  <2>1. CASE Master
    BY <2>1, ChooseTableKeeps, AddIllegalPageKeeps, AllocateFramesKeeps, LaterMasterKeeps DEF Master
  <2>2. CASE Interrupt
    BY <2>2, LaterMasterKeeps
  <2>3. CASE Scheduler
    BY <2>3, SchedulerKeeps
  <2>4. CASE \E p \in Procs : Process(p)
    BY <2>4, ProcessKeeps
  <2>5. CASE MMU \/ MMUDie
    BY <2>5, MMUTerminateKeeps, MMUInvalidKeeps, MMUHitKeeps, MMUFaultKeeps,
       MMUFreeInvalidKeeps, MMURestKeeps DEF MMU
  <2>6. CASE UNCHANGED vars
    <3>1. UNCHANGED <<tableVars, masterVars, semVars, queueVars, schedVars, procVars,
                      mmuVars, results, history>>
      BY <2>6 DEF vars
    <3>2. TableInv'
      BY <3>1, TablesKept DEF IInv, TypeOK, TableInv
    <3>3. MasterTypeOK'
      BY <3>1 DEF IInv, TypeOK, MasterTypeOK, masterVars
    <3>4. MessageTypeOK'
      BY <3>1 DEF IInv, TypeOK, MessageTypeOK, semVars, queueVars
    <3>5. WorkerTypeOK' /\ RecordTypeOK'
      BY <3>1 DEF IInv, TypeOK, WorkerTypeOK, RecordTypeOK, schedVars, procVars, mmuVars, history
    <3>6. Planned' /\ InString'
      BY <3>1 DEF IInv, Planned, HandedOut, Chosen, InString, tableVars, masterVars, schedVars,
         procVars, mmuVars
    <3> QED
      BY <3>2, <3>3, <3>4, <3>5, <3>6 DEF IInv, TypeOK, TableInv
  <2> QED
    BY <2>1, <2>2, <2>3, <2>4, <2>5, <2>6 DEF Next
<1> QED
  BY <1>1, <1>2, PTL DEF Spec

\* The state is always well-typed: in particular Master's running total of
\* granted frames, rounding included, never exceeds F (master.c:263-275).
THEOREM TypeCorrect == Spec => []TypeOK
<1>1. IInv => TypeOK
  BY DEF IInv
<1> QED
  BY <1>1, IInvInvariant, PTL

\* However requests and replies interleave, no frame backs two pages and no
\* frame of a page is on the free list (mmu.c:110-326).
THEOREM NoFrameShared == Spec => []FramesExclusive
<1>1. IInv => FramesExclusive
  BY DEF IInv
<1> QED
  BY <1>1, IInvInvariant, PTL

-----------------------------------------------------------------------------
(***************************************************************************)
(* One process at a time.  A turn passes from the Scheduler's signal over  *)
(* the process, its requests and the MMU back to the Scheduler, and at any *)
(* moment only one of them has it.                                         *)
(***************************************************************************)

\* The Scheduler's sleep is long enough and the semaphores can be had.
Timed == SleepOrders /\ (LeftBehind = 0 \/ LeftBehind >= K)

MMUIdle == mmu_pc \notin {"fault", "invalid"}
Quiet == mq3_req = <<>> /\ mq3_resp = <<>> /\ mq2 = <<>> /\ MMUIdle

\* Whoever has been signalled is the only one, and nothing else is going on.
SignalInv ==
  \A p \in Procs : sem2[p] > 0 =>
    /\ sem2[p] = 1 /\ spc = "mq2" /\ Quiet
    /\ \A q \in Procs : ~Running(q) /\ (sem2[q] > 0 => q = p)

\* Whoever runs has the Scheduler wait, and its request or the reply is on its way.
TurnInv == \A p \in Procs :
  /\ ppc[p] \in {"request", "quit"} => spc = "mq2" /\ Quiet
  /\ ppc[p] = "receive" => mq3_req # <<>> \/ mq3_resp # <<>>

\* A request is its writer's own; after its last one a process is dead.
RequestInv ==
  mq3_req # <<>> =>
    /\ Len(mq3_req) = 1
    /\ spc = "mq2" /\ mq3_resp = <<>> /\ mq2 = <<>> /\ MMUIdle
    /\ IF Head(mq3_req).page = QUIT
       THEN ppc[Head(mq3_req).pid] = "dead" /\ \A q \in Procs : ~Running(q)
       ELSE /\ ppc[Head(mq3_req).pid] = "receive"
            /\ Head(mq3_req).page = NextPage(Head(mq3_req).pid)

\* A reply is its reader's own; only that of a hit keeps the turn.
ReplyInv ==
  mq3_resp # <<>> =>
    /\ Len(mq3_resp) = 1
    /\ ppc[Head(mq3_resp).pid] = "receive"
    /\ Head(mq3_resp).page = NextPage(Head(mq3_resp).pid)
    /\ Head(mq3_resp).frame \notin {FAULT, INVALID} => spc = "mq2" /\ mq2 = <<>> /\ MMUIdle

\* The MMU's message to the Scheduler ends the turn.
MessageInv ==
  /\ ~MMUIdle => spc = "mq2" /\ mq2 = <<>> /\ mq3_req = <<>>
  /\ mq2 # <<>> => spc = "mq2" /\ Len(mq2) = 1

TurnsInv == OneAtATime /\ SignalInv /\ TurnInv /\ RequestInv /\ ReplyInv /\ MessageInv

-----------------------------------------------------------------------------
\* Who will end without any other's help, and whose end the Scheduler has yet to hear of.
ToldInvalid(p) == mq3_resp # <<>> /\ Head(mq3_resp).pid = p /\ Head(mq3_resp).frame = INVALID
Gone(p) == ppc[p] = "dead" \/ ToldInvalid(p)
ReportedGone(p) == mq2 # <<>> /\ Head(mq2).pid = p /\ Head(mq2).type = 2
Leaving(p) == \/ mq3_req # <<>> /\ Head(mq3_req).pid = p /\ Head(mq3_req).page = QUIT
              \/ mmu_pc = "invalid" /\ mmu_pid = p
              \/ ReportedGone(p)
Open(p) == ~Gone(p) \/ Leaving(p)
Counted == {p \in Procs : Open(p)}

LiveInv ==
  /\ \A p \in Procs : Leaving(p) => Gone(p)
  /\ k_left = Cardinality(Counted)
  /\ spc \in {"signal", "done"} => k_left <= 0
  /\ sem1 > 0 \/ Reporting => spc = "done"
  /\ spc # "dead"

\* The queues are there until Master has removed them; then one process at most is left.
OneTurn ==
  /\ ipc <=> mpc \notin {"done", "killed"}
  /\ ipc => TurnsInv /\ LiveInv
  /\ ~ipc => \A p, q \in Procs : ppc[p] # "dead" /\ ppc[q] # "dead" => p = q

-----------------------------------------------------------------------------
\* What is left of a queue of one.
LEMMA TailOfOne ==
  ASSUME NEW S, NEW q \in Seq(S), Len(q) = 1
  PROVE  q # <<>> /\ Tail(q) = <<>> /\ Head(q) \in S
  <1>1. q # <<>>
    BY EmptySeq
  <1>2. Tail(q) \in Seq(S) /\ Len(Tail(q)) = 0 /\ Head(q) \in S
    BY <1>1, HeadTailProperties
  <1>3. QED BY <1>1, <1>2, EmptySeq

LEMMA InitTurns == Init => OneTurn
  <1> SUFFICES ASSUME Init PROVE OneTurn
    OBVIOUS
  <1>1. TurnsInv
    BY DEF Init, TurnsInv, OneAtATime, Running, SignalInv, TurnInv, RequestInv, ReplyInv,
       MessageInv, MMUIdle
  <1>2. Counted = 0 .. K-1
    BY DEF Init, Counted, Open, Gone, ToldInvalid, Leaving, ReportedGone, Procs
  <1>3. Cardinality(Counted) = K
    <2>1. 0 \in Int /\ K-1 \in Int /\ ~(0 > K-1) /\ K-1 - 0 + 1 = K
      BY PagingAssumption
    <2>2. QED BY <1>2, <2>1, FS_Interval
  <1>4. LiveInv
    BY <1>3 DEF Init, LiveInv, Reporting, Leaving, ReportedGone
  <1>5. QED BY <1>1, <1>4 DEF OneTurn, Init

\* What the types say of the queues.
LEMMA QueuesTyped ==
  ASSUME IInv
  PROVE  /\ mq3_req \in Seq(Requests) /\ mq3_resp \in Seq(Replies)
         /\ mq2 \in Seq([type : {1, 2}, pid : Procs]) /\ mq1 \in Seq(Procs)
         /\ sem2 \in [Procs -> Nat] /\ ppc \in [Procs -> {"unborn", "enqueue", "await",
                                             "request", "receive", "quit", "dead"}]
         /\ ref_idx \in [Procs -> Nat] /\ mmu_pid \in Procs /\ mi \in Procs
  BY DEF IInv, TypeOK, MessageTypeOK, WorkerTypeOK, MasterTypeOK

\* The Scheduler signals when the reply of the turn before has been taken.
LEMMA DispatchTurns ==
  ASSUME Timed, IInv, ipc, TurnsInv, Dispatch
  PROVE  TurnsInv'
  <1>1. /\ spc = "ready" /\ spc' = "mq2" /\ Quiet /\ Quiet'
        /\ \A p \in Procs : ~Running(p) /\ ~Running(p)' /\ sem2[p] = 0
        /\ UNCHANGED <<mq3_req, mq3_resp, mq2, ppc, mmu_pc>>
    BY QueuesTyped DEF Timed, Dispatch, RepliesDelivered, TurnsInv, SignalInv, TurnInv, RequestInv,
       MessageInv, Running, Quiet, MMUIdle, procVars, mmuVars
  <1>2. Head(mq1) \in Procs
    BY QueuesTyped, HeadTailProperties DEF Dispatch
  <1>3. sem2' = [sem2 EXCEPT ![Head(mq1)] = 1]
    <2>1. sem2' = [sem2 EXCEPT ![Head(mq1)] = sem2[Head(mq1)] + 1]
      BY DEF Timed, Dispatch, SemsUsable
    <2>2. sem2[Head(mq1)] + 1 = 1
      BY <1>1, <1>2
    <2>3. QED BY <2>1, <2>2
  <1>4. SignalInv'
    BY <1>1, <1>2, <1>3, QueuesTyped DEF SignalInv
  <1>5. QED
    BY <1>1, <1>4 DEF TurnsInv, OneAtATime, TurnInv, RequestInv, ReplyInv, MessageInv, Running, Quiet,
       MMUIdle

\* The message of the MMU ends a turn.
LEMMA ReceiveFromMMUTurns ==
  ASSUME IInv, TurnsInv, ReceiveFromMMU
  PROVE  TurnsInv'
  <1>1. mq2 # <<>> /\ mq2' = <<>> /\ spc = "mq2" /\ mq3_req = <<>>
    BY QueuesTyped, TailOfOne DEF ReceiveFromMMU, TurnsInv, MessageInv, RequestInv
  <1>2. /\ UNCHANGED <<mq3_req, mq3_resp, ppc, mmu_pc, ref_str, ref_idx, sem2>>
        /\ MMUIdle /\ MMUIdle'
    BY <1>1 DEF ReceiveFromMMU, masterVars, semVars, procVars, mmuVars, TurnsInv, MessageInv, MMUIdle
  <1>3. \A p \in Procs : sem2[p] = 0 /\ ppc[p] \notin {"request", "quit"}
    BY <1>1, QueuesTyped DEF TurnsInv, SignalInv, TurnInv, Quiet
  <1>4. QED
    BY <1>1, <1>2, <1>3 DEF TurnsInv, OneAtATime, SignalInv, TurnInv, RequestInv, ReplyInv, MessageInv,
       Running, NextPage

LEMMA SignalMasterTurns ==
  ASSUME IInv, TurnsInv, SignalMaster
  PROVE  TurnsInv'
  <1>1. /\ UNCHANGED <<mq3_req, mq3_resp, mq2, ppc, mmu_pc, ref_str, ref_idx, sem2>>
        /\ spc = "signal"
    BY DEF SignalMaster, masterVars, queueVars, procVars, mmuVars
  <1>2. QED
    BY <1>1 DEF TurnsInv, OneAtATime, SignalInv, TurnInv, RequestInv, ReplyInv, MessageInv,
       Running, NextPage, Quiet, MMUIdle

\* A process that is not running gets to a place where it is not.
LEMMA EnqueueTurns ==
  ASSUME IInv, TurnsInv, NEW p \in Procs, ppc[p] \in {"unborn", "enqueue"},
         NEW place \in {"enqueue", "await"}, ppc' = [ppc EXCEPT ![p] = place],
         UNCHANGED <<spc, mq3_req, mq3_resp, mq2, mmu_pc, ref_str, ref_idx, sem2>>
  PROVE  TurnsInv'
  <1>1. \A q \in Procs : ppc'[q] = ppc[q] \/ (q = p /\ ppc'[q] \in {"enqueue", "await"})
    BY QueuesTyped
  <1>2. \A q \in Procs : Running(q)' => Running(q) /\ ppc'[q] = ppc[q]
    BY <1>1 DEF Running
  <1>3. \A q \in Procs : ppc[q] \in {"receive", "dead"} => ppc'[q] = ppc[q]
    BY <1>1, QueuesTyped
  <1>4. mq3_req # <<>> => Head(mq3_req).pid \in Procs
    <2>1. mq3_req # <<>> => Head(mq3_req) \in Requests
      BY QueuesTyped, HeadTailProperties
    <2>2. QED BY <2>1 DEF Requests
  <1>5. mq3_resp # <<>> => Head(mq3_resp).pid \in Procs
    <2>1. mq3_resp # <<>> => Head(mq3_resp) \in Replies
      BY QueuesTyped, HeadTailProperties
    <2>2. QED BY <2>1 DEF Replies
  <1>6. OneAtATime' /\ SignalInv' /\ MessageInv'
    BY <1>2 DEF TurnsInv, OneAtATime, SignalInv, MessageInv, Quiet, MMUIdle
  <1>7. TurnInv'
    BY <1>1, QueuesTyped DEF TurnsInv, TurnInv, Quiet, MMUIdle
  <1>8. RequestInv' /\ ReplyInv'
    BY <1>2, <1>3, <1>4, <1>5 DEF TurnsInv, RequestInv, ReplyInv, NextPage, MMUIdle
  <1>9. QED BY <1>6, <1>7, <1>8 DEF TurnsInv

\* The one that was signalled starts to run.
LEMMA AwaitTurnTurns ==
  ASSUME Timed, IInv, ipc, TurnsInv, NEW p \in Procs, AwaitTurn(p)
  PROVE  TurnsInv'
  <1>1. /\ sem2[p] = 1 /\ sem2' = [sem2 EXCEPT ![p] = 0]
        /\ spc = "mq2" /\ Quiet
        /\ \A q \in Procs : ~Running(q) /\ (sem2[q] > 0 => q = p)
    BY QueuesTyped DEF Timed, AwaitTurn, SemsUsable, TurnsInv, SignalInv
  <1>2. /\ UNCHANGED <<spc, mq3_req, mq3_resp, mq2, mmu_pc>>
        /\ ppc' = [ppc EXCEPT ![p] = "request"]
    BY DEF AwaitTurn, queueVars, schedVars, mmuVars
  <1>3. \A q \in Procs : sem2'[q] = 0
    BY <1>1, QueuesTyped
  <1>4. Quiet' /\ spc' = "mq2"
    BY <1>1, <1>2 DEF Quiet, MMUIdle
  <1>5. \A q \in Procs : (Running(q)' => q = p) /\ ppc'[q] # "receive"
    BY <1>1, <1>2, QueuesTyped DEF Running
  <1>6. QED
    BY <1>3, <1>4, <1>5 DEF TurnsInv, OneAtATime, SignalInv, TurnInv, RequestInv, ReplyInv, MessageInv,
       Quiet, MMUIdle

\* Whoever is in one of these places is the only one that runs.
LEMMA OnlyRunner ==
  ASSUME IInv, TurnsInv, NEW p \in Procs, ppc[p] \in {"request", "receive", "quit"}
  PROVE  \A q \in Procs : (Running(q) => q = p) /\ sem2[q] = 0
  <1>1. Running(p)
    BY DEF Running
  <1>2. \A q \in Procs : Running(q) => q = p
    BY <1>1 DEF TurnsInv, OneAtATime
  <1>3. \A q \in Procs : ~(sem2[q] > 0) /\ sem2[q] \in Nat
    BY <1>1, QueuesTyped DEF TurnsInv, SignalInv
  <1>4. QED BY <1>2, <1>3

\* It asks for a page,
LEMMA RequestTurns ==
  ASSUME IInv, ipc, TurnsInv, NEW p \in Procs, Request(p)
  PROVE  TurnsInv'
  <1>1. /\ spc = "mq2" /\ Quiet /\ ppc' = [ppc EXCEPT ![p] = "receive"]
        /\ mq3_req' = Append(<<>>, [pid |-> p, page |-> NextPage(p)])
        /\ UNCHANGED <<spc, mq3_resp, mq2, mmu_pc, ref_str, ref_idx, sem2>>
        /\ ppc[p] = "request"
    BY DEF Request, TurnsInv, TurnInv, Quiet, masterVars, semVars, schedVars, mmuVars
  <1>2. \A q \in Procs : /\ Running(q) => q = p
                         /\ sem2[q] = 0
    BY <1>1, OnlyRunner
  <1>3. mq3_req' # <<>> /\ Len(mq3_req') = 1 /\ Head(mq3_req') = [pid |-> p, page |-> NextPage(p)]
    BY <1>1
  <1>4. NextPage(p) # QUIT
    <2>1. NextPage(p) \in Pages
      BY <1>1, ElementOfSeq, QueuesTyped DEF IInv, TypeOK, MasterTypeOK, InString, NextPage
    <2>2. QED BY <2>1, PagingAssumption DEF Pages, QUIT
  <1>5. \A q \in Procs : (Running(q)' => q = p) /\ ppc'[q] \notin {"request", "quit"}
    BY <1>1, <1>2, QueuesTyped DEF Running
  <1>6. RequestInv'
    <2>1. ppc'[p] = "receive"
      BY <1>1, QueuesTyped
    <2>2. NextPage(p)' = NextPage(p)
      BY <1>1 DEF NextPage
    <2>3. MMUIdle' /\ spc' = "mq2" /\ mq3_resp' = <<>> /\ mq2' = <<>>
      BY <1>1 DEF Quiet, MMUIdle
    <2>4. QED BY <1>3, <1>4, <2>1, <2>2, <2>3 DEF RequestInv, NextPage
  <1>7. QED
    BY <1>1, <1>2, <1>3, <1>5, <1>6 DEF TurnsInv, OneAtATime, SignalInv, TurnInv, ReplyInv, MessageInv,
       Quiet, MMUIdle

\* and says that it has ended.
LEMMA QuitTurns ==
  ASSUME IInv, ipc, TurnsInv, NEW p \in Procs, Quit(p)
  PROVE  TurnsInv'
  <1>1. /\ spc = "mq2" /\ Quiet /\ ppc' = [ppc EXCEPT ![p] = "dead"]
        /\ mq3_req' = Append(<<>>, [pid |-> p, page |-> QUIT])
        /\ UNCHANGED <<spc, mq3_resp, mq2, mmu_pc, sem2>>
        /\ ppc[p] = "quit"
    BY DEF Quit, TurnsInv, TurnInv, Quiet, masterVars, semVars, schedVars, mmuVars
  <1>2. \A q \in Procs : /\ Running(q) => q = p
                         /\ sem2[q] = 0
    BY <1>1, OnlyRunner
  <1>3. mq3_req' # <<>> /\ Len(mq3_req') = 1 /\ Head(mq3_req') = [pid |-> p, page |-> QUIT]
    BY <1>1
  <1>4. \A q \in Procs : ~Running(q)' /\ ppc'[p] = "dead"
    BY <1>1, <1>2, QueuesTyped DEF Running
  <1>5. QED
    BY <1>1, <1>2, <1>3, <1>4 DEF TurnsInv, OneAtATime, SignalInv, TurnInv, RequestInv, ReplyInv,
       MessageInv, Running, Quiet, MMUIdle

\* takes its own reply,
LEMMA ReceiveTurns ==
  ASSUME IInv, ipc, TurnsInv, NEW p \in Procs, Receive(p)
  PROVE  TurnsInv'
  <1>1. /\ mq3_resp # <<>> /\ mq3_resp' = Tail(mq3_resp) /\ ppc[p] = "receive"
        /\ Obey(p, Head(mq3_resp).frame)
        /\ UNCHANGED <<spc, mq3_req, mq2, mmu_pc, ref_str, sem2>>
    BY DEF Receive, masterVars, semVars, schedVars, mmuVars
  <1>2. mq3_req = <<>> /\ mq3_resp' = <<>>
    BY <1>1, QueuesTyped, TailOfOne DEF TurnsInv, RequestInv, ReplyInv
  <1>3. \A q \in Procs : /\ Running(q) => q = p
                         /\ sem2[q] = 0
    BY <1>1, OnlyRunner
  <1>4. /\ ppc'[p] \in {"enqueue", "dead", "request", "quit"}
        /\ \A q \in Procs : q # p => ppc'[q] = ppc[q]
    BY <1>1, QueuesTyped DEF Obey
  <1>5. ppc'[p] \in {"request", "quit"} => spc = "mq2" /\ mq2 = <<>> /\ MMUIdle
    BY <1>1, QueuesTyped DEF Obey, TurnsInv, ReplyInv
  <1>6. \A q \in Procs : Running(q)' => q = p /\ ppc'[p] \in {"request", "quit"}
    BY <1>3, <1>4 DEF Running
  <1>7. QED
    BY <1>1, <1>2, <1>3, <1>4, <1>5, <1>6 DEF TurnsInv, OneAtATime, SignalInv, TurnInv, RequestInv, ReplyInv,
       MessageInv, Running, Quiet, MMUIdle

\* The MMU takes a request, while it is idle and the Scheduler waits.
LEMMA RequestTaken ==
  ASSUME IInv, ipc, TurnsInv, NEW p, NEW g, Incoming(p, g)
  PROVE  /\ mmu_pc = "recv" /\ mq3_req' = <<>> /\ mq3_req # <<>> /\ mq3_resp = <<>> /\ mq2 = <<>>
         /\ spc = "mq2" /\ p \in Procs
         /\ p = Head(mq3_req).pid /\ g = Head(mq3_req).page
         /\ IF g = QUIT THEN ppc[p] = "dead" /\ \A q \in Procs : ~Running(q)
            ELSE /\ ppc[p] = "receive" /\ g = NextPage(p)
                 /\ \A q \in Procs : Running(q) => q = p
         /\ \A q \in Procs : sem2[q] = 0 /\ ppc[q] \notin {"request", "quit"}
  <1>1. /\ mmu_pc = "recv" /\ mq3_req # <<>> /\ mq3_req' = Tail(mq3_req)
        /\ p = Head(mq3_req).pid /\ g = Head(mq3_req).page
    BY DEF Incoming
  <1>2. mq3_req' = <<>> /\ Head(mq3_req) \in Requests
    BY <1>1, QueuesTyped, TailOfOne DEF TurnsInv, RequestInv
  <1>3. p \in Procs
    BY <1>1, <1>2 DEF Requests
  <1>4. g # QUIT => \A q \in Procs : Running(q) => q = p
    BY <1>1, <1>3, OnlyRunner DEF TurnsInv, RequestInv
  <1>5. \A q \in Procs : ~(sem2[q] > 0) /\ sem2[q] \in Nat /\ ppc[q] \notin {"request", "quit"}
    BY <1>1, QueuesTyped DEF TurnsInv, SignalInv, TurnInv, Quiet
  <1>6. \A q \in Procs : sem2[q] = 0 /\ ppc[q] \notin {"request", "quit"}
    BY <1>5
  <1>7. QED BY <1>1, <1>2, <1>3, <1>4, <1>6 DEF TurnsInv, RequestInv

\* The MMU's message to the Scheduler is the only one.
LEMMA MessageSent ==
  ASSUME IInv, ipc, mq2 = <<>>, NEW p \in Procs, NEW kind, TellScheduler(p, kind)
  PROVE  /\ mq2' # <<>> /\ Len(mq2') = 1 /\ Head(mq2') = [type |-> kind, pid |-> p]
         /\ mq2' = <<[type |-> kind, pid |-> p]>>
  BY DEF TellScheduler

LEMMA ReplySent ==
  ASSUME IInv, ipc, mq3_resp = <<>>, NEW p, NEW g, NEW answer, Reply(p, g, answer)
  PROVE  /\ mq3_resp' # <<>> /\ Len(mq3_resp') = 1
         /\ Head(mq3_resp') = [pid |-> p, page |-> g, frame |-> answer]
  BY DEF Reply

\* The MMU passes an end on to the Scheduler.
LEMMA MMUTerminateTurns ==
  ASSUME IInv, ipc, TurnsInv, NEW p \in Procs, MMUTerminate(p)
  PROVE  TurnsInv'
  <1>1. Incoming(p, QUIT) /\ TellScheduler(p, 2) /\ UNCHANGED <<mmu_pc, mq3_resp, ppc, sem2, spc>>
    BY DEF MMUTerminate, semVars, schedVars, procVars, mmuVars
  <1>2. /\ mmu_pc = "recv" /\ mq3_req' = <<>> /\ mq3_resp = <<>> /\ mq2 = <<>> /\ spc = "mq2"
        /\ \A q \in Procs : ~Running(q) /\ sem2[q] = 0
    BY <1>1, RequestTaken
  <1>3. Len(mq2') = 1
    BY <1>1, <1>2, MessageSent
  <1>4. QED
    BY <1>1, <1>2, <1>3 DEF TurnsInv, OneAtATime, SignalInv, TurnInv, RequestInv, ReplyInv,
       MessageInv, Running, MMUIdle

\* The MMU answers a request; only after a hit does the process run on.
LEMMA MMUAnswerTurns ==
  ASSUME IInv, ipc, TurnsInv, NEW p \in Procs, NEW g \in Pages, NEW answer,
         Incoming(p, g), Reply(p, g, answer),
         UNCHANGED <<ppc, sem2, spc, mq2, ref_str, ref_idx>>,
         \/ mmu_pc' = mmu_pc
         \/ mmu_pc' \in {"invalid", "fault"} /\ answer \in {FAULT, INVALID}
  PROVE  TurnsInv'
  <1>1. g # QUIT
    BY PagingAssumption DEF Pages, QUIT
  <1>2. /\ mmu_pc = "recv" /\ mq3_req' = <<>> /\ mq3_resp = <<>> /\ mq2 = <<>> /\ spc = "mq2"
        /\ ppc[p] = "receive" /\ g = NextPage(p)
        /\ \A q \in Procs : Running(q) => q = p
        /\ \A q \in Procs : sem2[q] = 0 /\ ppc[q] \notin {"request", "quit"}
    BY <1>1, RequestTaken
  <1>3. /\ mq3_resp' # <<>> /\ Len(mq3_resp') = 1
        /\ Head(mq3_resp') = [pid |-> p, page |-> g, frame |-> answer]
    BY <1>2, ReplySent
  <1>4. ReplyInv'
    <2>1. g = NextPage(p)' /\ ppc'[p] = "receive"
      BY <1>2 DEF NextPage
    <2>2. answer \notin {FAULT, INVALID} => spc' = "mq2" /\ mq2' = <<>> /\ MMUIdle'
      BY <1>2 DEF MMUIdle
    <2>3. QED BY <1>3, <2>1, <2>2 DEF ReplyInv, NextPage
  <1>5. QED
    BY <1>2, <1>3, <1>4 DEF TurnsInv, OneAtATime, SignalInv, TurnInv, RequestInv,
       MessageInv, Running, MMUIdle

\* The MMU tells the Scheduler the rest of a fault or an illegal page.
LEMMA MMUTellTurns ==
  ASSUME IInv, ipc, TurnsInv, mmu_pc \in {"fault", "invalid"}, mmu_pc' = "recv",
         NEW kind, TellScheduler(mmu_pid, kind),
         UNCHANGED <<ppc, sem2, spc, mq3_req, mq3_resp, ref_str, ref_idx>>
  PROVE  TurnsInv'
  <1>1. mq2 = <<>> /\ mq3_req = <<>> /\ spc = "mq2" /\ ~MMUIdle /\ MMUIdle'
    BY DEF TurnsInv, MessageInv, MMUIdle
  <1>2. mq2' # <<>> /\ Len(mq2') = 1
    BY <1>1, MessageSent, QueuesTyped
  <1>3. \A q \in Procs : ~(sem2[q] > 0) /\ ppc[q] \notin {"request", "quit"}
    BY <1>1 DEF TurnsInv, SignalInv, TurnInv, Quiet
  <1>4. mq3_resp # <<>> => Head(mq3_resp).frame \in {FAULT, INVALID}
    BY <1>1 DEF TurnsInv, ReplyInv
  <1>5. QED
    BY <1>1, <1>2, <1>3, <1>4 DEF TurnsInv, OneAtATime, SignalInv, TurnInv, RequestInv, ReplyInv,
       MessageInv, Running, NextPage

\* A step that leaves all of this alone, or wakes a Scheduler that waits for nothing.
LEMMA SameTurns ==
  ASSUME IInv, TurnsInv,
         UNCHANGED <<ppc, sem2, mq2, mq3_req, mq3_resp, ref_idx>>,
         spc' = spc \/ spc # "mq2",
         \A p \in Procs : ppc[p] = "receive" => ref_str'[p] = ref_str[p],
         MMUIdle' <=> MMUIdle
  PROVE  TurnsInv'
  <1>1. mq3_req # <<>> => Head(mq3_req).pid \in Procs
    <2>1. mq3_req # <<>> => Head(mq3_req) \in Requests
      BY QueuesTyped, HeadTailProperties
    <2>2. QED BY <2>1 DEF Requests
  <1>2. mq3_resp # <<>> => Head(mq3_resp).pid \in Procs
    <2>1. mq3_resp # <<>> => Head(mq3_resp) \in Replies
      BY QueuesTyped, HeadTailProperties
    <2>2. QED BY <2>1 DEF Replies
  <1>3. CASE spc' = spc
    BY <1>1, <1>2, <1>3 DEF TurnsInv, OneAtATime, SignalInv, TurnInv, RequestInv, ReplyInv,
       MessageInv, Running, NextPage, Quiet
  <1>4. CASE spc # "mq2"
    BY <1>1, <1>2, <1>4 DEF TurnsInv, OneAtATime, SignalInv, TurnInv, RequestInv, ReplyInv,
       MessageInv, Running, NextPage, Quiet
  <1>5. QED BY <1>3, <1>4

-----------------------------------------------------------------------------
SameOpen == \A p \in Procs : Open(p)' <=> Open(p)

\* A step that takes nobody from those counted.
LEMMA SameLive ==
  ASSUME LiveInv, UNCHANGED k_left,
         \A p \in Procs : (Open(p)' <=> Open(p)) /\ (Leaving(p)' => Gone(p)'),
         spc' \in {"signal", "done"} => k_left <= 0,
         sem1' > 0 \/ Reporting' => spc' = "done",
         spc' # "dead"
  PROVE  LiveInv'
  <1>1. Counted' = Counted
    BY DEF Counted
  <1>2. QED BY <1>1 DEF LiveInv

\* The Scheduler counts down once for everybody who has ended.
LEMMA SchedulerLive ==
  ASSUME Timed, IInv, ipc, TurnsInv, LiveInv, Scheduler
  PROVE  LiveInv' /\ \A p \in Procs : ~Open(p)' => ~Open(p) \/ ReportedGone(p)
  <1>1. CASE Dispatch
    <2>1. \A p \in Procs : (Gone(p)' <=> Gone(p)) /\ (Leaving(p)' <=> Leaving(p))
      BY <1>1 DEF Dispatch, Gone, ToldInvalid, Leaving, ReportedGone, procVars, mmuVars
    <2>2. /\ UNCHANGED <<k_left, sem1, mpc>>
          /\ spc = "ready" /\ spc' = "mq2"
      BY <1>1 DEF Dispatch, masterVars
    <2>3. QED BY <2>1, <2>2, SameLive DEF LiveInv, Open, Reporting
  <1>2. CASE SignalMaster
    <2>1. \A p \in Procs : (Gone(p)' <=> Gone(p)) /\ (Leaving(p)' <=> Leaving(p))
      BY <1>2 DEF SignalMaster, Gone, ToldInvalid, Leaving, ReportedGone, queueVars, procVars, mmuVars
    <2>2. /\ UNCHANGED <<k_left, mpc>>
          /\ spc = "signal" /\ spc' = "done"
      BY <1>2 DEF SignalMaster, masterVars
    <2>3. QED BY <2>1, <2>2, SameLive DEF LiveInv, Open
  <1>3. CASE ReceiveFromMMU
    <2> DEFINE p == Head(mq2).pid
    <2>1. /\ mq2 # <<>> /\ mq2' = <<>> /\ spc = "mq2" /\ mq3_req = <<>> /\ MMUIdle
          /\ Head(mq2) \in [type : {1, 2}, pid : Procs]
      BY <1>3, QueuesTyped, TailOfOne DEF ReceiveFromMMU, TurnsInv, MessageInv, RequestInv
    <2>2. /\ UNCHANGED <<mq3_req, mq3_resp, ppc, mmu_pc, mmu_pid, sem1, mpc>>
          /\ k_left' = StillLive(Head(mq2)) /\ spc' \in {"ready", "signal"}
          /\ spc' = "signal" => ~(k_left' > 0)
      BY <1>3 DEF ReceiveFromMMU, masterVars, semVars, procVars, mmuVars
    <2>3. \A q \in Procs : (Gone(q)' <=> Gone(q)) /\ ~Leaving(q)'
      BY <2>1, <2>2 DEF Gone, ToldInvalid, Leaving, ReportedGone, MMUIdle
    <2>4. \A q \in Procs : Leaving(q) <=> q = p /\ Head(mq2).type = 2
      BY <2>1 DEF Leaving, ReportedGone, MMUIdle
    <2>5. k_left \in Int /\ p \in Procs /\ Head(mq2).type \in {1, 2}
      BY <2>1 DEF IInv, TypeOK, WorkerTypeOK
    <2>6. ASSUME Head(mq2).type = 1 PROVE LiveInv'
      <3>1. k_left' = k_left
        BY <2>2, <2>6 DEF StillLive
      <3>2. \A q \in Procs : Open(q)' <=> Open(q)
        BY <2>3, <2>4, <2>6 DEF Open
      <3>3. QED BY <2>1, <2>2, <2>3, <2>5, <3>1, <3>2, SameLive DEF LiveInv, Reporting
    <2>7. ASSUME Head(mq2).type = 2 PROVE LiveInv'
      <3>1. k_left' = k_left - 1
        BY <2>2, <2>7 DEF StillLive
      <3>2. Counted' = Counted \ {p} /\ p \in Counted
        BY <2>3, <2>4, <2>5, <2>7 DEF LiveInv, Counted, Open
      <3>3. IsFiniteSet(Counted)
        <4>1. IsFiniteSet(Procs)
          BY PagingAssumption, FS_Interval DEF Procs
        <4>2. QED BY <4>1, FS_Subset DEF Counted
      <3>4. Cardinality(Counted') = Cardinality(Counted) - 1
        BY <3>2, <3>3, FS_RemoveElement
      <3>5. QED BY <2>1, <2>2, <2>3, <2>5, <3>1, <3>4 DEF LiveInv, Reporting
    <2>8. \A q \in Procs : ~Open(q)' => ~Open(q) \/ ReportedGone(q)
      BY <2>1, <2>3, <2>4 DEF Open, ReportedGone
    <2>9. QED BY <2>5, <2>6, <2>7, <2>8
  <1>4. QED BY <1>1, <1>2, <1>3 DEF Scheduler

\* A process is counted as long as its end is on its way to the Scheduler,
LEMMA ProcessLive ==
  ASSUME IInv, ipc, TurnsInv, LiveInv, NEW p \in Procs, Process(p)
  PROVE  LiveInv' /\ SameOpen
  <1>1. UNCHANGED <<k_left, spc, sem1, mpc, mmu_pc, mmu_pid, mq2>>
    BY DEF Process, Enqueue, AwaitTurn, Request, Receive, Quit, masterVars, semVars, queueVars,
       schedVars, mmuVars
  <1>2. ASSUME \A q \in Procs : (Open(q)' <=> Open(q)) /\ (Leaving(q)' => Gone(q)')
        PROVE  LiveInv' /\ SameOpen
    BY <1>1, <1>2, SameLive DEF LiveInv, Reporting, SameOpen
  <1>3. CASE Enqueue(p) \/ AwaitTurn(p)
    <2>1. UNCHANGED <<mq3_req, mq3_resp>> /\ ppc[p] # "dead" /\ ppc'[p] # "dead"
          /\ \A q \in Procs : q # p => ppc'[q] = ppc[q]
      BY <1>3, QueuesTyped DEF Enqueue, AwaitTurn, queueVars
    <2>2. \A q \in Procs : (Gone(q)' <=> Gone(q)) /\ (Leaving(q)' <=> Leaving(q))
      BY <1>1, <2>1 DEF Gone, ToldInvalid, Leaving, ReportedGone
    <2>3. QED BY <1>2, <2>2 DEF LiveInv, Open
  <1>4. CASE Request(p)
    <2>1. /\ Quiet /\ mq3_req' = Append(<<>>, [pid |-> p, page |-> NextPage(p)])
          /\ UNCHANGED mq3_resp
          /\ ppc' = [ppc EXCEPT ![p] = "receive"] /\ ppc[p] = "request"
      BY <1>4 DEF Request, TurnsInv, TurnInv, Quiet
    <2>2. Head(mq3_req').page # QUIT
      <3>1. NextPage(p) \in Pages
        BY <2>1, ElementOfSeq, QueuesTyped DEF IInv, TypeOK, MasterTypeOK, InString, NextPage
      <3>2. NextPage(p) # QUIT
        BY <3>1, PagingAssumption DEF Pages, QUIT
      <3>3. QED BY <2>1, <3>2
    <2>3. \A q \in Procs : (ppc'[q] = "dead") <=> (ppc[q] = "dead")
      BY <2>1, QueuesTyped
    <2>4. \A q \in Procs : (Gone(q)' <=> Gone(q)) /\ ~Leaving(q) /\ ~Leaving(q)'
      BY <1>1, <2>1, <2>2, <2>3 DEF Gone, ToldInvalid, Leaving, ReportedGone, Quiet, MMUIdle
    <2>5. QED BY <1>2, <2>4 DEF Open
  <1>5. CASE Quit(p)
    <2>1. /\ Quiet /\ mq3_req' = Append(<<>>, [pid |-> p, page |-> QUIT])
          /\ UNCHANGED mq3_resp
          /\ ppc' = [ppc EXCEPT ![p] = "dead"] /\ ppc[p] = "quit"
      BY <1>5 DEF Quit, TurnsInv, TurnInv, Quiet
    <2>2. mq3_req' # <<>> /\ Head(mq3_req') = [pid |-> p, page |-> QUIT]
      BY <2>1
    <2>3. ppc'[p] = "dead" /\ \A q \in Procs : q # p => ppc'[q] = ppc[q]
      BY <2>1, QueuesTyped
    <2>4. \A q \in Procs : q # p => (Gone(q)' <=> Gone(q)) /\ ~Leaving(q) /\ ~Leaving(q)'
      BY <1>1, <2>1, <2>2, <2>3 DEF Gone, ToldInvalid, Leaving, ReportedGone, Quiet, MMUIdle
    <2>5. Leaving(p)' /\ Gone(p)' /\ ~Gone(p)
      BY <2>1, <2>2, <2>3 DEF Gone, ToldInvalid, Leaving, ReportedGone, Quiet
    <2>6. QED BY <1>2, <2>4, <2>5 DEF Open
  <1>6. CASE Receive(p)
    <2>1. /\ mq3_resp # <<>> /\ mq3_resp' = Tail(mq3_resp) /\ ppc[p] = "receive"
          /\ Obey(p, Head(mq3_resp).frame) /\ UNCHANGED mq3_req
      BY <1>6 DEF Receive
    <2>2. mq3_resp' = <<>> /\ Head(mq3_resp) \in Replies /\ ppc[Head(mq3_resp).pid] = "receive"
      BY <2>1, QueuesTyped, TailOfOne DEF TurnsInv, ReplyInv
    <2>3. Head(mq3_resp).pid = p
      BY <2>1, <2>2 DEF TurnsInv, OneAtATime, Running, Replies
    <2>4. \A q \in Procs : q # p => ppc'[q] = ppc[q]
      BY <2>1, QueuesTyped DEF Obey
    <2>5. ppc'[p] = "dead" <=> Head(mq3_resp).frame = INVALID
      <3>1. FAULT # INVALID
        BY DEF FAULT, INVALID
      <3>2. CASE Head(mq3_resp).frame = FAULT
        BY <2>1, <3>1, <3>2, QueuesTyped DEF Obey
      <3>3. CASE Head(mq3_resp).frame = INVALID
        BY <2>1, <3>1, <3>3, QueuesTyped DEF Obey
      <3>4. CASE Head(mq3_resp).frame \notin {FAULT, INVALID}
        BY <2>1, <3>4, QueuesTyped DEF Obey
      <3>5. QED BY <3>2, <3>3, <3>4
    <2>6. \A q \in Procs : (Gone(q)' <=> Gone(q)) /\ (Leaving(q)' <=> Leaving(q))
      BY <1>1, <2>1, <2>2, <2>3, <2>4, <2>5 DEF Gone, ToldInvalid, Leaving, ReportedGone
    <2>7. QED BY <1>2, <2>6 DEF LiveInv, Open
  <1>7. QED BY <1>3, <1>4, <1>5, <1>6 DEF Process

\* also through the MMU.
LEMMA MMULive ==
  ASSUME IInv, ipc, TurnsInv, LiveInv, MMU
  PROVE  LiveInv' /\ SameOpen
  <1>1. UNCHANGED <<k_left, spc, sem1, mpc, ppc>>
    BY DEF MMU, MMUTerminate, MMUInvalid, MMUHit, MMUFault, MMUFreeInvalid, MMUFaultHandled,
       masterVars, semVars, schedVars, procVars
  <1>2. ASSUME \A q \in Procs : (Open(q)' <=> Open(q)) /\ (Leaving(q)' => Gone(q)')
        PROVE  LiveInv' /\ SameOpen
    BY <1>1, <1>2, SameLive DEF LiveInv, Reporting, SameOpen
  <1>3. ASSUME NEW p \in Procs, MMUTerminate(p) PROVE LiveInv' /\ SameOpen
    <2>1. Incoming(p, QUIT) /\ TellScheduler(p, 2) /\ UNCHANGED <<mmu_pc, mq3_resp>>
      BY <1>3 DEF MMUTerminate, mmuVars
    <2>2. /\ mmu_pc = "recv" /\ mq3_req # <<>> /\ mq3_req' = <<>> /\ mq2 = <<>>
          /\ p = Head(mq3_req).pid /\ Head(mq3_req).page = QUIT
      BY <2>1, RequestTaken
    <2>3. mq2' # <<>> /\ Head(mq2') = [type |-> 2, pid |-> p]
      BY <2>1, <2>2, MessageSent
    <2>4. \A q \in Procs : (Leaving(q) <=> q = p) /\ (Leaving(q)' <=> q = p)
      BY <2>1, <2>2, <2>3 DEF Leaving, ReportedGone
    <2>5. \A q \in Procs : Gone(q)' <=> Gone(q)
      BY <1>1, <2>1 DEF Gone, ToldInvalid
    <2>6. QED BY <1>2, <2>4, <2>5 DEF LiveInv, Open
  <1>4. ASSUME NEW p \in Procs, NEW g \in Pages, MMUHit(p, g) \/ MMUFault(p, g) PROVE LiveInv' /\ SameOpen
    <2>1. PICK answer : Incoming(p, g) /\ Reply(p, g, answer) /\ answer # INVALID
      <3>1. CASE MMUFault(p, g)
        BY <3>1 DEF MMUFault, FAULT, INVALID
      <3>2. CASE MMUHit(p, g)
        <4>1. frame[p][g] \in Frames
          BY <3>2 DEF MMUHit, Touch, IInv, FramesExclusive
        <4>2. frame[p][g] # INVALID
          BY <4>1, PagingAssumption DEF Frames, INVALID
        <4>3. QED BY <3>2, <4>2 DEF MMUHit
      <3>3. QED BY <1>4, <3>1, <3>2
    <2>2. g # QUIT /\ UNCHANGED mq2 /\ mmu_pc' # "invalid"
      <3>1. g # QUIT
        BY PagingAssumption DEF Pages, QUIT
      <3>2. QED BY <1>4, <2>1, <3>1, RequestTaken DEF MMUHit, MMUFault, mmuVars
    <2>3. /\ mmu_pc = "recv" /\ mq3_req' = <<>> /\ mq2 = <<>> /\ mq3_resp = <<>>
          /\ Head(mq3_req).page # QUIT
      BY <2>1, <2>2, RequestTaken
    <2>4. mq3_resp' # <<>> /\ Head(mq3_resp') = [pid |-> p, page |-> g, frame |-> answer]
      BY <2>1, <2>3, ReplySent
    <2>5. \A q \in Procs : ~Leaving(q) /\ ~Leaving(q)' /\ (Gone(q)' <=> Gone(q))
      BY <1>1, <2>1, <2>2, <2>3, <2>4 DEF Leaving, ReportedGone, Gone, ToldInvalid
    <2>6. QED BY <1>2, <2>5 DEF Open
  <1>5. ASSUME NEW p \in Procs, NEW g \in Pages, MMUInvalid(p, g) PROVE LiveInv' /\ SameOpen
    <2>1. /\ Incoming(p, g) /\ Reply(p, g, INVALID) /\ UNCHANGED mq2
          /\ mmu_pc' = "invalid" /\ mmu_pid' = p
      BY <1>5 DEF MMUInvalid
    <2>2. g # QUIT
      BY PagingAssumption DEF Pages, QUIT
    <2>3. /\ mmu_pc = "recv" /\ mq3_req' = <<>> /\ mq2 = <<>> /\ mq3_resp = <<>>
          /\ Head(mq3_req).page # QUIT /\ ppc[p] = "receive"
      BY <2>1, <2>2, RequestTaken
    <2>4. mq3_resp' # <<>> /\ Head(mq3_resp') = [pid |-> p, page |-> g, frame |-> INVALID]
      BY <2>1, <2>3, ReplySent
    <2>5. \A q \in Procs : ~Leaving(q) /\ (Leaving(q)' <=> q = p)
      BY <2>1, <2>3 DEF Leaving, ReportedGone
    <2>6. \A q \in Procs : Gone(q)' <=> Gone(q) \/ q = p
      BY <1>1, <2>3, <2>4 DEF Gone, ToldInvalid
    <2>7. ~Gone(p)
      BY <2>3 DEF Gone, ToldInvalid
    <2>8. QED BY <1>2, <2>5, <2>6, <2>7 DEF Open
  <1>6. ASSUME MMUFreeInvalid \/ MMUFaultHandled PROVE LiveInv' /\ SameOpen
    <2>1. PICK kind : /\ TellScheduler(mmu_pid, kind)
                      /\ kind = 2 <=> mmu_pc = "invalid"
      BY <1>6 DEF MMUFreeInvalid, MMUFaultHandled
    <2>2. /\ mmu_pc \in {"fault", "invalid"} /\ mmu_pc' = "recv"
          /\ UNCHANGED <<mmu_pid, mq3_req, mq3_resp>>
      BY <1>6 DEF MMUFreeInvalid, MMUFaultHandled
    <2>3. mq2 = <<>> /\ mq3_req = <<>> /\ mmu_pid \in Procs
      BY <2>2, QueuesTyped DEF TurnsInv, MessageInv, MMUIdle
    <2>4. mq2' # <<>> /\ Head(mq2') = [type |-> kind, pid |-> mmu_pid]
      BY <2>1, <2>3, MessageSent
    <2>5. \A q \in Procs : (Leaving(q)' <=> Leaving(q)) /\ (Gone(q)' <=> Gone(q))
      BY <1>1, <2>1, <2>2, <2>3, <2>4 DEF Leaving, ReportedGone, Gone, ToldInvalid
    <2>6. QED BY <1>2, <2>5 DEF LiveInv, Open
  <1>7. QED BY <1>3, <1>4, <1>5, <1>6 DEF MMU

LEMMA MMUTurns ==
  ASSUME IInv, ipc, TurnsInv, MMU
  PROVE  TurnsInv'
  <1>1. ASSUME NEW p \in Procs, MMUTerminate(p) PROVE TurnsInv'
    BY <1>1, MMUTerminateTurns
  <1>2. ASSUME NEW p \in Procs, NEW g \in Pages, MMUInvalid(p, g) PROVE TurnsInv'
    <2>1. /\ Incoming(p, g) /\ Reply(p, g, INVALID) /\ mmu_pc' \in {"invalid", "fault"}
          /\ UNCHANGED <<ppc, sem2, spc, mq2, ref_str, ref_idx>>
      BY <1>2 DEF MMUInvalid, masterVars, semVars, schedVars, procVars
    <2>2. QED BY <2>1, MMUAnswerTurns
  <1>3. ASSUME NEW p \in Procs, NEW g \in Pages, MMUHit(p, g) PROVE TurnsInv'
    <2>1. /\ Incoming(p, g) /\ Reply(p, g, frame[p][g])
          /\ UNCHANGED <<ppc, sem2, spc, mq2, ref_str, ref_idx, mmu_pc>>
      BY <1>3 DEF MMUHit, masterVars, semVars, schedVars, procVars, mmuVars
    <2>2. QED BY <2>1, MMUAnswerTurns
  <1>4. ASSUME NEW p \in Procs, NEW g \in Pages, MMUFault(p, g) PROVE TurnsInv'
    <2>1. /\ Incoming(p, g) /\ Reply(p, g, FAULT) /\ mmu_pc' \in {"invalid", "fault"}
          /\ UNCHANGED <<ppc, sem2, spc, mq2, ref_str, ref_idx>>
      BY <1>4 DEF MMUFault, masterVars, semVars, schedVars, procVars
    <2>2. QED BY <2>1, MMUAnswerTurns
  <1>5. CASE MMUFreeInvalid
    <2>1. /\ mmu_pc \in {"fault", "invalid"} /\ mmu_pc' = "recv" /\ TellScheduler(mmu_pid, 2)
          /\ UNCHANGED <<ppc, sem2, spc, mq3_req, mq3_resp, ref_str, ref_idx>>
      BY <1>5 DEF MMUFreeInvalid, masterVars, semVars, schedVars, procVars
    <2>2. QED BY <2>1, MMUTellTurns
  <1>6. CASE MMUFaultHandled
    <2>1. /\ mmu_pc \in {"fault", "invalid"} /\ mmu_pc' = "recv" /\ TellScheduler(mmu_pid, 1)
          /\ UNCHANGED <<ppc, sem2, spc, mq3_req, mq3_resp, ref_str, ref_idx>>
      BY <1>6 DEF MMUFaultHandled, masterVars, semVars, schedVars, procVars
    <2>2. QED BY <2>1, MMUTellTurns
  <1>7. QED BY <1>1, <1>2, <1>3, <1>4, <1>5, <1>6 DEF MMU

-----------------------------------------------------------------------------
\* Master's steps while the queues are there.
LEMMA MasterTurns ==
  ASSUME IInv, ipc, TurnsInv, LiveInv, Master, ~Cleanup
  PROVE  TurnsInv' /\ LiveInv' /\ SameOpen
  <1>1. UNCHANGED <<sem2, mq2, mq3_req, mq3_resp, ref_idx, k_left, mmu_pid>>
    BY DEF Master, ChooseTable, AddIllegalPage, AllocateFrames, ForkScheduler, ForkMMU,
       ForkProcess, WaitForScheduler, KillMMU, Reorder, semVars, queueVars, procVars, schedVars,
       mmuVars
  <1>2. ASSUME UNCHANGED <<ppc, mmu_pc, sem1>>, spc' = spc, mpc' \notin {"kill", "reorder", "cleanup"},
               \A p \in Procs : ppc[p] = "receive" => ref_str'[p] = ref_str[p]
        PROVE  TurnsInv' /\ LiveInv' /\ SameOpen
    <2>1. TurnsInv'
      BY <1>1, <1>2, SameTurns DEF MMUIdle
    <2>2. \A p \in Procs : (Open(p)' <=> Open(p)) /\ (Leaving(p)' => Gone(p)')
      BY <1>1, <1>2 DEF Open, Gone, ToldInvalid, Leaving, ReportedGone, LiveInv
    <2>3. QED BY <1>1, <1>2, <2>1, <2>2, SameLive DEF SameOpen, LiveInv, Reporting
  <1>3. mpc \in Setup => \A p \in Procs : ppc[p] = "unborn"
    BY DEF IInv, InString
  <1>4. CASE ChooseTable
    <2>1. UNCHANGED <<ppc, mmu_pc, sem1, spc>> /\ mpc \in Setup /\ mpc' \in Setup
      BY <1>4 DEF ChooseTable, Advance, Setup, semVars, procVars, schedVars, mmuVars
    <2>2. QED BY <1>2, <1>3, <2>1 DEF Setup
  <1>5. CASE AddIllegalPage
    <2>1. UNCHANGED <<ppc, mmu_pc, sem1, spc>> /\ mpc \in Setup /\ mpc' \in Setup \cup {"sigfpe"}
      BY <1>5 DEF AddIllegalPage, Advance, Setup, semVars, procVars, schedVars, mmuVars
    <2>2. QED BY <1>2, <1>3, <2>1 DEF Setup
  <1>6. CASE AllocateFrames
    <2>1. UNCHANGED <<ppc, mmu_pc, sem1, spc, ref_str>> /\ mpc' \in Setup
      BY <1>6 DEF AllocateFrames, Advance, Setup, semVars, procVars, schedVars, mmuVars
    <2>2. QED BY <1>2, <2>1 DEF Setup
  <1>7. CASE ForkScheduler
    <2>1. /\ UNCHANGED <<ppc, mmu_pc, sem1, ref_str>> /\ spc' = "ready" /\ mpc' = "fork_mmu"
          /\ mpc = "fork_sched"
      BY <1>7 DEF ForkScheduler, semVars, procVars, mmuVars
    <2>2. spc = "unborn"
      BY <2>1 DEF IInv, InString, Setup
    <2>3. TurnsInv'
      BY <1>1, <2>1, <2>2, SameTurns DEF MMUIdle
    <2>4. \A p \in Procs : (Open(p)' <=> Open(p)) /\ (Leaving(p)' => Gone(p)')
      BY <1>1, <2>1 DEF Open, Gone, ToldInvalid, Leaving, ReportedGone, LiveInv
    <2>5. QED BY <1>1, <2>1, <2>2, <2>3, <2>4, SameLive DEF SameOpen, LiveInv, Reporting
  <1>8. CASE ForkMMU
    <2>1. /\ UNCHANGED <<ppc, sem1, spc, ref_str>> /\ mmu_pc' = "recv" /\ mpc = "fork_mmu"
          /\ mpc' = "fork_procs"
      BY <1>8 DEF ForkMMU, semVars, procVars, schedVars
    <2>2. mmu_pc = "unborn"
      BY <2>1 DEF IInv, InString, Setup
    <2>3. TurnsInv'
      BY <1>1, <2>1, <2>2, SameTurns DEF MMUIdle
    <2>4. \A p \in Procs : (Open(p)' <=> Open(p)) /\ (Leaving(p)' => Gone(p)')
      BY <1>1, <2>1, <2>2 DEF Open, Gone, ToldInvalid, Leaving, ReportedGone, LiveInv
    <2>5. QED BY <1>1, <2>1, <2>3, <2>4, SameLive DEF SameOpen, LiveInv, Reporting
  <1>9. CASE ForkProcess
    <2>1. /\ UNCHANGED <<spc, mmu_pc, sem1, ref_str>> /\ mpc = "fork_procs"
          /\ ppc' = [ppc EXCEPT ![mi] = "enqueue"] /\ mpc' \in {"fork_procs", "wait"}
      BY <1>9 DEF ForkProcess, Advance, semVars, schedVars, mmuVars
    <2>2. ppc[mi] = "unborn" /\ mi \in Procs
      <3>1. mi \in Procs /\ mi >= mi
        BY QueuesTyped, PagingAssumption DEF Procs
      <3>2. QED BY <2>1, <3>1 DEF IInv, InString
    <2>3. TurnsInv'
      BY <1>1, <2>1, <2>2, EnqueueTurns
    <2>4. \A p \in Procs : (ppc'[p] = "dead") <=> (ppc[p] = "dead")
      BY <2>1, <2>2, QueuesTyped
    <2>5. \A p \in Procs : (Gone(p)' <=> Gone(p)) /\ (Leaving(p)' <=> Leaving(p))
      BY <1>1, <2>1, <2>4 DEF Gone, ToldInvalid, Leaving, ReportedGone
    <2>6. QED BY <1>1, <2>1, <2>3, <2>5, SameLive DEF SameOpen, LiveInv, Open, Reporting
  <1>10. CASE WaitForScheduler \/ KillMMU \/ Reorder
    <2>1. /\ UNCHANGED <<ppc, mmu_pc, spc, ref_str>>
          /\ sem1 > 0 \/ Reporting
      BY <1>10 DEF WaitForScheduler, KillMMU, Reorder, Reporting, procVars, schedVars, mmuVars, semVars
    <2>2. TurnsInv'
      BY <1>1, <2>1, SameTurns DEF MMUIdle
    <2>3. \A p \in Procs : (Gone(p)' <=> Gone(p)) /\ (Leaving(p)' <=> Leaving(p))
      BY <1>1, <2>1 DEF Gone, ToldInvalid, Leaving, ReportedGone
    <2>4. QED BY <1>1, <2>1, <2>2, <2>3, SameLive DEF SameOpen, LiveInv, Open
  <1>11. QED BY <1>4, <1>5, <1>6, <1>7, <1>8, <1>9, <1>10 DEF Master

LEMMA MMUDieTurns ==
  ASSUME IInv, ipc, mpc # "killed", mpc # "done", TurnsInv, LiveInv, MMUDie
  PROVE  TurnsInv' /\ LiveInv' /\ SameOpen
  <1>1. /\ UNCHANGED <<ppc, sem1, sem2, spc, mq2, mq3_req, mq3_resp, ref_idx, ref_str, k_left,
                      mmu_pid, mpc>>
        /\ Reporting /\ mmu_pc' = "dead"
    BY DEF MMUDie, masterVars, semVars, queueVars, schedVars, procVars, Reporting
  <1>2. mmu_pc \notin {"fault", "invalid"}
    BY <1>1 DEF LiveInv, TurnsInv, MessageInv, MMUIdle
  <1>3. TurnsInv'
    BY <1>1, <1>2, SameTurns DEF MMUIdle
  <1>4. \A p \in Procs : (Gone(p)' <=> Gone(p)) /\ (Leaving(p)' <=> Leaving(p))
    BY <1>1, <1>2 DEF Gone, ToldInvalid, Leaving, ReportedGone
  <1>5. QED BY <1>1, <1>3, <1>4, SameLive DEF SameOpen, LiveInv, Open, Reporting

\* When the Scheduler has signalled Master everybody is gone, with at most one
\* to read that it is.
LEMMA AllGone ==
  ASSUME LiveInv, TurnsInv, sem1 > 0 \/ Reporting
  PROVE  \A p \in Procs : Gone(p) /\ ~Leaving(p)
  <1>1. Cardinality(Counted) <= 0 /\ IsFiniteSet(Counted)
    <2>1. IsFiniteSet(Procs)
      BY PagingAssumption, FS_Interval DEF Procs
    <2>2. IsFiniteSet(Counted)
      BY <2>1, FS_Subset DEF Counted
    <2>3. QED BY <2>2 DEF LiveInv
  <1>2. Cardinality(Counted) \in Nat
    BY <1>1, FS_CardinalityType
  <1>3. Cardinality(Counted) = 0
    BY <1>1, <1>2
  <1>4. Counted = {}
    BY <1>1, <1>3, FS_EmptySet
  <1>5. QED BY <1>4 DEF Counted, Open

\* After the queues are gone.
AtMostOneLeft == \A p, q \in Procs : ppc[p] # "dead" /\ ppc[q] # "dead" => p = q

\* Master removes the queues when one process at most is left.
LEMMA CleanupTurns ==
  ASSUME IInv, OneTurn, Cleanup
  PROVE  OneTurn'
  <1>1. ppc' = ppc /\ mpc' = "done" /\ Reporting /\ ~ipc'
    BY DEF Cleanup, RemoveQueues, Reporting, procVars
  <1>2. ipc /\ TurnsInv /\ LiveInv
    BY <1>1 DEF OneTurn, Reporting
  <1>3. AtMostOneLeft
    BY <1>1, <1>2, AllGone DEF Gone, ToldInvalid, AtMostOneLeft
  <1>4. QED BY <1>1, <1>3 DEF OneTurn, AtMostOneLeft

\* After that nobody comes back and no queue does.
LEMMA RemovedTurns ==
  ASSUME IInv, OneTurn, ~ipc, [Next]_vars
  PROVE  OneTurn' /\ ~ipc'
  <1>1. mpc \in {"done", "killed"} /\ AtMostOneLeft
    BY DEF OneTurn, AtMostOneLeft
  <1>2. UNCHANGED <<mpc, ipc>> /\ \A p \in Procs : ppc[p] = "dead" => ppc'[p] = "dead"
    <2>1. ASSUME NEW p \in Procs, Process(p)
          PROVE  UNCHANGED <<mpc, ipc>> /\ \A q \in Procs : ppc[q] = "dead" => ppc'[q] = "dead"
      <3>1. UNCHANGED <<mpc, ipc>> /\ ppc[p] # "dead"
        BY <2>1 DEF Process, Enqueue, AwaitTurn, Request, Receive, Quit, masterVars
      <3>2. \A q \in Procs : q # p => ppc'[q] = ppc[q]
        BY <2>1, QueuesTyped DEF Process, Enqueue, AwaitTurn, Request, Receive, Quit, Obey
      <3>3. QED BY <3>1, <3>2
    <2>2. CASE Scheduler \/ MMU \/ MMUDie
      BY <2>2 DEF Scheduler, Dispatch, ReceiveFromMMU, SignalMaster, MMU, MMUTerminate, MMUInvalid,
         MMUHit, MMUFault, MMUFreeInvalid, MMUFaultHandled, MMUDie, masterVars, procVars
    <2>3. ~Master /\ ~Interrupt
      BY <1>1 DEF Master, ChooseTable, AddIllegalPage, AllocateFrames, ForkScheduler, ForkMMU,
         ForkProcess, WaitForScheduler, KillMMU, Reorder, Cleanup, Interrupt
    <2>4. CASE UNCHANGED vars
      BY <2>4 DEF vars, masterVars, procVars
    <2>5. QED BY <2>1, <2>2, <2>3, <2>4 DEF Next
  <1>3. QED BY <1>1, <1>2 DEF OneTurn, AtMostOneLeft

\* Every step leaves the turn with one actor.
LEMMA OneTurnStep == Timed /\ IInv /\ OneTurn /\ [Next]_vars => OneTurn'
  <1> SUFFICES ASSUME Timed, IInv, OneTurn, [Next]_vars PROVE OneTurn'
    OBVIOUS
  <1>1. CASE ~ipc
    BY <1>1, RemovedTurns
  <1>2. CASE ipc /\ Cleanup
    BY <1>2, CleanupTurns
  <1>3. CASE ipc /\ ~Cleanup
    <2> mpc \notin {"done", "killed"} /\ TurnsInv /\ LiveInv
      BY <1>3 DEF OneTurn
    <2>1. ASSUME ipc' = ipc, mpc' \notin {"done", "killed"}, TurnsInv', LiveInv'
          PROVE  OneTurn'
      BY <1>3, <2>1 DEF OneTurn
    <2>2. CASE Master
      <3>1. ipc' = ipc /\ mpc' \notin {"done", "killed"}
        BY <1>3, <2>2 DEF Master, ChooseTable, AddIllegalPage, AllocateFrames, ForkScheduler, ForkMMU,
           ForkProcess, WaitForScheduler, KillMMU, Reorder, Advance
      <3>2. QED BY <1>3, <2>1, <2>2, <3>1, MasterTurns
    <2>3. CASE Interrupt
      <3>1. ~ipc' /\ mpc' = "killed" /\ ppc' = [p \in Procs |-> "dead"]
        BY <2>3 DEF Interrupt, RemoveQueues
      <3>2. QED BY <3>1 DEF OneTurn
    <2>4. CASE Scheduler
      <3>1. ipc' = ipc /\ mpc' = mpc
        BY <2>4 DEF Scheduler, Dispatch, ReceiveFromMMU, SignalMaster, masterVars
      <3>2. TurnsInv'
        BY <1>3, <2>4, DispatchTurns, ReceiveFromMMUTurns, SignalMasterTurns DEF Scheduler
      <3>3. QED BY <1>3, <2>1, <2>4, <3>1, <3>2, SchedulerLive
    <2>5. ASSUME NEW p \in Procs, Process(p) PROVE OneTurn'
      <3>1. ipc' = ipc /\ mpc' = mpc
        BY <2>5 DEF Process, Enqueue, AwaitTurn, Request, Receive, Quit, masterVars
      <3>2. ASSUME Enqueue(p) PROVE TurnsInv'
        BY <3>2, EnqueueTurns DEF Enqueue, masterVars, semVars, schedVars, mmuVars
      <3>3. TurnsInv'
        BY <1>3, <2>5, <3>2, AwaitTurnTurns, RequestTurns, ReceiveTurns, QuitTurns DEF Process
      <3>4. QED BY <1>3, <2>1, <2>5, <3>1, <3>3, ProcessLive
    <2>6. CASE MMU
      <3>1. ipc' = ipc /\ mpc' = mpc
        BY <2>6 DEF MMU, MMUTerminate, MMUInvalid, MMUHit, MMUFault, MMUFreeInvalid,
           MMUFaultHandled, masterVars
      <3>2. QED BY <1>3, <2>1, <2>6, <3>1, MMUTurns, MMULive
    <2>7. CASE MMUDie
      <3>1. ipc' = ipc /\ mpc' = mpc
        BY <2>7 DEF MMUDie, masterVars
      <3>2. QED BY <1>3, <2>1, <2>7, <3>1, MMUDieTurns
    <2>8. CASE UNCHANGED vars
      <3>1. UNCHANGED <<ppc, sem1, sem2, spc, mq2, mq3_req, mq3_resp, ref_idx, ref_str, k_left,
                        mmu_pc, mmu_pid, mpc, ipc>>
        BY <2>8 DEF vars, masterVars, semVars, queueVars, schedVars, procVars, mmuVars
      <3>2. TurnsInv'
        BY <3>1, SameTurns DEF MMUIdle
      <3>3. \A p \in Procs : (Gone(p)' <=> Gone(p)) /\ (Leaving(p)' <=> Leaving(p))
        BY <3>1 DEF Gone, ToldInvalid, Leaving, ReportedGone
      <3>4. LiveInv'
        BY <3>1, <3>3, SameLive DEF LiveInv, Open, Reporting
      <3>5. QED BY <2>1, <3>1, <3>2, <3>4
    <2>9. QED BY <2>2, <2>3, <2>4, <2>5, <2>6, <2>7, <2>8 DEF Next
  <1>4. QED BY <1>1, <1>2, <1>3

\* With the Scheduler's timing, for any number of processes and any strings, no
\* two processes run at once, before and after an interrupt and during the
\* clean-up (master.c:164, sched.c:58-64).
THEOREM OneRunsAtATime == Timed => (Spec => []OneAtATime)
  <1> SUFFICES ASSUME Timed PROVE Spec => []OneAtATime
    OBVIOUS
  <1>1. Init => IInv /\ OneTurn
    BY InitIInv, InitTurns
  <1>2. IInv /\ OneTurn => OneAtATime
    BY DEF OneTurn, TurnsInv, OneAtATime, Running
  <1>3. OneTurn /\ IInv /\ [Next]_vars => OneTurn'
    BY OneTurnStep
  <1>4. QED BY <1>1, <1>2, <1>3, IInvInvariant, PTL DEF Spec

OwnReplies ==
  \A p \in Procs :
    (Receive(p) /\ ipc) => /\ Head(mq3_resp).pid = p
                           /\ Head(mq3_resp).page = NextPage(p)

\* With the Scheduler's timing, for any number of processes and any strings,
\* whoever takes a reply takes the one to its own last request
\* (process.c:95-97, mmu.c:146-152).
THEOREM RepliesReachTheirAsker == Timed => (Spec => ReplyToRequester)
  <1> SUFFICES ASSUME Timed PROVE Spec => ReplyToRequester
    OBVIOUS
  <1>1. Init => IInv /\ OneTurn
    BY InitIInv, InitTurns
  <1>2. OneTurn /\ IInv /\ [Next]_vars => OneTurn'
    BY OneTurnStep
  <1>3. ASSUME IInv, OneTurn, NEW p \in Procs, Receive(p) /\ ipc
        PROVE  Head(mq3_resp).pid = p /\ Head(mq3_resp).page = NextPage(p)
    <2>1. mq3_resp # <<>> /\ ppc[p] = "receive" /\ TurnsInv
      BY <1>3 DEF Receive, OneTurn
    <2>2. Head(mq3_resp) \in Replies /\ ppc[Head(mq3_resp).pid] = "receive"
          /\ Head(mq3_resp).page = NextPage(Head(mq3_resp).pid)
      BY <1>3, <2>1, QueuesTyped, HeadTailProperties DEF TurnsInv, ReplyInv
    <2>3. Head(mq3_resp).pid = p
      BY <2>1, <2>2 DEF TurnsInv, OneAtATime, Running, Replies
    <2>4. QED BY <2>2, <2>3
  <1>4. IInv /\ OneTurn /\ [Next]_vars => [OwnReplies]_vars
    BY <1>3 DEF OwnReplies
  <1>5. Spec => [][OwnReplies]_vars
    BY <1>1, <1>2, <1>4, IInvInvariant, PTL DEF Spec
  <1>6. QED BY <1>5, PTL DEF OwnReplies, ReplyToRequester

-----------------------------------------------------------------------------
\* Master has drawn a page for each of its frames.
Enough == F <= pages_upto[K]

\* Every frame in use is that of a page that its process really has.
MappedInv ==
  /\ mpc \in {"sizes", "illegal"} =>
       /\ \A x \in Frames : free_frames[x] # 1
       /\ \A p \in Procs, g \in Pages : valid_bit[p][g] = 0
  /\ mpc = "grant" /\ Enough => \A p \in Procs, g \in Pages : p >= mi => valid_bit[p][g] = 0
  /\ mpc \notin {"sizes", "illegal"} /\ Enough =>
       \A x \in Frames : free_frames[x] = 1 =>
         \E p \in Procs, g \in Pages : g \in Resident(p) /\ frame[p][g] = x

\* Whoever the Scheduler hears has ended holds no page any more.
ReleasedInv == \A p \in Procs : ~Open(p) \/ ReportedGone(p) => Resident(p) = {}

\* The ready queue holds those that wait and have not been signalled, once each.
ReadyInv ==
  /\ \A i \in 1 .. Len(mq1) :
       /\ ppc[mq1[i]] = "await" /\ sem2[mq1[i]] = 0
       /\ \A j \in 1 .. Len(mq1) : mq1[j] = mq1[i] => i = j
  /\ \A p \in Procs : sem2[p] > 0 => ppc[p] = "await"

ReportInv == MappedInv /\ (ipc => ReleasedInv /\ ReadyInv)

-----------------------------------------------------------------------------
LEMMA SameMapped ==
  ASSUME MappedInv, UNCHANGED <<size, frame, valid_bit, free_frames>>, pages_upto' = pages_upto,
         mpc' = mpc \/ mpc' \notin {"sizes", "illegal", "grant"},
         mi' = mi \/ mpc' \notin {"sizes", "illegal", "grant"},
         mpc \in {"sizes", "illegal"} => mpc' \in {"sizes", "illegal"}
  PROVE  MappedInv'
  <1>1. Enough' <=> Enough
    BY DEF Enough
  <1>2. \A p \in Procs : Resident(p)' = Resident(p)
    BY DEF Resident
  <1>3. QED BY <1>1, <1>2 DEF MappedInv

\* The operations of the MMU on the tables keep frames and pages together.
LEMMA LoadMaps ==
  ASSUME TableInv, MappedInv, NEW p \in Procs, NEW g \in Pages, g < size[p],
         LoadInFreeFrame(p, g), mpc \notin {"sizes", "illegal", "grant"}, mpc' = mpc,
         pages_upto' = pages_upto
  PROVE  MappedInv'
  <1>1. PICK x \in Frames : /\ frame' = [frame EXCEPT ![p][g] = x]
                            /\ free_frames' = [free_frames EXCEPT ![x] = 1]
    BY DEF LoadInFreeFrame
  <1>2. /\ valid_bit' = [valid_bit EXCEPT ![p][g] = 1] /\ size' = size
        /\ valid_bit[p][g] # 1
    BY DEF LoadInFreeFrame
  <1>3. \A q \in Procs, h \in Pages :
          /\ frame'[q][h] = IF q = p /\ h = g THEN x ELSE frame[q][h]
          /\ valid_bit'[q][h] = IF q = p /\ h = g THEN 1 ELSE valid_bit[q][h]
    BY <1>1, <1>2 DEF TableInv, TableTypeOK
  <1>4. \A y \in Frames : free_frames'[y] = IF y = x THEN 1 ELSE free_frames[y]
    BY <1>1, PagingAssumption DEF TableInv, TableTypeOK, Frames
  <1>5. g \in Resident(p)' /\ frame'[p][g] = x
    BY <1>2, <1>3 DEF Resident
  <1>6. \A q \in Procs, h \in Pages : h \in Resident(q) => /\ h \in Resident(q)'
                                                          /\ frame'[q][h] = frame[q][h]
    BY <1>2, <1>3 DEF Resident
  <1>7. ASSUME Enough, NEW y \in Frames, free_frames'[y] = 1
        PROVE  \E q \in Procs, h \in Pages : h \in Resident(q)' /\ frame'[q][h] = y
    <2>1. CASE y = x
      BY <1>5, <2>1
    <2>2. CASE y # x
      <3>1. PICK q \in Procs, h \in Pages : h \in Resident(q) /\ frame[q][h] = y
        BY <1>4, <1>7, <2>2 DEF MappedInv
      <3>2. QED BY <1>6, <3>1
    <2>3. QED BY <2>1, <2>2
  <1>8. Enough' <=> Enough
    BY DEF Enough
  <1>9. QED BY <1>7, <1>8 DEF MappedInv

\* A page that takes the frame of another keeps it in use.
LEMMA ReplaceMaps ==
  ASSUME TableInv, MappedInv, NEW p \in Procs, NEW g \in Pages, g < size[p],
         ReplaceOwnPage(p, g), mpc \notin {"sizes", "illegal", "grant"}, mpc' = mpc,
         pages_upto' = pages_upto
  PROVE  MappedInv'
  <1>1. PICK v \in Pages :
          /\ IsMaxLru(p, v)
          /\ frame' = [frame EXCEPT ![p] = [@ EXCEPT ![v] = -1, ![g] = frame[p][v]]]
          /\ valid_bit' = [valid_bit EXCEPT ![p] = [@ EXCEPT ![v] = 0, ![g] = 1]]
    BY DEF ReplaceOwnPage
  <1>2. /\ UNCHANGED <<size, free_frames>> /\ valid_bit[p][g] # 1
        /\ valid_bit[p][v] = 1
    BY <1>1 DEF ReplaceOwnPage, IsMaxLru, Resident
  <1>3. \A q \in Procs, h \in Pages :
          /\ frame'[q][h] = IF q = p /\ h = g THEN frame[p][v]
                            ELSE IF q = p /\ h = v THEN -1 ELSE frame[q][h]
          /\ valid_bit'[q][h] = IF q = p /\ h = g THEN 1
                                ELSE IF q = p /\ h = v THEN 0 ELSE valid_bit[q][h]
    BY <1>1, <1>2 DEF TableInv, TableTypeOK
  <1>4. g \in Resident(p)' /\ frame'[p][g] = frame[p][v]
    BY <1>2, <1>3 DEF Resident
  <1>5. \A q \in Procs, h \in Pages :
          h \in Resident(q) /\ ~(q = p /\ h = v) => /\ h \in Resident(q)'
                                                    /\ frame'[q][h] = frame[q][h]
    BY <1>2, <1>3 DEF Resident
  <1>6. ASSUME Enough, NEW y \in Frames, free_frames'[y] = 1
        PROVE  \E q \in Procs, h \in Pages : h \in Resident(q)' /\ frame'[q][h] = y
    <2>1. PICK q \in Procs, h \in Pages : h \in Resident(q) /\ frame[q][h] = y
      BY <1>2, <1>6 DEF MappedInv
    <2>2. CASE q = p /\ h = v
      BY <1>4, <2>1, <2>2
    <2>3. CASE ~(q = p /\ h = v)
      BY <1>5, <2>1, <2>3
    <2>4. QED BY <2>2, <2>3
  <1>7. Enough' <=> Enough
    BY DEF Enough
  <1>8. QED BY <1>6, <1>7 DEF MappedInv

\* What a process gives back are all its pages, and nobody else's.
LEMMA ReleaseMaps ==
  ASSUME TableInv, MappedInv, NEW p \in Procs, Release(p),
         mpc \notin {"sizes", "illegal", "grant"}, mpc' = mpc, pages_upto' = pages_upto
  PROVE  /\ MappedInv' /\ Resident(p)' = {}
         /\ \A q \in Procs : q # p => Resident(q)' = Resident(q)
  <1>1. \A q \in Procs, h \in Pages :
          /\ frame'[q][h] = IF q = p /\ h \in Resident(p) THEN -1 ELSE frame[q][h]
          /\ valid_bit'[q][h] = IF q = p /\ h \in Resident(p) THEN 0 ELSE valid_bit[q][h]
    BY DEF Release, TableInv, TableTypeOK
  <1>2. \A x \in 0..F : free_frames'[x] =
          IF \E g \in Resident(p) : frame[p][g] = x THEN 0 ELSE free_frames[x]
    BY DEF Release
  <1>3. size' = size
    BY DEF Release
  <1>4. Resident(p)' = {}
    BY <1>1, <1>3 DEF Resident
  <1>5. \A q \in Procs : q # p => Resident(q)' = Resident(q)
    BY <1>1, <1>3 DEF Resident
  <1>6. ASSUME Enough, NEW y \in Frames, free_frames'[y] = 1
        PROVE  \E q \in Procs, h \in Pages : h \in Resident(q)' /\ frame'[q][h] = y
    <2>1. y \in 0..F
      BY PagingAssumption DEF Frames
    <2>2. /\ free_frames[y] = 1
          /\ ~ \E g \in Resident(p) : frame[p][g] = y
      BY <1>2, <1>6, <2>1
    <2>3. PICK q \in Procs, h \in Pages : h \in Resident(q) /\ frame[q][h] = y
      BY <1>6, <2>2 DEF MappedInv
    <2>4. q # p
      BY <2>2, <2>3
    <2>5. QED BY <1>1, <1>5, <2>3, <2>4
  <1>7. Enough' <=> Enough
    BY DEF Enough
  <1>8. QED BY <1>4, <1>5, <1>6, <1>7 DEF MappedInv

\* A share of no more frames than there are pages is no larger than the table.
LEMMA ShareInTable ==
  ASSUME NEW s \in Nat, NEW t \in Nat \ {0}, NEW f \in Nat, f <= t
  PROVE  (f * s) \div t <= s
  <1> DEFINE n == (f * s) \div t
  <1>1. f * s \in Nat /\ f * s <= t * s
    OBVIOUS
  <1>2. n \in Nat /\ n * t <= f * s
    BY <1>1, Quotient
  <1> HIDE DEF n
  <1>3. SUFFICES ASSUME n >= s + 1 PROVE FALSE
    BY <1>2 DEF n
  <1>4. n * t >= (s + 1) * t
    BY <1>2, <1>3
  <1>5. (s + 1) * t = t * s + t
    OBVIOUS
  <1>6. QED BY <1>1, <1>2, <1>4, <1>5

\* Such a grant stays in the table of its process.
LEMMA GrantMaps ==
  ASSUME TableInv, NEW p \in Procs, NEW c \in Nat, NEW n \in Nat, c + n <= F, n <= size[p],
         Grant(p, c, n)
  PROVE  /\ \A q \in Procs, h \in Pages :
              /\ frame'[q][h] = IF q = p /\ h < n THEN c + h ELSE frame[q][h]
              /\ valid_bit'[q][h] = IF q = p /\ h < n THEN 1 ELSE valid_bit[q][h]
         /\ \A x \in Frames : free_frames'[x] = IF c <= x /\ x < c + n THEN 1 ELSE free_frames[x]
         /\ size' = size
  <1>1. n <= M /\ M \in Nat /\ M > 0 /\ K \in Nat
    BY PagingAssumption DEF TableInv, TableTypeOK
  <1>2. ASSUME NEW q \in Procs, NEW h \in Pages
        PROVE  0 <= (q - p) * M + h /\ (q - p) * M + h < n <=> q = p /\ h < n
    <2>1. h \in Nat /\ h < M /\ q \in Int /\ p \in Int
      BY <1>1 DEF Pages, Procs
    <2>2. CASE q = p
      <3>1. (q - p) * M = 0
        BY <1>1, <2>1, <2>2
      <3>2. QED BY <2>1, <2>2, <3>1
    <2>3. CASE q > p
      <3>1. (q - p) * M >= M
        <4> DEFINE d == q - p
        <4>1. d \in Nat /\ d >= 1
          BY <2>1, <2>3
        <4> HIDE DEF d
        <4>2. d * M >= M
          BY <1>1, <4>1
        <4>3. QED BY <4>2 DEF d
      <3> HIDE DEF Procs
      <3>2. (q - p) * M \in Int
        BY <1>1, <2>1
      <3>3. (q - p) * M + h >= M
        BY <1>1, <2>1, <3>1, <3>2
      <3>4. QED BY <1>1, <2>1, <2>3, <3>2, <3>3
    <2>4. CASE q < p
      <3>1. (q - p) * M <= -M
        <4> DEFINE d == q - p
        <4>1. d \in Int /\ d <= -1
          BY <2>1, <2>4
        <4> HIDE DEF d
        <4>2. d * M <= -M
          BY <1>1, <4>1
        <4>3. QED BY <4>2 DEF d
      <3>2. (q - p) * M \in Int
        BY <1>1, <2>1
      <3>3. (q - p) * M + h < 0
        BY <1>1, <2>1, <3>1, <3>2
      <3>4. QED BY <1>1, <2>1, <2>4, <3>2, <3>3
    <2>5. QED BY <2>1, <2>2, <2>3, <2>4
  <1>3. \A h \in Pages : (p - p) * M + h = h
    BY <1>1 DEF Pages, Procs
  <1>4. \A q \in Procs, h \in Pages :
          /\ frame'[q][h] = IF q = p /\ h < n THEN c + ((q - p) * M + h) ELSE frame[q][h]
          /\ valid_bit'[q][h] = IF q = p /\ h < n THEN 1 ELSE valid_bit[q][h]
    BY <1>2 DEF Grant
  <1>5. \A x \in Frames : free_frames'[x] = IF c <= x /\ x < c + n THEN 1 ELSE free_frames[x]
    BY PagingAssumption DEF Grant, Frames
  <1>6. QED BY <1>3, <1>4, <1>5 DEF Grant

\* One share given out.
LEMMA AllocateMaps ==
  ASSUME IInv, MappedInv, AllocateFrames
  PROVE  MappedInv'
  <1>1. /\ mpc = "grant" /\ Grant(mi, cur_free_frame, Share(mi))
        /\ cur_free_frame' = cur_free_frame + Share(mi)
        /\ Advance("fork_sched") /\ UNCHANGED <<pages_upto, size>>
    BY DEF AllocateFrames, Grant
  <1>2. /\ mi \in Procs /\ mpc' \in {"grant", "fork_sched"}
        /\ mpc' = "grant" => mi' = mi + 1
    BY <1>1, AdvanceStep, QueuesTyped
  <1>3. Enough' <=> Enough
    BY <1>1 DEF Enough
  <1>4. CASE ~Enough
    BY <1>2, <1>3, <1>4 DEF MappedInv
  <1>5. CASE Enough
    <2>1. /\ TableInv /\ cur_free_frame \in Nat /\ F \in Nat /\ K \in Nat /\ mi \in 0 .. K-1
          /\ size[mi] \in Nat \ {0} /\ size[mi] <= M /\ M \in Nat
      <3>1. TableInv /\ cur_free_frame \in 0..F /\ size \in [Procs -> 1..M]
        BY DEF IInv, TypeOK, MasterTypeOK, TableInv, TableTypeOK
      <3>2. size[mi] \in 1..M /\ mi \in 0 .. K-1
        BY <1>2, <3>1 DEF Procs
      <3>3. QED BY <3>1, <3>2, PagingAssumption
    <2>2. pages_upto[K] \in Nat \ {0}
      <3>1. pages_upto \in [0..K -> Nat] /\ pages_upto[mi+1] = pages_upto[mi] + size[mi]
            /\ pages_upto[mi+1] <= pages_upto[K]
        <4>1. pages_upto \in [0..K -> Nat] /\ Planned /\ Chosen = K
          BY <1>1 DEF IInv, TypeOK, MasterTypeOK, Chosen
        <4>2. mi + 1 \in 0..K /\ K \in 0..K /\ mi + 1 <= K /\ mi \in 0..(K - 1)
          BY <2>1
        <4>3. QED BY <4>1, <4>2 DEF Planned
      <3>2. pages_upto[mi] \in Nat /\ pages_upto[K] \in Nat
        BY <2>1, <3>1
      <3>3. QED BY <2>1, <3>1, <3>2
    <2>3. PICK n \in Nat : n = Share(mi) /\ n <= size[mi]
      <3>1. F * size[mi] \in Nat
        BY <2>1
      <3>2. Share(mi) \in Nat
        BY <2>2, <3>1, Quotient DEF Share
      <3>3. F <= pages_upto[K]
        BY <1>5 DEF Enough
      <3>4. Share(mi) <= size[mi]
        BY <2>1, <2>2, <3>3, ShareInTable DEF Share
      <3>5. QED BY <3>2, <3>4
    <2>4. PICK c \in Nat : c = cur_free_frame /\ c + n <= F
      <3>1. cur_free_frame' \in 0..F
        BY AllocateFramesKeeps DEF IInv, TypeOK, MasterTypeOK
      <3>2. QED BY <1>1, <2>1, <2>3, <3>1
    <2>5. /\ \A q \in Procs, h \in Pages :
               /\ frame'[q][h] = IF q = mi /\ h < n THEN c + h ELSE frame[q][h]
               /\ valid_bit'[q][h] = IF q = mi /\ h < n THEN 1 ELSE valid_bit[q][h]
          /\ \A x \in Frames : free_frames'[x] = IF c <= x /\ x < c + n THEN 1 ELSE free_frames[x]
      BY <1>1, <1>2, <2>1, <2>3, <2>4, GrantMaps
    <2>6. \A q \in Procs, h \in Pages : q >= mi => valid_bit[q][h] = 0
      BY <1>1, <1>5 DEF MappedInv
    <2>7. mpc' = "grant" => \A q \in Procs, h \in Pages : q >= mi' => valid_bit'[q][h] = 0
      BY <1>2, <2>1, <2>5, <2>6 DEF Procs
    <2>8. ASSUME NEW x \in Frames, free_frames'[x] = 1
          PROVE  \E q \in Procs, h \in Pages : h \in Resident(q)' /\ frame'[q][h] = x
      <3>1. CASE c <= x /\ x < c + n
        <4>1. PICK h \in Pages : h = x - c /\ h < n /\ h < size[mi] /\ c + h = x
          BY <2>1, <2>3, <2>4, <3>1 DEF Frames, Pages
        <4>2. PICK q \in Procs : q = mi
          BY <1>2
        <4>3. valid_bit'[q][h] = 1 /\ frame'[q][h] = x
          BY <2>5, <4>1, <4>2
        <4>4. h \in Resident(q)'
          BY <1>1, <4>1, <4>2, <4>3 DEF Resident
        <4>5. QED BY <4>3, <4>4
      <3>2. CASE ~(c <= x /\ x < c + n)
        <4>1. free_frames[x] = 1
          BY <2>5, <2>8, <3>2
        <4>2. PICK q \in Procs, h \in Pages : h \in Resident(q) /\ frame[q][h] = x
          BY <1>1, <1>5, <4>1 DEF MappedInv
        <4>3. q # mi
          BY <2>1, <2>6, <4>2 DEF Resident
        <4>4. QED BY <1>1, <2>5, <4>2, <4>3 DEF Resident
      <3>3. QED BY <3>1, <3>2
    <2>9. QED BY <1>2, <2>7, <2>8 DEF MappedInv
  <1>6. QED BY <1>4, <1>5

\* Every step keeps the frames in use with their pages.
LEMMA MappedStep ==
  ASSUME IInv, MappedInv, [Next]_vars
  PROVE  MappedInv'
  <1>1. CASE ChooseTable
    <2>1. /\ mpc = "sizes" /\ mpc' \in {"sizes", "illegal"}
          /\ UNCHANGED <<frame, valid_bit, free_frames>>
      BY <1>1 DEF ChooseTable, Advance
    <2>2. QED BY <2>1 DEF MappedInv
  <1>2. CASE AddIllegalPage
    <2>1. /\ mpc = "illegal" /\ mpc' \in {"illegal", "grant", "sigfpe"}
          /\ UNCHANGED <<frame, valid_bit, free_frames>>
      BY <1>2 DEF AddIllegalPage, Advance, tableVars
    <2>2. QED BY <2>1 DEF MappedInv
  <1>3. CASE AllocateFrames
    BY <1>3, AllocateMaps
  <1>4. ASSUME UNCHANGED tableVars, pages_upto' = pages_upto,
               mpc \notin {"sizes", "illegal", "grant"}, mpc' \notin {"sizes", "illegal", "grant"}
        PROVE  MappedInv'
    BY <1>4, SameMapped DEF tableVars
  <1>5. CASE Master /\ ~(ChooseTable \/ AddIllegalPage \/ AllocateFrames)
    <2>1. /\ UNCHANGED tableVars /\ pages_upto' = pages_upto
          /\ mpc \notin {"sizes", "illegal", "grant"} /\ mpc' \notin {"sizes", "illegal", "grant"}
      BY <1>5 DEF Master, ForkScheduler, ForkMMU, ForkProcess, WaitForScheduler, KillMMU,
         Reorder, Cleanup, Advance
    <2>2. QED BY <1>4, <2>1
  <1>11. CASE Interrupt
    <2>1. mpc' = "killed" /\ UNCHANGED tableVars /\ pages_upto' = pages_upto
      BY <1>11 DEF Interrupt
    <2>2. Enough' <=> Enough
      BY <2>1 DEF Enough, tableVars
    <2>3. \A p \in Procs : Resident(p)' = Resident(p)
      BY <2>1 DEF Resident, tableVars
    <2>4. QED BY <2>1, <2>2, <2>3 DEF MappedInv, tableVars
  <1>6. CASE Scheduler
    <2>1. UNCHANGED <<tableVars, masterVars>> /\ spc # "unborn"
      BY <1>6 DEF Scheduler, Dispatch, ReceiveFromMMU, SignalMaster
    <2>2. mpc \notin {"sizes", "illegal", "grant"}
      BY <2>1 DEF IInv, InString, Setup
    <2>3. QED BY <1>4, <2>1, <2>2 DEF masterVars
  <1>7. ASSUME NEW p \in Procs, Process(p) PROVE MappedInv'
    <2>1. UNCHANGED <<tableVars, masterVars>> /\ ppc[p] # "unborn"
      BY <1>7 DEF Process, Enqueue, AwaitTurn, Request, Receive, Quit
    <2>2. QED BY <1>4, <2>1, ForkedLate DEF masterVars
  <1>8. CASE MMU \/ MMUDie
    <2>1. mmu_pc # "unborn" /\ UNCHANGED masterVars
      BY <1>8 DEF MMU, MMUTerminate, MMUInvalid, MMUHit, MMUFault, MMUFreeInvalid, MMUFaultHandled,
         MMUDie, Incoming
    <2>2. mpc \notin {"sizes", "illegal", "grant"} /\ mpc' = mpc /\ pages_upto' = pages_upto /\ TableInv
      BY <2>1, ForkedMMULate DEF masterVars, IInv, TypeOK, TableInv
    <2>3. ASSUME NEW p \in Procs, MMUTerminate(p) PROVE MappedInv'
      BY <2>2, <2>3, ReleaseMaps DEF MMUTerminate
    <2>4. CASE MMUFreeInvalid
      BY <2>2, <2>4, ReleaseMaps, QueuesTyped DEF MMUFreeInvalid
    <2>5. ASSUME NEW p \in Procs, NEW g \in Pages, MMUHit(p, g) PROVE MappedInv'
      BY <2>2, <2>5, SameMapped DEF MMUHit, Touch
    <2>6. ASSUME NEW p \in Procs, NEW g \in Pages, MMUFault(p, g) PROVE MappedInv'
      <3>1. CASE NoFrameForFault(p, g)
        BY <1>4, <2>2, <3>1 DEF NoFrameForFault
      <3>2. QED BY <2>2, <2>6, <3>1, LoadMaps, ReplaceMaps DEF MMUFault
    <2>7. CASE MMUFaultHandled \/ MMUDie \/ \E p \in Procs, g \in Pages : MMUInvalid(p, g)
      BY <1>4, <2>2, <2>7 DEF MMUFaultHandled, MMUDie, MMUInvalid
    <2>8. QED BY <1>8, <2>3, <2>4, <2>5, <2>6, <2>7 DEF MMU
  <1>9. CASE UNCHANGED vars
    BY <1>9, SameMapped DEF vars, tableVars, masterVars
  <1>10. QED BY <1>1, <1>2, <1>3, <1>5, <1>6, <1>7, <1>8, <1>9, <1>11 DEF Next

-----------------------------------------------------------------------------
LEMMA SameReleased ==
  ASSUME ReleasedInv,
         \A p \in Procs : Resident(p)' = Resident(p) \/ Resident(p)' = {},
         \A p \in Procs : ~Open(p)' \/ ReportedGone(p)' =>
                            \/ ~Open(p) \/ ReportedGone(p)
                            \/ Resident(p)' = {}
  PROVE  ReleasedInv'
  BY DEF ReleasedInv

\* While Master sets up, everybody has all to come.
LEMMA OpenInSetup ==
  ASSUME IInv, TurnsInv, mpc \in {"sizes", "illegal", "grant"}, NEW p \in Procs
  PROVE  Open(p) /\ ~ReportedGone(p)
  <1>1. /\ \A q \in Procs : ppc[q] = "unborn"
        /\ spc = "unborn"
    BY DEF IInv, InString, Setup
  <1>2. mq3_resp = <<>>
    <2>1. mq3_resp # <<>> => Head(mq3_resp) \in Replies
      BY QueuesTyped, HeadTailProperties
    <2>2. mq3_resp # <<>> => Head(mq3_resp).pid \in Procs
      BY <2>1 DEF Replies
    <2>3. QED BY <1>1, <2>2 DEF TurnsInv, ReplyInv
  <1>3. mq2 = <<>>
    BY <1>1 DEF TurnsInv, MessageInv
  <1>4. QED BY <1>1, <1>2, <1>3 DEF Open, Gone, ToldInvalid, ReportedGone

LEMMA ReleasedMaster ==
  ASSUME IInv, ipc, TurnsInv, LiveInv, ReleasedInv, Master, ~Cleanup
  PROVE  ReleasedInv'
  <1>1. SameOpen /\ mq2' = mq2
    <2>1. SameOpen
      BY MasterTurns
    <2>2. mq2' = mq2
      BY DEF Master, ChooseTable, AddIllegalPage, AllocateFrames, ForkScheduler, ForkMMU,
         ForkProcess, WaitForScheduler, KillMMU, Reorder, queueVars
    <2>3. QED BY <2>1, <2>2
  <1>2. CASE mpc \in {"sizes", "illegal", "grant"}
    <2>1. \A p \in Procs : Open(p)' /\ ~ReportedGone(p)'
      BY <1>1, <1>2, OpenInSetup DEF SameOpen, ReportedGone
    <2>2. QED BY <2>1 DEF ReleasedInv
  <1>3. CASE mpc \notin {"sizes", "illegal", "grant"}
    <2>1. UNCHANGED <<size, frame, valid_bit>>
      BY <1>3 DEF Master, ChooseTable, AddIllegalPage, AllocateFrames, ForkScheduler, ForkMMU,
         ForkProcess, WaitForScheduler, KillMMU, Reorder, tableVars
    <2>2. \A p \in Procs : Resident(p)' = Resident(p)
      BY <2>1 DEF Resident
    <2>3. QED BY <1>1, <2>2, SameReleased DEF SameOpen, ReportedGone
  <1>4. QED BY <1>2, <1>3

\* The MMU gives the pages of a process back before it tells the Scheduler.
LEMMA ReleasedMMU ==
  ASSUME IInv, ipc, TurnsInv, LiveInv, MappedInv, ReleasedInv, MMU
  PROVE  ReleasedInv'
  <1>1. SameOpen
    BY MMULive
  <1>2. /\ mpc \notin {"sizes", "illegal", "grant"} /\ mpc' = mpc /\ pages_upto' = pages_upto
        /\ TableInv
    <2>1. mmu_pc # "unborn" /\ UNCHANGED masterVars
      BY DEF MMU, MMUTerminate, MMUInvalid, MMUHit, MMUFault, MMUFreeInvalid, MMUFaultHandled, Incoming
    <2>2. QED BY <2>1, ForkedMMULate DEF masterVars, IInv, TypeOK, TableInv
  <1>3. ASSUME NEW p \in Procs, Release(p), TellScheduler(p, 2), mq2 = <<>>
        PROVE  ReleasedInv'
    <2>1. /\ Resident(p)' = {}
          /\ \A q \in Procs : q # p => Resident(q)' = Resident(q)
      BY <1>2, <1>3, ReleaseMaps
    <2>2. \A q \in Procs : ReportedGone(q)' => q = p
      <3>1. Head(mq2') = [type |-> 2, pid |-> p]
        BY <1>3, MessageSent
      <3>2. QED BY <3>1 DEF ReportedGone
    <2>3. QED BY <1>1, <2>1, <2>2, SameReleased DEF SameOpen
  <1>4. ASSUME NEW p \in Procs, MMUTerminate(p) PROVE ReleasedInv'
    <2>1. Release(p) /\ TellScheduler(p, 2) /\ Incoming(p, QUIT)
      BY <1>4 DEF MMUTerminate
    <2>2. mq2 = <<>>
      BY <2>1, RequestTaken
    <2>3. QED BY <1>3, <2>1, <2>2
  <1>5. CASE MMUFreeInvalid
    <2>1. PICK p \in Procs : p = mmu_pid
      BY QueuesTyped
    <2>2. Release(p) /\ TellScheduler(p, 2) /\ mq2 = <<>>
      BY <1>5, <2>1 DEF MMUFreeInvalid, TurnsInv, MessageInv, MMUIdle
    <2>3. QED BY <1>3, <2>2
  <1>6. ASSUME NEW p \in Procs, NEW g \in Pages, MMUHit(p, g) \/ MMUInvalid(p, g)
        PROVE  ReleasedInv'
    <2>1. UNCHANGED <<size, valid_bit, mq2>>
      BY <1>6 DEF MMUHit, MMUInvalid, Touch, tableVars
    <2>2. \A q \in Procs : Resident(q)' = Resident(q)
      BY <2>1 DEF Resident
    <2>3. QED BY <1>1, <2>1, <2>2, SameReleased DEF SameOpen, ReportedGone
  <1>7. CASE MMUFaultHandled
    <2>1. UNCHANGED <<size, valid_bit>> /\ TellScheduler(mmu_pid, 1) /\ mq2 = <<>>
      BY <1>7 DEF MMUFaultHandled, tableVars, TurnsInv, MessageInv, MMUIdle
    <2>2. Head(mq2') = [type |-> 1, pid |-> mmu_pid]
      BY <2>1, MessageSent, QueuesTyped
    <2>3. \A q \in Procs : Resident(q)' = Resident(q) /\ ~ReportedGone(q)'
      BY <2>1, <2>2 DEF Resident, ReportedGone
    <2>4. QED BY <1>1, <2>3, SameReleased DEF SameOpen
  <1>8. ASSUME NEW p \in Procs, NEW g \in Pages, MMUFault(p, g) PROVE ReleasedInv'
    <2>1. g # QUIT /\ Incoming(p, g) /\ UNCHANGED mq2
      BY <1>8, PagingAssumption DEF Pages, QUIT, MMUFault
    <2>2. /\ ppc[p] = "receive" /\ mq3_resp = <<>> /\ mq2 = <<>>
      BY <2>1, RequestTaken
    <2>3. Open(p)'
      <3>1. Open(p)
        BY <2>2 DEF Open, Gone, ToldInvalid
      <3>2. QED BY <1>1, <3>1 DEF SameOpen
    <2>4. \A q \in Procs : q # p => Resident(q)' = Resident(q)
      <3>1. size' = size /\ valid_bit \in [Procs -> [Pages -> {0, 1}]]
        BY <1>2, <1>8 DEF MMUFault, LoadInFreeFrame, ReplaceOwnPage, NoFrameForFault, tableVars,
           TableInv, TableTypeOK
      <3>2. \A q \in Procs : q # p => valid_bit'[q] = valid_bit[q]
        BY <1>8, <3>1 DEF MMUFault, LoadInFreeFrame, ReplaceOwnPage, NoFrameForFault, tableVars
      <3>3. QED BY <3>1, <3>2 DEF Resident
    <2>5. \A q \in Procs : ~ReportedGone(q)'
      BY <2>1, <2>2 DEF ReportedGone
    <2>6. QED BY <1>1, <2>3, <2>4, <2>5 DEF ReleasedInv, SameOpen
  <1>9. QED BY <1>4, <1>5, <1>6, <1>7, <1>8 DEF MMU

LEMMA ReleasedStep ==
  ASSUME Timed, IInv, OneTurn, ipc, ipc', MappedInv, ReleasedInv, [Next]_vars
  PROVE  ReleasedInv'
  <1>1. TurnsInv /\ LiveInv /\ mpc \notin {"done", "killed"}
    BY DEF OneTurn
  <1>2. ~Interrupt /\ ~Cleanup
    BY DEF Interrupt, Cleanup, RemoveQueues
  <1>3. CASE Master
    BY <1>1, <1>2, <1>3, ReleasedMaster
  <1>4. CASE MMU
    BY <1>1, <1>4, ReleasedMMU
  <1>5. CASE Scheduler
    <2>1. \A p \in Procs : ~Open(p)' => ~Open(p) \/ ReportedGone(p)
      BY <1>1, <1>5, SchedulerLive
    <2>2. /\ UNCHANGED <<size, valid_bit>>
          /\ mq2' = mq2 \/ mq2' = <<>>
      <3>1. CASE ReceiveFromMMU
        BY <1>1, <3>1, QueuesTyped, TailOfOne DEF ReceiveFromMMU, tableVars, TurnsInv, MessageInv
      <3>2. CASE Dispatch \/ SignalMaster
        BY <3>2 DEF Dispatch, SignalMaster, tableVars, queueVars
      <3>3. QED BY <1>5, <3>1, <3>2 DEF Scheduler
    <2>3. \A p \in Procs : /\ Resident(p)' = Resident(p)
                           /\ ReportedGone(p)' => ReportedGone(p)
      BY <2>2 DEF Resident, ReportedGone
    <2>4. QED BY <2>1, <2>3, SameReleased
  <1>6. ASSUME UNCHANGED <<size, valid_bit, mq2>>, SameOpen PROVE ReleasedInv'
    <2>1. \A p \in Procs : Resident(p)' = Resident(p)
      BY <1>6 DEF Resident
    <2>2. QED BY <1>6, <2>1, SameReleased DEF SameOpen, ReportedGone
  <1>7. ASSUME NEW p \in Procs, Process(p) PROVE ReleasedInv'
    <2>1. UNCHANGED <<size, valid_bit, mq2>>
      BY <1>7 DEF Process, Enqueue, AwaitTurn, Request, Receive, Quit, tableVars, queueVars
    <2>2. QED BY <1>1, <1>6, <1>7, <2>1, ProcessLive
  <1>8. CASE MMUDie
    <2>1. UNCHANGED <<size, valid_bit, mq2>>
      BY <1>8 DEF MMUDie, tableVars, queueVars
    <2>2. QED BY <1>1, <1>6, <1>8, <2>1, MMUDieTurns
  <1>9. CASE UNCHANGED vars
    <2>1. UNCHANGED <<size, valid_bit, mq2, mq3_req, mq3_resp, ppc, mmu_pc, mmu_pid>>
      BY <1>9 DEF vars, tableVars, queueVars, procVars, mmuVars
    <2>2. SameOpen
      BY <2>1 DEF SameOpen, Open, Gone, ToldInvalid, Leaving, ReportedGone
    <2>3. QED BY <1>6, <2>1, <2>2
  <1>10. QED BY <1>2, <1>3, <1>4, <1>5, <1>7, <1>8, <1>9 DEF Next

-----------------------------------------------------------------------------
LEMMA SameReady ==
  ASSUME IInv, ReadyInv, UNCHANGED <<mq1, sem2>>,
         \A p \in Procs : ppc[p] = "await" => ppc'[p] = "await"
  PROVE  ReadyInv'
  <1>1. \A i \in 1 .. Len(mq1) : mq1[i] \in Procs
    BY QueuesTyped, ElementOfSeq
  <1>2. QED BY <1>1 DEF ReadyInv

\* Who enters the ready queue is not in it; who leaves it is signalled.
LEMMA ReadyStep ==
  ASSUME Timed, IInv, OneTurn, ipc, ipc', ReadyInv, [Next]_vars
  PROVE  ReadyInv'
  <1>1. TurnsInv /\ LiveInv
    BY DEF OneTurn
  <1>2. \A i \in 1 .. Len(mq1) : mq1[i] \in Procs
    BY QueuesTyped, ElementOfSeq
  <1>3. CASE Dispatch
    <2>1. /\ mq1 # <<>> /\ mq1' = Tail(mq1) /\ ppc' = ppc
          /\ sem2' = [sem2 EXCEPT ![Head(mq1)] = sem2[Head(mq1)] + 1]
      BY <1>3 DEF Timed, Dispatch, SemsUsable, procVars
    <2>2. /\ Len(mq1) \in Nat /\ Len(mq1) >= 1 /\ Head(mq1) = mq1[1] /\ mq1[1] \in Procs
          /\ Len(mq1') = Len(mq1) - 1
          /\ \A i \in 1 .. Len(mq1') : mq1'[i] = mq1[i+1] /\ i + 1 \in 1 .. Len(mq1)
      BY <2>1, QueuesTyped, HeadTailProperties, LenProperties
    <2>3. \A p \in Procs : sem2'[p] = IF p = mq1[1] THEN sem2[p] + 1 ELSE sem2[p]
      BY <2>1, <2>2, QueuesTyped
    <2>4. 1 \in 1 .. Len(mq1)
      BY <2>2
    <2>5. \A i \in 1 .. Len(mq1') : mq1'[i] \in Procs /\ mq1'[i] # mq1[1]
      BY <1>2, <2>2, <2>4 DEF ReadyInv
    <2>6. \A i \in 1 .. Len(mq1') : ppc'[mq1'[i]] = "await" /\ sem2'[mq1'[i]] = 0
      BY <2>1, <2>2, <2>3, <2>5 DEF ReadyInv
    <2>7. \A i, j \in 1 .. Len(mq1') : mq1'[j] = mq1'[i] => i = j
      <3>1. \A i, j \in 1 .. Len(mq1') : mq1'[j] = mq1'[i] => i + 1 = j + 1
        BY <2>2 DEF ReadyInv
      <3>2. QED BY <3>1
    <2>8. \A p \in Procs : sem2'[p] > 0 => ppc'[p] = "await"
      BY <2>1, <2>2, <2>3, <2>4 DEF ReadyInv
    <2>9. QED BY <2>6, <2>7, <2>8 DEF ReadyInv
  <1>4. ASSUME NEW p \in Procs, Enqueue(p) PROVE ReadyInv'
    <2>1. /\ mq1' = Append(mq1, p) /\ ppc[p] = "enqueue" /\ ppc' = [ppc EXCEPT ![p] = "await"]
          /\ sem2' = sem2
      BY <1>4 DEF Enqueue, semVars
    <2>2. sem2[p] = 0
      <3>1. sem2[p] \in Nat
        BY QueuesTyped
      <3>2. ~(sem2[p] > 0)
        BY <2>1 DEF ReadyInv
      <3>3. QED BY <3>1, <3>2
    <2>3. /\ Len(mq1) \in Nat /\ Len(mq1') = Len(mq1) + 1
          /\ \A i \in 1 .. Len(mq1) : mq1'[i] = mq1[i]
          /\ mq1'[Len(mq1) + 1] = p
      BY <2>1, QueuesTyped, AppendProperties, LenProperties
    <2>4. \A q \in Procs : ppc'[q] = IF q = p THEN "await" ELSE ppc[q]
      BY <2>1, QueuesTyped
    <2>5. \A i \in 1 .. Len(mq1) : mq1[i] # p
      BY <2>1 DEF ReadyInv
    <2>6. \A i \in 1 .. Len(mq1') : \/ i \in 1 .. Len(mq1) /\ mq1'[i] = mq1[i] /\ mq1[i] # p
                                    \/ i = Len(mq1) + 1 /\ mq1'[i] = p
      BY <2>3, <2>5
    <2>7. \A i \in 1 .. Len(mq1') : ppc'[mq1'[i]] = "await" /\ sem2'[mq1'[i]] = 0
      BY <1>2, <2>1, <2>2, <2>4, <2>6 DEF ReadyInv
    <2>8. \A i, j \in 1 .. Len(mq1') : mq1'[j] = mq1'[i] => i = j
      BY <2>6 DEF ReadyInv
    <2>9. \A q \in Procs : sem2'[q] > 0 => ppc'[q] = "await"
      BY <2>1, <2>4 DEF ReadyInv
    <2>10. QED BY <2>7, <2>8, <2>9 DEF ReadyInv
  <1>5. ASSUME NEW p \in Procs, AwaitTurn(p) PROVE ReadyInv'
    <2>1. /\ mq1' = mq1 /\ sem2[p] > 0 /\ sem2' = [sem2 EXCEPT ![p] = sem2[p] - 1]
          /\ ppc' = [ppc EXCEPT ![p] = "request"]
      BY <1>5 DEF Timed, AwaitTurn, SemsUsable, queueVars
    <2>2. sem2[p] = 1
      BY <1>1, <2>1 DEF TurnsInv, SignalInv
    <2>3. \A q \in Procs : /\ ppc'[q] = IF q = p THEN "request" ELSE ppc[q]
                           /\ sem2'[q] = IF q = p THEN 0 ELSE sem2[q]
      BY <2>1, <2>2, QueuesTyped
    <2>4. \A i \in 1 .. Len(mq1) : mq1[i] # p
      BY <2>2 DEF ReadyInv
    <2>5. QED BY <1>2, <2>1, <2>3, <2>4 DEF ReadyInv
  <1>6. ASSUME NEW p \in Procs, Request(p) \/ Receive(p) \/ Quit(p) PROVE ReadyInv'
    <2>1. UNCHANGED <<mq1, sem2>> /\ ppc[p] # "await"
      BY <1>6 DEF Request, Receive, Quit, semVars
    <2>2. \A q \in Procs : q # p => ppc'[q] = ppc[q]
      BY <1>6, QueuesTyped DEF Request, Receive, Quit, Obey
    <2>3. QED BY <2>1, <2>2, SameReady
  <1>7. CASE ForkProcess
    <2>1. /\ UNCHANGED <<mq1, sem2>> /\ ppc' = [ppc EXCEPT ![mi] = "enqueue"]
          /\ mpc = "fork_procs"
      BY <1>7 DEF ForkProcess, semVars, queueVars
    <2>2. ppc[mi] = "unborn" /\ mi \in Procs
      <3>1. mi \in Procs /\ mi >= mi
        BY QueuesTyped, PagingAssumption DEF Procs
      <3>2. QED BY <2>1, <3>1 DEF IInv, InString
    <2>3. \A q \in Procs : q # mi => ppc'[q] = ppc[q]
      BY <2>1, QueuesTyped
    <2>4. QED BY <2>1, <2>2, <2>3, SameReady
  <1>8. CASE MMU \/ MMUDie \/ ReceiveFromMMU \/ SignalMaster \/ (Master /\ ~ForkProcess)
    <2>1. ~Cleanup
      BY DEF Cleanup, RemoveQueues
    <2>2. UNCHANGED <<mq1, sem2, ppc>>
      BY <1>8, <2>1 DEF MMU, MMUTerminate, MMUInvalid, MMUHit, MMUFault, MMUFreeInvalid, MMUFaultHandled,
         MMUDie, ReceiveFromMMU, SignalMaster, Master, ChooseTable, AddIllegalPage, AllocateFrames,
         ForkScheduler, ForkMMU, WaitForScheduler, KillMMU, Reorder, semVars, queueVars, procVars
    <2>3. QED BY <2>2, SameReady
  <1>9. ~Interrupt
    BY DEF Interrupt, RemoveQueues
  <1>10. CASE UNCHANGED vars
    BY <1>10, SameReady DEF vars, queueVars, semVars, procVars
  <1>11. QED BY <1>3, <1>4, <1>5, <1>6, <1>7, <1>8, <1>9, <1>10 DEF Next, Process, Scheduler

LEMMA InitReport == Init => ReportInv
  <1> SUFFICES ASSUME Init PROVE ReportInv
    OBVIOUS
  <1>1. MappedInv
    BY PagingAssumption DEF Init, TableInit, MappedInv, Frames
  <1>2. \A p \in Procs : Resident(p) = {}
    BY DEF Init, TableInit, Resident
  <1>3. ReadyInv
    BY DEF Init, ReadyInv
  <1>4. QED BY <1>1, <1>2, <1>3 DEF ReportInv, ReleasedInv

\* Every step keeps what the report relies on.
LEMMA ReportStep ==
  Timed /\ IInv /\ OneTurn /\ ReportInv /\ [Next]_vars => ReportInv'
  <1> SUFFICES ASSUME Timed, IInv, OneTurn, ReportInv, [Next]_vars PROVE ReportInv'
    OBVIOUS
  <1>1. MappedInv'
    BY MappedStep DEF ReportInv
  <1>2. ipc' => ipc
    BY RemovedTurns
  <1>3. ipc' => ReleasedInv' /\ ReadyInv'
    BY <1>2, ReleasedStep, ReadyStep DEF ReportInv
  <1>4. QED BY <1>1, <1>3 DEF ReportInv

\* What the invariants say of the moment of the report.
LEMMA QuietReport ==
  ASSUME IInv, OneTurn, ReportInv, Enough
  PROVE  QuiescentAtReport
  <1> SUFFICES ASSUME Reporting
               PROVE  /\ \A x \in Frames : free_frames[x] = 0
                      /\ \A p \in Procs :
                           /\ Resident(p) = {} /\ sem2[p] = 0
                           /\ \/ ppc[p] = "dead"
                              \/ /\ ppc[p] = "receive"
                                 /\ [q \in 1..Len(mq3_resp) |-> mq3_resp[q].pid] = <<p>>
                                 /\ Head(mq3_resp).frame = INVALID
                      /\ mq1 = <<>> /\ mq2 = <<>> /\ mq3_req = <<>>
    BY DEF QuiescentAtReport
  <1>1. /\ ipc /\ TurnsInv /\ LiveInv /\ MappedInv /\ ReleasedInv /\ ReadyInv
        /\ spc = "done" /\ mpc \notin {"sizes", "illegal"}
    BY DEF Reporting, OneTurn, ReportInv, LiveInv
  <1>2. \A p \in Procs : Gone(p) /\ ~Open(p)
    BY <1>1, AllGone DEF Open
  <1>3. \A p \in Procs : Resident(p) = {}
    BY <1>1, <1>2 DEF ReleasedInv
  <1>4. \A x \in Frames : free_frames[x] = 0
    <2>1. \A x \in Frames : free_frames[x] # 1
      BY <1>1, <1>3 DEF MappedInv
    <2>2. \A x \in Frames : x \in 0..F /\ x # F
      BY PagingAssumption DEF Frames
    <2>3. QED BY <2>1, <2>2 DEF IInv, TypeOK, TableTypeOK
  <1>5. mq2 = <<>> /\ mq3_req = <<>>
    BY <1>1 DEF TurnsInv, RequestInv, MessageInv
  <1>6. \A p \in Procs : sem2[p] = 0
    <2>1. \A p \in Procs : sem2[p] \in Nat
      BY QueuesTyped
    <2>2. \A p \in Procs : ~(sem2[p] > 0)
      BY <1>1 DEF TurnsInv, SignalInv
    <2>3. QED BY <2>1, <2>2
  <1>7. ASSUME NEW p \in Procs, ppc[p] # "dead"
        PROVE  /\ ppc[p] = "receive"
               /\ [q \in 1..Len(mq3_resp) |-> mq3_resp[q].pid] = <<p>>
               /\ Head(mq3_resp).frame = INVALID
    <2>1. /\ mq3_resp # <<>> /\ Head(mq3_resp).pid = p /\ Head(mq3_resp).frame = INVALID
          /\ Len(mq3_resp) = 1 /\ ppc[p] = "receive"
      BY <1>1, <1>2, <1>7 DEF Gone, ToldInvalid, TurnsInv, ReplyInv
    <2>2. Head(mq3_resp) = mq3_resp[1]
      BY <2>1, QueuesTyped
    <2>3. QED BY <2>1, <2>2
  <1>8. mq1 = <<>>
    <2>1. SUFFICES ASSUME mq1 # <<>> PROVE FALSE
      OBVIOUS
    <2>2. 1 \in 1 .. Len(mq1) /\ mq1[1] \in Procs
      <3>1. Len(mq1) \in Nat \ {0}
        BY <2>1, QueuesTyped, EmptySeq
      <3>2. 1 \in 1 .. Len(mq1)
        BY <3>1
      <3>3. QED BY <3>2, QueuesTyped, ElementOfSeq
    <2>3. ppc[mq1[1]] = "await"
      BY <1>1, <2>2 DEF ReadyInv
    <2>4. QED BY <1>7, <2>2, <2>3
  <1>9. QED BY <1>3, <1>4, <1>5, <1>6, <1>7, <1>8

\* With the Scheduler's timing, for any number of processes and any strings:
\* when Master has drawn a page for each of its frames, it reports only after
\* everybody has ended and every frame and message has come back
\* (master.c:343-354, mmu.c:113).
THEOREM AllBackAtReport == Timed => (Spec => [](Enough => QuiescentAtReport))
  <1> SUFFICES ASSUME Timed PROVE Spec => [](Enough => QuiescentAtReport)
    OBVIOUS
  <1>1. Init => IInv /\ OneTurn /\ ReportInv
    BY InitIInv, InitTurns, InitReport
  <1>2. IInv /\ OneTurn /\ ReportInv /\ [Next]_vars => OneTurn' /\ ReportInv'
    BY OneTurnStep, ReportStep
  <1>3. IInv /\ OneTurn /\ ReportInv => (Enough => QuiescentAtReport)
    BY QuietReport
  <1>4. QED BY <1>1, <1>2, <1>3, IInvInvariant, PTL DEF Spec

-----------------------------------------------------------------------------
(***************************************************************************)
(* Least recently used.                                                    *)
(***************************************************************************)

\* Among the pages in S a larger counter means an older reference.
LruOrder(p, S) ==
  \A g, h \in S : lru_counter[p][g] >= lru_counter[p][h] => last_ref[p][g] <= last_ref[p][h]

\* A reference of p is served, and p has yet to hear of it.
HitPending(p) == /\ mq3_resp # <<>> /\ Head(mq3_resp).pid = p
                 /\ Head(mq3_resp).frame \notin {FAULT, INVALID}

\* The counters order the pages of p, except that the page p is about to refer
\* to may have come in with a counter of 0 and an old last reference.
OrderInv == \A p \in Procs :
  /\ LruOrder(p, Resident(p) \ {NextPage(p)})
  /\ HitPending(p) => LruOrder(p, Resident(p))

\* After the clean-up only page 0 of process 0 is ever asked for.
LateInv == mpc = "done" => \A p \in Procs : Resident(p) \subseteq IF p = 0 THEN {0} ELSE {}

RecencyInv ==
  /\ \A p \in Procs, g \in Pages : last_ref[p][g] <= hits[p]
  /\ mpc \in {"sizes", "illegal", "grant"} =>
       \A p \in Procs, g \in Pages : lru_counter[p][g] = 0 /\ last_ref[p][g] = 0
  /\ ipc => OrderInv
  /\ LateInv

\* What the types say of the counters and the history.
LEMMA CountersTyped ==
  ASSUME IInv
  PROVE  /\ lru_counter \in [Procs -> [Pages -> Nat]] /\ valid_bit \in [Procs -> [Pages -> {0, 1}]]
         /\ hits \in [Procs -> Nat] /\ last_ref \in [Procs -> [Pages -> Nat]]
         /\ \A p \in Procs : Resident(p) \subseteq Pages
  BY DEF IInv, TypeOK, TableTypeOK, RecordTypeOK, Resident

\* An order on more pages is an order on fewer.
LEMMA FewerPages ==
  ASSUME NEW p \in Procs, NEW S, NEW T, T \subseteq S, LruOrder(p, S),
         UNCHANGED <<lru_counter, last_ref>>
  PROVE  LruOrder(p, T)'
  BY DEF LruOrder

\* Nothing of it changes, or pages go, or a process goes on after a hit.
LEMMA SameOrder ==
  ASSUME OrderInv, UNCHANGED <<lru_counter, last_ref>>,
         \A p \in Procs : /\ Resident(p)' \subseteq Resident(p)
                          /\ NextPage(p)' = NextPage(p) \/ HitPending(p)
                          /\ HitPending(p)' => HitPending(p)
  PROVE  OrderInv'
  <1>1. ASSUME NEW p \in Procs
        PROVE  /\ LruOrder(p, Resident(p) \ {NextPage(p)})'
               /\ HitPending(p)' => LruOrder(p, Resident(p))'
    <2>1. PICK S : S = Resident(p)'
      OBVIOUS
    <2>2. PICK T : T = (Resident(p) \ {NextPage(p)})'
      OBVIOUS
    <2>3. T \subseteq S /\ S \subseteq Resident(p)
      BY <1>1, <2>1, <2>2
    <2>4. CASE HitPending(p)
      <3>1. LruOrder(p, S)' /\ LruOrder(p, T)'
        BY <2>3, <2>4, FewerPages DEF OrderInv
      <3>2. QED BY <2>1, <2>2, <3>1 DEF LruOrder
    <2>5. CASE ~HitPending(p)
      <3>1. T \subseteq Resident(p) \ {NextPage(p)}
        BY <1>1, <2>1, <2>2, <2>3, <2>5
      <3>2. LruOrder(p, T)'
        BY <3>1, FewerPages DEF OrderInv
      <3>3. ~HitPending(p)'
        BY <2>5
      <3>4. QED BY <2>2, <3>2, <3>3 DEF LruOrder
    <2>6. QED BY <2>4, <2>5
  <1>2. QED BY <1>1 DEF OrderInv

\* While Master sets up, all counters are equal and so are all references.
LEMMA SetupOrder ==
  ASSUME IInv', \A p \in Procs, g \in Pages : lru_counter'[p][g] = 0 /\ last_ref'[p][g] = 0
  PROVE  OrderInv'
  <1>1. \A p \in Procs : Resident(p)' \subseteq Pages
    BY DEF Resident
  <1>2. \A p \in Procs, g, h \in Pages : last_ref'[p][g] <= last_ref'[p][h]
    OBVIOUS
  <1>3. QED BY <1>1, <1>2 DEF OrderInv, LruOrder

\* A page in memory is referred to: it becomes the newest in both orders.
LEMMA HitOrders ==
  ASSUME IInv, ipc, TurnsInv, OrderInv, NEW p \in Procs, NEW g \in Pages, MMUHit(p, g),
         \A q \in Procs, h \in Pages : last_ref[q][h] <= hits[q]
  PROVE  /\ OrderInv'
         /\ \A q \in Procs, h \in Pages : last_ref'[q][h] <= hits'[q]
  <1>1. /\ Incoming(p, g) /\ Touch(p, g) /\ Reply(p, g, frame[p][g])
        /\ hits' = [hits EXCEPT ![p] = @ + 1]
        /\ last_ref' = [last_ref EXCEPT ![p][g] = hits[p] + 1]
        /\ UNCHANGED <<ref_str, ref_idx, size, valid_bit>>
    BY DEF MMUHit, Touch, masterVars, procVars
  <1>2. g # QUIT
    BY PagingAssumption DEF Pages, QUIT
  <1>3. g = NextPage(p) /\ mq3_resp = <<>>
    BY <1>1, <1>2, RequestTaken
  <1>4. \A q \in Procs : Resident(q)' = Resident(q) /\ NextPage(q)' = NextPage(q)
    BY <1>1 DEF Resident, NextPage
  <1>5. \A q \in Procs, h \in Pages :
          /\ last_ref'[q][h] = IF q = p /\ h = g THEN hits[p] + 1 ELSE last_ref[q][h]
          /\ hits'[q] = IF q = p THEN hits[p] + 1 ELSE hits[q]
          /\ q # p => lru_counter'[q][h] = lru_counter[q][h]
          /\ lru_counter'[p][h] = IF h = g THEN 0
                                  ELSE IF h \in Resident(p) THEN lru_counter[p][h] + 1
                                  ELSE lru_counter[p][h]
    BY <1>1, CountersTyped DEF Touch
  <1>6. ASSUME NEW q \in Procs, NEW h \in Pages
        PROVE  last_ref'[q][h] <= hits'[q]
    <2>1. last_ref[q][h] \in Nat /\ hits[q] \in Nat /\ last_ref[q][h] <= hits[q]
      BY CountersTyped
    <2>2. QED BY <1>5, <2>1
  <1>7. \A a, b \in Resident(p) :
          lru_counter'[p][a] >= lru_counter'[p][b] => last_ref'[p][a] <= last_ref'[p][b]
    <2>1. SUFFICES ASSUME NEW a \in Resident(p), NEW b \in Resident(p),
                          lru_counter'[p][a] >= lru_counter'[p][b]
                   PROVE  last_ref'[p][a] <= last_ref'[p][b]
      OBVIOUS
    <2>2. a \in Pages /\ b \in Pages /\ hits[p] \in Nat
      BY CountersTyped
    <2>3. /\ lru_counter[p][a] \in Nat /\ lru_counter[p][b] \in Nat
          /\ last_ref[p][a] \in Nat /\ last_ref[p][b] \in Nat
      BY <2>2, CountersTyped
    <2>4. CASE b = g
      <3>1. last_ref'[p][b] = hits[p] + 1
        BY <1>5, <2>2, <2>4
      <3>2. last_ref'[p][a] <= hits[p] + 1
        BY <1>5, <1>6, <2>2
      <3>3. QED BY <3>1, <3>2
    <2>5. CASE b # g
      <3>1. lru_counter'[p][b] = lru_counter[p][b] + 1 /\ last_ref'[p][b] = last_ref[p][b]
        BY <1>5, <2>2, <2>5
      <3>2. a # g
        BY <1>5, <2>1, <2>2, <2>3, <3>1
      <3>3. lru_counter'[p][a] = lru_counter[p][a] + 1 /\ last_ref'[p][a] = last_ref[p][a]
        BY <1>5, <2>2, <3>2
      <3>4. lru_counter[p][a] >= lru_counter[p][b]
        BY <2>1, <2>3, <3>1, <3>3
      <3>5. a \in Resident(p) \ {NextPage(p)} /\ b \in Resident(p) \ {NextPage(p)}
        BY <1>3, <2>5, <3>2
      <3>6. last_ref[p][a] <= last_ref[p][b]
        BY <3>4, <3>5 DEF OrderInv, LruOrder
      <3>7. QED BY <3>1, <3>3, <3>6
    <2>6. QED BY <2>4, <2>5
  <1>8. LruOrder(p, Resident(p))' /\ LruOrder(p, Resident(p) \ {NextPage(p)})'
    BY <1>4, <1>7 DEF LruOrder
  <1>9. ASSUME NEW q \in Procs, q # p
        PROVE  LruOrder(q, Resident(q) \ {NextPage(q)})' /\ ~HitPending(q)'
    <2>1. Head(mq3_resp') = [pid |-> p, page |-> g, frame |-> frame[p][g]]
      BY <1>1, <1>3, ReplySent
    <2>2. ~HitPending(q)'
      BY <1>9, <2>1 DEF HitPending
    <2>3. LruOrder(q, Resident(q) \ {NextPage(q)})
      BY DEF OrderInv
    <2>4. \A h \in Pages : lru_counter'[q][h] = lru_counter[q][h] /\ last_ref'[q][h] = last_ref[q][h]
      BY <1>5, <1>9
    <2>5. Resident(q) \subseteq Pages
      BY CountersTyped
    <2>6. QED BY <1>4, <2>2, <2>3, <2>4, <2>5 DEF LruOrder
  <1>10. QED BY <1>6, <1>8, <1>9 DEF OrderInv

\* A page comes in with a counter of 0; it is the one its process asks for next.
LEMMA FaultOrders ==
  ASSUME IInv, ipc, TurnsInv, OrderInv, NEW p \in Procs, NEW g \in Pages, MMUFault(p, g)
  PROVE  OrderInv'
  <1>1. /\ Incoming(p, g) /\ Reply(p, g, FAULT)
        /\ UNCHANGED <<ref_str, ref_idx, last_ref>>
    BY DEF MMUFault, masterVars, procVars, history
  <1>2. g # QUIT
    BY PagingAssumption DEF Pages, QUIT
  <1>3. g = NextPage(p) /\ mq3_resp = <<>>
    BY <1>1, <1>2, RequestTaken
  <1>4. \A q \in Procs : NextPage(q)' = NextPage(q)
    BY <1>1 DEF NextPage
  <1>5. \A q \in Procs : ~HitPending(q)'
    <2>1. Head(mq3_resp') = [pid |-> p, page |-> g, frame |-> FAULT]
      BY <1>1, <1>3, ReplySent
    <2>2. QED BY <2>1 DEF HitPending
  <1>6. \A q \in Procs, h \in Pages :
          /\ ~(q = p /\ h = g) => /\ lru_counter'[q][h] = lru_counter[q][h]
                                  /\ valid_bit'[q][h] = 1 => valid_bit[q][h] = 1
          /\ size' = size
    <2>1. CASE LoadInFreeFrame(p, g)
      BY <2>1, CountersTyped DEF LoadInFreeFrame
    <2>2. CASE ReplaceOwnPage(p, g)
      BY <2>2, CountersTyped DEF ReplaceOwnPage
    <2>3. CASE NoFrameForFault(p, g)
      BY <2>3 DEF NoFrameForFault, tableVars
    <2>4. QED BY <2>1, <2>2, <2>3 DEF MMUFault
  <1>7. ASSUME NEW q \in Procs
        PROVE  LruOrder(q, Resident(q) \ {NextPage(q)})'
    <2>1. PICK S : S = Resident(q)' \ {NextPage(q)}
      OBVIOUS
    <2>2. \A h \in S : /\ h \in Pages /\ ~(q = p /\ h = g)
                       /\ h \in Resident(q) \ {NextPage(q)}
      BY <1>3, <1>6, <2>1 DEF Resident
    <2>3. \A h \in S : lru_counter'[q][h] = lru_counter[q][h] /\ last_ref'[q][h] = last_ref[q][h]
      BY <1>1, <1>6, <2>2
    <2>4. LruOrder(q, S)'
      BY <2>2, <2>3 DEF OrderInv, LruOrder
    <2>5. QED BY <1>4, <2>1, <2>4 DEF LruOrder
  <1>8. QED BY <1>5, <1>7 DEF OrderInv

\* A process that reads a reply goes on to its next page only after a hit.
LEMMA ReceiveOrders ==
  ASSUME IInv, ipc, TurnsInv, OrderInv, NEW p \in Procs, Receive(p)
  PROVE  OrderInv'
  <1>1. /\ mq3_resp # <<>> /\ mq3_resp' = Tail(mq3_resp) /\ ppc[p] = "receive"
        /\ Obey(p, Head(mq3_resp).frame)
        /\ UNCHANGED <<size, valid_bit, lru_counter, last_ref, ref_str>>
    BY DEF Receive, masterVars, tableVars, history
  <1>2. mq3_resp' = <<>> /\ Head(mq3_resp).pid = p
    <2>1. Head(mq3_resp) \in Replies /\ ppc[Head(mq3_resp).pid] = "receive" /\ mq3_resp' = <<>>
      BY <1>1, QueuesTyped, TailOfOne DEF TurnsInv, ReplyInv
    <2>2. QED BY <1>1, <2>1 DEF TurnsInv, OneAtATime, Running, Replies
  <1>3. \A q \in Procs : ref_idx'[q] = ref_idx[q] \/ HitPending(q)
    BY <1>1, <1>2, QueuesTyped DEF Obey, HitPending
  <1>4. \A q \in Procs : /\ Resident(q)' = Resident(q)
                         /\ NextPage(q)' = NextPage(q) \/ HitPending(q)
                         /\ ~HitPending(q)'
    BY <1>1, <1>2, <1>3 DEF Resident, NextPage, HitPending
  <1>5. QED BY <1>1, <1>4, SameOrder

\* After the clean-up a fault can only bring in page 0 of process 0.
LEMMA LateStep ==
  ASSUME Timed, IInv, OneTurn, ReportInv, LateInv, [Next]_vars
  PROVE  LateInv'
  <1>1. SUFFICES ASSUME mpc' = "done" PROVE \A p \in Procs : Resident(p)' \subseteq IF p = 0 THEN {0} ELSE {}
    BY DEF LateInv
  <1>2. CASE mpc # "done"
    <2>1. Cleanup
      <3>1. ~Scheduler /\ ~(\E p \in Procs : Process(p)) /\ ~MMU /\ ~MMUDie
        BY <1>1, <1>2 DEF Scheduler, Dispatch, ReceiveFromMMU, SignalMaster, Process, Enqueue, AwaitTurn,
           Request, Receive, Quit, MMU, MMUTerminate, MMUInvalid, MMUHit, MMUFault, MMUFreeInvalid,
           MMUFaultHandled, MMUDie, masterVars
      <3>2. QED
        BY <1>1, <1>2, <3>1 DEF Next, vars, masterVars, Master, ChooseTable, AddIllegalPage, AllocateFrames,
           ForkScheduler, ForkMMU, ForkProcess, WaitForScheduler, KillMMU, Reorder, Advance, Interrupt
    <2>2. Reporting /\ ipc /\ TurnsInv /\ LiveInv /\ ReleasedInv /\ UNCHANGED <<size, valid_bit>>
      BY <2>1 DEF Cleanup, Reporting, OneTurn, ReportInv, tableVars
    <2>3. \A p \in Procs : Resident(p) = {}
      BY <2>2, AllGone DEF ReleasedInv, Open
    <2>4. QED BY <2>2, <2>3 DEF Resident
  <1>3. CASE mpc = "done"
    <2> ~ipc /\ \A p \in Procs : Resident(p) \subseteq IF p = 0 THEN {0} ELSE {}
      BY <1>3 DEF OneTurn, LateInv
    <2>1. CASE UNCHANGED <<size, valid_bit>>
      BY <2>1 DEF Resident
    <2>2. ASSUME NEW p \in Procs, Release(p) PROVE \A q \in Procs : Resident(q)' \subseteq Resident(q)
      <3>1. size' = size /\ \A q \in Procs, h \in Pages : valid_bit'[q][h] = 1 => valid_bit[q][h] = 1
        BY <2>2, CountersTyped DEF Release
      <3>2. QED BY <3>1 DEF Resident
    <2>3. ASSUME NEW p \in Procs, NEW g \in Pages, MMUFault(p, g)
          PROVE  p = 0 /\ g = 0 /\ \A q \in Procs : Resident(q)' \subseteq Resident(q) \cup IF q = 0 THEN {0} ELSE {}
      <3>1. p = 0 /\ g = 0
        BY <2>3 DEF MMUFault, Incoming
      <3>2. /\ size' = size
            /\ \A q \in Procs, h \in Pages :
                 valid_bit'[q][h] = 1 => valid_bit[q][h] = 1 \/ (q = p /\ h = g)
        <4>1. CASE LoadInFreeFrame(p, g)
          BY <4>1, CountersTyped DEF LoadInFreeFrame
        <4>2. CASE ReplaceOwnPage(p, g)
          BY <4>2, CountersTyped DEF ReplaceOwnPage
        <4>3. CASE NoFrameForFault(p, g)
          BY <4>3 DEF NoFrameForFault, tableVars
        <4>4. QED BY <2>3, <4>1, <4>2, <4>3 DEF MMUFault
      <3>3. QED BY <3>1, <3>2 DEF Resident
    <2>4. CASE MMU
      <3>1. ASSUME NEW p \in Procs, NEW g \in Pages, MMUInvalid(p, g) \/ MMUHit(p, g)
            PROVE  UNCHANGED <<size, valid_bit>>
        BY <3>1 DEF MMUInvalid, MMUHit, Touch, tableVars
      <3>2. CASE MMUFaultHandled
        BY <2>1, <3>2 DEF MMUFaultHandled, tableVars
      <3>3. CASE MMUFreeInvalid
        BY <2>2, <3>3, QueuesTyped DEF MMUFreeInvalid
      <3>4. ASSUME NEW p \in Procs, MMUTerminate(p)
            PROVE  \A q \in Procs : Resident(q)' \subseteq Resident(q)
        BY <2>2, <3>4 DEF MMUTerminate
      <3>5. QED BY <2>1, <2>3, <2>4, <3>1, <3>2, <3>3, <3>4 DEF MMU
    <2>5. CASE ~MMU
      <3>1. UNCHANGED <<size, valid_bit>>
        BY <1>3, <2>5 DEF Next, vars, tableVars, Master, ChooseTable, AddIllegalPage, AllocateFrames,
           ForkScheduler, ForkMMU, ForkProcess, WaitForScheduler, KillMMU, Reorder, Cleanup, Interrupt,
           Scheduler, Dispatch, ReceiveFromMMU, SignalMaster, Process, Enqueue, AwaitTurn, Request,
           Receive, Quit, MMUDie
      <3>2. QED BY <2>1, <3>1
    <2>6. QED BY <2>4, <2>5
  <1>4. QED BY <1>2, <1>3

\* Once Master has set up, every step keeps the two orders together.
LEMMA OrderStep ==
  ASSUME Timed, IInv, OneTurn, RecencyInv, [Next]_vars, IInv', ipc, ipc',
         mpc' \notin {"sizes", "illegal", "grant"}, ~AllocateFrames, ~AddIllegalPage
  PROVE  OrderInv'
  <1>1. TurnsInv /\ OrderInv
    BY DEF OneTurn, RecencyInv
  <1>2. CASE UNCHANGED <<size, valid_bit, lru_counter, last_ref, ref_str, ref_idx, mq3_resp>>
    BY <1>1, <1>2, SameOrder DEF Resident, NextPage, HitPending
  <1>3. ASSUME NEW p \in Procs, Release(p), UNCHANGED <<last_ref, ref_str, ref_idx, mq3_resp>>
        PROVE  OrderInv'
    <2>1. /\ UNCHANGED <<size, lru_counter>>
          /\ \A q \in Procs, h \in Pages : valid_bit'[q][h] = 1 => valid_bit[q][h] = 1
      BY <1>3, CountersTyped DEF Release
    <2>2. \A q \in Procs : Resident(q)' \subseteq Resident(q)
      BY <2>1 DEF Resident
    <2>3. QED BY <1>1, <1>3, <2>1, <2>2, SameOrder DEF NextPage, HitPending
  <1>4. CASE MMU
    <2>1. ASSUME NEW p \in Procs, MMUTerminate(p) PROVE OrderInv'
      BY <1>3, <2>1 DEF MMUTerminate, masterVars, procVars, history
    <2>2. CASE MMUFreeInvalid
      BY <1>3, <2>2, QueuesTyped DEF MMUFreeInvalid, masterVars, procVars, history
    <2>3. CASE MMUFaultHandled
      BY <1>2, <2>3 DEF MMUFaultHandled, tableVars, masterVars, procVars, history
    <2>4. ASSUME NEW p \in Procs, NEW g \in Pages, MMUHit(p, g) PROVE OrderInv'
      BY <1>1, <2>4, HitOrders DEF RecencyInv
    <2>5. ASSUME NEW p \in Procs, NEW g \in Pages, MMUFault(p, g) PROVE OrderInv'
      BY <1>1, <2>5, FaultOrders
    <2>6. ASSUME NEW p \in Procs, NEW g \in Pages, MMUInvalid(p, g) PROVE OrderInv'
      <3>1. /\ Incoming(p, g) /\ Reply(p, g, INVALID) /\ g # QUIT
            /\ UNCHANGED <<size, valid_bit, lru_counter, last_ref, ref_str, ref_idx>>
        BY <2>6, PagingAssumption DEF MMUInvalid, tableVars, masterVars, procVars, history, Pages, QUIT
      <3>2. Head(mq3_resp') = [pid |-> p, page |-> g, frame |-> INVALID]
        BY <1>1, <3>1, RequestTaken, ReplySent
      <3>3. \A q \in Procs : ~HitPending(q)'
        BY <3>2 DEF HitPending
      <3>4. QED BY <1>1, <3>1, <3>3, SameOrder DEF Resident, NextPage
    <2>7. QED BY <1>4, <2>1, <2>2, <2>3, <2>4, <2>5, <2>6 DEF MMU
  <1>5. ASSUME NEW p \in Procs, Process(p) PROVE OrderInv'
    <2>1. CASE Receive(p)
      BY <1>1, <2>1, ReceiveOrders
    <2>2. CASE ~Receive(p)
      BY <1>2, <1>5, <2>2 DEF Process, Enqueue, AwaitTurn, Request, Quit, tableVars, masterVars, queueVars,
         history
    <2>3. QED BY <2>1, <2>2
  <1>6. CASE Scheduler \/ MMUDie \/ UNCHANGED vars
    BY <1>2, <1>6 DEF Scheduler, Dispatch, ReceiveFromMMU, SignalMaster, MMUDie, vars, tableVars, masterVars,
       queueVars, procVars, history
  <1>7. CASE Master \/ Interrupt
    <2>1. ~ChooseTable
      BY DEF ChooseTable, Advance
    <2>2. QED
      BY <1>2, <1>7, <2>1 DEF Master, ForkScheduler, ForkMMU, ForkProcess, WaitForScheduler, KillMMU,
         Reorder, Cleanup, Interrupt, RemoveQueues, tableVars, queueVars, procVars, history
  <1>8. QED BY <1>4, <1>5, <1>6, <1>7 DEF Next

LEMMA InitRecency == Init => RecencyInv
  <1> SUFFICES ASSUME Init PROVE RecencyInv
    OBVIOUS
  <1>1. \A p \in Procs : Resident(p) = {}
    BY DEF Init, TableInit, Resident
  <1>2. \A p \in Procs, g \in Pages : lru_counter[p][g] = 0 /\ last_ref[p][g] = 0 /\ hits[p] = 0
    BY DEF Init, TableInit
  <1>3. QED BY <1>1, <1>2 DEF Init, RecencyInv, OrderInv, LruOrder, LateInv

\* So does every step from the first.
LEMMA RecencyStep ==
  Timed /\ IInv /\ OneTurn /\ ReportInv /\ RecencyInv /\ IInv' /\ [Next]_vars => RecencyInv'
  <1> SUFFICES ASSUME Timed, IInv, OneTurn, ReportInv, RecencyInv, IInv', [Next]_vars
               PROVE  RecencyInv'
    OBVIOUS
  <1>1. LateInv'
    BY LateStep DEF RecencyInv
  <1>2. CASE \E p \in Procs, g \in Pages : MMUHit(p, g)
    <2> PICK p \in Procs, g \in Pages : MMUHit(p, g)
      BY <1>2
    <2>1. mpc \notin {"sizes", "illegal", "grant"} /\ UNCHANGED <<mpc, ipc>>
      BY ForkedMMULate DEF MMUHit, Incoming, masterVars
    <2>2. CASE ipc
      <3>1. OrderInv' /\ \A q \in Procs, h \in Pages : last_ref'[q][h] <= hits'[q]
        BY <2>2, HitOrders DEF OneTurn, RecencyInv
      <3>2. QED BY <1>1, <2>1, <3>1 DEF RecencyInv
    <2>3. CASE ~ipc
      <3>1. UNCHANGED <<hits, last_ref>>
        BY <2>3 DEF MMUHit, history
      <3>2. QED BY <1>1, <2>1, <2>3, <3>1 DEF RecencyInv
    <2>4. QED BY <2>2, <2>3
  <1>3. CASE ~ \E p \in Procs, g \in Pages : MMUHit(p, g)
    <2>1. UNCHANGED <<hits, last_ref>>
      <3>1. ASSUME NEW p \in Procs, Process(p) PROVE UNCHANGED <<hits, last_ref>>
        BY <3>1 DEF Process, Enqueue, AwaitTurn, Request, Receive, Quit, history
      <3>2. CASE MMU \/ MMUDie
        BY <1>3, <3>2 DEF MMU, MMUTerminate, MMUInvalid, MMUFault, MMUFreeInvalid, MMUFaultHandled, MMUDie,
           history
      <3>3. CASE Master \/ Interrupt \/ Scheduler \/ UNCHANGED vars
        BY <3>3 DEF Master, ChooseTable, AddIllegalPage, AllocateFrames, ForkScheduler, ForkMMU, ForkProcess,
           WaitForScheduler, KillMMU, Reorder, Cleanup, Interrupt, Scheduler, Dispatch, ReceiveFromMMU,
           SignalMaster, vars, history
      <3>4. QED BY <3>1, <3>2, <3>3 DEF Next
    <2>2. CASE mpc \in {"sizes", "illegal", "grant"}
      <3>1. UNCHANGED lru_counter
        <4>1. ~ \E p \in Procs : Process(p)
          BY <2>2, ForkedLate DEF Process, Enqueue, AwaitTurn, Request, Receive, Quit
        <4>2. ~MMU /\ ~MMUDie
          BY <2>2, ForkedMMULate DEF MMU, MMUTerminate, MMUInvalid, MMUHit, MMUFault, MMUFreeInvalid,
             MMUFaultHandled, MMUDie, Incoming
        <4>3. QED
          BY <4>1, <4>2 DEF Next, Master, ChooseTable, AddIllegalPage, AllocateFrames, Grant, ForkScheduler,
             ForkMMU, ForkProcess, WaitForScheduler, KillMMU, Reorder, Cleanup, Interrupt, Scheduler,
             Dispatch, ReceiveFromMMU, SignalMaster, vars, tableVars
      <3>2. \A p \in Procs, g \in Pages : lru_counter'[p][g] = 0 /\ last_ref'[p][g] = 0
        BY <2>1, <2>2, <3>1 DEF RecencyInv
      <3>3. QED BY <1>1, <2>1, <3>2, SetupOrder DEF RecencyInv
    <2>3. CASE mpc \notin {"sizes", "illegal", "grant"}
      <3>1. mpc' \notin {"sizes", "illegal", "grant"}
        <4>1. CASE Master \/ Interrupt
          BY <2>3, <4>1 DEF Master, ChooseTable, AddIllegalPage, AllocateFrames, ForkScheduler, ForkMMU,
             ForkProcess, WaitForScheduler, KillMMU, Reorder, Cleanup, Interrupt, Advance
        <4>2. CASE ~(Master \/ Interrupt)
          <5>1. mpc' = mpc
            BY <4>2 DEF Next, vars, masterVars, Scheduler, Dispatch, ReceiveFromMMU, SignalMaster, Process,
               Enqueue, AwaitTurn, Request, Receive, Quit, MMU, MMUTerminate, MMUInvalid, MMUHit, MMUFault,
               MMUFreeInvalid, MMUFaultHandled, MMUDie
          <5>2. QED BY <2>3, <5>1
        <4>3. QED BY <4>1, <4>2
      <3>2. ~AllocateFrames /\ ~AddIllegalPage
        BY <2>3 DEF AllocateFrames, AddIllegalPage
      <3>3. ipc' => ipc
        BY RemovedTurns
      <3>4. ipc' => OrderInv'
        BY <3>1, <3>2, <3>3, OrderStep
      <3>5. QED BY <1>1, <2>1, <3>1, <3>4 DEF RecencyInv
    <2>4. QED BY <2>2, <2>3
  <1>4. QED BY <1>2, <1>3

LeastRecentGoes ==
  \A p, q \in Procs : \A v, g \in Pages :
    (/\ v \in Resident(p) /\ valid_bit'[p][v] = 0
     /\ valid_bit[q][g] = 0 /\ valid_bit'[q][g] = 1)
    => /\ q = p
       /\ \A h \in Resident(p) : last_ref[p][v] <= last_ref[p][h]

\* Only a replacement makes one page go and another come.
LEMMA OnlyReplacement ==
  ASSUME IInv, [Next]_vars,
         NEW p \in Procs, NEW v \in Pages, valid_bit[p][v] = 1, valid_bit'[p][v] = 0,
         NEW q \in Procs, NEW g \in Pages, valid_bit[q][g] = 0, valid_bit'[q][g] = 1
  PROVE  \E r \in Procs, h \in Pages : MMUFault(r, h) /\ ReplaceOwnPage(r, h)
  <1>1. ~UNCHANGED valid_bit
    OBVIOUS
  <1>2. ~AllocateFrames
    <2>1. SUFFICES ASSUME AllocateFrames PROVE FALSE
      OBVIOUS
    <2>2. Grant(mi, cur_free_frame, Share(mi))
      BY <2>1 DEF AllocateFrames
    <2>3. valid_bit'[p][v] \in {1, valid_bit[p][v]}
      BY <2>2 DEF Grant
    <2>4. QED BY <2>3
  <1>3. ASSUME NEW r \in Procs, Release(r) PROVE FALSE
    BY <1>3, CountersTyped DEF Release
  <1>4. ~ \E r \in Procs : Process(r)
    BY <1>1 DEF Process, Enqueue, AwaitTurn, Request, Receive, Quit, tableVars
  <1>5. MMU
    BY <1>1, <1>2, <1>4 DEF Next, vars, tableVars, Master, ChooseTable, AddIllegalPage, ForkScheduler,
       ForkMMU, ForkProcess, WaitForScheduler, KillMMU, Reorder, Cleanup, Interrupt, Scheduler, Dispatch,
       ReceiveFromMMU, SignalMaster, MMUDie
  <1>6. ~MMUFreeInvalid /\ ~ \E r \in Procs : MMUTerminate(r)
    BY <1>3, QueuesTyped DEF MMUFreeInvalid, MMUTerminate
  <1>7. PICK r \in Procs, h \in Pages : MMUFault(r, h)
    BY <1>1, <1>5, <1>6 DEF MMU, MMUInvalid, MMUHit, Touch, MMUFaultHandled, tableVars
  <1>8. ~LoadInFreeFrame(r, h)
    BY CountersTyped DEF LoadInFreeFrame
  <1>9. ~NoFrameForFault(r, h)
    BY <1>1 DEF NoFrameForFault, tableVars
  <1>10. QED BY <1>7, <1>8, <1>9 DEF MMUFault

LEMMA VictimStep ==
  ASSUME Timed, IInv, OneTurn, RecencyInv, [Next]_vars
  PROVE  LeastRecentGoes
  <1> SUFFICES ASSUME NEW p \in Procs, NEW q \in Procs, NEW v \in Pages, NEW g \in Pages,
                      v \in Resident(p), valid_bit'[p][v] = 0,
                      valid_bit[q][g] = 0, valid_bit'[q][g] = 1
               PROVE  /\ q = p
                      /\ \A h \in Resident(p) : last_ref[p][v] <= last_ref[p][h]
    BY DEF LeastRecentGoes
  <1>1. PICK r \in Procs, n \in Pages : MMUFault(r, n) /\ ReplaceOwnPage(r, n)
    BY OnlyReplacement DEF Resident
  <1>2. PICK w \in Pages :
          /\ IsMaxLru(r, w)
          /\ valid_bit' = [valid_bit EXCEPT ![r] = [@ EXCEPT ![w] = 0, ![n] = 1]]
    BY <1>1 DEF ReplaceOwnPage
  <1>3. valid_bit[p][v] = 1
    BY DEF Resident
  <1>4. p = r /\ v = w /\ q = r
    BY <1>2, <1>3, CountersTyped
  <1>5. valid_bit[r][n] # 1 /\ Incoming(r, n) /\ n # QUIT /\ n < size[r]
    BY <1>1, PagingAssumption DEF ReplaceOwnPage, MMUFault, Pages, QUIT
  <1>6. ipc
    <2>1. SUFFICES ASSUME ~ipc PROVE FALSE
      OBVIOUS
    <2>2. mpc = "done" /\ r = 0 /\ n = 0
      BY <1>5, <2>1 DEF Incoming
    <2>3. v = 0
      BY <1>4, <2>2 DEF RecencyInv, LateInv
    <2>4. QED BY <1>3, <1>4, <1>5, <2>2, <2>3
  <1>7. n = NextPage(r)
    BY <1>5, <1>6, RequestTaken DEF OneTurn
  <1>8. n \notin Resident(r)
    BY <1>5 DEF Resident
  <1>9. LruOrder(r, Resident(r))
    <2>1. Resident(r) \ {NextPage(r)} = Resident(r)
      BY <1>7, <1>8
    <2>2. QED BY <1>6, <2>1 DEF RecencyInv, OrderInv
  <1>10. ASSUME NEW h \in Resident(r) PROVE lru_counter[r][w] >= lru_counter[r][h]
    <2>1. h \in Pages /\ lru_counter[r][w] \in Nat /\ lru_counter[r][h] \in Nat
      BY CountersTyped
    <2>2. QED BY <1>2, <2>1 DEF IsMaxLru
  <1>11. QED BY <1>2, <1>4, <1>9, <1>10 DEF LruOrder, IsMaxLru

\* With the Scheduler's timing, for any number of processes and frames and any
\* strings: the page that goes is the process's own, and none of its pages in
\* memory was referenced longer ago (mmu.c:258-306).
THEOREM LeastRecentlyUsedGoes == Timed => (Spec => VictimIsLeastRecent)
  <1> SUFFICES ASSUME Timed PROVE Spec => VictimIsLeastRecent
    OBVIOUS
  <1>1. Init => IInv /\ OneTurn /\ ReportInv /\ RecencyInv
    BY InitIInv, InitTurns, InitReport, InitRecency
  <1>2. IInv /\ OneTurn /\ ReportInv /\ RecencyInv /\ IInv' /\ [Next]_vars
          => OneTurn' /\ ReportInv' /\ RecencyInv'
    BY OneTurnStep, ReportStep, RecencyStep
  <1>3. IInv /\ OneTurn /\ RecencyInv /\ [Next]_vars => [LeastRecentGoes]_vars
    BY VictimStep
  <1>4. Spec => [][LeastRecentGoes]_vars
    BY <1>1, <1>2, <1>3, IInvInvariant, PTL DEF Spec
  <1>5. QED BY <1>4, PTL DEF LeastRecentGoes, VictimIsLeastRecent

-----------------------------------------------------------------------------
(***************************************************************************)
(* The program implements PagedExecution.                                  *)
(***************************************************************************)

\* A process has all it refers to, or refers next to a page it does not have.
Finished(p) == ref_idx[p] = Len(ref_str[p]) \/ NextPage(p) \notin 0 .. size[p] - 1

\* Nobody ends early, and a reply without a fault is about a page in memory.
EndInv == \A p \in Procs :
  /\ ppc[p] = "quit" => ref_idx[p] = Len(ref_str[p])
  /\ Gone(p) => Finished(p)
  /\ HitPending(p) => NextPage(p) \in Resident(p)

\* Nothing of it changes, or pages of others than those just served go.
LEMMA SameEnds ==
  ASSUME EndInv, UNCHANGED <<size, ref_str, ref_idx>>,
         \A p \in Procs : /\ ppc'[p] = "quit" => ppc[p] = "quit"
                          /\ Gone(p)' => Gone(p)
                          /\ HitPending(p)' => HitPending(p) /\ Resident(p)' = Resident(p)
  PROVE  EndInv'
  BY DEF EndInv, Finished, NextPage

\* While Master sets up nobody is anywhere near an end.
LEMMA SetupEnds ==
  ASSUME IInv, TurnsInv, mpc \in {"sizes", "illegal", "grant"}, UNCHANGED <<ppc, mq3_resp>>
  PROVE  EndInv'
  <1>1. \A q \in Procs : ppc[q] = "unborn"
    BY DEF IInv, InString, Setup
  <1>2. mq3_resp = <<>>
    <2>1. mq3_resp # <<>> => Head(mq3_resp) \in Replies
      BY QueuesTyped, HeadTailProperties
    <2>2. mq3_resp # <<>> => Head(mq3_resp).pid \in Procs
      BY <2>1 DEF Replies
    <2>3. QED BY <1>1, <2>2 DEF TurnsInv, ReplyInv
  <1>3. QED BY <1>1, <1>2 DEF EndInv, Gone, ToldInvalid, HitPending

\* The reader of a reply goes on, waits again, or ends.
LEMMA ReceiveEnds ==
  ASSUME IInv, ipc, TurnsInv, EndInv, NEW p \in Procs, Receive(p)
  PROVE  /\ EndInv' /\ mq3_resp # <<>> /\ Head(mq3_resp) \in Replies /\ Head(mq3_resp).pid = p
         /\ ref_idx' # ref_idx => HitPending(p) /\ ref_idx' = [ref_idx EXCEPT ![p] = @ + 1]
  <1>1. /\ mq3_resp # <<>> /\ mq3_resp' = Tail(mq3_resp) /\ ppc[p] = "receive"
        /\ Obey(p, Head(mq3_resp).frame)
        /\ UNCHANGED <<size, valid_bit, ref_str>>
    BY DEF Receive, masterVars, tableVars
  <1>2. /\ mq3_resp' = <<>> /\ Head(mq3_resp).pid = p /\ Head(mq3_resp) \in Replies
        /\ ref_idx[p] < Len(ref_str[p]) /\ ref_idx[p] \in Nat /\ Len(ref_str[p]) \in Nat
    <2>1. Head(mq3_resp) \in Replies /\ ppc[Head(mq3_resp).pid] = "receive" /\ mq3_resp' = <<>>
      BY <1>1, QueuesTyped, TailOfOne DEF TurnsInv, ReplyInv
    <2>2. ref_str[p] \in Seq(Pages)
      BY DEF IInv, TypeOK, MasterTypeOK
    <2>3. Head(mq3_resp).pid = p
      BY <1>1, <2>1 DEF TurnsInv, OneAtATime, Running, Replies
    <2>4. ref_idx[p] < Len(ref_str[p])
      BY <1>1 DEF IInv, InString
    <2>5. QED BY <2>1, <2>2, <2>3, <2>4, QueuesTyped
  <1>3. \A q \in Procs : /\ q # p => ref_idx'[q] = ref_idx[q] /\ ppc'[q] = ppc[q]
                         /\ ~HitPending(q)' /\ ~ToldInvalid(q)'
    BY <1>1, <1>2, QueuesTyped DEF Obey, HitPending, ToldInvalid
  <1>4. ppc'[p] = "quit" => ref_idx'[p] = Len(ref_str[p])
    BY <1>1, <1>2, QueuesTyped DEF Obey
  <1>5. ppc'[p] = "dead" => ToldInvalid(p) /\ ref_idx' = ref_idx
    BY <1>1, <1>2, QueuesTyped DEF Obey, ToldInvalid
  <1>6. ASSUME NEW q \in Procs, q # p, Gone(q)' PROVE Finished(q)'
    <2>1. Gone(q)
      BY <1>3, <1>6 DEF Gone
    <2>2. QED BY <1>1, <1>3, <1>6, <2>1 DEF EndInv, Finished, NextPage
  <1>7. Gone(p)' => Finished(p)'
    BY <1>1, <1>3, <1>5 DEF EndInv, Gone, Finished, NextPage
  <1>8. ref_idx' # ref_idx => HitPending(p) /\ ref_idx' = [ref_idx EXCEPT ![p] = @ + 1]
    BY <1>1, <1>2 DEF Obey, HitPending
  <1>9. \A q \in Procs : q # p /\ ppc'[q] = "quit" => ref_idx'[q] = Len(ref_str[q])
    BY <1>3 DEF EndInv
  <1>10. QED BY <1>1, <1>2, <1>3, <1>4, <1>6, <1>7, <1>8, <1>9 DEF EndInv

\* The reply to a hit names a frame; that to an illegal page tells of the end.
LEMMA ReplyEnds ==
  ASSUME IInv, ipc, TurnsInv, EndInv, NEW p \in Procs, NEW g \in Pages, NEW answer,
         Incoming(p, g), Reply(p, g, answer), UNCHANGED <<size, ref_str, ref_idx, ppc>>,
         answer = INVALID => g >= size[p],
         answer \notin {FAULT, INVALID} => g \in Resident(p) /\ Resident(p)' = Resident(p)
  PROVE  EndInv'
  <1>1. g # QUIT
    BY PagingAssumption DEF Pages, QUIT
  <1>2. g = NextPage(p) /\ mq3_resp = <<>>
    BY <1>1, RequestTaken
  <1>3. mq3_resp' # <<>> /\ Head(mq3_resp') = [pid |-> p, page |-> g, frame |-> answer]
    BY <1>2, ReplySent
  <1>4. \A q \in Procs : NextPage(q)' = NextPage(q) /\ (Finished(q)' <=> Finished(q))
    BY DEF NextPage, Finished
  <1>5. \A q \in Procs : q # p => ~HitPending(q)' /\ (Gone(q)' => Gone(q))
    BY <1>3 DEF HitPending, Gone, ToldInvalid
  <1>6. HitPending(p)' => answer \notin {FAULT, INVALID}
    BY <1>3 DEF HitPending
  <1>7. answer = INVALID => Finished(p)
    <2>1. size[p] \in Int /\ g \in Int
      BY DEF IInv, TypeOK, TableTypeOK, Pages
    <2>2. QED BY <1>2, <2>1 DEF Finished
  <1>8. Gone(p)' => Gone(p) \/ answer = INVALID
    BY <1>3 DEF Gone, ToldInvalid
  <1>9. QED BY <1>2, <1>4, <1>5, <1>6, <1>7, <1>8 DEF EndInv

\* Every step keeps the ends as they should be.
LEMMA EndStep ==
  ASSUME Timed, IInv, OneTurn, EndInv, [Next]_vars, ipc, ipc'
  PROVE  EndInv'
  <1>1. TurnsInv
    BY DEF OneTurn
  <1>2. CASE UNCHANGED <<size, valid_bit, ref_str, ref_idx, mq3_resp>>
             /\ \A p \in Procs : ppc'[p] \in {"quit", "dead"} => ppc'[p] = ppc[p]
    <2>1. \A p \in Procs : /\ Gone(p)' => Gone(p)
                           /\ HitPending(p)' => HitPending(p)
                           /\ Resident(p)' = Resident(p)
      BY <1>2 DEF Gone, ToldInvalid, HitPending, Resident
    <2>2. QED BY <1>2, <2>1, SameEnds
  <1>3. CASE Master \/ Interrupt
    <2>1. ~Interrupt /\ ~Cleanup
      BY DEF Interrupt, Cleanup, RemoveQueues
    <2>2. CASE ChooseTable \/ AddIllegalPage \/ AllocateFrames
      <3>1. mpc \in {"sizes", "illegal", "grant"} /\ UNCHANGED <<ppc, mq3_resp>>
        BY <2>2 DEF ChooseTable, AddIllegalPage, AllocateFrames, queueVars, procVars
      <3>2. QED BY <1>1, <3>1, SetupEnds
    <2>3. CASE ForkProcess
      BY <1>2, <2>3, QueuesTyped DEF ForkProcess, tableVars, queueVars
    <2>4. QED
      BY <1>2, <1>3, <2>1, <2>2, <2>3 DEF Master, ForkScheduler, ForkMMU, WaitForScheduler, KillMMU,
         Reorder, tableVars, queueVars, procVars
  <1>4. CASE Scheduler \/ MMUDie \/ UNCHANGED vars
    BY <1>2, <1>4 DEF Scheduler, Dispatch, ReceiveFromMMU, SignalMaster, MMUDie, vars, tableVars, masterVars,
       queueVars, procVars
  <1>5. ASSUME NEW p \in Procs, Process(p) PROVE EndInv'
    <2>1. CASE Receive(p)
      BY <1>1, <2>1, ReceiveEnds
    <2>2. CASE Quit(p)
      <3>1. /\ UNCHANGED <<size, valid_bit, ref_str, ref_idx, mq3_resp>> /\ ppc[p] = "quit"
            /\ ppc' = [ppc EXCEPT ![p] = "dead"]
        BY <2>2 DEF Quit, tableVars, masterVars
      <3>2. \A q \in Procs : /\ Resident(q)' = Resident(q) /\ NextPage(q)' = NextPage(q)
                             /\ HitPending(q)' <=> HitPending(q)
                             /\ Finished(q)' <=> Finished(q)
        BY <3>1 DEF Resident, NextPage, HitPending, Finished
      <3>3. \A q \in Procs : /\ Gone(q)' => q = p \/ Gone(q)
                             /\ ppc'[q] = "quit" => ppc[q] = "quit"
        BY <3>1, QueuesTyped DEF Gone, ToldInvalid
      <3>4. Finished(p)
        BY <3>1 DEF EndInv, Finished
      <3>5. QED BY <3>1, <3>2, <3>3, <3>4 DEF EndInv
    <2>3. CASE Enqueue(p) \/ AwaitTurn(p) \/ Request(p)
      <3>1. /\ UNCHANGED <<size, valid_bit, ref_str, ref_idx, mq3_resp>>
            /\ \E s \in {"await", "request", "receive"} : ppc' = [ppc EXCEPT ![p] = s]
        BY <2>3 DEF Enqueue, AwaitTurn, Request, tableVars, masterVars, queueVars
      <3>2. \A q \in Procs : ppc'[q] \in {"quit", "dead"} => ppc'[q] = ppc[q]
        BY <3>1, QueuesTyped
      <3>3. QED BY <1>2, <3>1, <3>2
    <2>4. QED BY <1>5, <2>1, <2>2, <2>3 DEF Process
  <1>6. CASE MMU
    <2>1. ASSUME NEW p \in Procs, Release(p), UNCHANGED <<ppc, ref_str, ref_idx, mq3_resp>>,
                 \A q \in Procs : ~HitPending(q)
          PROVE  EndInv'
      <3>1. \A q \in Procs : (Gone(q)' => Gone(q)) /\ ~HitPending(q)'
        BY <2>1 DEF Gone, ToldInvalid, HitPending
      <3>2. QED BY <2>1, <3>1, SameEnds DEF Release
    <2>2. ASSUME NEW p \in Procs, MMUTerminate(p) PROVE EndInv'
      <3>1. Incoming(p, QUIT) /\ Release(p) /\ UNCHANGED <<ppc, ref_str, ref_idx, mq3_resp>>
        BY <2>2 DEF MMUTerminate, masterVars, procVars
      <3>2. mq3_resp = <<>>
        BY <1>1, <3>1, RequestTaken
      <3>3. QED BY <2>1, <3>1, <3>2 DEF HitPending
    <2>3. CASE MMUFreeInvalid
      <3>1. ~MMUIdle /\ Release(mmu_pid) /\ UNCHANGED <<ppc, ref_str, ref_idx, mq3_resp>>
        BY <2>3 DEF MMUFreeInvalid, MMUIdle, masterVars, procVars
      <3>2. \A q \in Procs : ~HitPending(q)
        BY <1>1, <3>1 DEF HitPending, TurnsInv, ReplyInv
      <3>3. QED BY <2>1, <3>1, <3>2, QueuesTyped
    <2>4. CASE MMUFaultHandled
      BY <1>2, <2>4 DEF MMUFaultHandled, tableVars, masterVars, procVars
    <2>5. ASSUME NEW p \in Procs, NEW g \in Pages, MMUInvalid(p, g) PROVE EndInv'
      <3>1. Incoming(p, g) /\ Reply(p, g, INVALID) /\ UNCHANGED <<size, ref_str, ref_idx, ppc>> /\ g >= size[p]
        BY <2>5 DEF MMUInvalid, tableVars, masterVars, procVars
      <3>2. QED BY <1>1, <3>1, ReplyEnds
    <2>6. ASSUME NEW p \in Procs, NEW g \in Pages, MMUHit(p, g) PROVE EndInv'
      <3>1. /\ Incoming(p, g) /\ Reply(p, g, frame[p][g]) /\ UNCHANGED <<size, valid_bit, ref_str, ref_idx, ppc>>
            /\ valid_bit[p][g] = 1 /\ g < size[p]
        BY <2>6 DEF MMUHit, Touch, masterVars, procVars
      <3>2. g \in Resident(p) /\ Resident(p)' = Resident(p)
        BY <3>1 DEF Resident
      <3>3. frame[p][g] # INVALID
        BY <3>1, PagingAssumption DEF IInv, FramesExclusive, Frames, INVALID
      <3>4. PICK a : a = frame[p][g]
        OBVIOUS
      <3>5. QED BY <1>1, <3>1, <3>2, <3>3, <3>4, ReplyEnds
    <2>7. ASSUME NEW p \in Procs, NEW g \in Pages, MMUFault(p, g) PROVE EndInv'
      <3>1. Incoming(p, g) /\ Reply(p, g, FAULT) /\ UNCHANGED <<size, ref_str, ref_idx, ppc>>
        BY <2>7 DEF MMUFault, LoadInFreeFrame, ReplaceOwnPage, NoFrameForFault, tableVars, masterVars, procVars
      <3>2. FAULT # INVALID
        BY DEF FAULT, INVALID
      <3>3. QED BY <1>1, <3>1, <3>2, ReplyEnds
    <2>8. QED BY <1>6, <2>2, <2>3, <2>4, <2>5, <2>6, <2>7 DEF MMU
  <1>7. QED BY <1>3, <1>4, <1>5, <1>6 DEF Next

-----------------------------------------------------------------------------
\* The pages in memory, each with its process.
Held == {pg \in Procs \X Pages : pg[2] \in Resident(pg[1])}

\* Where PagedExecution sees the program.
Phase == CASE mpc \in {"sizes", "illegal", "grant", "fork_sched", "fork_mmu"} -> "setup"
           [] mpc \in {"fork_procs", "wait"} -> "run"
           [] Reporting -> "reported"
           [] OTHER -> "over"

\* Pages with frames of their own are no more than the frames, and as many only
\* when no frame is without a page.
LEMMA OwnFrames ==
  ASSUME NEW V \in SUBSET (Procs \X Pages), NEW fr,
         \A a \in V : fr[a[1]][a[2]] \in Frames,
         \A a, b \in V : fr[a[1]][a[2]] = fr[b[1]][b[2]] => a = b
  PROVE  /\ Cardinality(V) \in Nat /\ Cardinality(V) <= F
         /\ Cardinality(V) = F <=> \A x \in Frames : \E a \in V : fr[a[1]][a[2]] = x
  <1> DEFINE f == [a \in V |-> fr[a[1]][a[2]]]
  <1>1. IsFiniteSet(Frames) /\ Cardinality(Frames) = F
    <2>1. /\ 0 \in Int /\ F-1 \in Int
          /\ (IF 0 > F-1 THEN 0 ELSE F-1 - 0 + 1) = F
      BY PagingAssumption
    <2>2. QED BY <2>1, FS_Interval DEF Frames
  <1>2. f \in Injection(V, Frames)
    BY DEF Injection, IsInjective
  <1>3. /\ IsFiniteSet(V) /\ Cardinality(V) <= F
        /\ Cardinality(V) = F <=> f \in Surjection(V, Frames)
    BY <1>1, <1>2, FS_Injection
  <1>4. f \in Surjection(V, Frames) <=> \A x \in Frames : \E a \in V : fr[a[1]][a[2]] = x
    BY <1>2 DEF Injection, Surjection
  <1>5. QED BY <1>3, <1>4, FS_CardinalityType

\* Memory holds at most F pages, fewer while a frame is free, and F when every
\* frame is that of a page.
LEMMA MemoryBound ==
  ASSUME TableInv
  PROVE  /\ Cardinality(Held) \in Nat /\ Cardinality(Held) <= F
         /\ (\E x \in Frames : free_frames[x] # 1) => Cardinality(Held) < F
         /\ (\A x \in Frames : \E p \in Procs, g \in Pages : g \in Resident(p) /\ frame[p][g] = x)
              => Cardinality(Held) = F
  <1>1. \A a \in Held : /\ a[1] \in Procs /\ a[2] \in Pages /\ a = <<a[1], a[2]>>
                        /\ valid_bit[a[1]][a[2]] = 1
    BY DEF Held, Resident
  <1>2. \A a \in Held : frame[a[1]][a[2]] \in Frames /\ free_frames[frame[a[1]][a[2]]] = 1
    BY <1>1 DEF TableInv, FramesExclusive
  <1>3. \A a, b \in Held : frame[a[1]][a[2]] = frame[b[1]][b[2]] => a = b
    <2>1. \A a, b \in Held : frame[a[1]][a[2]] = frame[b[1]][b[2]] => a[1] = b[1] /\ a[2] = b[2]
      BY <1>1 DEF TableInv, FramesExclusive
    <2>2. QED BY <1>1, <2>1
  <1>4. /\ Cardinality(Held) \in Nat /\ Cardinality(Held) <= F
        /\ Cardinality(Held) = F <=> \A x \in Frames : \E a \in Held : frame[a[1]][a[2]] = x
    <2>1. Held \in SUBSET (Procs \X Pages)
      BY DEF Held
    <2>2. QED BY <1>2, <1>3, <2>1, OwnFrames
  <1>5. ASSUME NEW x \in Frames, free_frames[x] # 1 PROVE Cardinality(Held) < F
    <2>1. Cardinality(Held) # F
      BY <1>2, <1>4, <1>5
    <2>2. QED BY <1>4, <2>1, PagingAssumption
  <1>6. ASSUME \A x \in Frames : \E p \in Procs, g \in Pages : g \in Resident(p) /\ frame[p][g] = x
        PROVE  Cardinality(Held) = F
    <2>1. ASSUME NEW x \in Frames PROVE \E a \in Held : frame[a[1]][a[2]] = x
      <3>1. PICK p \in Procs, g \in Pages : g \in Resident(p) /\ frame[p][g] = x
        BY <1>6
      <3>2. <<p, g>> \in Held
        BY <3>1 DEF Held
      <3>3. QED BY <3>1, <3>2
    <2>2. QED BY <1>4, <2>1
  <1>7. QED BY <1>4, <1>5, <1>6

\* The set that PagedExecution counts.
LEMMA SameCount ==
  Paged!InMemory([p \in Procs |-> Resident(p)]) = Cardinality(Held)
  <1>1. {pg \in Procs \X Pages : pg[2] \in [p \in Procs |-> Resident(p)][pg[1]]} = Held
    BY DEF Held
  <1>2. Paged!Cardinality(Held) = Cardinality(Held)
    BY DEF Paged!Cardinality, Cardinality
  <1>3. QED BY <1>1, <1>2 DEF Paged!InMemory

\* Who is open is so while Master waits.
LEMMA StillRuns ==
  ASSUME IInv, OneTurn, ipc, mpc # "sigfpe", NEW p \in Procs, Open(p),
         ppc[p] # "unborn" \/ mmu_pc # "unborn"
  PROVE  Phase = "run"
  <1>1. mpc \notin Setup
    BY DEF IInv, InString
  <1>2. ~Reporting
    BY AllGone DEF OneTurn, Reporting, Open
  <1>3. mpc \in {"fork_procs", "wait"}
    BY <1>1, <1>2 DEF Setup, Reporting, OneTurn, IInv, TypeOK, MasterTypeOK
  <1>4. QED BY <1>3 DEF Phase, Reporting

\* After the end nothing changes that.
LEMMA EndedStays ==
  ASSUME IInv, [Next]_vars, mpc \in {"done", "killed", "sigfpe"}
  PROVE  mpc' = mpc
  BY DEF Next, vars, masterVars, Master, ChooseTable, AddIllegalPage, AllocateFrames, ForkScheduler, ForkMMU,
     ForkProcess, WaitForScheduler, KillMMU, Reorder, Cleanup, Interrupt, Scheduler, Dispatch, ReceiveFromMMU,
     SignalMaster, Process, Enqueue, AwaitTurn, Request, Receive, Quit, MMU, MMUTerminate, MMUInvalid, MMUHit,
     MMUFault, MMUFreeInvalid, MMUFaultHandled, MMUDie

\* A step of Master that PagedExecution does not see.
LEMMA Unseen ==
  ASSUME UNCHANGED <<size, valid_bit, ref_str, ref_idx>>, Phase' = Phase
  PROVE  UNCHANGED Paged!absVars
  <1>1. \A p \in Procs : Resident(p)' = Resident(p)
    BY DEF Resident
  <1>2. QED BY <1>1 DEF Paged!absVars, Phase

\* Master prepares, and never puts more pages in memory than it has frames.
LEMMA PrepareStep ==
  ASSUME IInv', Phase = "setup", Phase' \in {"setup", "run"}, ref_idx' = ref_idx
  PROVE  Paged!Prepare
  <1>1. (TableInv => Cardinality(Held) <= F)'
    BY MemoryBound, PTL
  <1>2. (Paged!InMemory([p \in Procs |-> Resident(p)]) = Cardinality(Held))'
    BY SameCount, PTL
  <1>3. TableInv'
    BY DEF IInv, TypeOK, TableInv
  <1>4. QED BY <1>1, <1>2, <1>3 DEF Paged!Prepare, Phase

\* The reply to a hit serves its reader.
LEMMA ServeStep ==
  ASSUME IInv, OneTurn, EndInv, ipc, mpc # "sigfpe", NEW p \in Procs, Receive(p), ref_idx' # ref_idx
  PROVE  Paged!Serve(p)
  <1>1. /\ HitPending(p) /\ ref_idx' = [ref_idx EXCEPT ![p] = @ + 1]
        /\ ppc[p] = "receive" /\ NextPage(p) \in Resident(p)
    BY ReceiveEnds DEF OneTurn, EndInv, Receive
  <1>2. Open(p)
    BY <1>1 DEF Open, Gone, ToldInvalid, HitPending
  <1>3. Phase = "run"
    BY <1>1, <1>2, StillRuns
  <1>4. Phase' = Phase /\ UNCHANGED <<size, valid_bit, ref_str>>
    BY DEF Receive, masterVars, tableVars, Phase, Reporting
  <1>5. \A q \in Procs : Resident(q)' = Resident(q)
    BY <1>4 DEF Resident
  <1>6. ref_idx[p] # Len(ref_str[p]) /\ NextPage(p) \in 0 .. size[p] - 1
    <2>1. ref_str[p] \in Seq(Pages)
      BY DEF IInv, TypeOK, MasterTypeOK
    <2>2. Len(ref_str[p]) \in Nat /\ ref_idx[p] \in Nat /\ ref_idx[p] < Len(ref_str[p])
      BY <1>1, <2>1, QueuesTyped DEF IInv, InString
    <2>3. NextPage(p) \in Pages /\ NextPage(p) < size[p] /\ size[p] \in Int
      BY <1>1 DEF Resident, IInv, TypeOK, TableTypeOK
    <2>4. QED BY <2>2, <2>3, PagingAssumption DEF Pages
  <1>7. QED
    BY <1>1, <1>3, <1>4, <1>5, <1>6 DEF Paged!Serve, Paged!Done, Phase, NextPage

\* The MMU brings in the page that its process asks for.
LEMMA PageInStep ==
  ASSUME IInv, OneTurn, ReportInv, ipc, mpc # "sigfpe", mpc \notin {"sizes", "illegal"} => Enough,
         NEW p \in Procs, NEW g \in Pages, MMUFault(p, g), ~NoFrameForFault(p, g)
  PROVE  Paged!PageIn(p)
  <1>1. /\ Incoming(p, g) /\ g < size[p] /\ valid_bit[p][g] # 1 /\ size' = size
        /\ UNCHANGED <<mpc, ref_str, ref_idx>>
    BY DEF MMUFault, LoadInFreeFrame, ReplaceOwnPage, masterVars, procVars
  <1>2. g # QUIT
    BY PagingAssumption DEF Pages, QUIT
  <1>3. g = NextPage(p) /\ ppc[p] = "receive" /\ mq3_resp = <<>>
    BY <1>1, <1>2, RequestTaken DEF OneTurn
  <1>4. Open(p)
    BY <1>3 DEF Open, Gone, ToldInvalid
  <1>5. Phase = "run" /\ Phase' = Phase
    BY <1>1, <1>3, <1>4, StillRuns DEF Phase, Reporting
  <1>6. ref_idx[p] # Len(ref_str[p]) /\ g \in 0 .. size[p] - 1 /\ g \notin Resident(p)
    <2>1. ref_str[p] \in Seq(Pages)
      BY DEF IInv, TypeOK, MasterTypeOK
    <2>2. Len(ref_str[p]) \in Nat /\ ref_idx[p] \in Nat /\ ref_idx[p] < Len(ref_str[p])
      BY <1>3, <2>1, QueuesTyped DEF IInv, InString
    <2>3. size[p] \in Int
      BY DEF IInv, TypeOK, TableTypeOK
    <2>4. QED BY <1>1, <2>2, <2>3, PagingAssumption DEF Pages, Resident
  <1>7. TableInv /\ mpc \notin {"sizes", "illegal"}
    BY <1>3, ForkedLate DEF IInv, TypeOK, TableInv
  <1> DEFINE r == [q \in Procs |-> Resident(q)]
  <1>8. CASE LoadInFreeFrame(p, g)
    <2>1. PICK x \in Frames : free_frames[x] # 1
      BY <1>8 DEF LoadInFreeFrame, ScanStopsAt
    <2>2. Paged!InMemory(r) < F
      BY <1>7, <2>1, MemoryBound, SameCount
    <2>3. \A q \in Procs : Resident(q)' = IF q = p THEN Resident(p) \cup {g} ELSE Resident(q)
      <3>1. \A q \in Procs, h \in Pages :
              valid_bit'[q][h] = IF q = p /\ h = g THEN 1 ELSE valid_bit[q][h]
        BY <1>8, CountersTyped DEF LoadInFreeFrame
      <3>2. QED BY <1>1, <3>1 DEF Resident
    <2>4. r' = [r EXCEPT ![p] = @ \cup {g}]
      BY <2>3
    <2>5. QED
      BY <1>1, <1>3, <1>5, <1>6, <2>2, <2>4 DEF Paged!PageIn, Paged!Done, Phase, NextPage
  <1>9. CASE ReplaceOwnPage(p, g)
    <2>1. PICK v \in Pages :
            /\ IsMaxLru(p, v)
            /\ valid_bit' = [valid_bit EXCEPT ![p] = [@ EXCEPT ![v] = 0, ![g] = 1]]
      BY <1>9 DEF ReplaceOwnPage
    <2>2. Paged!InMemory(r) = F
      <3>1. \A x \in Frames : x \in 0 .. F-1 /\ free_frames[x] = 1
        BY <1>9, PagingAssumption DEF ReplaceOwnPage, ScanStopsAt, Frames
      <3>2. \A x \in Frames : \E q \in Procs, h \in Pages : h \in Resident(q) /\ frame[q][h] = x
        BY <1>7, <3>1 DEF ReportInv, MappedInv
      <3>3. QED BY <1>7, <3>2, MemoryBound, SameCount
    <2>3. v \in Resident(p)
      BY <2>1 DEF IsMaxLru
    <2>4. \A q \in Procs : Resident(q)' = IF q = p THEN (Resident(p) \ {v}) \cup {g} ELSE Resident(q)
      <3>1. \A q \in Procs, h \in Pages :
              valid_bit'[q][h] = IF q = p /\ h = g THEN 1
                                 ELSE IF q = p /\ h = v THEN 0 ELSE valid_bit[q][h]
        BY <2>1, CountersTyped
      <3>2. QED BY <1>1, <3>1 DEF Resident
    <2>5. r' = [r EXCEPT ![p] = (@ \ {v}) \cup {g}]
      BY <2>4
    <2>6. QED
      BY <1>1, <1>3, <1>5, <1>6, <2>2, <2>3, <2>5 DEF Paged!PageIn, Paged!Done, Phase, NextPage
  <1>10. QED BY <1>8, <1>9 DEF MMUFault

\* What the MMU gives back is what a process leaves that has come to its end.
LEMMA LeaveStep ==
  ASSUME IInv, OneTurn, ReportInv, EndInv, ipc, mpc # "sigfpe", mmu_pc # "unborn",
         NEW p \in Procs, Leaving(p), Release(p), UNCHANGED <<mpc, ref_str, ref_idx, pages_upto>>
  PROVE  Paged!Leave(p)
  <1>1. Open(p) /\ Gone(p)
    BY DEF Open, OneTurn, LiveInv
  <1>2. Phase = "run" /\ Phase' = Phase
    BY <1>1, StillRuns DEF Phase, Reporting
  <1>3. Finished(p)
    BY <1>1 DEF EndInv
  <1>4. /\ Resident(p)' = {} /\ size' = size
        /\ \A q \in Procs : q # p => Resident(q)' = Resident(q)
    <2>1. TableInv /\ mpc \notin {"sizes", "illegal", "grant"}
      BY ForkedMMULate DEF IInv, TypeOK, TableInv
    <2>2. QED BY <2>1, ReleaseMaps DEF ReportInv, Release
  <1>5. QED
    BY <1>2, <1>3, <1>4 DEF Paged!Leave, Paged!Done, Phase, Finished, NextPage

\* Master has drawn a page for each of its frames, once it has drawn all.
DrawnEnough == mpc \notin {"sizes", "illegal"} => Enough

\* Every step is a step of PagedExecution or none of it.
LEMMA StepImplements ==
  Timed /\ IInv /\ OneTurn /\ ReportInv /\ (ipc => EndInv) /\ DrawnEnough /\ IInv' /\ [Next]_vars
    => [Paged!AbsNext]_(Paged!absVars)
  <1> SUFFICES ASSUME Timed, IInv, OneTurn, ReportInv, ipc => EndInv, DrawnEnough, IInv', [Next]_vars
               PROVE  Paged!AbsNext \/ UNCHANGED Paged!absVars
    OBVIOUS
  <1>1. CASE mpc \in {"done", "killed", "sigfpe"}
    <2>1. mpc' = mpc
      BY <1>1, EndedStays
    <2>2. Phase = "over" /\ Phase' = "over"
      BY <1>1, <2>1 DEF Phase, Reporting
    <2>3. Paged!AfterStop
      BY <2>2 DEF Paged!AfterStop, Phase
    <2>4. QED BY <2>3 DEF Paged!AbsNext
  <1>2. CASE mpc \notin {"done", "killed", "sigfpe"}
    <2> ipc /\ EndInv /\ TurnsInv /\ LiveInv /\ mpc # "sigfpe"
      BY <1>2 DEF OneTurn
    <2>1. ASSUME UNCHANGED <<size, valid_bit, ref_str, ref_idx, mpc>> PROVE UNCHANGED Paged!absVars
      <3>1. Phase' = Phase
        BY <2>1 DEF Phase, Reporting
      <3>2. QED BY <2>1, <3>1, Unseen
    <2>2. CASE Master \/ Interrupt
      <3>1. ASSUME mpc' \in {"done", "killed", "sigfpe"} PROVE Paged!AbsNext
        <4>1. Phase # "over" /\ Phase' = "over"
          BY <1>2, <3>1 DEF Phase, Reporting, IInv, TypeOK, MasterTypeOK
        <4>2. QED BY <4>1 DEF Paged!AbsNext, Paged!Stop, Phase
      <3>2. CASE Interrupt \/ Cleanup
        BY <3>1, <3>2 DEF Interrupt, Cleanup
      <3>3. CASE ChooseTable \/ AddIllegalPage \/ AllocateFrames \/ ForkScheduler \/ ForkMMU
        <4>1. /\ mpc \in {"sizes", "illegal", "grant", "fork_sched", "fork_mmu"}
              /\ mpc' \in {"sizes", "illegal", "grant", "fork_sched", "fork_mmu", "fork_procs", "sigfpe"}
              /\ ref_idx' = ref_idx
          BY <3>3 DEF ChooseTable, AddIllegalPage, AllocateFrames, ForkScheduler, ForkMMU, Advance, procVars
        <4>2. CASE mpc' # "sigfpe"
          <5>1. Phase = "setup" /\ Phase' \in {"setup", "run"}
            BY <4>1, <4>2 DEF Phase, Reporting
          <5>2. QED BY <4>1, <5>1, PrepareStep DEF Paged!AbsNext
        <4>3. QED BY <3>1, <4>2
      <3>4. CASE ForkProcess \/ KillMMU \/ Reorder
        <4>1. UNCHANGED <<size, valid_bit, ref_str, ref_idx>>
          BY <3>4 DEF ForkProcess, KillMMU, Reorder, tableVars, procVars
        <4>2. Phase' = Phase
          BY <3>4 DEF ForkProcess, KillMMU, Reorder, Advance, Phase, Reporting
        <4>3. QED BY <4>1, <4>2, Unseen
      <3>5. CASE WaitForScheduler
        <4>1. sem1 > 0 /\ spc = "done" /\ UNCHANGED <<size, valid_bit, ref_str, ref_idx>>
          BY <3>5 DEF WaitForScheduler, LiveInv, tableVars, procVars
        <4>2. Phase = "run" /\ Phase' = "reported"
          BY <3>5 DEF WaitForScheduler, Phase, Reporting
        <4>3. \A p \in Procs : Gone(p) /\ ~Open(p)
          BY <4>1, AllGone DEF Open
        <4>4. \A p \in Procs : Finished(p) /\ Resident(p) = {} /\ Resident(p)' = Resident(p)
          BY <4>1, <4>3 DEF EndInv, ReportInv, ReleasedInv, Resident
        <4>5. Paged!Report
          BY <4>1, <4>2, <4>4 DEF Paged!Report, Paged!Done, Phase, Finished, NextPage
        <4>6. QED BY <4>5 DEF Paged!AbsNext
      <3>6. QED BY <2>2, <3>2, <3>3, <3>4, <3>5 DEF Master
    <2>3. CASE Scheduler \/ MMUDie \/ UNCHANGED vars
      BY <2>1, <2>3 DEF Scheduler, Dispatch, ReceiveFromMMU, SignalMaster, MMUDie, vars, tableVars, masterVars,
         procVars
    <2>4. ASSUME NEW p \in Procs, Process(p) PROVE Paged!AbsNext \/ UNCHANGED Paged!absVars
      <3>1. CASE ref_idx' = ref_idx
        BY <2>1, <2>4, <3>1 DEF Process, Enqueue, AwaitTurn, Request, Receive, Quit, tableVars, masterVars
      <3>2. CASE ref_idx' # ref_idx
        <4>1. Receive(p)
          BY <2>4, <3>2 DEF Process, Enqueue, AwaitTurn, Request, Quit
        <4>2. Paged!Serve(p)
          BY <3>2, <4>1, ServeStep
        <4>3. QED BY <4>2 DEF Paged!AbsNext
      <3>3. QED BY <3>1, <3>2
    <2>5. CASE MMU
      <3>1. ASSUME NEW p \in Procs, MMUTerminate(p) PROVE Paged!AbsNext
        <4>1. Incoming(p, QUIT) /\ Release(p) /\ UNCHANGED <<mpc, ref_str, ref_idx, pages_upto>>
          BY <3>1 DEF MMUTerminate, masterVars, procVars
        <4>2. mmu_pc # "unborn" /\ Leaving(p)
          BY <4>1, RequestTaken DEF Leaving
        <4>3. QED BY <4>1, <4>2, LeaveStep DEF Paged!AbsNext
      <3>2. CASE MMUFreeInvalid
        <4>1. PICK p \in Procs : p = mmu_pid
          BY QueuesTyped
        <4>2. mmu_pc # "unborn" /\ Leaving(p) /\ Release(p) /\ UNCHANGED <<mpc, ref_str, ref_idx, pages_upto>>
          BY <3>2, <4>1 DEF MMUFreeInvalid, Leaving, masterVars, procVars
        <4>3. QED BY <4>2, LeaveStep DEF Paged!AbsNext
      <3>3. ASSUME NEW p \in Procs, NEW g \in Pages, MMUFault(p, g)
            PROVE  Paged!AbsNext \/ UNCHANGED Paged!absVars
        <4>1. CASE NoFrameForFault(p, g)
          BY <2>1, <3>3, <4>1 DEF NoFrameForFault, MMUFault, tableVars, masterVars, procVars
        <4>2. CASE ~NoFrameForFault(p, g)
          BY <3>3, <4>2, PageInStep DEF DrawnEnough, Paged!AbsNext
        <4>3. QED BY <4>1, <4>2
      <3>4. CASE MMUFaultHandled
        BY <2>1, <3>4 DEF MMUFaultHandled, tableVars, masterVars, procVars
      <3>5. ASSUME NEW p \in Procs, NEW g \in Pages, MMUHit(p, g) \/ MMUInvalid(p, g)
            PROVE  UNCHANGED Paged!absVars
        BY <2>1, <3>5 DEF MMUHit, MMUInvalid, Touch, tableVars, masterVars, procVars
      <3>6. QED BY <2>5, <3>1, <3>2, <3>3, <3>4, <3>5 DEF MMU
    <2>6. QED BY <2>2, <2>3, <2>4, <2>5 DEF Next
  <1>3. QED BY <1>1, <1>2

LEMMA InitImplements == Init => EndInv /\ Paged!AbsInit
  <1> SUFFICES ASSUME Init PROVE EndInv /\ Paged!AbsInit
    OBVIOUS
  <1>1. EndInv
    BY DEF Init, EndInv, Gone, ToldInvalid, HitPending
  <1>2. \A p \in Procs : Resident(p) = {}
    BY DEF Init, TableInit, Resident
  <1>3. Phase = "setup"
    BY DEF Init, Phase, Reporting
  <1>4. QED BY <1>1, <1>2, <1>3 DEF Init, Paged!AbsInit, Phase

\* With the Scheduler's timing, for any number of processes, frames and pages
\* and any strings: if Master draws a page for each of its frames, the five
\* kinds of process together are a PagedExecution (all of Assignment8).
THEOREM ImplementsPagedExecution == Timed => (Spec /\ []DrawnEnough => ServesPages)
  <1> SUFFICES ASSUME Timed PROVE Spec /\ []DrawnEnough => ServesPages
    OBVIOUS
  <1>1. Init => IInv /\ OneTurn /\ ReportInv /\ (ipc => EndInv) /\ Paged!AbsInit
    BY InitIInv, InitTurns, InitReport, InitImplements
  <1>2. IInv /\ OneTurn /\ ReportInv /\ (ipc => EndInv) /\ IInv' /\ [Next]_vars
          => OneTurn' /\ ReportInv' /\ (ipc => EndInv)'
    <2>1. IInv /\ OneTurn /\ [Next]_vars /\ ipc' => ipc
      BY RemovedTurns
    <2>2. QED BY <2>1, OneTurnStep, ReportStep, EndStep
  <1>3. IInv /\ OneTurn /\ ReportInv /\ (ipc => EndInv) /\ DrawnEnough /\ IInv' /\ [Next]_vars
          => [Paged!AbsNext]_(Paged!absVars)
    BY StepImplements
  <1>4. QED BY <1>1, <1>2, <1>3, IInvInvariant, PTL DEF Spec, ServesPages, Paged!AbsSpec

-----------------------------------------------------------------------------
(***************************************************************************)
(* The turn is never lost.                                                 *)
(***************************************************************************)

\* Somebody has the turn or is about to give it back to the Scheduler.
TurnHeld ==
  \/ \E p \in Procs : sem2[p] > 0
  \/ \E p \in Procs : ppc[p] \in {"request", "quit"}
  \/ mq3_req # <<>>
  \/ mq3_resp # <<>> /\ Head(mq3_resp).frame \notin {FAULT, INVALID}
  \/ ~MMUIdle
  \/ mq2 # <<>>

HeldInv == spc = "mq2" => TurnHeld

\* Whoever awaits its turn is in the ready queue or has been signalled.
AwaitInv == \A p \in Procs :
  ppc[p] = "await" => sem2[p] > 0 \/ \E i \in 1 .. Len(mq1) : mq1[i] = p

\* The Scheduler goes on while somebody is left, and then tells Master.
CountInv ==
  /\ spc \in {"unborn", "ready"} => k_left > 0
  /\ spc = "done" => sem1 > 0 \/ Reporting

\* By the time Master waits everybody has been forked, and the MMU is not told
\* to die before Master reports.
BornInv ==
  /\ mpc \in {"fork_sched", "fork_mmu"} => mi = 0
  /\ mpc \in {"fork_mmu", "fork_procs", "wait"} => spc # "unborn"
  /\ mpc \in {"fork_procs", "wait"} => mmu_pc \notin {"unborn", "dead"}
  /\ mpc = "fork_procs" => \A p \in Procs : p < mi => ppc[p] # "unborn"
  /\ mpc = "wait" => \A p \in Procs : ppc[p] # "unborn"

RoundInv == ipc => HeldInv /\ AwaitInv /\ CountInv /\ BornInv

\* When the system call that each of them is at can return.
MasterMayGo == sem1 > 0
SchedulerMayGo == \/ spc = "ready" /\ mq1 # <<>> /\ RepliesDelivered
                  \/ spc = "mq2" /\ mq2 # <<>>
                  \/ spc = "signal"
ProcessMayGo(p) == \/ ppc[p] = "enqueue" /\ Len(mq1) < QueueCap
                   \/ ppc[p] = "await" /\ sem2[p] > 0
                   \/ ppc[p] \in {"request", "quit"}
                   \/ ppc[p] = "receive" /\ mq3_resp # <<>>
MMUMayGo == Len(mq2) < QueueCap /\ ((mmu_pc = "recv" /\ mq3_req # <<>>) \/ ~MMUIdle)

LEMMA AppendNotEmpty ==
  ASSUME NEW S, NEW s \in Seq(S), NEW r
  PROVE  Append(s, r) # <<>>
<1>1. Len(Append(s, r)) = Len(s) + 1 /\ Len(s) \in Nat
  OBVIOUS
<1>2. Len(<<>>) = 0
  OBVIOUS
<1> QED
  BY <1>1, <1>2

\* Each step of the turn's way leaves it with the next.
LEMMA HeldStep ==
  ASSUME Timed, IInv, OneTurn, ipc, ipc', HeldInv, [Next]_vars
  PROVE  HeldInv'
<1>0. TurnsInv /\ LiveInv
  BY DEF OneTurn
<1>1. SUFFICES ASSUME spc' = "mq2" PROVE TurnHeld'
  BY DEF HeldInv
<1>2. CASE Dispatch
  <2>1. Head(mq1) \in Procs /\ sem2' = [sem2 EXCEPT ![Head(mq1)] = sem2[Head(mq1)] + 1]
    BY <1>2, QueuesTyped, HeadTailProperties DEF Timed, Dispatch, SemsUsable
  <2>2. sem2'[Head(mq1)] > 0
    BY <2>1, QueuesTyped
  <2> QED
    BY <2>1, <2>2 DEF TurnHeld
<1>3. CASE ReceiveFromMMU \/ SignalMaster
  BY <1>1, <1>3 DEF ReceiveFromMMU, SignalMaster
<1>4. ASSUME NEW p \in Procs, Process(p)
      PROVE  TurnHeld'
  <2>0. TurnHeld /\ UNCHANGED <<mq2, mmu_pc>>
    BY <1>1, <1>4 DEF HeldInv, Process, Enqueue, AwaitTurn, Request, Receive, Quit, schedVars, mmuVars,
       queueVars
  <2>1. CASE Enqueue(p)
    <3>1. UNCHANGED <<sem2, mq3_req, mq3_resp>> /\ ppc[p] = "enqueue"
      BY <2>1 DEF Enqueue, semVars
    <3>2. \A q \in Procs : ppc[q] \in {"request", "quit"} => ppc'[q] = ppc[q]
      BY <2>1, <3>1, QueuesTyped DEF Enqueue
    <3> QED
      BY <2>0, <3>1, <3>2 DEF TurnHeld, MMUIdle
  <2>2. CASE AwaitTurn(p)
    <3>1. ppc'[p] = "request"
      BY <2>2, QueuesTyped DEF AwaitTurn
    <3> QED
      BY <3>1 DEF TurnHeld
  <2>3. CASE Request(p) \/ Quit(p)
    <3>1. \E r : mq3_req' = Append(mq3_req, r)
      BY <2>3 DEF Request, Quit
    <3>2. mq3_req' # <<>>
      BY <3>1, QueuesTyped, AppendNotEmpty
    <3> QED
      BY <3>2 DEF TurnHeld
  <2>4. CASE Receive(p)
    <3>1. UNCHANGED <<sem2, mq3_req>> /\ ppc[p] = "receive" /\ Obey(p, Head(mq3_resp).frame)
      BY <2>4 DEF Receive, semVars
    <3>2. CASE Head(mq3_resp).frame \in {FAULT, INVALID}
      <4>1. \A q \in Procs : ppc[q] \in {"request", "quit"} => ppc'[q] = ppc[q]
        BY <3>1, <3>2, QueuesTyped DEF Obey
      <4> QED
        BY <2>0, <3>1, <3>2, <4>1 DEF TurnHeld, MMUIdle
    <3>3. CASE Head(mq3_resp).frame \notin {FAULT, INVALID}
      <4>1. ppc'[p] \in {"request", "quit"}
        BY <3>1, <3>3, QueuesTyped DEF Obey
      <4> QED
        BY <4>1 DEF TurnHeld
    <3> QED
      BY <3>2, <3>3
  <2> QED
    BY <1>4, <2>1, <2>2, <2>3, <2>4 DEF Process
<1>5. CASE MMU
  <2>1. ASSUME NEW p \in Procs, MMUTerminate(p) PROVE TurnHeld'
    <3>1. \E r : mq2' = Append(mq2, r)
      BY <2>1 DEF MMUTerminate, TellScheduler
    <3>2. mq2' # <<>>
      BY <3>1, QueuesTyped, AppendNotEmpty
    <3> QED
      BY <3>2 DEF TurnHeld
  <2>2. CASE MMUFreeInvalid \/ MMUFaultHandled
    <3>1. \E r : mq2' = Append(mq2, r)
      BY <2>2 DEF MMUFreeInvalid, MMUFaultHandled, TellScheduler
    <3>2. mq2' # <<>>
      BY <3>1, QueuesTyped, AppendNotEmpty
    <3> QED
      BY <3>2 DEF TurnHeld
  <2>3. ASSUME NEW p \in Procs, NEW g \in Pages, MMUInvalid(p, g) \/ MMUFault(p, g) PROVE TurnHeld'
    <3>1. mmu_pc' \in {"invalid", "fault"}
      BY <2>3 DEF MMUInvalid, MMUFault
    <3> QED
      BY <3>1 DEF TurnHeld, MMUIdle
  <2>4. ASSUME NEW p \in Procs, NEW g \in Pages, MMUHit(p, g) PROVE TurnHeld'
    <3>1. mq3_resp = <<>>
      BY <1>0, <2>4 DEF MMUHit, Incoming, TurnsInv, RequestInv
    <3>2. mq3_resp' = Append(<<>>, [pid |-> p, page |-> g, frame |-> frame[p][g]])
      BY <2>4, <3>1 DEF MMUHit, Reply
    <3>3. frame[p][g] \notin {FAULT, INVALID}
      <4>1. frame[p][g] \in Frames
        BY <2>4 DEF MMUHit, Touch, IInv, FramesExclusive
      <4> QED
        BY <4>1, PagingAssumption DEF Frames, FAULT, INVALID
    <3>4. mq3_resp' # <<>> /\ Head(mq3_resp').frame = frame[p][g]
      BY <3>2
    <3> QED
      BY <3>3, <3>4 DEF TurnHeld
  <2> QED
    BY <1>5, <2>1, <2>2, <2>3, <2>4 DEF MMU
<1>6. CASE Master \/ MMUDie \/ UNCHANGED vars
  <2>1. ~Cleanup
    BY DEF Cleanup, RemoveQueues
  <2>2. spc = "mq2"
    BY <1>1, <1>6, <2>1 DEF Master, ChooseTable, AddIllegalPage, AllocateFrames, ForkScheduler, ForkMMU,
       ForkProcess, WaitForScheduler, KillMMU, Reorder, MMUDie, schedVars, vars
  <2>3. TurnHeld /\ mpc \notin Setup \ {"fork_mmu"} /\ ~Reporting /\ ipc
    BY <1>0, <2>2 DEF HeldInv, IInv, InString, LiveInv
  <2>4. ~MMUDie
    BY <2>3 DEF MMUDie, Reporting, OneTurn
  <2>5. CASE ForkProcess
    <3>1. UNCHANGED <<sem2, mq2, mq3_req, mq3_resp, mmu_pc>> /\ mpc = "fork_procs"
          /\ ppc' = [ppc EXCEPT ![mi] = "enqueue"]
      BY <2>5 DEF ForkProcess, semVars, queueVars, mmuVars
    <3>2. ppc[mi] = "unborn"
      <4>1. mi \in Procs /\ mi >= mi
        BY QueuesTyped, PagingAssumption DEF Procs
      <4> QED
        BY <3>1, <4>1 DEF IInv, InString
    <3>3. \A q \in Procs : ppc[q] \in {"request", "quit"} => ppc'[q] = ppc[q]
      BY <3>1, <3>2, QueuesTyped
    <3> QED
      BY <2>3, <3>1, <3>3 DEF TurnHeld, MMUIdle
  <2>6. CASE ForkMMU
    <3>1. UNCHANGED <<sem2, mq2, mq3_req, mq3_resp, ppc>> /\ mpc = "fork_mmu"
      BY <2>6 DEF ForkMMU, semVars, queueVars, procVars
    <3>2. MMUIdle
      BY <3>1 DEF IInv, InString, Setup, MMUIdle
    <3> QED
      BY <2>3, <3>1, <3>2 DEF TurnHeld
  <2>7. CASE UNCHANGED vars \/ WaitForScheduler
    <3>1. UNCHANGED <<sem2, mq2, mq3_req, mq3_resp, mmu_pc, ppc>>
      BY <2>7 DEF vars, WaitForScheduler, semVars, queueVars, mmuVars, procVars
    <3> QED
      BY <2>3, <3>1 DEF TurnHeld, MMUIdle
  <2>8. ASSUME Master, ~ForkProcess, ~ForkMMU, ~WaitForScheduler PROVE FALSE
    BY <2>1, <2>3, <2>8, <1>1, <2>2 DEF Master, Setup, Reporting, ChooseTable, AddIllegalPage, AllocateFrames,
       ForkScheduler, KillMMU, Reorder
  <2> QED
    BY <1>6, <2>4, <2>5, <2>6, <2>7, <2>8
<1>7. ~Interrupt
  BY DEF Interrupt, RemoveQueues
<1> QED
  BY <1>2, <1>3, <1>4, <1>5, <1>6, <1>7 DEF Next, Scheduler

\* Who awaits its turn stays in the queue until it is signalled.
LEMMA AwaitStep ==
  ASSUME Timed, IInv, ipc, ipc', AwaitInv, [Next]_vars
  PROVE  AwaitInv'
<1>1. CASE Dispatch
  <2>1. /\ mq1 # <<>> /\ mq1' = Tail(mq1) /\ ppc' = ppc
        /\ sem2' = [sem2 EXCEPT ![Head(mq1)] = sem2[Head(mq1)] + 1]
    BY <1>1 DEF Timed, Dispatch, SemsUsable, procVars
  <2>2. /\ Len(mq1) \in Nat /\ Head(mq1) = mq1[1] /\ mq1[1] \in Procs /\ Len(mq1') = Len(mq1) - 1
        /\ \A i \in 1 .. Len(mq1') : mq1'[i] = mq1[i+1]
    BY <2>1, QueuesTyped, HeadTailProperties, LenProperties
  <2>3. \A p \in Procs : sem2'[p] = IF p = mq1[1] THEN sem2[p] + 1 ELSE sem2[p]
    BY <2>1, <2>2, QueuesTyped
  <2>4. ASSUME NEW p \in Procs, ppc'[p] = "await", ~(sem2'[p] > 0)
        PROVE  \E i \in 1 .. Len(mq1') : mq1'[i] = p
    <3>1. ~(sem2[p] > 0) /\ p # mq1[1]
      <4>1. sem2[p] \in Nat
        BY QueuesTyped
      <4> QED
        BY <2>3, <2>4, <4>1
    <3>2. PICK i \in 1 .. Len(mq1) : mq1[i] = p
      BY <2>1, <2>4, <3>1 DEF AwaitInv
    <3>3. i - 1 \in 1 .. Len(mq1') /\ (i - 1) + 1 = i
      BY <2>2, <3>1, <3>2
    <3> QED
      BY <2>2, <3>2, <3>3
  <2> QED
    BY <2>4 DEF AwaitInv
<1>2. ASSUME NEW p \in Procs, Enqueue(p) PROVE AwaitInv'
  <2>1. /\ mq1' = Append(mq1, p) /\ ppc' = [ppc EXCEPT ![p] = "await"] /\ sem2' = sem2
    BY <1>2 DEF Enqueue, semVars
  <2>2. /\ Len(mq1) \in Nat /\ Len(mq1') = Len(mq1) + 1
        /\ \A i \in 1 .. Len(mq1) : mq1'[i] = mq1[i]
        /\ mq1'[Len(mq1) + 1] = p
    BY <2>1, QueuesTyped, AppendProperties, LenProperties
  <2>3. \A q \in Procs : q # p => ppc'[q] = ppc[q]
    BY <2>1, QueuesTyped
  <2>4. Len(mq1) + 1 \in 1 .. Len(mq1') /\ \A i \in 1 .. Len(mq1) : i \in 1 .. Len(mq1')
    BY <2>2
  <2>5. \E i \in 1 .. Len(mq1') : mq1'[i] = p
    BY <2>2, <2>4
  <2>6. ASSUME NEW q \in Procs, q # p, ppc'[q] = "await", ~(sem2'[q] > 0)
        PROVE  \E i \in 1 .. Len(mq1') : mq1'[i] = q
    <3>1. PICK i \in 1 .. Len(mq1) : mq1[i] = q
      BY <2>1, <2>3, <2>6 DEF AwaitInv
    <3> QED
      BY <2>2, <2>4, <3>1
  <2> QED
    BY <2>5, <2>6 DEF AwaitInv
<1>3. ASSUME NEW p \in Procs, AwaitTurn(p) \/ Request(p) \/ Receive(p) \/ Quit(p) PROVE AwaitInv'
  <2>1. /\ mq1' = mq1 /\ \A q \in Procs \ {p} : ppc'[q] = ppc[q] /\ sem2'[q] = sem2[q]
        /\ ppc'[p] # "await"
    BY <1>3, QueuesTyped DEF AwaitTurn, Request, Receive, Quit, Obey, semVars, queueVars
  <2> QED
    BY <2>1 DEF AwaitInv
<1>4. CASE ForkProcess
  <2>1. /\ UNCHANGED <<mq1, sem2>> /\ ppc' = [ppc EXCEPT ![mi] = "enqueue"]
    BY <1>4 DEF ForkProcess, semVars, queueVars
  <2>2. \A q \in Procs : ppc'[q] = "await" => ppc[q] = "await"
    BY <2>1, QueuesTyped
  <2> QED
    BY <2>1, <2>2 DEF AwaitInv
<1>5. CASE MMU \/ MMUDie \/ ReceiveFromMMU \/ SignalMaster \/ (Master /\ ~ForkProcess)
  <2>1. ~Cleanup
    BY DEF Cleanup, RemoveQueues
  <2>2. UNCHANGED <<mq1, sem2, ppc>>
    BY <1>5, <2>1 DEF MMU, MMUTerminate, MMUInvalid, MMUHit, MMUFault, MMUFreeInvalid, MMUFaultHandled,
       MMUDie, ReceiveFromMMU, SignalMaster, Master, ChooseTable, AddIllegalPage, AllocateFrames,
       ForkScheduler, ForkMMU, WaitForScheduler, KillMMU, Reorder, semVars, queueVars, procVars
  <2> QED
    BY <2>2 DEF AwaitInv
<1>6. ~Interrupt
  BY DEF Interrupt, RemoveQueues
<1>7. CASE UNCHANGED vars
  BY <1>7 DEF vars, queueVars, semVars, procVars, AwaitInv
<1> QED
  BY <1>1, <1>2, <1>3, <1>4, <1>5, <1>6, <1>7 DEF Next, Process, Scheduler

LEMMA CountStep ==
  ASSUME IInv, OneTurn, ipc, ipc', CountInv, [Next]_vars
  PROVE  CountInv'
<1>0. sem1 \in Nat /\ ~Interrupt /\ ~Cleanup
  BY DEF IInv, TypeOK, MessageTypeOK, Interrupt, Cleanup, RemoveQueues
<1>1. CASE Dispatch
  BY <1>1 DEF Dispatch, CountInv
<1>2. CASE ReceiveFromMMU
  BY <1>2 DEF ReceiveFromMMU, CountInv
<1>3. CASE SignalMaster
  <2>1. spc' = "done" /\ sem1' > 0
    BY <1>0, <1>3 DEF SignalMaster
  <2> QED
    BY <2>1 DEF CountInv
<1>4. CASE ForkScheduler
  <2>1. mpc = "fork_sched" /\ spc' = "ready" /\ k_left' = k_left
    BY <1>4 DEF ForkScheduler
  <2>2. spc = "unborn"
    BY <2>1 DEF IInv, InString, Setup
  <2> QED
    BY <2>1, <2>2 DEF CountInv
<1>5. CASE WaitForScheduler \/ KillMMU \/ Reorder
  <2>1. UNCHANGED <<spc, k_left>> /\ Reporting'
    BY <1>5 DEF WaitForScheduler, KillMMU, Reorder, Reporting, schedVars
  <2> QED
    BY <2>1 DEF CountInv
<1>6. CASE UNCHANGED <<spc, k_left, sem1>> /\ (Reporting => Reporting')
  BY <1>6 DEF CountInv
<1>7. (\E p \in Procs : Process(p)) \/ MMU \/ MMUDie \/ UNCHANGED vars
        => UNCHANGED <<spc, k_left, sem1, mpc>>
  BY DEF Process, Enqueue, AwaitTurn, Request, Receive, Quit, MMU, MMUTerminate, MMUInvalid, MMUHit,
     MMUFault, MMUFreeInvalid, MMUFaultHandled, MMUDie, vars, schedVars, semVars, masterVars
<1>8. ChooseTable \/ AddIllegalPage \/ AllocateFrames \/ ForkMMU \/ ForkProcess
        => UNCHANGED <<spc, k_left, sem1>> /\ ~Reporting
  BY DEF ChooseTable, AddIllegalPage, AllocateFrames, ForkMMU, ForkProcess, Reporting, schedVars, semVars
<1>9. UNCHANGED mpc => (Reporting => Reporting')
  BY DEF Reporting
<1> QED
  BY <1>0, <1>1, <1>2, <1>3, <1>4, <1>5, <1>6, <1>7, <1>8, <1>9 DEF Next, Scheduler, Master

\* Nobody is unborn again.
LEMMA BornStep ==
  ASSUME IInv, ipc, ipc', BornInv, [Next]_vars
  PROVE  BornInv'
<1>0. ~Interrupt /\ ~Cleanup
  BY DEF Interrupt, Cleanup, RemoveQueues
<1>1. CASE ForkScheduler
  <2>1. mpc = "fork_sched" /\ mpc' = "fork_mmu" /\ spc' = "ready" /\ mi' = mi
    BY <1>1 DEF ForkScheduler
  <2> QED
    BY <2>1 DEF BornInv
<1>2. CASE ForkMMU
  <2>1. mpc = "fork_mmu" /\ mpc' = "fork_procs" /\ mmu_pc' = "recv" /\ UNCHANGED <<spc, ppc, mi>>
    BY <1>2 DEF ForkMMU, schedVars, procVars
  <2>2. mi = 0
    BY <2>1 DEF BornInv
  <2>3. \A p \in Procs : ~(p < 0)
    BY PagingAssumption DEF Procs
  <2> QED
    BY <2>1, <2>2, <2>3 DEF BornInv
<1>3. CASE ForkProcess
  <2>1. /\ mpc = "fork_procs" /\ ppc' = [ppc EXCEPT ![mi] = "enqueue"]
        /\ UNCHANGED <<spc, mmu_pc>>
        /\ (mpc' = "fork_procs" /\ mi' = mi + 1) \/ (mpc' = "wait" /\ ~(mi + 1 < K))
    BY <1>3 DEF ForkProcess, Advance, schedVars, mmuVars
  <2>2. \A p \in Procs : ppc'[p] = IF p = mi THEN "enqueue" ELSE ppc[p]
    BY <2>1, QueuesTyped
  <2>3. \A p \in Procs : p < mi + 1 => ppc'[p] # "unborn"
    <3>1. \A p \in Procs : p < mi + 1 => p < mi \/ p = mi
      BY QueuesTyped, PagingAssumption DEF Procs
    <3> QED
      BY <2>1, <2>2, <3>1 DEF BornInv
  <2>4. ~(mi + 1 < K) => \A p \in Procs : p < mi + 1
    BY QueuesTyped, PagingAssumption DEF Procs
  <2> QED
    BY <2>1, <2>3, <2>4 DEF BornInv
<1>4. CASE ChooseTable \/ AddIllegalPage \/ AllocateFrames
  <2>1. /\ mpc' \in {"sizes", "illegal", "grant", "sigfpe", "fork_sched"}
        /\ mpc' = "fork_sched" => mi' = 0
    BY <1>4 DEF ChooseTable, AddIllegalPage, AllocateFrames, Advance
  <2> QED
    BY <2>1 DEF BornInv
<1>5. CASE WaitForScheduler \/ KillMMU \/ Reorder
  <2>1. mpc' \in {"kill", "reorder", "cleanup"}
    BY <1>5 DEF WaitForScheduler, KillMMU, Reorder
  <2> QED
    BY <2>1 DEF BornInv
<1>6. ASSUME UNCHANGED <<mpc, mi>>, spc # "unborn" => spc' # "unborn",
             mpc \in {"fork_procs", "wait"} /\ mmu_pc \notin {"unborn", "dead"}
               => mmu_pc' \notin {"unborn", "dead"},
             \A p \in Procs : ppc[p] # "unborn" => ppc'[p] # "unborn"
      PROVE  BornInv'
  BY <1>6 DEF BornInv
<1>7. CASE Scheduler
  <2>1. UNCHANGED <<mpc, mi, mmu_pc, ppc>> /\ spc' # "unborn"
    BY <1>7 DEF Scheduler, Dispatch, ReceiveFromMMU, SignalMaster, masterVars, mmuVars, procVars
  <2> QED
    BY <1>6, <2>1
<1>8. ASSUME NEW p \in Procs, Process(p) PROVE BornInv'
  <2>1. UNCHANGED <<mpc, mi, mmu_pc, spc>>
    BY <1>8 DEF Process, Enqueue, AwaitTurn, Request, Receive, Quit, masterVars, mmuVars, schedVars
  <2>2. \A q \in Procs : ppc'[q] = ppc[q] \/ ppc'[q] # "unborn"
    BY <1>8, QueuesTyped DEF Process, Enqueue, AwaitTurn, Request, Receive, Quit, Obey
  <2> QED
    BY <1>6, <2>1, <2>2
<1>9. CASE MMU \/ MMUDie \/ UNCHANGED vars
  <2>1. UNCHANGED <<mpc, mi, spc, ppc>>
    BY <1>9 DEF MMU, MMUTerminate, MMUInvalid, MMUHit, MMUFault, MMUFreeInvalid, MMUFaultHandled,
       MMUDie, vars, masterVars, schedVars, procVars
  <2>2. mmu_pc' \in {mmu_pc, "invalid", "fault", "recv"} \/ MMUDie
    BY <1>9 DEF MMU, MMUTerminate, MMUInvalid, MMUHit, MMUFault, MMUFreeInvalid, MMUFaultHandled,
       vars, mmuVars
  <2>3. MMUDie => mpc \notin {"fork_procs", "wait"}
    BY DEF MMUDie
  <2> QED
    BY <1>6, <2>1, <2>2, <2>3
<1> QED
  BY <1>0, <1>1, <1>2, <1>3, <1>4, <1>5, <1>7, <1>8, <1>9 DEF Next, Master

LEMMA InitRound == Init => RoundInv
<1> SUFFICES ASSUME Init PROVE RoundInv
  OBVIOUS
<1>1. HeldInv /\ AwaitInv
  BY DEF Init, HeldInv, AwaitInv
<1>2. CountInv /\ BornInv
  BY PagingAssumption DEF Init, CountInv, BornInv
<1> QED
  BY <1>1, <1>2 DEF RoundInv

\* A Scheduler that waits for the ready queue has somebody to wait for.
LEMMA SomebodyLeft ==
  ASSUME LiveInv, k_left > 0
  PROVE  \E p \in Procs : Open(p)
<1>1. Cardinality(Counted) > 0
  BY DEF LiveInv
<1>2. Counted # {}
  <2>1. Counted = {} => Cardinality(Counted) = 0
    BY FS_EmptySet
  <2> QED
    BY <1>1, <2>1
<1> QED
  BY <1>2 DEF Counted

\* With the Scheduler's timing, for any number of processes, any strings and any
\* room in the queues: as long as Master waits for the Scheduler, one of the
\* others can go on; the turn is never lost on its way from sched.c over
\* process.c and mmu.c and back (master.c:343-348, sched.c:48-98,
\* process.c:64-127, mmu.c:102-254).
THEOREM TurnIsNeverLost ==
  Timed => (Spec => [](mpc = "wait" => \/ MasterMayGo \/ SchedulerMayGo \/ MMUMayGo
                                       \/ \E p \in Procs : ProcessMayGo(p)))
<1> SUFFICES ASSUME Timed
             PROVE  Spec => [](mpc = "wait" => \/ MasterMayGo \/ SchedulerMayGo \/ MMUMayGo
                                               \/ \E p \in Procs : ProcessMayGo(p))
  OBVIOUS
<1>1. ASSUME IInv, OneTurn, ReportInv, RoundInv, mpc = "wait",
             ~MasterMayGo, ~SchedulerMayGo, ~MMUMayGo, \A p \in Procs : ~ProcessMayGo(p)
      PROVE  FALSE
  <2>1. /\ ipc /\ TurnsInv /\ LiveInv /\ ReadyInv /\ HeldInv /\ AwaitInv /\ CountInv /\ BornInv
    BY <1>1 DEF OneTurn, ReportInv, RoundInv
  <2>2. spc \in {"ready", "mq2"}
    <3>1. spc \in {"ready", "mq2", "signal", "done"}
      BY <1>1, <2>1 DEF IInv, TypeOK, WorkerTypeOK, BornInv, LiveInv
    <3>2. spc # "done"
      BY <1>1, <2>1 DEF CountInv, MasterMayGo, Reporting
    <3> QED
      BY <1>1, <3>1, <3>2 DEF SchedulerMayGo
  <2>3. Len(<<>>) < QueueCap
    BY VMAssumption
  <2>4. MMUIdle /\ mmu_pc = "recv"
    <3>1. MMUIdle
      BY <1>1, <2>1, <2>3 DEF TurnsInv, MessageInv, MMUMayGo
    <3>2. mmu_pc \in {"recv", "invalid", "fault"}
      BY <1>1, <2>1 DEF IInv, TypeOK, WorkerTypeOK, BornInv
    <3> QED
      BY <3>1, <3>2 DEF MMUIdle
  <2>5. mq3_req = <<>>
    BY <1>1, <2>1, <2>3, <2>4 DEF TurnsInv, RequestInv, MMUMayGo
  <2>6. mq3_resp = <<>>
    <3>1. ASSUME mq3_resp # <<>> PROVE FALSE
      <4>1. Head(mq3_resp).pid \in Procs
        <5>1. Head(mq3_resp) \in Replies
          BY <1>1, <3>1, QueuesTyped, HeadTailProperties
        <5> QED
          BY <5>1 DEF Replies
      <4>2. ppc[Head(mq3_resp).pid] = "receive"
        BY <2>1, <3>1 DEF TurnsInv, ReplyInv
      <4> QED
        BY <1>1, <3>1, <4>1, <4>2 DEF ProcessMayGo
    <3> QED
      BY <3>1
  <2>7. mq2 = <<>>
    BY <1>1, <2>1 DEF TurnsInv, MessageInv, SchedulerMayGo
  <2>8. \A p \in Procs : ~(sem2[p] > 0) /\ ppc[p] \in {"enqueue", "await", "dead"}
    <3>1. ASSUME NEW p \in Procs PROVE ~(sem2[p] > 0)
      BY <1>1, <2>1 DEF ReadyInv, ProcessMayGo
    <3>2. ASSUME NEW p \in Procs PROVE ppc[p] \in {"enqueue", "await", "dead"}
      <4>1. ppc[p] \in {"enqueue", "await", "request", "receive", "quit", "dead"}
        BY <1>1, <2>1, QueuesTyped DEF BornInv
      <4>2. ppc[p] # "receive"
        BY <2>1, <2>5, <2>6 DEF TurnsInv, TurnInv
      <4> QED
        BY <1>1, <4>1, <4>2 DEF ProcessMayGo
    <3> QED
      BY <3>1, <3>2
  <2>9. spc = "ready"
    <3>1. ~TurnHeld
      BY <2>4, <2>5, <2>6, <2>7, <2>8 DEF TurnHeld
    <3> QED
      BY <2>1, <2>2, <3>1 DEF HeldInv
  <2>10. mq1 = <<>>
    BY <1>1, <2>6, <2>9 DEF SchedulerMayGo, RepliesDelivered
  <2>11. \A p \in Procs : ppc[p] = "dead"
    <3>1. \A p \in Procs : ppc[p] # "enqueue"
      BY <1>1, <2>3, <2>10 DEF ProcessMayGo
    <3>2. \A p \in Procs : ppc[p] # "await"
      <4>1. Len(mq1) = 0
        BY <2>10
      <4> QED
        BY <2>1, <2>8, <4>1 DEF AwaitInv
    <3> QED
      BY <2>8, <3>1, <3>2
  <2>12. PICK p \in Procs : Open(p)
    BY <2>1, <2>9, SomebodyLeft DEF CountInv
  <2> QED
    BY <2>4, <2>5, <2>7, <2>11, <2>12 DEF Open, Gone, Leaving, ReportedGone, MMUIdle
<1>2. Init => IInv /\ OneTurn /\ ReportInv /\ RoundInv
  BY InitIInv, InitTurns, InitReport, InitRound
<1>3. ASSUME IInv, OneTurn, ReportInv, RoundInv, [Next]_vars
      PROVE  OneTurn' /\ ReportInv' /\ RoundInv'
  <2>1. OneTurn' /\ ReportInv'
    BY <1>3, OneTurnStep, ReportStep
  <2>2. ipc' => ipc
    BY <1>3, RemovedTurns
  <2>3. ASSUME ipc, ipc' PROVE HeldInv' /\ AwaitInv' /\ CountInv' /\ BornInv'
    BY <1>3, <2>3, HeldStep, AwaitStep, CountStep, BornStep DEF RoundInv
  <2> QED
    BY <2>1, <2>2, <2>3 DEF RoundInv
<1>4. IInv /\ OneTurn /\ ReportInv /\ RoundInv
        => (mpc = "wait" => \/ MasterMayGo \/ SchedulerMayGo \/ MMUMayGo
                            \/ \E p \in Procs : ProcessMayGo(p))
  BY <1>1
<1> QED
  BY <1>2, <1>3, <1>4, IInvInvariant, PTL DEF Spec
=============================================================================
