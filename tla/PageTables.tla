----------------------------- MODULE PageTables -----------------------------
(***************************************************************************)
(* The shared memory of Assignment8: the k page tables (segment SHM1) and  *)
(* the list of free frames (segment SHM2), with the operations master.c    *)
(* and mmu.c perform on them.  Each operation is an action on these        *)
(* variables alone; VirtualMemory joins it to the messages around it.      *)
(*                                                                         *)
(* Every process owns a slab of M entries.  size[p] is the number of pages *)
(* the process really has; the entries from size[p] to M-1 exist in memory *)
(* and are never looked at by the MMU.                                     *)
(***************************************************************************)
EXTENDS Integers, FiniteSets

CONSTANTS K,   \* number of processes (argument k of Master)
          M,   \* entries of a page table (argument m of Master)
          F    \* number of frames (argument f of Master)

ASSUME PagingAssumption == /\ K \in Nat \ {0}
                           /\ M \in Nat \ {0}
                           /\ F \in Nat

Procs  == 0 .. K-1
Pages  == 0 .. M-1
Frames == 0 .. F-1

VARIABLES size,         \* tables[p].size
          frame,        \* tables[p].entries[g].frame, -1 for none
          valid_bit,    \* tables[p].entries[g].valid_bit
          lru_counter,  \* tables[p].entries[g].lru_counter
          free_frames   \* 0 free, 1 occupied, and -1 in the last cell

tableVars == <<size, frame, valid_bit, lru_counter, free_frames>>

TableInit ==
  /\ size = [p \in Procs |-> M]
  /\ frame = [p \in Procs |-> [g \in Pages |-> -1]]
  /\ valid_bit = [p \in Procs |-> [g \in Pages |-> 0]]
  /\ lru_counter = [p \in Procs |-> [g \in Pages |-> 0]]
  /\ free_frames = [x \in 0..F |-> IF x = F THEN -1 ELSE 0]

\* The pages of p that are in memory, as the loops of mmu.c see them.
Resident(p) == {g \in Pages : g < size[p] /\ valid_bit[p][g] = 1}

\* Mutant of ScanStopsAt: an if for the while, so only the first frame is tried.
ScanTriesOne(x) == x = IF free_frames[0] # 1 THEN 0 ELSE F

\* Where the scan "while (free_frames[cur_frame] == 1) cur_frame++" stops:
\* at the first free frame, or at the end mark F.
ScanStopsAt(x) == /\ x \in 0..F
                  /\ free_frames[x] # 1
                  /\ \A y \in 0 .. x-1 : free_frames[y] = 1

\* The page chosen for replacement: the largest lru_counter, and among equals
\* the first one in the table.
IsMaxLru(p, v) ==
  /\ v \in Resident(p)
  /\ \A g \in Resident(p) : \/ lru_counter[p][g] < lru_counter[p][v]
                            \/ lru_counter[p][g] = lru_counter[p][v] /\ v <= g

-----------------------------------------------------------------------------
(***************************************************************************)
(* Operations.                                                             *)
(***************************************************************************)

\* The master gives n frames, from frame first on, to process p.  Entry j of
\* the process is the flat cell p*M + j: when n exceeds M the loop runs on into
\* the slabs of the processes after p (and past the last one into the padding
\* of the segment, which nobody reads).
Grant(p, first, n) ==
  LET offset(q, g) == (q - p) * M + g
      granted(q, g) == 0 <= offset(q, g) /\ offset(q, g) < n
  IN  /\ frame' = [q \in Procs |-> [g \in Pages |->
                     IF granted(q, g) THEN first + offset(q, g) ELSE frame[q][g]]]
      /\ valid_bit' = [q \in Procs |-> [g \in Pages |->
                     IF granted(q, g) THEN 1 ELSE valid_bit[q][g]]]
      /\ free_frames' = [x \in 0..F |->
                     IF first <= x /\ x < first + n THEN 1 ELSE free_frames[x]]
      /\ UNCHANGED <<size, lru_counter>>

\* Mutant of Touch: the page referred to is not made new.
TouchAgesAll(p, g) ==
  /\ valid_bit[p][g] = 1
  /\ lru_counter' = [lru_counter EXCEPT ![p] = [h \in Pages |->
                       IF h \in Resident(p) THEN lru_counter[p][h] + 1
                       ELSE lru_counter[p][h]]]
  /\ UNCHANGED <<size, frame, valid_bit, free_frames>>

\* A reference to a page in memory: every resident page ages, this one is new.
Touch(p, g) ==
  /\ valid_bit[p][g] = 1
  /\ lru_counter' = [lru_counter EXCEPT ![p] = [h \in Pages |->
                       IF h = g THEN 0
                       ELSE IF h \in Resident(p) THEN lru_counter[p][h] + 1
                       ELSE lru_counter[p][h]]]
  /\ UNCHANGED <<size, frame, valid_bit, free_frames>>

\* A page fault while some frame is free.
LoadInFreeFrame(p, g) ==
  /\ valid_bit[p][g] # 1
  /\ \E x \in Frames :
       /\ ScanStopsAt(x)
       /\ frame' = [frame EXCEPT ![p][g] = x]
       /\ free_frames' = [free_frames EXCEPT ![x] = 1]
  /\ valid_bit' = [valid_bit EXCEPT ![p][g] = 1]
  /\ lru_counter' = [lru_counter EXCEPT ![p][g] = 0]
  /\ UNCHANGED size

\* A page fault with no free frame: the process loses a page of its own.
ReplaceOwnPage(p, g) ==
  /\ valid_bit[p][g] # 1
  /\ ScanStopsAt(F)
  /\ \E v \in Pages :
       /\ IsMaxLru(p, v)
       /\ frame' = [frame EXCEPT ![p] = [@ EXCEPT ![v] = -1, ![g] = frame[p][v]]]
       /\ valid_bit' = [valid_bit EXCEPT ![p] = [@ EXCEPT ![v] = 0, ![g] = 1]]
  /\ lru_counter' = [lru_counter EXCEPT ![p][g] = 0]
  /\ UNCHANGED <<size, free_frames>>

\* A page fault with no free frame, by a process that holds none.
NoFrameForFault(p, g) ==
  /\ valid_bit[p][g] # 1
  /\ ScanStopsAt(F)
  /\ Resident(p) = {}
  /\ UNCHANGED tableVars

\* Mutant of Release: the frames are free, the pages still valid.
ReleaseKeepsPages(p) ==
  /\ free_frames' = [x \in 0..F |->
       IF x \in {frame[p][g] : g \in Resident(p)} THEN 0 ELSE free_frames[x]]
  /\ UNCHANGED <<size, frame, valid_bit, lru_counter>>

\* The frames of a process are given back (page table entries below size[p]).
Release(p) ==
  LET given == {frame[p][g] : g \in Resident(p)}
  IN  /\ free_frames' = [x \in 0..F |-> IF x \in given THEN 0 ELSE free_frames[x]]
      /\ frame' = [frame EXCEPT ![p] = [g \in Pages |->
                     IF g \in Resident(p) THEN -1 ELSE frame[p][g]]]
      /\ valid_bit' = [valid_bit EXCEPT ![p] = [g \in Pages |->
                     IF g \in Resident(p) THEN 0 ELSE valid_bit[p][g]]]
      /\ UNCHANGED <<size, lru_counter>>

-----------------------------------------------------------------------------
TableTypeOK ==
  /\ size \in [Procs -> 1..M]
  /\ frame \in [Procs -> [Pages -> -1 .. F-1]]
  /\ valid_bit \in [Procs -> [Pages -> {0, 1}]]
  /\ lru_counter \in [Procs -> [Pages -> Nat]]
  /\ free_frames \in [0..F -> {-1, 0, 1}]
  /\ \A x \in 0..F : free_frames[x] = -1 <=> x = F

\* No frame serves two pages, and no frame in use is on the free list: what
\* the scan and the writes of mmu.c 176-326 must keep, whatever requests come
\* and in whatever order.
FramesExclusive ==
  \A p, q \in Procs : \A g, h \in Pages :
    valid_bit[p][g] = 1 =>
      /\ frame[p][g] \in Frames
      /\ free_frames[frame[p][g]] = 1
      /\ valid_bit[q][h] = 1 /\ frame[q][h] = frame[p][g] => q = p /\ h = g
=============================================================================
