------------------------------ MODULE FooBarrier ------------------------------
(***************************************************************************)
(* The barrier of Assignment7/foothread.c, two semaphores and a counter,   *)
(* at the grain of its semop calls.  Every thread of Threads calls         *)
(* foothread_barrier_wait Rounds times on a barrier that was initialised   *)
(* for as many threads as there are.                                       *)
(***************************************************************************)
EXTENDS Integers, FiniteSets

CONSTANTS Threads,   \* the threads that meet
          Rounds     \* calls of foothread_barrier_wait that each one makes

ASSUME BarrierAssumption == /\ IsFiniteSet(Threads) /\ Threads # {}
                            /\ Rounds \in Nat

VARIABLES wait_sem,       \* value of the semaphore wait_sem_id
          mtx_sem,        \* value of the semaphore mtx_sem_id
          waiting_count,
          place,          \* where each thread is in foothread_barrier_wait
          passed          \* history: calls each thread has returned from

barrierVars == <<wait_sem, mtx_sem, waiting_count, place, passed>>

max_count == Cardinality(Threads)

BarrierInit == /\ wait_sem = 0 /\ mtx_sem = 1
               /\ waiting_count = 0
               /\ place = [t \in Threads |-> "out"]
               /\ passed = [t \in Threads |-> 0]

Lock(t) ==
  /\ place[t] = "out" /\ place' = [place EXCEPT ![t] = "count"]
  /\ passed[t] < Rounds
  /\ mtx_sem > 0 /\ mtx_sem' = mtx_sem - 1
  /\ UNCHANGED <<wait_sem, waiting_count, passed>>

\* Mutant of IsLast: one thread too early.
IsLastButOne == waiting_count' = max_count - 1

IsLast == waiting_count' = max_count

Count(t) ==
  /\ place[t] = "count"
  /\ waiting_count' = waiting_count + 1
  /\ place' = [place EXCEPT ![t] = IF IsLast THEN "release" ELSE "unlock"]
  /\ UNCHANGED <<wait_sem, mtx_sem, passed>>

\* The last thread lets the others go.  With nobody else the operand of semop
\* is 0, and that call waits for the value 0.
Release(t) ==
  /\ place[t] = "release" /\ place' = [place EXCEPT ![t] = "reset"]
  /\ max_count = 1 => wait_sem = 0
  /\ wait_sem' = wait_sem + max_count - 1
  /\ UNCHANGED <<mtx_sem, waiting_count, passed>>

Reset(t) ==
  /\ place[t] = "reset" /\ place' = [place EXCEPT ![t] = "leave"]
  /\ waiting_count' = 0
  /\ UNCHANGED <<wait_sem, mtx_sem, passed>>

\* Mutant of UnlockLast: no return at the end of the branch.
FallThrough(t) ==
  /\ place[t] = "leave" /\ place' = [place EXCEPT ![t] = "unlock"]
  /\ mtx_sem' = mtx_sem + 1
  /\ UNCHANGED <<wait_sem, waiting_count, passed>>

UnlockLast(t) ==
  /\ place[t] = "leave" /\ place' = [place EXCEPT ![t] = "out"]
  /\ mtx_sem' = mtx_sem + 1
  /\ passed' = [passed EXCEPT ![t] = @ + 1]
  /\ UNCHANGED <<wait_sem, waiting_count>>

\* Mutant of UnlockCounter: the mutex stays taken during the wait.
KeepLock(t) ==
  /\ place[t] = "unlock" /\ place' = [place EXCEPT ![t] = "wait"]
  /\ UNCHANGED <<wait_sem, mtx_sem, waiting_count, passed>>

UnlockCounter(t) ==
  /\ place[t] = "unlock" /\ place' = [place EXCEPT ![t] = "wait"]
  /\ mtx_sem' = mtx_sem + 1
  /\ UNCHANGED <<wait_sem, waiting_count, passed>>

Wait(t) ==
  /\ place[t] = "wait" /\ place' = [place EXCEPT ![t] = "out"]
  /\ wait_sem > 0 /\ wait_sem' = wait_sem - 1
  /\ passed' = [passed EXCEPT ![t] = @ + 1]
  /\ UNCHANGED <<mtx_sem, waiting_count>>

BarrierWait(t) == \/ Lock(t) \/ Count(t) \/ UnlockCounter(t) \/ Wait(t)
                  \/ Release(t) \/ Reset(t) \/ UnlockLast(t)

AllPassed == \A t \in Threads : passed[t] = Rounds

\* A dead end of a barrier that is used again.  The count is reset before those
\* asleep have taken their tokens, and a token does not say which call it is for:
\* a thread that has returned, called again and gone to sleep may take the one
\* of a thread that still sleeps in the call before.  In the end that one waits
\* for others to come, and they have made all their calls.
Robbed ==
  /\ wait_sem = 0
  /\ \A t \in Threads : \/ place[t] = "wait"
                        \/ place[t] = "out" /\ passed[t] = Rounds
  /\ \E t, u \in Threads : place[t] = "wait" /\ passed[u] > passed[t] + 1

BarrierNext == \/ \E t \in Threads : BarrierWait(t)
               \/ AllPassed /\ UNCHANGED barrierVars
               \/ Robbed /\ UNCHANGED barrierVars

BarrierSpec == BarrierInit /\ [][BarrierNext]_barrierVars

\* The kernel runs every thread and serves every semop that can go on.
FairBarrierSpec == BarrierSpec /\ \A t \in Threads : WF_barrierVars(BarrierWait(t))

-----------------------------------------------------------------------------
\* Threads that hold the mutex of the counter.
Inside(t) == place[t] \in {"count", "release", "reset", "leave", "unlock"}

\* Threads that have been counted in the call they are in.
Counted(t) == place[t] \in {"release", "reset", "leave", "unlock", "wait"}

\* The type invariant.
BarrierTypeOK ==
  /\ wait_sem \in Nat /\ mtx_sem \in 0..1 /\ waiting_count \in 0..max_count
  /\ place \in [Threads -> {"out", "count", "release", "reset", "leave", "unlock", "wait"}]
  /\ passed \in [Threads -> Nat]

Meeting == INSTANCE Rendezvous WITH
  Parties <- max_count,
  inside  <- {t \in Threads : Counted(t)},
  open    <- wait_sem + Cardinality({t \in Threads : place[t] \in {"reset", "leave"}}),
  gone    <- passed

\* However often the barrier is used it opens only when all the threads are in
\* it, and only when the tokens of the last opening have all been taken; so
\* nobody returns from a first call before everybody has made one.  It does not
\* say for whom it opens (foothread.c:293-302): that is all that "Resetting the
\* barrier" achieves for a thread that comes again.
OpensForAll == Meeting!MeetingSpec

\* Everybody returns from every call, or somebody sleeps in one that another
\* thread has taken the token of; with one call each nobody can.
EverybodyPasses == <>(AllPassed \/ Robbed)
=============================================================================
