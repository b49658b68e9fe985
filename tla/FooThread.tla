------------------------------ MODULE FooThread ------------------------------
(***************************************************************************)
(* Creation and exit of the threads of Assignment7/foothread.c.  The       *)
(* leader, the process's first thread, creates the followers one after the *)
(* other and calls foothread_exit; a follower works and calls              *)
(* foothread_exit.  The two-party barriers are those of FooBarrier, each   *)
(* used once: a thread arrives, and passes when the other has arrived.     *)
(***************************************************************************)
EXTENDS Integers, FiniteSets, Sequences

CONSTANTS N,         \* how many followers
          Programs,  \* what they may be created as, in order: sequences of status
          Paces      \* what work may be: TRUE is slow, it outlasts the leader's way
                     \* to its barrier, as when followers read the keyboard

ASSUME ProgramsAssumption == /\ N \in Nat
                             /\ Programs \subseteq [1..N -> {"joinable", "detached"}]
                             /\ Paces \subseteq BOOLEAN

Followers == 1..N
Leader == 0
Everyone == {Leader} \cup Followers

VARIABLES program,   \* what this program creates
          slow,      \* whether its followers' work is slow
          proc,      \* the process: "running", or how it exited
          pc,
          holder,    \* who holds foo_mutex (owner_id), or -1
          ft_table,  \* the status of each created thread
          active_joinable_threads,
          total_threads,
          arrived,   \* who has arrived at foo_barriers[i], and at i = 0 the leader's
          removed    \* whether the semaphores have been removed

threadVars == <<program, slow, proc, pc, holder, ft_table, active_joinable_threads, total_threads,
                arrived, removed>>

counts == <<active_joinable_threads, total_threads>>

Init == /\ program \in Programs /\ slow \in Paces
        /\ proc = "running"
        /\ pc = [t \in Everyone |-> IF t = Leader THEN "creating" ELSE "none"]
        /\ holder = -1
        /\ ft_table = <<>>
        /\ active_joinable_threads = 0 /\ total_threads = 1
        /\ arrived = [i \in Everyone |-> {}]
        /\ removed = FALSE

Runs(t, here) == proc = "running" /\ pc[t] = here

Goto(t, there) == pc' = [pc EXCEPT ![t] = there]

\* exit() and the return of main end all the threads: it is exit_group.
Exit(how) == proc' = how /\ UNCHANGED <<program, slow, pc, holder, ft_table, counts, arrived, removed>>

-----------------------------------------------------------------------------
(* The leader creates.                                                     *)

CountThread(kind) ==
  /\ total_threads' = total_threads + 1
  /\ active_joinable_threads' = active_joinable_threads + IF kind = "joinable" THEN 1 ELSE 0

\* foothread_create.  What it does between lock and unlock nobody else reads
\* without the mutex, so it is one step.
Create ==
  /\ Runs(Leader, "creating") /\ holder = -1
  /\ Len(ft_table) < N
  /\ LET t == Len(ft_table) + 1
     IN  /\ ft_table' = Append(ft_table, program[t])
         /\ CountThread(program[t])
         /\ Goto(t, "working")
  /\ UNCHANGED <<program, slow, proc, holder, arrived, removed>>

CallExit ==
  /\ Runs(Leader, "creating") /\ Len(ft_table) = N
  /\ Goto(Leader, "exiting")
  /\ UNCHANGED <<program, slow, proc, holder, ft_table, counts, arrived, removed>>

-----------------------------------------------------------------------------
(* The leader exits.                                                       *)

\* The barriers of joinable threads that the leader has not passed yet.
ToJoin(from) == {i \in Followers : i >= from /\ ft_table[i] = "joinable"}

\* The leader goes to the next barrier, or to the end of the loop.
JoinNext(from, mine) ==
  IF ToJoin(from) = {}
  THEN Goto(Leader, mine) /\ UNCHANGED arrived
  ELSE LET i == CHOOSE i \in ToJoin(from) : \A j \in ToJoin(from) : i <= j
       IN  /\ Goto(Leader, "join")
           /\ arrived' = [arrived EXCEPT ![i] = @ \cup {Leader}]

\* With no joinable thread at work the leader keeps the mutex while it joins.
LeaderLock ==
  /\ Runs(Leader, "exiting") /\ holder = -1
  /\ IF active_joinable_threads = 0
     THEN holder' = Leader /\ JoinNext(1, "leave")
     ELSE Goto(Leader, "arrive") /\ UNCHANGED <<holder, arrived>>
  /\ UNCHANGED <<program, slow, proc, ft_table, counts, removed>>

ArriveAtLeaderBarrier ==
  /\ Runs(Leader, "arrive") /\ Goto(Leader, "wait")
  /\ arrived' = [arrived EXCEPT ![Leader] = @ \cup {Leader}]
  /\ UNCHANGED <<program, slow, proc, holder, ft_table, counts, removed>>

\* Mutant of Met: whoever comes first passes.
MetAlone(i) == arrived[i] # {}

Met(i) == Cardinality(arrived[i]) = 2

PassLeaderBarrier ==
  /\ Runs(Leader, "wait") /\ Met(Leader)
  /\ JoinNext(1, "relock")
  /\ UNCHANGED <<program, slow, proc, holder, ft_table, counts, removed>>

Join(i) ==
  /\ Runs(Leader, "join") /\ Leader \in arrived[i] /\ Met(i)
  /\ \A j \in Followers : j > i => Leader \notin arrived[j]
  /\ JoinNext(i + 1, IF holder = Leader THEN "leave" ELSE "relock")
  /\ UNCHANGED <<program, slow, proc, holder, ft_table, counts, removed>>

-----------------------------------------------------------------------------
(* A follower exits.                                                       *)

\* Its start routine does what it does and calls foothread_exit.
Work(t) ==
  /\ t \in Followers
  /\ Runs(t, "working") /\ Goto(t, "exiting")
  /\ slow => pc[Leader] \notin {"creating", "exiting", "arrive"}
  /\ UNCHANGED <<program, slow, proc, holder, ft_table, counts, arrived, removed>>

\* Mutant of CallsLeader: the last thread but one calls the leader.
CallsLeaderEarly(active) == active <= 1

CallsLeader(active) == active = 0

\* The status a follower goes by is that of the thread created last.
LastStatus == ft_table[Len(ft_table)]

\* The last joinable thread keeps the mutex while it waits for the leader.
FollowerLock(t) ==
  /\ t \in Followers
  /\ Runs(t, "exiting") /\ holder = -1
  /\ IF LastStatus = "joinable"
     THEN /\ active_joinable_threads' = active_joinable_threads - 1
          /\ IF CallsLeader(active_joinable_threads')
             THEN /\ holder' = t /\ Goto(t, "call")
                  /\ arrived' = [arrived EXCEPT ![Leader] = @ \cup {t}]
             ELSE /\ Goto(t, "await") /\ UNCHANGED holder
                  /\ arrived' = [arrived EXCEPT ![t] = @ \cup {t}]
     ELSE /\ holder' = t /\ Goto(t, "leave")
          /\ UNCHANGED <<active_joinable_threads, arrived>>
  /\ UNCHANGED <<program, slow, proc, ft_table, total_threads, removed>>

\* Mutant of Unlocked: the mutex stays taken.
StaysLocked == UNCHANGED holder

Unlocked == holder' = -1

\* foothread_mutex_unlock exits with 1 if the caller is not the owner, or when
\* the semaphore is gone.
CannotUnlock(t) == holder # t \/ removed

LeaderCalled(t) ==
  /\ Runs(t, "call") /\ Met(Leader)
  /\ IF CannotUnlock(t) THEN Exit("exit1")
     ELSE /\ Unlocked /\ Goto(t, "await")
          /\ arrived' = [arrived EXCEPT ![t] = @ \cup {t}]
          /\ UNCHANGED <<program, slow, proc, ft_table, counts, removed>>

Joined(t) ==
  /\ Runs(t, "await") /\ Met(t)
  /\ Goto(t, "relock")
  /\ UNCHANGED <<program, slow, proc, holder, ft_table, counts, arrived, removed>>

-----------------------------------------------------------------------------
(* The end of both.                                                        *)

\* semop on a removed semaphore fails, and the caller exits with 1.
Relock(t) ==
  /\ Runs(t, "relock")
  /\ IF removed THEN Exit("exit1")
     ELSE /\ holder = -1 /\ holder' = t /\ Goto(t, "leave")
          /\ UNCHANGED <<program, slow, proc, ft_table, counts, arrived, removed>>

Leave(t) ==
  /\ Runs(t, "leave") /\ Goto(t, "unlock")
  /\ total_threads' = total_threads - 1
  /\ UNCHANGED <<program, slow, proc, holder, ft_table, active_joinable_threads, arrived, removed>>

Unlock(t) ==
  /\ Runs(t, "unlock")
  /\ IF CannotUnlock(t) THEN Exit("exit1")
     ELSE /\ Unlocked /\ Goto(t, "check")
          /\ UNCHANGED <<program, slow, proc, ft_table, counts, arrived, removed>>

\* Mutant of LastOfAll: one thread is still there.
AllButOne == total_threads <= 1

LastOfAll == total_threads = 0

\* Whoever reads 0, without the mutex, removes the semaphores.
Check(t) ==
  /\ Runs(t, "check")
  /\ IF LastOfAll /\ removed THEN Exit("exit1")
     ELSE /\ removed' = (removed \/ LastOfAll)
          /\ Goto(t, "exit")
          /\ UNCHANGED <<program, slow, proc, holder, ft_table, counts, arrived>>

\* exit(0) of a follower; for the leader the return of main.
ExitThread(t) == Runs(t, "exit") /\ Exit("exit0")

-----------------------------------------------------------------------------
LeaderStep == \/ Create \/ CallExit \/ LeaderLock \/ ArriveAtLeaderBarrier
              \/ PassLeaderBarrier \/ \E i \in Followers : Join(i)

FollowerStep(t) == Work(t) \/ FollowerLock(t) \/ LeaderCalled(t) \/ Joined(t)

EndStep(t) == Relock(t) \/ Leave(t) \/ Unlock(t) \/ Check(t) \/ ExitThread(t)

ThreadStep(t) == \/ t = Leader /\ LeaderStep
                 \/ t \in Followers /\ FollowerStep(t)
                 \/ EndStep(t)

\* Work was fast: the last joinable follower waits for the leader with the mutex
\* that the leader needs to create the next one or to get to its barrier.
Deadlocked ==
  /\ proc = "running"
  /\ \/ pc[Leader] = "creating" /\ Len(ft_table) < N
     \/ pc[Leader] = "exiting"
  /\ \E t \in Followers :
       /\ pc[t] = "call" /\ holder = t
       /\ \A u \in Followers \ {t} : pc[u] \in {"none", "exiting", "await"}

Next == \/ \E t \in Everyone : ThreadStep(t)
        \/ Deadlocked /\ UNCHANGED threadVars
        \/ proc # "running" /\ UNCHANGED threadVars

Spec == Init /\ [][Next]_threadVars

\* The kernel runs every thread that is not blocked in a semop.
FairSpec == Spec /\ \A t \in Everyone : WF_threadVars(ThreadStep(t))

-----------------------------------------------------------------------------
Joinable(t) == t \in Followers /\ program[t] = "joinable"

\* When the process ends, whatever ended it, every joinable thread has done its
\* work (foothread.c:196 "Exit the thread": the thread, not the process).
WorkCompleted ==
  proc # "running" => \A t \in Followers : Joinable(t) => pc[t] \notin {"none", "working"}

\* The leader is past the joins only when every joinable thread is past its
\* barrier or just woken from it (foothread.c:126-132).
LeaderJoinsAll ==
  pc[Leader] \in {"relock", "leave", "unlock", "check", "exit"} =>
    \A t \in Followers : Joinable(t) => t \in arrived[t]

\* total_threads is read without the mutex, so several threads may take themselves
\* for the last (foothread.c:138, 189), remove the semaphores twice or while
\* another unlocks, and take the process down with exit(1).  That only happens
\* when everybody has left the count: no lock and no unlock before that ever
\* fails.  And when all have read the total one of them has removed them.
RemovedAfterUse ==
  /\ removed \/ proc = "exit1" => \A t \in Everyone : pc[t] \in {"unlock", "check", "exit"}
  /\ (\A t \in Everyone : pc[t] = "exit") => removed

\* The process ends when work is slow; else it may end up Deadlocked and in no
\* other dead end (foothread.c:167 "releasing the leader barrier").
Ends == /\ <>(proc # "running" \/ Deadlocked)
        /\ slow => <>(proc # "running")
=============================================================================
