--------------------------- MODULE FooThreadProofs ---------------------------
(***************************************************************************)
(* How threads end, for any number of them, at any pace and whatever the   *)
(* interleaving: nobody loses the semaphores before every thread has left, *)
(* whatever the threads' statuses; and if all are created with one status, *)
(* no joinable thread's work is cut off and the leader joins all of them.  *)
(* Then the barrier they meet at, for any number of threads and of calls:  *)
(* everybody is in when it opens, a thread's first call is never passed    *)
(* before that, and whoever sleeps for good has been robbed of its token.  *)
(***************************************************************************)
EXTENDS FooThread, FooBarrier, FiniteSetTheorems, TLAPS

\* The places after the barriers.
Late == {"relock", "leave", "unlock", "check", "exit"}
Joining == Late \cup {"join"}
LeaderPlaces == {"creating", "exiting", "arrive", "wait"} \cup Joining
FollowerPlaces == {"none", "working", "exiting", "call", "await"} \cup Late

TypeInv ==
  /\ program \in [Followers -> {"joinable", "detached"}]
  /\ proc \in {"running", "exit0", "exit1"}
  /\ pc \in [Everyone -> LeaderPlaces \cup FollowerPlaces]
  /\ pc[Leader] \in LeaderPlaces
  /\ \A t \in Followers : pc[t] \in FollowerPlaces
  /\ holder \in Everyone \cup {-1}
  /\ ft_table \in Seq({"joinable", "detached"}) /\ Len(ft_table) <= N
  /\ \A i \in 1..Len(ft_table) : ft_table[i] = program[i]
  /\ \A t \in Followers : pc[t] = "none" <=> t > Len(ft_table)
  /\ pc[Leader] # "creating" => Len(ft_table) = N
  /\ active_joinable_threads \in Int /\ total_threads \in Int
  /\ removed \in BOOLEAN

\* Who is between lock and unlock, or waits for the leader with the mutex, has it.
HolderInv == \A t \in Everyone : pc[t] \in {"leave", "unlock", "call"} => holder = t

\* The threads that total_threads counts.
Staying == {t \in Everyone : pc[t] \notin {"none", "unlock", "check", "exit"}}

CountInv == total_threads = Cardinality(Staying) /\ RemovedAfterUse

\* A follower that can unlock, as it always can: see CanUnlock.
CalledOn(t) ==
  /\ Runs(t, "call") /\ Met(Leader)
  /\ Unlocked /\ Goto(t, "await")
  /\ arrived' = [arrived EXCEPT ![t] = @ \cup {t}]
  /\ UNCHANGED <<program, slow, proc, ft_table, counts, removed>>

FollowerGoesOn(t) == Work(t) \/ FollowerLock(t) \/ CalledOn(t) \/ Joined(t)

-----------------------------------------------------------------------------
LEMMA Numbers == N \in Nat /\ Followers \subseteq Nat /\ Leader \notin Followers
                 /\ Leader \in Everyone /\ Followers \subseteq Everyone /\ -1 \notin Everyone
  BY ProgramsAssumption DEF Followers, Leader, Everyone

LEMMA FiniteThreads == IsFiniteSet(Followers) /\ IsFiniteSet(Everyone)
  <1>1. IsFiniteSet(Followers)
    BY ProgramsAssumption, FS_Interval DEF Followers
  <1>2. Everyone = Followers \cup {Leader}
    BY DEF Everyone
  <1>3. QED BY <1>1, <1>2, FS_AddElement

\* Where JoinNext sends the leader.
LEMMA JoinNextPlace ==
  ASSUME NEW from, NEW mine, JoinNext(from, mine)
  PROVE  \E there \in {mine, "join"} : pc' = [pc EXCEPT ![Leader] = there]
  BY DEF JoinNext, Goto

LEMMA LeaderCalledIs ==
  ASSUME NEW t, LeaderCalled(t)
  PROVE  CalledOn(t) \/ (Runs(t, "call") /\ CannotUnlock(t) /\ Exit("exit1"))
  <1>1. CASE CannotUnlock(t)
    BY <1>1 DEF LeaderCalled
  <1>2. CASE ~CannotUnlock(t)
    BY <1>2 DEF LeaderCalled, CalledOn
  <1>3. QED BY <1>1, <1>2

LEMMA FollowerStepIs ==
  ASSUME NEW t, FollowerStep(t)
  PROVE  FollowerGoesOn(t) \/ (Runs(t, "call") /\ CannotUnlock(t) /\ Exit("exit1"))
  BY LeaderCalledIs DEF FollowerStep, FollowerGoesOn

\* Who has the mutex can unlock it, as long as somebody has not left the count.
LEMMA CanUnlock ==
  ASSUME HolderInv, CountInv, NEW t \in Everyone, pc[t] = "call"
  PROVE  ~CannotUnlock(t)
  BY DEF HolderInv, CountInv, RemovedAfterUse, CannotUnlock

LEMMA TypeInit == Init => TypeInv
  <1> SUFFICES ASSUME Init PROVE TypeInv
    OBVIOUS
  <1>1. program \in [Followers -> {"joinable", "detached"}]
    BY ProgramsAssumption DEF Init, Followers
  <1>2. pc \in [Everyone -> LeaderPlaces \cup FollowerPlaces] /\ pc[Leader] = "creating"
    BY Numbers DEF Init, LeaderPlaces, FollowerPlaces
  <1>3. \A t \in Followers : pc[t] = "none" /\ t > 0
    BY Numbers DEF Init, Followers
  <1>4. ft_table = <<>> /\ Len(ft_table) = 0
    BY DEF Init
  <1>5. /\ proc \in {"running", "exit0", "exit1"} /\ holder \in Everyone \cup {-1}
        /\ active_joinable_threads \in Int /\ total_threads \in Int
    <2>1. active_joinable_threads = 0 /\ total_threads = 1
      BY DEF Init
    <2>2. QED BY <2>1 DEF Init
  <1>6. removed \in BOOLEAN
    BY DEF Init
  <1>7. \A i \in 1..Len(ft_table) : ft_table[i] = program[i]
    BY <1>4
  <1>8. /\ ft_table \in Seq({"joinable", "detached"}) /\ Len(ft_table) <= N
        /\ \A t \in Followers : pc[t] = "none" <=> t > Len(ft_table)
    BY <1>3, <1>4, Numbers
  <1>9. pc[Leader] \in LeaderPlaces /\ \A t \in Followers : pc[t] \in FollowerPlaces
    BY <1>2, <1>3 DEF LeaderPlaces, FollowerPlaces
  <1>10. QED BY <1>1, <1>2, <1>5, <1>6, <1>7, <1>8, <1>9, Numbers DEF TypeInv

LEMMA TypeStep == TypeInv /\ [Next]_threadVars => TypeInv'
  <1> SUFFICES ASSUME TypeInv, [Next]_threadVars PROVE TypeInv'
    OBVIOUS
  <1> USE Numbers DEF TypeInv, Runs, Goto
  <1>1. CASE Create
    <2> DEFINE t == Len(ft_table) + 1
    <2>1. t \in Followers /\ Len(ft_table) \in Nat
      BY <1>1 DEF Create, Followers
    <2>2. /\ ft_table' = Append(ft_table, program[t])
          /\ pc' = [pc EXCEPT ![t] = "working"]
          /\ UNCHANGED <<program, proc, holder, removed>>
          /\ pc[Leader] = "creating"
      BY <1>1 DEF Create
    <2>3. Len(ft_table') = t /\ ft_table' \in Seq({"joinable", "detached"})
      BY <2>1, <2>2
    <2>4. \A i \in 1..Len(ft_table') : ft_table'[i] = program[i]
      BY <2>1, <2>2, <2>3
    <2>5. active_joinable_threads' \in Int /\ total_threads' \in Int
      BY <1>1 DEF Create, CountThread
    <2>6. t <= N
      BY <2>1 DEF Followers
    <2>7. \A u \in Followers : pc'[u] = "none" <=> u > t
      BY <2>1, <2>2 DEF FollowerPlaces
    <2>8. /\ pc' \in [Everyone -> LeaderPlaces \cup FollowerPlaces]
          /\ pc'[Leader] = "creating"
          /\ \A u \in Followers : pc'[u] \in FollowerPlaces
      BY <2>1, <2>2 DEF FollowerPlaces, LeaderPlaces
    <2>9. QED BY <2>2, <2>3, <2>4, <2>5, <2>6, <2>7, <2>8 DEF LeaderPlaces
  <1>2. CASE CallExit \/ LeaderLock \/ ArriveAtLeaderBarrier \/ PassLeaderBarrier
             \/ \E i \in Followers : Join(i)
    <2>1. \E there \in LeaderPlaces : pc' = [pc EXCEPT ![Leader] = there]
      <3> USE DEF LeaderPlaces, Joining, Late
      <3>1. CASE CallExit \/ ArriveAtLeaderBarrier
        BY <3>1 DEF CallExit, ArriveAtLeaderBarrier
      <3>2. CASE LeaderLock
        <4>1. JoinNext(1, "leave") \/ Goto(Leader, "arrive")
          BY <3>2 DEF LeaderLock
        <4>2. CASE JoinNext(1, "leave")
          BY <4>2, JoinNextPlace
        <4>3. CASE Goto(Leader, "arrive")
          BY <4>3 DEF Goto
        <4>4. QED BY <4>1, <4>2, <4>3
      <3>3. CASE PassLeaderBarrier
        <4>1. JoinNext(1, "relock")
          BY <3>3 DEF PassLeaderBarrier
        <4>2. QED BY <4>1, JoinNextPlace
      <3>4. ASSUME NEW i \in Followers, Join(i)
            PROVE  \E there \in LeaderPlaces : pc' = [pc EXCEPT ![Leader] = there]
        <4>1. JoinNext(i + 1, "leave") \/ JoinNext(i + 1, "relock")
          BY <3>4 DEF Join
        <4>2. CASE JoinNext(i + 1, "leave")
          BY <4>2, JoinNextPlace
        <4>3. CASE JoinNext(i + 1, "relock")
          BY <4>3, JoinNextPlace
        <4>4. QED BY <4>1, <4>2, <4>3
      <3>5. QED BY <1>2, <3>1, <3>2, <3>3, <3>4
    <2>2. /\ UNCHANGED <<program, proc, ft_table, removed, total_threads, active_joinable_threads>>
          /\ holder' \in {holder, Leader} /\ Len(ft_table) = N
      BY <1>2 DEF CallExit, LeaderLock, ArriveAtLeaderBarrier, PassLeaderBarrier, Join, counts
    <2>3. QED BY <2>1, <2>2
  <1>3. ASSUME NEW t \in Followers, FollowerStep(t)
        PROVE  TypeInv'
    <2>1. CASE Exit("exit1")
      BY <2>1 DEF Exit, counts
    <2>2. CASE FollowerGoesOn(t)
      <3>1. \E there \in FollowerPlaces \ {"none"} : pc' = [pc EXCEPT ![t] = there]
        BY <2>2 DEF FollowerGoesOn, Work, FollowerLock, CalledOn, Joined, FollowerPlaces, Late
      <3>2. pc[t] # "none"
        BY <2>2 DEF FollowerGoesOn, Work, FollowerLock, CalledOn, Joined
      <3>3. /\ UNCHANGED <<program, proc, ft_table, removed, total_threads>>
            /\ holder' \in {holder, t, -1}
        BY <2>2 DEF FollowerGoesOn, Work, FollowerLock, CalledOn, Joined, counts, Unlocked
      <3>4. active_joinable_threads' \in Int
        BY <2>2 DEF FollowerGoesOn, Work, FollowerLock, CalledOn, Joined, counts
      <3>5. QED BY <3>1, <3>2, <3>3, <3>4
    <2>3. QED BY <1>3, <2>1, <2>2, FollowerStepIs
  <1>4. ASSUME NEW t \in Everyone, EndStep(t)
        PROVE  TypeInv'
    <2>1. pc' = pc \/ \E there \in Late : pc' = [pc EXCEPT ![t] = there]
      BY <1>4 DEF EndStep, Relock, Leave, Unlock, Check, ExitThread, Exit, Late
    <2>2. pc[t] \in Late
      BY <1>4 DEF EndStep, Relock, Leave, Unlock, Check, ExitThread, Late
    <2>3. /\ UNCHANGED <<program, ft_table, active_joinable_threads>>
          /\ holder' \in {holder, t, -1} /\ proc' \in {proc, "exit0", "exit1"}
          /\ removed' \in BOOLEAN
      BY <1>4 DEF EndStep, Relock, Leave, Unlock, Check, ExitThread, Exit, counts, Unlocked
    <2>4. total_threads' \in Int
      BY <1>4 DEF EndStep, Relock, Leave, Unlock, Check, ExitThread, Exit, counts
    <2>5. t = Leader \/ t \in Followers
      BY DEF Everyone
    <2>6. Late \subseteq LeaderPlaces /\ Late \subseteq FollowerPlaces \ {"none"} /\ "creating" \notin Late
      BY DEF Late, LeaderPlaces, Joining, FollowerPlaces
    <2>7. QED BY <2>1, <2>2, <2>3, <2>4, <2>5, <2>6
  <1>5. CASE UNCHANGED threadVars
    BY <1>5 DEF threadVars, counts
  <1>6. QED BY <1>1, <1>2, <1>3, <1>4, <1>5 DEF Next, ThreadStep, LeaderStep

-----------------------------------------------------------------------------
LEMMA HolderInit == Init => HolderInv
  BY DEF Init, HolderInv

LEMMA HolderStep == TypeInv /\ HolderInv /\ [Next]_threadVars => HolderInv'
  <1> SUFFICES ASSUME TypeInv, HolderInv, [Next]_threadVars PROVE HolderInv'
    OBVIOUS
  <1>0. pc \in [Everyone -> LeaderPlaces \cup FollowerPlaces] /\ Len(ft_table) \in Nat
    BY DEF TypeInv
  <1> USE <1>0, Numbers DEF HolderInv, Runs, Goto
  <1>1. CASE Create
    <2>1. /\ holder' = holder
          /\ \E t : pc' = [pc EXCEPT ![t] = "working"]
      BY <1>1 DEF Create
    <2>2. QED BY <2>1
  <1>2. CASE CallExit \/ ArriveAtLeaderBarrier
    BY <1>2 DEF CallExit, ArriveAtLeaderBarrier
  <1>3. CASE LeaderLock
    <2>1. CASE holder' = Leader /\ JoinNext(1, "leave")
      <3>1. \A t \in Everyone : pc[t] \notin {"leave", "unlock", "call"}
        BY <1>3 DEF LeaderLock
      <3>2. QED BY <2>1, <3>1, JoinNextPlace
    <2>2. CASE pc' = [pc EXCEPT ![Leader] = "arrive"] /\ holder' = holder
      BY <2>2
    <2>3. QED BY <1>3, <2>1, <2>2 DEF LeaderLock
  <1>4. CASE PassLeaderBarrier
    <2>1. JoinNext(1, "relock") /\ holder' = holder
      BY <1>4 DEF PassLeaderBarrier
    <2>2. QED BY <2>1, JoinNextPlace
  <1>5. ASSUME NEW i \in Followers, Join(i)
        PROVE  HolderInv'
    <2>1. CASE holder = Leader
      <3>1. JoinNext(i + 1, "leave") /\ holder' = holder
        BY <1>5, <2>1 DEF Join
      <3>2. QED BY <2>1, <3>1, JoinNextPlace
    <2>2. CASE holder # Leader
      <3>1. JoinNext(i + 1, "relock") /\ holder' = holder
        BY <1>5, <2>2 DEF Join
      <3>2. QED BY <3>1, JoinNextPlace
    <2>3. QED BY <2>1, <2>2
  <1>6. ASSUME NEW t \in Followers, FollowerStep(t)
        PROVE  HolderInv'
    <2>1. CASE Exit("exit1")
      BY <2>1 DEF Exit
    <2>2. CASE FollowerGoesOn(t)
      BY <2>2 DEF FollowerGoesOn, Work, FollowerLock, CalledOn, Joined, Unlocked
    <2>3. QED BY <1>6, <2>1, <2>2, FollowerStepIs
  <1>7. ASSUME NEW t \in Everyone, EndStep(t)
        PROVE  HolderInv'
    BY <1>7 DEF EndStep, Relock, Leave, Unlock, Check, ExitThread, Exit, Unlocked
  <1>8. CASE UNCHANGED threadVars
    BY <1>8 DEF threadVars
  <1>9. QED BY <1>1, <1>2, <1>3, <1>4, <1>5, <1>6, <1>7, <1>8 DEF Next, ThreadStep, LeaderStep

-----------------------------------------------------------------------------
\* A step that keeps everybody counted or uncounted keeps the number.
LEMMA SameStaying ==
  ASSUME CountInv, UNCHANGED <<proc, total_threads, removed>>, Staying' = Staying,
         \A t \in Everyone : pc[t] \in {"unlock", "check", "exit"} => pc'[t] \in {"unlock", "check", "exit"},
         \A t \in Everyone : pc'[t] = "exit" => pc[t] = "exit"
  PROVE  CountInv'
  BY DEF CountInv, RemovedAfterUse

\* The end of the process changes nothing else.
LEMMA ExitCounts ==
  ASSUME CountInv, NEW how, Exit(how),
         how = "exit1" => \A t \in Everyone : pc[t] \in {"unlock", "check", "exit"}
  PROVE  CountInv'
  <1>1. total_threads' = Cardinality(Staying')
    BY DEF Exit, counts, CountInv, Staying
  <1>2. RemovedAfterUse'
    BY DEF Exit, CountInv, RemovedAfterUse
  <1>3. QED BY <1>1, <1>2 DEF CountInv

LEMMA CountInit == Init => CountInv
  <1> SUFFICES ASSUME Init PROVE CountInv
    OBVIOUS
  <1>1. Staying = {Leader}
    BY Numbers DEF Init, Staying
  <1>2. Cardinality(Staying) = 1
    BY <1>1, FS_Singleton
  <1>3. pc[Leader] # "exit" /\ ~removed /\ proc # "exit1" /\ total_threads = 1
    BY Numbers DEF Init
  <1>4. QED BY <1>1, <1>2, <1>3, Numbers DEF CountInv, RemovedAfterUse

LEMMA CountStep == TypeInv /\ HolderInv /\ CountInv /\ [Next]_threadVars => CountInv'
  <1> SUFFICES ASSUME TypeInv, HolderInv, CountInv, [Next]_threadVars PROVE CountInv'
    OBVIOUS
  <1>0. pc \in [Everyone -> LeaderPlaces \cup FollowerPlaces] /\ Len(ft_table) \in Nat
    BY DEF TypeInv
  <1>s. IsFiniteSet(Staying)
    BY FiniteThreads, FS_Subset DEF Staying
  <1> USE <1>0, Numbers DEF Runs, Goto
  <1>1. CASE Create
    <2> DEFINE t == Len(ft_table) + 1
    <2>1. t \in Followers /\ pc[t] = "none"
      BY <1>1 DEF Create, Followers, TypeInv
    <2>2. pc' = [pc EXCEPT ![t] = "working"] /\ removed' = removed
      BY <1>1 DEF Create
    <2>3. total_threads' = total_threads + 1
      BY <1>1 DEF Create, CountThread
    <2>4. Staying' = Staying \cup {t} /\ t \notin Staying
      BY <2>1, <2>2 DEF Staying
    <2>5. Cardinality(Staying') = Cardinality(Staying) + 1
      BY <1>s, <2>4, FS_AddElement
    <2>6. ~removed' /\ proc' # "exit1" /\ pc'[Leader] # "exit"
      BY <1>1, <2>2 DEF CountInv, RemovedAfterUse, Create
    <2>7. RemovedAfterUse'
      BY <2>6 DEF RemovedAfterUse
    <2>8. QED BY <2>3, <2>5, <2>7 DEF CountInv
  <1>2. CASE CallExit \/ LeaderLock \/ ArriveAtLeaderBarrier \/ PassLeaderBarrier
             \/ \E i \in Followers : Join(i)
    <2>1. \E there \in {"exiting", "arrive", "wait", "join", "relock", "leave"} :
            pc' = [pc EXCEPT ![Leader] = there]
      <3>1. CASE CallExit \/ ArriveAtLeaderBarrier
        BY <3>1 DEF CallExit, ArriveAtLeaderBarrier
      <3>2. CASE LeaderLock
        <4>1. JoinNext(1, "leave") \/ Goto(Leader, "arrive")
          BY <3>2 DEF LeaderLock
        <4>2. CASE JoinNext(1, "leave")
          BY <4>2, JoinNextPlace
        <4>3. CASE Goto(Leader, "arrive")
          BY <4>3 DEF Goto
        <4>4. QED BY <4>1, <4>2, <4>3
      <3>3. CASE PassLeaderBarrier
        <4>1. JoinNext(1, "relock")
          BY <3>3 DEF PassLeaderBarrier
        <4>2. QED BY <4>1, JoinNextPlace
      <3>4. ASSUME NEW i \in Followers, Join(i)
            PROVE  \E there \in {"exiting", "arrive", "wait", "join", "relock", "leave"} :
                     pc' = [pc EXCEPT ![Leader] = there]
        <4>1. JoinNext(i + 1, "leave") \/ JoinNext(i + 1, "relock")
          BY <3>4 DEF Join
        <4>2. CASE JoinNext(i + 1, "leave")
          BY <4>2, JoinNextPlace
        <4>3. CASE JoinNext(i + 1, "relock")
          BY <4>3, JoinNextPlace
        <4>4. QED BY <4>1, <4>2, <4>3
      <3>5. QED BY <1>2, <3>1, <3>2, <3>3, <3>4
    <2>2. pc[Leader] \in {"creating", "exiting", "arrive", "wait", "join"}
      BY <1>2 DEF CallExit, LeaderLock, ArriveAtLeaderBarrier, PassLeaderBarrier, Join
    <2>3. UNCHANGED <<proc, total_threads, removed>>
      BY <1>2 DEF CallExit, LeaderLock, ArriveAtLeaderBarrier, PassLeaderBarrier, Join, counts
    <2>4. Staying' = Staying
      BY <2>1, <2>2 DEF Staying
    <2>5. QED BY <2>1, <2>2, <2>3, <2>4, SameStaying
  <1>3. ASSUME NEW t \in Followers, FollowerStep(t)
        PROVE  CountInv'
    <2>0. FollowerGoesOn(t)
      BY <1>3, FollowerStepIs, CanUnlock
    <2>1. \E there \in {"exiting", "call", "await", "relock", "leave"} : pc' = [pc EXCEPT ![t] = there]
      BY <2>0 DEF FollowerGoesOn, Work, FollowerLock, CalledOn, Joined
    <2>2. /\ pc[t] \in {"working", "exiting", "call", "await"}
          /\ UNCHANGED <<proc, total_threads, removed>>
      BY <2>0 DEF FollowerGoesOn, Work, FollowerLock, CalledOn, Joined, counts
    <2>3. Staying' = Staying
      BY <2>1, <2>2 DEF Staying
    <2>4. QED BY <2>1, <2>2, <2>3, SameStaying
  <1>4. ASSUME NEW t \in Everyone, Relock(t) \/ Unlock(t) \/ ExitThread(t)
        PROVE  CountInv'
    <2>1. CASE Exit("exit0")
      BY <2>1, ExitCounts
    <2>2. CASE removed /\ Exit("exit1")
      BY <2>2, ExitCounts DEF CountInv, RemovedAfterUse
    <2>3. CASE /\ UNCHANGED <<proc, total_threads, removed>>
               /\ \/ pc[t] = "relock" /\ pc' = [pc EXCEPT ![t] = "leave"]
                  \/ pc[t] = "unlock" /\ pc' = [pc EXCEPT ![t] = "check"]
      <3>1. Staying' = Staying
        BY <2>3 DEF Staying
      <3>2. QED BY <2>3, <3>1, SameStaying
    <2>4. CASE Relock(t)
      BY <2>2, <2>3, <2>4 DEF Relock, counts
    <2>5. CASE Unlock(t)
      <3>1. holder = t
        BY <2>5 DEF Unlock, HolderInv
      <3>2. CASE removed
        BY <2>2, <2>5, <3>2 DEF Unlock, CannotUnlock
      <3>3. CASE ~removed
        BY <2>3, <2>5, <3>1, <3>3 DEF Unlock, CannotUnlock, counts
      <3>4. QED BY <3>2, <3>3
    <2>6. CASE ExitThread(t)
      BY <2>1, <2>6 DEF ExitThread
    <2>7. QED BY <1>4, <2>4, <2>5, <2>6
  <1>5. ASSUME NEW t \in Everyone, Leave(t)
        PROVE  CountInv'
    <2>1. pc[t] = "leave" /\ pc' = [pc EXCEPT ![t] = "unlock"]
      BY <1>5 DEF Leave
    <2>2. total_threads' = total_threads - 1 /\ UNCHANGED <<proc, removed>>
      BY <1>5 DEF Leave
    <2>3. Staying' = Staying \ {t} /\ t \in Staying
      BY <2>1 DEF Staying
    <2>4. Cardinality(Staying') = Cardinality(Staying) - 1
      BY <1>s, <2>3, FS_RemoveElement
    <2>5. ~removed' /\ proc' # "exit1" /\ pc'[t] # "exit"
      BY <2>1, <2>2 DEF CountInv, RemovedAfterUse
    <2>6. RemovedAfterUse'
      BY <2>5 DEF RemovedAfterUse
    <2>7. QED BY <2>2, <2>4, <2>6 DEF CountInv
  <1>6. ASSUME NEW t \in Everyone, Check(t)
        PROVE  CountInv'
    <2>1. CASE LastOfAll /\ removed
      <3>1. Exit("exit1")
        BY <1>6, <2>1 DEF Check
      <3>2. QED BY <2>1, <3>1, ExitCounts DEF CountInv, RemovedAfterUse
    <2>2. CASE ~(LastOfAll /\ removed)
      <3>1. /\ pc[t] = "check" /\ pc' = [pc EXCEPT ![t] = "exit"]
            /\ total_threads' = total_threads /\ proc' = proc
            /\ removed' = (removed \/ LastOfAll)
        BY <1>6, <2>2 DEF Check, counts
      <3>2. Staying' = Staying
        BY <3>1 DEF Staying
      <3>3. CASE LastOfAll
        <4>1. Staying = {}
          BY <1>s, <3>3, FS_EmptySet DEF CountInv, LastOfAll
        <4>2. \A u \in Everyone : pc[u] \in {"none", "unlock", "check", "exit"}
          BY <4>1 DEF Staying
        <4>3. pc[Leader] # "none" /\ pc[Leader] # "creating"
          BY <4>2 DEF TypeInv, LeaderPlaces, Joining, Late
        <4>4. \A u \in Followers : pc[u] # "none"
          BY <4>3 DEF TypeInv, Followers
        <4>5. \A u \in Everyone : pc'[u] \in {"unlock", "check", "exit"}
          BY <3>1, <4>2, <4>3, <4>4 DEF Everyone
        <4>6. removed'
          BY <3>1, <3>3
        <4>7. QED BY <3>1, <3>2, <4>5, <4>6 DEF CountInv, RemovedAfterUse
      <3>4. CASE ~LastOfAll
        <4>1. PICK u \in Staying : TRUE
          BY <3>4, FS_EmptySet DEF CountInv, LastOfAll
        <4>2. u \in Everyone /\ pc[u] \notin {"unlock", "check", "exit"}
          BY <4>1 DEF Staying
        <4>3. ~removed /\ proc # "exit1"
          BY <4>2 DEF CountInv, RemovedAfterUse
        <4>4. ~removed' /\ proc' # "exit1"
          BY <3>1, <3>4, <4>3
        <4>5. pc'[u] # "exit"
          BY <3>1, <4>2
        <4>6. RemovedAfterUse'
          BY <4>2, <4>4, <4>5 DEF RemovedAfterUse
        <4>7. QED BY <3>1, <3>2, <4>6 DEF CountInv
      <3>5. QED BY <3>3, <3>4
    <2>3. QED BY <2>1, <2>2
  <1>7. CASE UNCHANGED threadVars
    BY <1>7 DEF threadVars, counts, CountInv, RemovedAfterUse, Staying
  <1>8. QED BY <1>1, <1>2, <1>3, <1>4, <1>5, <1>6, <1>7 DEF Next, ThreadStep, LeaderStep, EndStep

\* For any number of threads of any statuses, at any pace: while somebody has not
\* left the count, the semaphores are there and no lock, unlock or removal exits
\* with 1; and once every thread has read the total they are removed
\* (foothread.c:138, 189).  Whoever reads 0 removes them, be it the last or not.
THEOREM RemovedWhenAllHaveLeft == Spec => []RemovedAfterUse
  <1>1. TypeInv /\ HolderInv /\ CountInv /\ [Next]_threadVars => (TypeInv /\ HolderInv /\ CountInv)'
    BY TypeStep, HolderStep, CountStep
  <1>2. CountInv => RemovedAfterUse
    BY DEF CountInv
  <1>3. QED BY TypeInit, HolderInit, CountInit, <1>1, <1>2, PTL DEF Spec

-----------------------------------------------------------------------------
AllJoinable == \A t \in Followers : program[t] = "joinable"

\* The threads that active_joinable_threads counts.
Busy == {t \in Followers : pc[t] \in {"working", "exiting"}}

BusyInv == active_joinable_threads = Cardinality(Busy)

\* Who may arrive where.
ArrivedInv == /\ arrived \in [Everyone -> SUBSET Everyone]
              /\ \A i \in Followers : arrived[i] \subseteq {Leader, i}

\* One follower comes to the leader's barrier, when nobody is busy any more, and
\* keeps the mutex until the leader has come.
CalledInv ==
  /\ \A t \in Followers : t \in arrived[Leader] =>
       /\ active_joinable_threads = 0
       /\ Leader \in arrived[Leader] \/ (holder = t /\ pc[t] = "call")
       /\ \A u \in Followers : u \in arrived[Leader] => u = t
  /\ Leader \in arrived[Leader] => pc[Leader] \in {"wait"} \cup Joining

\* The leader joins when nobody is busy any more, one after the other.
JoinsInv ==
  /\ pc[Leader] \in Joining => active_joinable_threads = 0
  /\ \A j \in Followers : Leader \in arrived[j] =>
       /\ pc[Leader] \in Joining
       /\ \A i \in Followers : i < j => Leader \in arrived[i] /\ i \in arrived[i]
  /\ pc[Leader] \in Late => \A t \in Followers : t \in arrived[t]
  /\ \A t \in Followers : pc[t] \in Late => Leader \in arrived[t]

JoinableInv == AllJoinable => BusyInv /\ ArrivedInv /\ CalledInv /\ JoinsInv

-----------------------------------------------------------------------------
\* A set of two that has nothing but a and b has both.
LEMMA TwoOfTwo ==
  ASSUME NEW a, NEW b, NEW S, S \subseteq {a, b}, Cardinality(S) = 2
  PROVE  a \in S /\ b \in S
  <1>1. S # {} /\ S # {a} /\ S # {b}
    BY FS_EmptySet, FS_Singleton
  <1>2. QED BY <1>1

\* Where JoinNext sends the leader when all are joinable.
LEMMA JoinNextInLine ==
  ASSUME TypeInv, AllJoinable, Len(ft_table) = N,
         NEW from \in 1 .. N + 1, NEW mine, JoinNext(from, mine)
  PROVE  \/ /\ from = N + 1
            /\ pc' = [pc EXCEPT ![Leader] = mine] /\ arrived' = arrived
         \/ /\ from \in Followers
            /\ pc' = [pc EXCEPT ![Leader] = "join"]
            /\ arrived' = [arrived EXCEPT ![from] = @ \cup {Leader}]
  <1>1. ToJoin(from) = {i \in Followers : i >= from}
    BY DEF ToJoin, TypeInv, AllJoinable, Followers
  <1>2. CASE from = N + 1
    <2>1. ToJoin(from) = {}
      BY <1>1, <1>2, Numbers DEF Followers
    <2>2. QED BY <1>2, <2>1 DEF JoinNext, Goto
  <1>3. CASE from \in Followers
    <2> DEFINE first == CHOOSE i \in ToJoin(from) : \A j \in ToJoin(from) : i <= j
    <2>1. from \in ToJoin(from) /\ \A j \in ToJoin(from) : from <= j
      BY <1>1, <1>3, Numbers
    <2>2. first \in ToJoin(from) /\ \A j \in ToJoin(from) : first <= j
      BY <2>1
    <2>3. first <= from /\ first >= from /\ first \in Nat
      BY <1>1, <2>1, <2>2, Numbers
    <2>4. first = from
      BY <2>3, Numbers
    <2>5. ToJoin(from) # {}
      BY <2>1
    <2>6. /\ Goto(Leader, "join")
          /\ arrived' = [arrived EXCEPT ![first] = @ \cup {Leader}]
      BY <2>5 DEF JoinNext
    <2>7. QED BY <1>3, <2>4, <2>6 DEF Goto
  <1>4. QED BY <1>2, <1>3, Numbers DEF Followers

\* Nobody busy is a count of 0, and the other way round.
LEMMA NobodyBusy ==
  ASSUME BusyInv
  PROVE  IsFiniteSet(Busy) /\ (active_joinable_threads = 0 <=> Busy = {})
  <1>1. IsFiniteSet(Busy)
    BY FiniteThreads, FS_Subset DEF Busy
  <1>2. QED BY <1>1, FS_EmptySet DEF BusyInv

\* Who is met at the leader's barrier.
LEMMA LeaderMet ==
  ASSUME ArrivedInv, CalledInv, Met(Leader)
  PROVE  Leader \in arrived[Leader] /\ \E t \in Followers : t \in arrived[Leader]
  <1>1. arrived[Leader] \subseteq Followers \cup {Leader} /\ Cardinality(arrived[Leader]) = 2
    BY Numbers DEF ArrivedInv, Met, Everyone
  <1>2. PICK t : arrived[Leader] \subseteq {Leader, t}
    BY <1>1 DEF CalledInv
  <1>3. Leader \in arrived[Leader] /\ t \in arrived[Leader]
    BY <1>1, <1>2, TwoOfTwo
  <1>4. arrived[Leader] # {Leader}
    <2>1. Cardinality({Leader}) = 1
      BY FS_Singleton
    <2>2. QED BY <1>1, <2>1
  <1>5. QED BY <1>1, <1>3, <1>4

\* Who is met at a follower's barrier.
LEMMA FollowerMet ==
  ASSUME ArrivedInv, NEW i \in Followers, Met(i)
  PROVE  Leader \in arrived[i] /\ i \in arrived[i]
  BY TwoOfTwo DEF ArrivedInv, Met

LEMMA JoinableInit == Init => JoinableInv
  <1> SUFFICES ASSUME Init PROVE JoinableInv
    OBVIOUS
  <1> USE Numbers
  <1>1. BusyInv
    <2>1. Busy = {}
      BY DEF Init, Busy
    <2>2. QED BY <2>1, FS_EmptySet DEF Init, BusyInv
  <1>2. ArrivedInv /\ CalledInv
    BY DEF Init, ArrivedInv, CalledInv
  <1>3. pc[Leader] = "creating" /\ \A t \in Followers : pc[t] = "none" /\ arrived[t] = {}
    BY DEF Init
  <1>4. JoinsInv
    BY <1>3 DEF JoinsInv, Joining, Late
  <1>5. QED BY <1>1, <1>2, <1>4 DEF JoinableInv

-----------------------------------------------------------------------------
(* The steps, when all threads are joinable.                               *)

Held == TypeInv /\ HolderInv /\ CountInv /\ AllJoinable /\ BusyInv /\ ArrivedInv /\ CalledInv /\ JoinsInv
Keeps == BusyInv' /\ ArrivedInv' /\ CalledInv' /\ JoinsInv'

LEMMA CreateKeeps == Held /\ Create => Keeps
  <1> SUFFICES ASSUME Held, Create PROVE Keeps
    OBVIOUS
  <1> DEFINE t == Len(ft_table) + 1
  <1>1. t \in Followers /\ pc[t] = "none" /\ pc[Leader] = "creating" /\ holder = -1
    <2>1. Len(ft_table) \in Nat /\ Len(ft_table) < N
      BY DEF Held, TypeInv, Create
    <2>2. t \in Followers /\ t > Len(ft_table)
      BY <2>1, Numbers DEF Followers
    <2>3. pc[t] = "none"
      BY <2>2 DEF Held, TypeInv
    <2>4. QED BY <2>2, <2>3 DEF Create, Runs
  <1>2. /\ pc' = [pc EXCEPT ![t] = "working"] /\ arrived' = arrived /\ holder' = holder
        /\ pc \in [Everyone -> LeaderPlaces \cup FollowerPlaces]
    BY DEF Create, Goto, Held, TypeInv
  <1>3. active_joinable_threads' = active_joinable_threads + 1
    <2>1. program[t] = "joinable"
      BY <1>1 DEF Held, AllJoinable
    <2>2. QED BY <2>1 DEF Create, CountThread
  <1> HIDE DEF t
  <1>4. Busy' = Busy \cup {t} /\ t \notin Busy
    BY <1>1, <1>2, Numbers DEF Busy
  <1>5. BusyInv'
    BY <1>3, <1>4, NobodyBusy, FS_AddElement DEF Held, BusyInv
  <1>6. ArrivedInv'
    BY <1>2 DEF Held, ArrivedInv
  <1>7. Leader \notin arrived[Leader] /\ \A u \in Followers : u \notin arrived[Leader]
    BY <1>1, Numbers DEF Held, CalledInv, Joining, Late
  <1>8. CalledInv'
    BY <1>2, <1>7 DEF CalledInv
  <1>9. pc'[Leader] = "creating" /\ \A u \in Followers : pc'[u] \in Late => pc[u] \in Late
    BY <1>1, <1>2, Numbers DEF Late
  <1>10. JoinsInv'
    BY <1>1, <1>2, <1>9 DEF Held, JoinsInv, Joining, Late
  <1>11. QED BY <1>5, <1>6, <1>8, <1>10 DEF Keeps

LEMMA LeaderWayKeeps == Held /\ (CallExit \/ ArriveAtLeaderBarrier) => Keeps
  <1> SUFFICES ASSUME Held, CallExit \/ ArriveAtLeaderBarrier PROVE Keeps
    OBVIOUS
  <1>1. /\ pc \in [Everyone -> LeaderPlaces \cup FollowerPlaces]
        /\ arrived \in [Everyone -> SUBSET Everyone]
        /\ UNCHANGED <<active_joinable_threads, holder>>
    BY DEF Held, TypeInv, ArrivedInv, CallExit, ArriveAtLeaderBarrier, counts
  <1>2. /\ pc[Leader] \in {"creating", "arrive"} /\ pc'[Leader] \in {"exiting", "wait"}
        /\ \A t \in Followers : pc'[t] = pc[t]
    BY <1>1, Numbers DEF CallExit, ArriveAtLeaderBarrier, Runs, Goto
  <1>3. BusyInv'
    <2>1. Busy' = Busy
      BY <1>2 DEF Busy
    <2>2. QED BY <1>1, <2>1 DEF Held, BusyInv
  <1>4. /\ arrived' \in [Everyone -> SUBSET Everyone]
        /\ \A i \in Followers : arrived'[i] = arrived[i]
        /\ arrived'[Leader] \subseteq arrived[Leader] \cup {Leader}
        /\ arrived[Leader] \subseteq arrived'[Leader]
        /\ Leader \notin arrived[Leader] /\ Leader \in arrived'[Leader] => pc'[Leader] = "wait"
    <2>1. CASE CallExit
      BY <1>1, <2>1 DEF CallExit
    <2>2. CASE ArriveAtLeaderBarrier
      BY <1>1, <2>2, Numbers DEF ArriveAtLeaderBarrier, Goto
    <2>3. QED BY <2>1, <2>2
  <1>5. Leader \notin arrived[Leader]
    BY <1>2 DEF Held, CalledInv, Joining, Late
  <1>6. ArrivedInv'
    BY <1>4 DEF Held, ArrivedInv
  <1>7. CalledInv'
    BY <1>1, <1>2, <1>4, <1>5, Numbers DEF Held, CalledInv
  <1>8. JoinsInv'
    BY <1>2, <1>4 DEF Held, JoinsInv, Joining, Late
  <1>9. QED BY <1>3, <1>6, <1>7, <1>8 DEF Keeps

\* The leader has passed the barriers below from, and goes to the next one.
LEMMA JoinNextKeeps ==
  ASSUME Held, NEW from \in 1 .. N + 1, NEW mine \in Late, JoinNext(from, mine),
         pc[Leader] \in {"exiting", "wait", "join"},
         active_joinable_threads = 0, UNCHANGED active_joinable_threads,
         \/ \A t \in Followers : t \notin arrived[Leader]
         \/ Leader \in arrived[Leader]
         \/ UNCHANGED holder,
         \A j \in Followers : /\ Leader \in arrived[j] <=> j < from
                              /\ j < from => j \in arrived[j]
  PROVE  Keeps
  <1>1. /\ pc \in [Everyone -> LeaderPlaces \cup FollowerPlaces]
        /\ arrived \in [Everyone -> SUBSET Everyone]
        /\ Len(ft_table) = N
    BY DEF Held, TypeInv, ArrivedInv
  <1>2. \/ /\ from = N + 1
           /\ pc' = [pc EXCEPT ![Leader] = mine] /\ arrived' = arrived
        \/ /\ from \in Followers
           /\ pc' = [pc EXCEPT ![Leader] = "join"]
           /\ arrived' = [arrived EXCEPT ![from] = @ \cup {Leader}]
    BY <1>1, JoinNextInLine DEF Held
  <1>3. pc'[Leader] \in Joining /\ \A t \in Followers : pc'[t] = pc[t]
    BY <1>1, <1>2, Numbers DEF Joining
  <1>4. BusyInv'
    <2>1. Busy' = Busy
      BY <1>3 DEF Busy
    <2>2. QED BY <2>1 DEF Held, BusyInv
  <1>5. /\ arrived' \in [Everyone -> SUBSET Everyone] /\ arrived'[Leader] = arrived[Leader]
        /\ \A j \in Followers : /\ arrived[j] \subseteq arrived'[j]
                                /\ arrived'[j] \subseteq arrived[j] \cup {Leader}
                                /\ Leader \in arrived'[j] => j <= from
    BY <1>1, <1>2, Numbers
  <1>6. ArrivedInv'
    BY <1>5 DEF Held, ArrivedInv
  <1>7. CalledInv'
    BY <1>3, <1>5 DEF Held, CalledInv
  <1>8. JoinsInv'
    <2>1. pc'[Leader] \in Joining => active_joinable_threads' = 0
      OBVIOUS
    <2>2. ASSUME NEW i \in Followers, NEW j \in Followers, Leader \in arrived'[j], i < j
          PROVE  Leader \in arrived'[i] /\ i \in arrived'[i]
      <3>1. i < from
        BY <1>5, <2>2, Numbers
      <3>2. QED BY <1>5, <3>1
    <2>3. ASSUME pc'[Leader] \in Late, NEW t \in Followers
          PROVE  t \in arrived'[t]
      <3>1. from = N + 1
        BY <1>1, <1>2, <2>3, Numbers DEF Late
      <3>2. t < from
        BY <3>1, Numbers DEF Followers
      <3>3. QED BY <1>5, <3>2
    <2>4. ASSUME NEW t \in Followers, pc'[t] \in Late
          PROVE  Leader \in arrived'[t]
      BY <1>3, <1>5, <2>4 DEF Held, JoinsInv
    <2>5. QED BY <1>3, <2>1, <2>2, <2>3, <2>4 DEF JoinsInv
  <1>9. QED BY <1>4, <1>6, <1>7, <1>8 DEF Keeps

LEMMA LeaderLockKeeps == Held /\ LeaderLock => Keeps
  <1> SUFFICES ASSUME Held, LeaderLock PROVE Keeps
    OBVIOUS
  <1>1. /\ pc[Leader] = "exiting" /\ holder = -1 /\ UNCHANGED active_joinable_threads
        /\ pc \in [Everyone -> LeaderPlaces \cup FollowerPlaces]
    BY DEF LeaderLock, Runs, counts, Held, TypeInv
  <1>2. /\ Leader \notin arrived[Leader] /\ \A t \in Followers : t \notin arrived[Leader]
        /\ \A j \in Followers : Leader \notin arrived[j]
    BY <1>1, Numbers DEF Held, CalledInv, JoinsInv, Joining, Late
  <1>3. CASE active_joinable_threads = 0
    <2>1. JoinNext(1, "leave")
      BY <1>3 DEF LeaderLock
    <2>2. 1 \in 1 .. N + 1 /\ \A j \in Followers : ~(j < 1)
      BY Numbers DEF Followers
    <2>3. "leave" \in Late
      BY DEF Late
    <2>4. QED BY <1>1, <1>2, <1>3, <2>1, <2>2, <2>3, JoinNextKeeps
  <1>4. CASE active_joinable_threads # 0
    <2>1. pc' = [pc EXCEPT ![Leader] = "arrive"] /\ UNCHANGED <<holder, arrived>>
      BY <1>4 DEF LeaderLock, Goto
    <2>2. pc'[Leader] = "arrive" /\ \A t \in Followers : pc'[t] = pc[t]
      BY <1>1, <2>1, Numbers
    <2>3. Busy' = Busy
      BY <2>2 DEF Busy
    <2>4. BusyInv' /\ ArrivedInv'
      BY <1>1, <2>1, <2>3 DEF Held, BusyInv, ArrivedInv
    <2>5. CalledInv' /\ JoinsInv'
      BY <1>2, <2>1, <2>2 DEF Held, CalledInv, JoinsInv, Joining, Late
    <2>6. QED BY <2>4, <2>5 DEF Keeps
  <1>5. QED BY <1>3, <1>4

LEMMA PassLeaderBarrierKeeps == Held /\ PassLeaderBarrier => Keeps
  <1> SUFFICES ASSUME Held, PassLeaderBarrier PROVE Keeps
    OBVIOUS
  <1>1. /\ pc[Leader] = "wait" /\ Met(Leader) /\ JoinNext(1, "relock")
        /\ UNCHANGED <<active_joinable_threads, holder>>
    BY DEF PassLeaderBarrier, Runs, counts
  <1>2. active_joinable_threads = 0
    BY <1>1, LeaderMet DEF Held, CalledInv
  <1>3. \A j \in Followers : Leader \notin arrived[j]
    BY <1>1 DEF Held, JoinsInv, Joining, Late
  <1>4. 1 \in 1 .. N + 1 /\ \A j \in Followers : ~(j < 1)
    BY Numbers DEF Followers
  <1>5. "relock" \in Late
    BY DEF Late
  <1>6. QED BY <1>1, <1>2, <1>3, <1>4, <1>5, JoinNextKeeps

LEMMA JoinKeeps ==
  ASSUME Held, NEW i \in Followers, Join(i)
  PROVE  Keeps
  <1>1. /\ pc[Leader] = "join" /\ Leader \in arrived[i] /\ Met(i)
        /\ \A j \in Followers : j > i => Leader \notin arrived[j]
        /\ UNCHANGED <<active_joinable_threads, holder>>
    BY DEF Join, Runs, counts
  <1>2. active_joinable_threads = 0
    BY <1>1 DEF Held, JoinsInv, Joining
  <1>3. i \in arrived[i]
    BY <1>1, FollowerMet DEF Held
  <1>4. \A j \in Followers : j < i => Leader \in arrived[j] /\ j \in arrived[j]
    BY <1>1 DEF Held, JoinsInv
  <1>5. \A j \in Followers : /\ Leader \in arrived[j] <=> j < i + 1
                             /\ j < i + 1 => j \in arrived[j]
    <2>1. \A j \in Followers : (j < i + 1 <=> j < i \/ j = i) /\ (j > i <=> ~(j < i + 1))
      BY Numbers
    <2>2. QED BY <1>1, <1>3, <1>4, <2>1
  <1>6. i + 1 \in 1 .. N + 1
    BY Numbers DEF Followers
  <1>7. \E mine \in Late : JoinNext(i + 1, mine)
    BY DEF Join, Late
  <1>8. QED BY <1>1, <1>2, <1>5, <1>6, <1>7, JoinNextKeeps

LEMMA WorkKeeps ==
  ASSUME Held, NEW t \in Followers, Work(t)
  PROVE  Keeps
  <1>1. /\ pc[t] = "working" /\ pc' = [pc EXCEPT ![t] = "exiting"]
        /\ pc \in [Everyone -> LeaderPlaces \cup FollowerPlaces]
        /\ UNCHANGED <<active_joinable_threads, holder, arrived>>
    BY DEF Work, Runs, Goto, counts, Held, TypeInv
  <1>2. /\ pc'[Leader] = pc[Leader]
        /\ \A u \in Followers : /\ pc[u] = "call" <=> pc'[u] = "call"
                                /\ pc[u] \in Late <=> pc'[u] \in Late
    BY <1>1, Numbers DEF Late
  <1>3. Busy' = Busy
    BY <1>1, Numbers DEF Busy
  <1>4. BusyInv' /\ ArrivedInv'
    BY <1>1, <1>3 DEF Held, BusyInv, ArrivedInv
  <1>5. CalledInv' /\ JoinsInv'
    BY <1>1, <1>2 DEF Held, CalledInv, JoinsInv
  <1>6. QED BY <1>4, <1>5 DEF Keeps

LEMMA FollowerLockKeeps ==
  ASSUME Held, NEW t \in Followers, FollowerLock(t)
  PROVE  Keeps
  <1>1. /\ pc[t] = "exiting" /\ holder = -1
        /\ pc \in [Everyone -> LeaderPlaces \cup FollowerPlaces]
        /\ arrived \in [Everyone -> SUBSET Everyone] /\ active_joinable_threads \in Int
    BY DEF FollowerLock, Runs, Held, TypeInv, ArrivedInv
  <1>2. LastStatus = "joinable"
    <2>1. Len(ft_table) \in Nat /\ ~(t > Len(ft_table)) /\ Len(ft_table) <= N
      BY <1>1 DEF Held, TypeInv
    <2>2. Len(ft_table) \in 1..Len(ft_table) /\ Len(ft_table) \in Followers
      BY <2>1, Numbers DEF Followers
    <2>3. QED BY <2>2 DEF Held, TypeInv, AllJoinable, LastStatus
  <1>3. t \in Busy /\ active_joinable_threads # 0
    <2>1. t \in Busy
      BY <1>1 DEF Busy
    <2>2. QED BY <2>1, NobodyBusy DEF Held
  <1>4. /\ \A u \in Followers : u \notin arrived[Leader]
        /\ pc[Leader] \notin Joining
        /\ \A j \in Followers : Leader \notin arrived[j]
    BY <1>3 DEF Held, CalledInv, JoinsInv
  <1>5. /\ active_joinable_threads' = active_joinable_threads - 1
        /\ \/ /\ active_joinable_threads' = 0 /\ holder' = t
              /\ pc' = [pc EXCEPT ![t] = "call"]
              /\ arrived' = [arrived EXCEPT ![Leader] = @ \cup {t}]
           \/ /\ pc' = [pc EXCEPT ![t] = "await"]
              /\ arrived' = [arrived EXCEPT ![t] = @ \cup {t}]
    BY <1>2 DEF FollowerLock, CallsLeader, Goto
  <1>6. /\ pc'[Leader] = pc[Leader] /\ pc'[t] \in {"call", "await"}
        /\ \A u \in Followers : u # t => pc'[u] = pc[u]
    BY <1>1, <1>5, Numbers
  <1>7. BusyInv'
    <2>1. Busy' = Busy \ {t}
      BY <1>6 DEF Busy
    <2>2. Cardinality(Busy') = Cardinality(Busy) - 1
      BY <1>3, <2>1, NobodyBusy, FS_RemoveElement DEF Held
    <2>3. QED BY <1>5, <2>2 DEF Held, BusyInv
  <1>8. ArrivedInv'
    BY <1>1, <1>5, Numbers DEF Held, ArrivedInv
  <1>9. CalledInv'
    BY <1>1, <1>4, <1>5, <1>6, Numbers DEF Held, CalledInv
  <1>10. JoinsInv'
    <2>1. \A j \in Followers : Leader \notin arrived'[j]
      BY <1>1, <1>4, <1>5, Numbers
    <2>2. \A u \in Followers : pc'[u] \notin Late
      BY <1>4, <1>6 DEF Held, JoinsInv, Late
    <2>3. QED BY <1>4, <1>6, <2>1, <2>2 DEF JoinsInv, Joining
  <1>11. QED BY <1>7, <1>8, <1>9, <1>10 DEF Keeps

LEMMA BarrierKeeps ==
  ASSUME Held, NEW t \in Followers, LeaderCalled(t) \/ Joined(t)
  PROVE  Keeps
  <1>0. CalledOn(t) \/ Joined(t)
    BY LeaderCalledIs, CanUnlock, Numbers DEF Held, Runs
  <1>1. /\ pc[t] \in {"call", "await"}
        /\ pc \in [Everyone -> LeaderPlaces \cup FollowerPlaces]
        /\ arrived \in [Everyone -> SUBSET Everyone]
        /\ UNCHANGED active_joinable_threads
    BY <1>0 DEF CalledOn, Joined, Runs, Held, TypeInv, ArrivedInv, counts
  <1>2. \/ /\ pc' = [pc EXCEPT ![t] = "await"] /\ Leader \in arrived[Leader]
           /\ arrived' = [arrived EXCEPT ![t] = @ \cup {t}]
        \/ /\ pc[t] = "await" /\ pc' = [pc EXCEPT ![t] = "relock"] /\ Leader \in arrived[t]
           /\ arrived' = arrived /\ holder' = holder
    <2>1. CASE CalledOn(t)
      BY <2>1, LeaderMet DEF CalledOn, Goto, Held
    <2>2. CASE Joined(t)
      BY <2>2, FollowerMet DEF Joined, Runs, Goto, Held
    <2>3. QED BY <1>0, <2>1, <2>2
  <1>3. /\ pc'[Leader] = pc[Leader]
        /\ \A u \in Followers : u # t => pc'[u] = pc[u]
        /\ pc'[t] \in {"await", "relock"} /\ (pc'[t] = "relock" => Leader \in arrived[t])
    BY <1>1, <1>2, Numbers
  <1>4. /\ arrived'[Leader] = arrived[Leader] /\ arrived' \in [Everyone -> SUBSET Everyone]
        /\ \A j \in Followers : /\ arrived[j] \subseteq arrived'[j]
                                /\ arrived'[j] \subseteq arrived[j] \cup {j}
    BY <1>1, <1>2, Numbers
  <1>5. BusyInv'
    <2>1. Busy' = Busy
      BY <1>1, <1>3 DEF Busy
    <2>2. QED BY <1>1, <2>1 DEF Held, BusyInv
  <1>6. ArrivedInv'
    BY <1>4 DEF Held, ArrivedInv
  <1>7. CalledInv'
    <2>1. CASE Leader \in arrived[Leader]
      BY <1>1, <1>3, <1>4, <2>1 DEF Held, CalledInv
    <2>2. CASE Leader \notin arrived[Leader]
      <3>1. pc[t] = "await" /\ holder' = holder
        BY <1>2, <2>2
      <3>2. QED BY <1>1, <1>3, <1>4, <3>1 DEF Held, CalledInv
    <2>3. QED BY <2>1, <2>2
  <1>8. JoinsInv'
    <2>1. \A j \in Followers : Leader \in arrived'[j] <=> Leader \in arrived[j]
      BY <1>4, Numbers
    <2>2. \A u \in Followers : pc'[u] \in Late => Leader \in arrived[u]
      BY <1>3 DEF Held, JoinsInv, Late
    <2>3. QED BY <1>1, <1>3, <1>4, <2>1, <2>2 DEF Held, JoinsInv
  <1>9. QED BY <1>5, <1>6, <1>7, <1>8 DEF Keeps

LEMMA EndKeeps ==
  ASSUME Held, NEW t \in Everyone, EndStep(t)
  PROVE  Keeps
  <1>1. /\ pc[t] \in Late
        /\ pc \in [Everyone -> LeaderPlaces \cup FollowerPlaces]
        /\ UNCHANGED <<active_joinable_threads, arrived>>
    BY DEF EndStep, Relock, Leave, Unlock, Check, ExitThread, Exit, Runs, Held, TypeInv, Late, counts
  <1>2. pc' = pc \/ \E there \in Late : pc' = [pc EXCEPT ![t] = there]
    BY DEF EndStep, Relock, Leave, Unlock, Check, ExitThread, Exit, Goto, Late
  <1>3. \A u \in Everyone : /\ pc'[u] \in Late <=> pc[u] \in Late
                            /\ pc[u] \notin Late => pc'[u] = pc[u]
    BY <1>1, <1>2
  <1>4. holder' = holder \/ holder = -1 \/ (holder = t /\ pc[t] = "unlock")
    BY DEF EndStep, Relock, Leave, Unlock, Check, ExitThread, Exit, Runs, Held, HolderInv
  <1>5. BusyInv'
    <2>1. Busy' = Busy
      BY <1>3, Numbers DEF Busy, Late
    <2>2. QED BY <1>1, <2>1 DEF Held, BusyInv
  <1>6. ArrivedInv'
    BY <1>1 DEF Held, ArrivedInv
  <1>7. CalledInv'
    <2>1. ASSUME NEW u \in Followers, holder = u, pc[u] = "call"
          PROVE  holder' = u /\ pc'[u] = "call"
      BY <1>3, <1>4, <2>1, Numbers DEF Late
    <2>2. pc[Leader] \in {"wait"} \cup Joining => pc'[Leader] \in {"wait"} \cup Joining
      BY <1>3, Numbers DEF Joining
    <2>3. QED BY <1>1, <2>1, <2>2 DEF Held, CalledInv
  <1>8. JoinsInv'
    <2>1. pc'[Leader] \in Joining <=> pc[Leader] \in Joining
      BY <1>3, Numbers DEF Joining, Late
    <2>2. QED BY <1>1, <1>3, <2>1, Numbers DEF Held, JoinsInv
  <1>9. QED BY <1>5, <1>6, <1>7, <1>8 DEF Keeps

LEMMA JoinableStep == TypeInv /\ HolderInv /\ CountInv /\ JoinableInv /\ [Next]_threadVars => JoinableInv'
  <1> SUFFICES ASSUME TypeInv, HolderInv, CountInv, JoinableInv, [Next]_threadVars, AllJoinable'
               PROVE  (BusyInv /\ ArrivedInv /\ CalledInv /\ JoinsInv)'
    BY DEF JoinableInv
  <1>1. program' = program
    BY DEF Next, ThreadStep, LeaderStep, FollowerStep, EndStep, Create, CallExit, LeaderLock,
       ArriveAtLeaderBarrier, PassLeaderBarrier, Join, Work, FollowerLock, LeaderCalled, Joined,
       Relock, Leave, Unlock, Check, ExitThread, Exit, threadVars
  <1>2. Held
    BY <1>1 DEF Held, AllJoinable, JoinableInv
  <1>3. CASE UNCHANGED threadVars
    BY <1>2, <1>3 DEF Held, threadVars, counts, BusyInv, Busy, ArrivedInv, CalledInv, JoinsInv
  <1>4. CASE Next
    <2>1. Keeps \/ UNCHANGED threadVars
      BY <1>2, <1>4, CreateKeeps, LeaderWayKeeps, LeaderLockKeeps, PassLeaderBarrierKeeps, JoinKeeps,
         WorkKeeps, FollowerLockKeeps, BarrierKeeps, EndKeeps
         DEF Next, ThreadStep, LeaderStep, FollowerStep
    <2>2. QED BY <1>3, <2>1 DEF Keeps
  <1>5. QED BY <1>3, <1>4

-----------------------------------------------------------------------------
\* All threads of a program are created with one status.
OneStatus == \A p \in Programs : \A t, u \in Followers : p[t] = p[u]

IInv == TypeInv /\ HolderInv /\ CountInv /\ JoinableInv /\ program \in Programs

LEMMA IInvInit == Init => IInv
  BY TypeInit, HolderInit, CountInit, JoinableInit DEF Init, IInv

LEMMA IInvStep == IInv /\ [Next]_threadVars => IInv'
  <1>1. [Next]_threadVars => program' = program
    BY DEF Next, ThreadStep, LeaderStep, FollowerStep, EndStep, Create, CallExit, LeaderLock,
       ArriveAtLeaderBarrier, PassLeaderBarrier, Join, Work, FollowerLock, LeaderCalled, Joined,
       Relock, Leave, Unlock, Check, ExitThread, Exit, threadVars
  <1>2. QED BY <1>1, TypeStep, HolderStep, CountStep, JoinableStep DEF IInv

LEMMA EitherStatus ==
  ASSUME IInv, OneStatus
  PROVE  AllJoinable \/ \A t \in Followers : ~Joinable(t)
  BY DEF IInv, OneStatus, AllJoinable, Joinable

\* Once somebody is past the barriers, nobody has work left.
LEMMA NoWorkLeft ==
  ASSUME IInv, AllJoinable, NEW t \in Everyone, pc[t] \in Late
  PROVE  \A u \in Followers : pc[u] \notin {"none", "working"}
  <1>1. BusyInv /\ JoinsInv
    BY DEF IInv, JoinableInv
  <1>2. pc[Leader] \in Joining
    BY <1>1 DEF JoinsInv, Everyone, Joining
  <1>3. Busy = {}
    BY <1>1, <1>2, NobodyBusy DEF JoinsInv
  <1>4. Len(ft_table) = N
    BY <1>2 DEF IInv, TypeInv, Joining, Late
  <1>5. \A u \in Followers : pc[u] # "none"
    BY <1>4, Numbers DEF IInv, TypeInv, Followers
  <1>6. QED BY <1>3, <1>5 DEF Busy

LEMMA WorkStep ==
  ASSUME OneStatus, IInv, WorkCompleted, [Next]_threadVars
  PROVE  WorkCompleted'
  <1>1. CASE UNCHANGED threadVars
    BY <1>1 DEF threadVars, WorkCompleted, Joinable
  <1>2. CASE proc' = proc /\ proc = "running"
    BY <1>2 DEF WorkCompleted
  <1>3. ASSUME NEW t \in Everyone, Runs(t, "exit") \/ removed, \E how : Exit(how)
        PROVE  WorkCompleted'
    <2>1. UNCHANGED <<program, pc>>
      BY <1>3 DEF Exit
    <2>2. CASE \A u \in Followers : ~Joinable(u)
      BY <2>1, <2>2 DEF WorkCompleted, Joinable
    <2>3. CASE AllJoinable
      <3>1. pc[t] \in Late \/ pc[Leader] \in Late
        BY <1>3, Numbers DEF Runs, IInv, CountInv, RemovedAfterUse, Late
      <3>2. \A u \in Followers : pc[u] \notin {"none", "working"}
        BY <2>3, <3>1, NoWorkLeft, Numbers
      <3>3. QED BY <2>1, <3>2 DEF WorkCompleted
    <2>4. QED BY <2>2, <2>3, EitherStatus
  <1>4. CASE Next
    <2>1. ASSUME NEW t \in Followers, FollowerStep(t)
          PROVE  WorkCompleted'
      <3>1. FollowerGoesOn(t)
        BY <2>1, FollowerStepIs, CanUnlock, Numbers DEF IInv, Runs
      <3>2. QED BY <1>2, <3>1 DEF FollowerGoesOn, Work, FollowerLock, CalledOn, Joined, Runs
    <2>2. CASE LeaderStep
      BY <1>2, <2>2 DEF LeaderStep, Create, CallExit, LeaderLock, ArriveAtLeaderBarrier,
         PassLeaderBarrier, Join, Runs
    <2>3. ASSUME NEW t \in Everyone, EndStep(t)
          PROVE  WorkCompleted'
      <3>1. CASE Unlock(t)
        <4>1. holder = t
          BY <3>1 DEF Unlock, Runs, IInv, HolderInv
        <4>2. QED BY <1>2, <1>3, <3>1, <4>1 DEF Unlock, CannotUnlock, Runs
      <3>2. CASE Relock(t) \/ Leave(t) \/ Check(t) \/ ExitThread(t)
        BY <1>2, <1>3, <3>2 DEF Relock, Leave, Check, ExitThread, Runs
      <3>3. QED BY <2>3, <3>1, <3>2 DEF EndStep
    <2>4. QED BY <1>1, <1>4, <2>1, <2>2, <2>3 DEF Next, ThreadStep
  <1>5. QED BY <1>1, <1>4

\* For any number of threads of one status, at any pace: when the process ends,
\* whatever ended it, every joinable thread has done its work (foothread.c:196).
THEOREM NoWorkIsCutOff == OneStatus => (Spec => []WorkCompleted)
  <1> SUFFICES ASSUME OneStatus PROVE Spec => []WorkCompleted
    OBVIOUS
  <1>1. Init => IInv /\ WorkCompleted
    BY IInvInit DEF Init, WorkCompleted
  <1>2. (IInv /\ WorkCompleted) /\ [Next]_threadVars => (IInv /\ WorkCompleted)'
    BY IInvStep, WorkStep
  <1>3. QED BY <1>1, <1>2, PTL DEF Spec

\* For any number of threads of one status, at any pace: the leader is past its
\* joins only when every joinable thread has come to its barrier
\* (foothread.c:126-132).
THEOREM LeaderJoins == OneStatus => (Spec => []LeaderJoinsAll)
  <1> SUFFICES ASSUME OneStatus PROVE Spec => []LeaderJoinsAll
    OBVIOUS
  <1>1. IInv => LeaderJoinsAll
    BY EitherStatus DEF IInv, JoinableInv, JoinsInv, LeaderJoinsAll, Late, Joinable
  <1>2. QED BY IInvInit, IInvStep, <1>1, PTL DEF Spec

-----------------------------------------------------------------------------
(* Where the threads may be stuck.                                         *)

\* Thread t has a step to take: the guards of ThreadStep.
MayGo(t) ==
  /\ proc = "running"
  /\ \/ t = Leader
        /\ \/ pc[t] = "creating" /\ (Len(ft_table) < N => holder = -1)
           \/ pc[t] = "exiting" /\ holder = -1
           \/ pc[t] = "arrive"
           \/ pc[t] = "wait" /\ Met(Leader)
           \/ pc[t] = "join" /\ \E i \in Followers :
                /\ Leader \in arrived[i] /\ Met(i)
                /\ \A j \in Followers : j > i => Leader \notin arrived[j]
     \/ t \in Followers
        /\ \/ pc[t] = "working" /\ (slow => pc[Leader] \notin {"creating", "exiting", "arrive"})
           \/ pc[t] = "exiting" /\ holder = -1
           \/ pc[t] = "call" /\ Met(Leader)
           \/ pc[t] = "await" /\ Met(t)
     \/ pc[t] = "relock" /\ (removed \/ holder = -1)
     \/ pc[t] \in {"leave", "unlock", "check", "exit"}

AllDetached == \A t \in Followers : program[t] = "detached"

\* Who has the mutex is doing something with it, and who waits at a barrier has
\* arrived there.
WaysInv ==
  /\ arrived \in [Everyone -> SUBSET Everyone]
  /\ \A t \in Everyone : holder = t => pc[t] \in {"leave", "unlock", "call", "join"}
  /\ pc[Leader] = "wait" => Leader \in arrived[Leader]
  /\ \A t \in Followers : /\ pc[t] = "call" => t \in arrived[Leader]
                          /\ pc[t] = "await" => t \in arrived[t]

\* Slow work is not done while the leader is on its way.
PaceInv == slow /\ pc[Leader] \in {"creating", "exiting", "arrive"}
             => \A t \in Followers : pc[t] \in {"none", "working"}

\* All joinable: the leader waits only for somebody still to come, and joins one
\* after the other; whom it has not joined has not got past its own barrier.
CameInv ==
  AllJoinable =>
    /\ \A t \in Followers : pc[t] \in Late => t \in arrived[t]
    /\ pc[Leader] \in {"arrive", "wait"}
         => active_joinable_threads # 0 \/ \E t \in Followers : t \in arrived[Leader]
    /\ pc[Leader] \in Joining
         => \A t \in Followers : t \in arrived[Leader] => Leader \in arrived[Leader]
    /\ pc[Leader] = "join"
         => \E i \in Followers : /\ Leader \in arrived[i]
                                 /\ \A j \in Followers : j > i => Leader \notin arrived[j]

\* All detached: nobody comes to a barrier.
DetachedInv ==
  AllDetached =>
    /\ active_joinable_threads = 0
    /\ pc[Leader] \notin {"arrive", "wait", "join"}
    /\ \A t \in Followers : pc[t] \notin {"call", "await"}

\* Where JoinNext sends the leader when all have one status.
LEMMA JoinNextOneStatus ==
  ASSUME TypeInv, WaysInv, AllJoinable \/ AllDetached, Len(ft_table) = N,
         NEW from \in 1 .. N + 1, NEW mine, JoinNext(from, mine)
  PROVE  \/ pc' = [pc EXCEPT ![Leader] = mine] /\ arrived' = arrived
         \/ /\ AllJoinable /\ from \in Followers
            /\ pc' = [pc EXCEPT ![Leader] = "join"]
            /\ arrived' = [arrived EXCEPT ![from] = @ \cup {Leader}]
  <1>1. CASE AllJoinable
    BY <1>1, JoinNextInLine
  <1>2. CASE AllDetached
    <2>1. \A i \in Followers : ft_table[i] # "joinable"
      BY <1>2, Numbers DEF TypeInv, AllDetached, Followers
    <2>2. ToJoin(from) = {}
      BY <2>1 DEF ToJoin
    <2>3. QED BY <2>2 DEF JoinNext, Goto
  <1>3. QED BY <1>1, <1>2

\* The leader goes on past the barriers below from, or to mine.
GoesOn(from, mine) ==
  /\ JoinNext(from, mine)
  /\ holder' = Leader <=> mine = "leave"
  /\ \A u \in Followers : holder' = u => holder = u
  /\ \/ pc[Leader] \in {"exiting", "wait"} /\ from = 1
     \/ pc[Leader] = "join" /\ from - 1 \in Followers /\ Join(from - 1)
  /\ UNCHANGED <<program, slow, proc, active_joinable_threads>>

LEMMA JoinNextSteps ==
  ASSUME WaysInv, LeaderLock \/ PassLeaderBarrier \/ \E i \in Followers : Join(i),
         ~Goto(Leader, "arrive")
  PROVE  \E from \in 1 .. N + 1, mine \in {"leave", "relock"} : GoesOn(from, mine)
  <1> USE Numbers
  <1>0. 1 \in 1 .. N + 1 /\ \A i \in Followers : i + 1 \in 1 .. N + 1 /\ (i + 1) - 1 = i
    BY DEF Followers
  <1>1. CASE LeaderLock
    <2>1. /\ pc[Leader] = "exiting" /\ holder' = Leader /\ JoinNext(1, "leave")
          /\ UNCHANGED <<program, slow, proc, active_joinable_threads>>
      BY <1>1 DEF LeaderLock, Runs, counts
    <2>2. GoesOn(1, "leave")
      BY <2>1 DEF GoesOn
    <2>3. QED BY <1>0, <2>2
  <1>2. CASE PassLeaderBarrier
    <2>1. /\ pc[Leader] = "wait" /\ holder' = holder /\ JoinNext(1, "relock")
          /\ UNCHANGED <<program, slow, proc, active_joinable_threads>>
      BY <1>2 DEF PassLeaderBarrier, Runs, counts
    <2>2. holder # Leader
      BY <2>1 DEF WaysInv
    <2>3. GoesOn(1, "relock")
      BY <2>1, <2>2 DEF GoesOn
    <2>4. QED BY <1>0, <2>3
  <1>3. ASSUME NEW i \in Followers, Join(i)
        PROVE  \E from \in 1 .. N + 1, mine \in {"leave", "relock"} : GoesOn(from, mine)
    <2> DEFINE mine == IF holder = Leader THEN "leave" ELSE "relock"
    <2>1. /\ pc[Leader] = "join" /\ holder' = holder /\ JoinNext(i + 1, mine)
          /\ UNCHANGED <<program, slow, proc, active_joinable_threads>>
      BY <1>3 DEF Join, Runs, counts
    <2>2. mine \in {"leave", "relock"} /\ (holder' = Leader <=> mine = "leave")
      BY <2>1
    <2> HIDE DEF mine
    <2>3. i + 1 \in 1 .. N + 1 /\ (i + 1) - 1 \in Followers /\ Join((i + 1) - 1)
      BY <1>0, <1>3
    <2>4. GoesOn(i + 1, mine)
      BY <2>1, <2>2, <2>3 DEF GoesOn
    <2>5. QED BY <2>2, <2>3, <2>4
  <1>4. QED BY <1>1, <1>2, <1>3

-----------------------------------------------------------------------------
\* The threads have one status, and all of the above holds.
Ready == IInv /\ (AllJoinable \/ AllDetached) /\ WaysInv /\ PaceInv /\ CameInv /\ DetachedInv
Goes == WaysInv' /\ PaceInv' /\ CameInv' /\ DetachedInv'

\* What Ready has that the steps need again and again.
LEMMA ReadyParts ==
  ASSUME Ready
  PROVE  /\ TypeInv /\ HolderInv
         /\ AllJoinable => BusyInv /\ ArrivedInv /\ CalledInv /\ JoinsInv
         /\ pc \in [Everyone -> LeaderPlaces \cup FollowerPlaces]
         /\ arrived \in [Everyone -> SUBSET Everyone]
  BY DEF Ready, IInv, JoinableInv, TypeInv, WaysInv

LEMMA CreateGoes == Ready /\ Create => Goes
  <1> SUFFICES ASSUME Ready, Create PROVE Goes
    OBVIOUS
  <1> DEFINE t == Len(ft_table) + 1
  <1>1. t \in Followers
    <2>1. Len(ft_table) \in Nat /\ Len(ft_table) < N
      BY ReadyParts DEF TypeInv, Create
    <2>2. QED BY <2>1, Numbers DEF Followers
  <1>2. /\ pc' = [pc EXCEPT ![t] = "working"] /\ pc[Leader] = "creating"
        /\ UNCHANGED <<program, slow, holder, arrived>>
    BY DEF Create, Runs, Goto
  <1>3. program[t] = "detached" /\ active_joinable_threads = 0 => active_joinable_threads' = 0
    BY DEF Create, CountThread
  <1> HIDE DEF t
  <1>4. /\ pc'[Leader] = "creating" /\ pc'[t] = "working"
        /\ \A u \in Followers : u # t => pc'[u] = pc[u]
    BY <1>1, <1>2, ReadyParts, Numbers
  <1>5. pc[t] = "none"
    <2>1. t > Len(ft_table)
      BY ReadyParts DEF TypeInv, t
    <2>2. QED BY <1>1, <2>1, ReadyParts DEF TypeInv
  <1>6. WaysInv'
    BY <1>1, <1>2, <1>4, <1>5, Numbers DEF Ready, WaysInv, Everyone
  <1>7. PaceInv'
    BY <1>2, <1>4 DEF Ready, PaceInv
  <1>8. CameInv'
    BY <1>2, <1>4 DEF Ready, CameInv, AllJoinable, Joining, Late
  <1>9. DetachedInv'
    BY <1>1, <1>2, <1>3, <1>4 DEF Ready, DetachedInv, AllDetached
  <1>10. QED BY <1>6, <1>7, <1>8, <1>9 DEF Goes

LEMMA LeaderWayGoes ==
  Ready /\ (CallExit \/ ArriveAtLeaderBarrier \/ (LeaderLock /\ Goto(Leader, "arrive"))) => Goes
  <1> SUFFICES ASSUME Ready,
                      CallExit \/ ArriveAtLeaderBarrier \/ (LeaderLock /\ Goto(Leader, "arrive"))
               PROVE  Goes
    OBVIOUS
  <1>0. /\ pc \in [Everyone -> LeaderPlaces \cup FollowerPlaces]
        /\ arrived \in [Everyone -> SUBSET Everyone]
    BY ReadyParts
  <1>1. UNCHANGED <<program, slow, active_joinable_threads>>
    BY DEF CallExit, ArriveAtLeaderBarrier, LeaderLock, counts
  <1>2. \/ /\ pc[Leader] = "creating" /\ pc' = [pc EXCEPT ![Leader] = "exiting"]
           /\ UNCHANGED <<holder, arrived>>
        \/ /\ pc[Leader] = "arrive" /\ pc' = [pc EXCEPT ![Leader] = "wait"]
           /\ arrived' = [arrived EXCEPT ![Leader] = @ \cup {Leader}]
           /\ UNCHANGED holder
        \/ /\ pc[Leader] = "exiting" /\ pc' = [pc EXCEPT ![Leader] = "arrive"]
           /\ active_joinable_threads # 0
           /\ UNCHANGED <<holder, arrived>>
    <2>1. CASE CallExit
      BY <2>1 DEF CallExit, Runs, Goto
    <2>2. CASE ArriveAtLeaderBarrier
      BY <2>2 DEF ArriveAtLeaderBarrier, Runs, Goto
    <2>3. CASE LeaderLock /\ Goto(Leader, "arrive")
      <3>1. pc[Leader] = "exiting" /\ pc' = [pc EXCEPT ![Leader] = "arrive"]
        BY <2>3 DEF LeaderLock, Runs, Goto
      <3>2. active_joinable_threads # 0
        <4>1. ASSUME JoinNext(1, "leave")
              PROVE  FALSE
          <5>1. PICK there \in {"leave", "join"} : pc' = [pc EXCEPT ![Leader] = there]
            BY <4>1, JoinNextPlace
          <5>2. QED BY <1>0, <3>1, <5>1, Numbers
        <4>2. QED BY <2>3, <4>1 DEF LeaderLock
      <3>3. QED BY <2>3, <3>1, <3>2 DEF LeaderLock
    <2>4. QED BY <2>1, <2>2, <2>3
  <1>3. /\ \A u \in Followers : pc'[u] = pc[u] /\ arrived'[u] = arrived[u]
        /\ arrived' \in [Everyone -> SUBSET Everyone] /\ holder' = holder
        /\ arrived[Leader] \subseteq arrived'[Leader]
        /\ pc'[Leader] = "wait" => Leader \in arrived'[Leader]
    BY <1>0, <1>2, Numbers
  <1>4. /\ pc[Leader] \in {"creating", "exiting", "arrive"}
        /\ pc'[Leader] \in {"exiting", "arrive", "wait"}
        /\ pc'[Leader] = "wait" => pc[Leader] = "arrive"
        /\ pc'[Leader] = "arrive" => active_joinable_threads # 0
    BY <1>0, <1>2, Numbers
  <1>5. WaysInv'
    <2>1. ASSUME NEW u \in Everyone, holder' = u
          PROVE  pc'[u] \in {"leave", "unlock", "call", "join"}
      BY <1>3, <1>4, <2>1, Numbers DEF Ready, WaysInv, Everyone
    <2>2. QED BY <1>3, <2>1 DEF Ready, WaysInv
  <1>6. PaceInv'
    BY <1>1, <1>3, <1>4 DEF Ready, PaceInv
  <1>7. CameInv'
    <2>1. pc'[Leader] \notin Joining
      BY <1>4 DEF Joining, Late
    <2>2. \A u \in Followers : u \in arrived[Leader] => u \in arrived'[Leader]
      BY <1>3
    <2>3. QED BY <1>1, <1>3, <1>4, <2>1, <2>2 DEF Ready, CameInv, AllJoinable, Joining
  <1>8. DetachedInv'
    <2>1. AllDetached => active_joinable_threads = 0 /\ pc[Leader] # "arrive"
      BY DEF Ready, DetachedInv
    <2>2. QED BY <1>1, <1>3, <1>4, <2>1 DEF Ready, DetachedInv, AllDetached
  <1>9. QED BY <1>5, <1>6, <1>7, <1>8 DEF Goes

LEMMA JoinNextGoes ==
  ASSUME Ready, LeaderLock \/ PassLeaderBarrier \/ \E i \in Followers : Join(i),
         ~Goto(Leader, "arrive")
  PROVE  Goes
  <1>0. /\ pc \in [Everyone -> LeaderPlaces \cup FollowerPlaces]
        /\ arrived \in [Everyone -> SUBSET Everyone] /\ Len(ft_table) = N
    <2>1. pc[Leader] \in {"exiting", "wait", "join"}
      BY DEF LeaderLock, PassLeaderBarrier, Join, Runs
    <2>2. QED BY <2>1, ReadyParts DEF TypeInv
  <1>1. PICK from \in 1 .. N + 1, mine \in {"leave", "relock"} : GoesOn(from, mine)
    BY JoinNextSteps DEF Ready
  <1> USE DEF GoesOn
  <1>2. \/ pc' = [pc EXCEPT ![Leader] = mine] /\ arrived' = arrived
        \/ /\ AllJoinable /\ from \in Followers
           /\ pc' = [pc EXCEPT ![Leader] = "join"]
           /\ arrived' = [arrived EXCEPT ![from] = @ \cup {Leader}]
    BY <1>0, <1>1, JoinNextOneStatus, ReadyParts DEF Ready
  <1>3. /\ \A u \in Followers : pc'[u] = pc[u] /\ arrived[u] \subseteq arrived'[u]
        /\ arrived' \in [Everyone -> SUBSET Everyone] /\ arrived'[Leader] = arrived[Leader]
        /\ pc'[Leader] \in {mine, "join"}
    BY <1>0, <1>2, Numbers
  <1>4. pc'[Leader] \in {"leave", "relock", "join"}
    BY <1>1, <1>3
  <1>5. WaysInv'
    <2>1. ASSUME NEW u \in Everyone, holder' = u
          PROVE  pc'[u] \in {"leave", "unlock", "call", "join"}
      <3>1. CASE u = Leader
        <4>1. mine = "leave"
          BY <1>1, <2>1, <3>1
        <4>2. QED BY <1>3, <3>1, <4>1
      <3>2. CASE u # Leader
        <4>1. u \in Followers /\ holder = u
          BY <1>1, <2>1, <3>2 DEF Everyone
        <4>2. QED BY <1>3, <4>1 DEF Ready, WaysInv
      <3>3. QED BY <3>1, <3>2
    <2>2. \A u \in Followers : u \in arrived[u] => u \in arrived'[u]
      BY <1>3
    <2>3. QED BY <1>3, <1>4, <2>1, <2>2 DEF Ready, WaysInv
  <1>6. PaceInv'
    BY <1>4 DEF PaceInv
  <1>7. CameInv'
    <2> SUFFICES ASSUME AllJoinable'
                 PROVE  /\ \A t \in Followers : pc'[t] \in Late => t \in arrived'[t]
                        /\ \A t \in Followers : t \in arrived'[Leader] => Leader \in arrived'[Leader]
                        /\ pc'[Leader] = "join"
                             => \E i \in Followers :
                                  /\ Leader \in arrived'[i]
                                  /\ \A j \in Followers : j > i => Leader \notin arrived'[j]
      BY <1>4 DEF CameInv
    <2>1. AllJoinable
      BY <1>1 DEF AllJoinable
    <2>2. ArrivedInv /\ CalledInv /\ JoinsInv
      BY <2>1, ReadyParts
    <2>3. \A t \in Followers : t \in arrived[t] => t \in arrived'[t]
      BY <1>3
    <2>4. \A t \in Followers : pc'[t] \in Late => t \in arrived'[t]
      BY <1>3, <2>1, <2>3 DEF Ready, CameInv
    <2>5. ASSUME NEW t \in Followers, t \in arrived[Leader]
          PROVE  Leader \in arrived[Leader]
      <3>1. CASE pc[Leader] = "exiting"
        <4>1. holder = -1 \/ pc[Leader] # "exiting"
          BY DEF LeaderLock, PassLeaderBarrier, Join, Runs
        <4>2. holder # t
          BY <3>1, <4>1, Numbers
        <4>3. QED BY <2>2, <2>5, <4>2 DEF CalledInv
      <3>2. CASE pc[Leader] = "wait"
        BY <3>2 DEF Ready, WaysInv
      <3>3. CASE pc[Leader] = "join"
        BY <2>1, <2>5, <3>3 DEF Ready, CameInv, Joining
      <3>4. QED BY <1>1, <3>1, <3>2, <3>3
    <2>6. ASSUME pc'[Leader] = "join"
          PROVE  \E i \in Followers :
                   /\ Leader \in arrived'[i]
                   /\ \A j \in Followers : j > i => Leader \notin arrived'[j]
      <3>1. /\ from \in Followers
            /\ arrived' = [arrived EXCEPT ![from] = @ \cup {Leader}]
        BY <1>0, <1>1, <1>2, <2>6, Numbers
      <3>2. Leader \in arrived'[from] /\ \A j \in Followers : j # from => arrived'[j] = arrived[j]
        BY <1>0, <3>1, Numbers
      <3>3. ASSUME NEW j \in Followers, j > from
            PROVE  Leader \notin arrived[j]
        <4>1. CASE pc[Leader] \in {"exiting", "wait"}
          BY <2>2, <4>1 DEF JoinsInv, Joining, Late
        <4>2. CASE pc[Leader] = "join"
          <5>1. Join(from - 1)
            BY <1>1, <4>2
          <5>2. j > from - 1
            BY <3>1, <3>3, Numbers
          <5>3. QED BY <5>1, <5>2 DEF Join
        <4>3. QED BY <1>1, <4>1, <4>2
      <3>4. \A j \in Followers : j > from => j # from
        BY <3>1, Numbers
      <3>5. QED BY <3>1, <3>2, <3>3, <3>4
    <2>7. QED BY <1>3, <2>4, <2>5, <2>6
  <1>8. DetachedInv'
    <2> SUFFICES ASSUME AllDetached'
                 PROVE  /\ active_joinable_threads' = 0 /\ pc'[Leader] # "join"
                        /\ \A t \in Followers : pc'[t] \notin {"call", "await"}
      BY <1>4 DEF DetachedInv
    <2>1. AllDetached
      BY <1>1 DEF AllDetached
    <2>2. /\ active_joinable_threads' = 0
          /\ \A t \in Followers : pc'[t] \notin {"call", "await"}
      BY <1>1, <1>3, <2>1 DEF Ready, DetachedInv
    <2>3. ~AllJoinable \/ Followers = {}
      BY <2>1 DEF AllDetached, AllJoinable
    <2>4. pc'[Leader] = mine
      BY <1>0, <1>2, <2>3, Numbers
    <2>5. QED BY <1>1, <2>2, <2>4
  <1>9. QED BY <1>5, <1>6, <1>7, <1>8 DEF Goes

\* A follower's step moves nobody else and takes nobody from a barrier.
LEMMA FollowerStepMoves ==
  ASSUME Ready, NEW t \in Followers, FollowerStep(t)
  PROVE  /\ pc'[Leader] = pc[Leader]
         /\ \A u \in Followers : u # t => pc'[u] = pc[u]
         /\ arrived' \in [Everyone -> SUBSET Everyone]
         /\ \A i \in Everyone : arrived[i] \subseteq arrived'[i]
         /\ \A i \in Everyone : Leader \in arrived'[i] <=> Leader \in arrived[i]
         /\ UNCHANGED <<program, slow>>
  <1> USE Numbers
  <1>0. /\ pc \in [Everyone -> LeaderPlaces \cup FollowerPlaces]
        /\ arrived \in [Everyone -> SUBSET Everyone]
    BY ReadyParts
  <1>f. FollowerGoesOn(t)
    BY FollowerStepIs, CanUnlock DEF Ready, IInv, Runs
  <1>1. \E there : pc' = [pc EXCEPT ![t] = there]
    BY <1>f DEF FollowerGoesOn, Work, FollowerLock, CalledOn, Joined, Goto
  <1>2. arrived' = arrived \/ \E i \in Everyone : arrived' = [arrived EXCEPT ![i] = @ \cup {t}]
    BY <1>f DEF FollowerGoesOn, Work, FollowerLock, CalledOn, Joined
  <1>3. UNCHANGED <<program, slow>>
    BY <1>f DEF FollowerGoesOn, Work, FollowerLock, CalledOn, Joined
  <1>4. /\ arrived' \in [Everyone -> SUBSET Everyone]
        /\ \A i \in Everyone : arrived[i] \subseteq arrived'[i]
        /\ \A i \in Everyone : Leader \in arrived'[i] <=> Leader \in arrived[i]
    BY <1>0, <1>2
  <1>5. QED BY <1>0, <1>1, <1>3, <1>4

LEMMA WorkGoes ==
  ASSUME Ready, NEW t \in Followers, Work(t)
  PROVE  Goes
  <1>0. FollowerStep(t) /\ pc \in [Everyone -> LeaderPlaces \cup FollowerPlaces]
    BY ReadyParts DEF FollowerStep
  <1>1. /\ pc[t] = "working" /\ pc'[t] = "exiting"
        /\ UNCHANGED <<arrived, holder, active_joinable_threads>>
        /\ slow => pc[Leader] \notin {"creating", "exiting", "arrive"}
    BY <1>0, Numbers DEF Work, Runs, Goto, counts
  <1>2. WaysInv'
    BY <1>0, <1>1, FollowerStepMoves, Numbers DEF Ready, WaysInv, Everyone
  <1>3. PaceInv'
    BY <1>0, <1>1, FollowerStepMoves DEF PaceInv
  <1>4. CameInv'
    BY <1>0, <1>1, FollowerStepMoves DEF Ready, CameInv, AllJoinable, Late
  <1>5. DetachedInv'
    BY <1>0, <1>1, FollowerStepMoves DEF Ready, DetachedInv, AllDetached
  <1>6. QED BY <1>2, <1>3, <1>4, <1>5 DEF Goes

LEMMA FollowerLockGoes ==
  ASSUME Ready, NEW t \in Followers, FollowerLock(t)
  PROVE  Goes
  <1>0. /\ FollowerStep(t) /\ pc \in [Everyone -> LeaderPlaces \cup FollowerPlaces]
        /\ arrived \in [Everyone -> SUBSET Everyone] /\ active_joinable_threads \in Int
    BY ReadyParts DEF FollowerStep, TypeInv
  <1>1. pc[t] = "exiting" /\ holder = -1
    BY DEF FollowerLock, Runs
  <1>2. Len(ft_table) \in Followers /\ LastStatus = program[Len(ft_table)]
    <2>1. Len(ft_table) \in Nat /\ ~(t > Len(ft_table)) /\ Len(ft_table) <= N
      BY <1>1, ReadyParts DEF TypeInv
    <2>2. Len(ft_table) \in 1..Len(ft_table) /\ Len(ft_table) \in Followers
      BY <2>1, Numbers DEF Followers
    <2>3. QED BY <2>2, ReadyParts DEF TypeInv, LastStatus
  <1>3. \/ /\ AllJoinable /\ active_joinable_threads' = 0
           /\ holder' = t /\ pc' = [pc EXCEPT ![t] = "call"]
           /\ arrived' = [arrived EXCEPT ![Leader] = @ \cup {t}]
        \/ /\ AllJoinable /\ active_joinable_threads' # 0
           /\ holder' = holder /\ pc' = [pc EXCEPT ![t] = "await"]
           /\ arrived' = [arrived EXCEPT ![t] = @ \cup {t}]
        \/ /\ AllDetached /\ active_joinable_threads' = active_joinable_threads
           /\ holder' = t /\ pc' = [pc EXCEPT ![t] = "leave"]
           /\ arrived' = arrived
    <2>1. CASE AllJoinable
      <3>1. LastStatus = "joinable"
        BY <1>2, <2>1 DEF AllJoinable
      <3>2. QED BY <2>1, <3>1 DEF FollowerLock, CallsLeader, Goto
    <2>2. CASE AllDetached
      <3>1. LastStatus # "joinable"
        BY <1>2, <2>2 DEF AllDetached
      <3>2. QED BY <2>2, <3>1 DEF FollowerLock, Goto
    <2>3. QED BY <2>1, <2>2 DEF Ready
  <1>4. AllDetached => ~AllJoinable
    BY <1>2 DEF AllDetached, AllJoinable
  <1>5. /\ pc'[t] \in {"call", "await", "leave"}
        /\ pc'[t] = "call" => AllJoinable /\ t \in arrived'[Leader]
        /\ pc'[t] = "await" => AllJoinable /\ t \in arrived'[t]
        /\ pc'[t] = "leave" => AllDetached
    BY <1>0, <1>3, Numbers
  <1>6. WaysInv'
    <2>1. ASSUME NEW u \in Everyone, holder' = u
          PROVE  pc'[u] \in {"leave", "unlock", "call", "join"}
      <3>1. u = t /\ pc'[t] \in {"call", "leave"}
        BY <1>0, <1>1, <1>3, <2>1, Numbers
      <3>2. QED BY <3>1
    <2>2. \A u \in Followers : u # t => /\ pc'[u] = "call" => u \in arrived'[Leader]
                                        /\ pc'[u] = "await" => u \in arrived'[u]
      BY <1>0, FollowerStepMoves, Numbers DEF Ready, WaysInv
    <2>3. pc'[Leader] = "wait" => Leader \in arrived'[Leader]
      BY <1>0, FollowerStepMoves, Numbers DEF Ready, WaysInv
    <2>4. QED BY <1>0, <1>5, <2>1, <2>2, <2>3, FollowerStepMoves DEF WaysInv
  <1>7. PaceInv'
    BY <1>0, <1>1, FollowerStepMoves DEF Ready, PaceInv
  <1>8. CameInv'
    <2> SUFFICES ASSUME AllJoinable' PROVE CameInv'
      BY DEF CameInv
    <2>1. AllJoinable /\ pc'[t] \in {"call", "await"}
      BY <1>0, <1>4, <1>5, FollowerStepMoves DEF AllJoinable
    <2>2. pc'[Leader] \notin Joining
      <3>1. t \in Busy
        BY <1>1 DEF Busy
      <3>2. active_joinable_threads # 0
        BY <2>1, <3>1, NobodyBusy, ReadyParts
      <3>3. pc[Leader] \notin Joining
        BY <2>1, <3>2, ReadyParts DEF JoinsInv
      <3>4. QED BY <1>0, <3>3, FollowerStepMoves
    <2>3. \A u \in Followers : pc'[u] \in Late => pc[u] \in Late /\ u # t
      BY <1>0, <2>1, FollowerStepMoves DEF Late
    <2>4. \A u \in Followers : pc'[u] \in Late => u \in arrived'[u]
      BY <1>0, <2>1, <2>3, FollowerStepMoves, Numbers DEF Ready, CameInv
    <2>5. active_joinable_threads' # 0 \/ \E u \in Followers : u \in arrived'[Leader]
      BY <1>0, <1>3, <1>4, <2>1, Numbers
    <2>6. QED BY <2>2, <2>4, <2>5 DEF CameInv, Joining
  <1>9. DetachedInv'
    <2> SUFFICES ASSUME AllDetached' PROVE DetachedInv'
      BY DEF DetachedInv
    <2>1. AllDetached
      BY <1>0, FollowerStepMoves DEF AllDetached
    <2>2. pc'[t] = "leave" /\ active_joinable_threads' = active_joinable_threads
      BY <1>3, <1>4, <1>5, <2>1
    <2>3. QED BY <1>0, <2>1, <2>2, FollowerStepMoves DEF Ready, DetachedInv
  <1>10. QED BY <1>6, <1>7, <1>8, <1>9 DEF Goes

LEMMA BarrierGoes ==
  ASSUME Ready, NEW t \in Followers, LeaderCalled(t) \/ Joined(t)
  PROVE  Goes
  <1>0. /\ FollowerStep(t) /\ pc \in [Everyone -> LeaderPlaces \cup FollowerPlaces]
        /\ arrived \in [Everyone -> SUBSET Everyone]
    BY ReadyParts DEF FollowerStep
  <1>c. CalledOn(t) \/ Joined(t)
    BY LeaderCalledIs, CanUnlock, Numbers DEF Ready, IInv, Runs
  <1>1. /\ pc[t] \in {"call", "await"} /\ UNCHANGED active_joinable_threads
        /\ \/ /\ pc' = [pc EXCEPT ![t] = "await"] /\ holder' = -1
              /\ arrived' = [arrived EXCEPT ![t] = @ \cup {t}]
           \/ /\ pc[t] = "await" /\ pc' = [pc EXCEPT ![t] = "relock"]
              /\ holder' = holder /\ arrived' = arrived
    BY <1>c DEF CalledOn, Joined, Runs, Goto, Unlocked, counts
  <1>2. AllJoinable
    BY <1>1 DEF Ready, DetachedInv
  <1>3. /\ pc'[t] \in {"await", "relock"} /\ t \in arrived'[t]
        /\ arrived'[Leader] = arrived[Leader]
    <2>1. CASE CalledOn(t)
      BY <1>0, <2>1, Numbers DEF CalledOn, Goto
    <2>2. CASE Joined(t)
      <3>1. t \in arrived[t]
        BY <1>2, <2>2, FollowerMet, ReadyParts DEF Joined
      <3>2. QED BY <1>0, <2>2, <3>1, Numbers DEF Joined, Goto
    <2>3. QED BY <1>c, <2>1, <2>2
  <1>4. WaysInv'
    <2>1. ASSUME NEW u \in Everyone, holder' = u
          PROVE  pc'[u] \in {"leave", "unlock", "call", "join"}
      <3>1. pc[t] = "await" /\ holder = u
        BY <1>1, <2>1, Numbers
      <3>2. u # t
        BY <3>1 DEF Ready, WaysInv
      <3>3. pc'[u] = pc[u]
        BY <1>0, <3>2, FollowerStepMoves DEF Everyone
      <3>4. QED BY <3>1, <3>3 DEF Ready, WaysInv
    <2>2. \A u \in Followers : u # t => /\ pc'[u] = "call" => u \in arrived'[Leader]
                                        /\ pc'[u] = "await" => u \in arrived'[u]
      BY <1>0, FollowerStepMoves, Numbers DEF Ready, WaysInv
    <2>3. pc'[Leader] = "wait" => Leader \in arrived'[Leader]
      BY <1>0, FollowerStepMoves, Numbers DEF Ready, WaysInv
    <2>4. QED BY <1>0, <1>3, <2>1, <2>2, <2>3, FollowerStepMoves DEF WaysInv
  <1>5. PaceInv'
    BY <1>0, <1>1, FollowerStepMoves DEF Ready, PaceInv
  <1>6. CameInv'
    <2>1. \A u \in Followers : pc'[u] \in Late => u \in arrived'[u]
      <3>1. \A u \in Followers : u # t /\ pc'[u] \in Late => u \in arrived[u]
        BY <1>0, <1>2, FollowerStepMoves DEF Ready, CameInv
      <3>2. QED BY <1>0, <1>3, <3>1, FollowerStepMoves, Numbers
    <2>2. \A i \in Followers : Leader \in arrived'[i] <=> Leader \in arrived[i]
      BY <1>0, FollowerStepMoves, Numbers
    <2>3. QED BY <1>0, <1>1, <1>2, <1>3, <2>1, <2>2, FollowerStepMoves DEF Ready, CameInv
  <1>7. DetachedInv'
    BY <1>0, <1>1, FollowerStepMoves DEF Ready, DetachedInv, AllDetached
  <1>8. QED BY <1>4, <1>5, <1>6, <1>7 DEF Goes

LEMMA EndGoes ==
  ASSUME Ready, NEW t \in Everyone, EndStep(t)
  PROVE  Goes
  <1>1. /\ pc[t] \in Late
        /\ pc \in [Everyone -> LeaderPlaces \cup FollowerPlaces]
        /\ UNCHANGED <<program, slow, active_joinable_threads, arrived>>
    BY ReadyParts DEF EndStep, Relock, Leave, Unlock, Check, ExitThread, Exit, Runs, Late, counts
  <1>2. pc' = pc \/ \E there \in Late : pc' = [pc EXCEPT ![t] = there]
    BY DEF EndStep, Relock, Leave, Unlock, Check, ExitThread, Exit, Goto, Late
  <1>3. \A u \in Everyone : /\ pc'[u] \in Late <=> pc[u] \in Late
                            /\ pc[u] \notin Late => pc'[u] = pc[u]
                            /\ u # t => pc'[u] = pc[u]
    BY <1>1, <1>2
  <1>4. \A u \in Everyone : holder' = u =>
          \/ holder = u /\ (pc'[u] = pc[u] \/ pc'[u] \in {"leave", "unlock"})
          \/ u = t /\ pc'[u] = "leave"
    <2>1. CASE Relock(t) \/ ExitThread(t)
      BY <1>1, <1>3, <2>1 DEF Relock, ExitThread, Exit, Goto
    <2>2. CASE Leave(t)
      <3>1. holder' = holder /\ pc' = [pc EXCEPT ![t] = "unlock"]
        BY <2>2 DEF Leave, Goto
      <3>2. QED BY <1>1, <3>1
    <2>3. CASE Unlock(t)
      <3>1. holder' = -1 \/ (holder' = holder /\ pc' = pc)
        BY <2>3 DEF Unlock, Unlocked, Exit
      <3>2. QED BY <3>1, Numbers
    <2>4. CASE Check(t)
      <3>1. holder' = holder /\ holder # t
        BY <2>4 DEF Check, Exit, Runs, Ready, WaysInv
      <3>2. QED BY <1>3, <3>1
    <2>5. QED BY <2>1, <2>2, <2>3, <2>4 DEF EndStep
  <1>5. WaysInv'
    <2>1. \A u \in Everyone : holder' = u => pc'[u] \in {"leave", "unlock", "call", "join"}
      BY <1>4 DEF Ready, WaysInv
    <2>2. \A u \in Everyone : pc'[u] \in {"wait", "call", "await"} => pc'[u] = pc[u]
      BY <1>3 DEF Late
    <2>3. QED BY <1>1, <2>1, <2>2, Numbers DEF Ready, WaysInv
  <1>6. PaceInv'
    <2>1. pc'[Leader] \in {"creating", "exiting", "arrive"} => pc'[Leader] = pc[Leader]
      BY <1>3, Numbers DEF Late
    <2>2. ASSUME slow, pc[Leader] \in {"creating", "exiting", "arrive"}, NEW u \in Followers
          PROVE  pc'[u] \in {"none", "working"}
      <3>1. pc[u] \in {"none", "working"}
        BY <2>2 DEF Ready, PaceInv
      <3>2. QED BY <1>3, <3>1, Numbers DEF Late
    <2>3. QED BY <1>1, <2>1, <2>2 DEF PaceInv
  <1>7. CameInv'
    <2>1. pc'[Leader] \in {"arrive", "wait", "join"} => pc'[Leader] = pc[Leader]
      BY <1>3, Numbers DEF Late
    <2>2. pc'[Leader] \in Joining <=> pc[Leader] \in Joining
      BY <1>3, Numbers DEF Joining, Late
    <2>3. \A u \in Followers : pc'[u] \in Late => pc[u] \in Late
      BY <1>3, Numbers
    <2>4. QED BY <1>1, <2>1, <2>2, <2>3 DEF Ready, CameInv, AllJoinable
  <1>8. DetachedInv'
    <2>1. \A u \in Everyone : pc'[u] \in {"arrive", "wait", "join", "call", "await"} => pc'[u] = pc[u]
      BY <1>3 DEF Late
    <2>2. QED BY <1>1, <2>1, Numbers DEF Ready, DetachedInv, AllDetached
  <1>9. QED BY <1>5, <1>6, <1>7, <1>8 DEF Goes

LEMMA ReadyInit == OneStatus /\ Init => Ready
  <1> SUFFICES ASSUME OneStatus, Init PROVE Ready
    OBVIOUS
  <1>1. IInv
    BY IInvInit
  <1>2. AllJoinable \/ AllDetached
    BY <1>1, EitherStatus DEF IInv, TypeInv, Joinable, AllDetached
  <1>3. /\ pc[Leader] = "creating" /\ \A t \in Followers : pc[t] = "none"
        /\ arrived \in [Everyone -> SUBSET Everyone]
        /\ holder = -1 /\ active_joinable_threads = 0
    BY Numbers DEF Init
  <1>4. WaysInv /\ PaceInv
    BY <1>3, Numbers DEF WaysInv, PaceInv
  <1>5. CameInv /\ DetachedInv
    BY <1>3 DEF CameInv, DetachedInv, Joining, Late
  <1>6. QED BY <1>1, <1>2, <1>4, <1>5 DEF Ready

LEMMA ReadyStep == Ready /\ [Next]_threadVars => Ready'
  <1> SUFFICES ASSUME Ready, [Next]_threadVars PROVE Ready'
    OBVIOUS
  <1>1. IInv'
    BY IInvStep DEF Ready
  <1>2. program' = program
    BY DEF Next, ThreadStep, LeaderStep, FollowerStep, EndStep, Create, CallExit, LeaderLock,
       ArriveAtLeaderBarrier, PassLeaderBarrier, Join, Work, FollowerLock, LeaderCalled, Joined,
       Relock, Leave, Unlock, Check, ExitThread, Exit, threadVars
  <1>3. AllJoinable' \/ AllDetached'
    BY <1>2 DEF Ready, AllJoinable, AllDetached
  <1>4. UNCHANGED threadVars => Goes
    BY DEF threadVars, counts, Ready, Goes, WaysInv, PaceInv, CameInv, DetachedInv,
       AllJoinable, AllDetached
  <1>5. LeaderStep => Goes
    <2>1. Create \/ CallExit \/ ArriveAtLeaderBarrier => Goes
      BY CreateGoes, LeaderWayGoes
    <2>2. (LeaderLock \/ PassLeaderBarrier \/ \E i \in Followers : Join(i))
            /\ ~Goto(Leader, "arrive") => Goes
      BY JoinNextGoes
    <2>3. LeaderLock /\ Goto(Leader, "arrive") => Goes
      BY LeaderWayGoes
    <2>4. Goto(Leader, "arrive") => ~PassLeaderBarrier /\ ~(\E i \in Followers : Join(i))
      <3>1. ASSUME Goto(Leader, "arrive"), NEW from, NEW mine \in {"leave", "relock"},
                   JoinNext(from, mine)
            PROVE  FALSE
        <4>1. PICK there \in {mine, "join"} : pc' = [pc EXCEPT ![Leader] = there]
          BY <3>1, JoinNextPlace
        <4>2. pc'[Leader] = "arrive" /\ pc'[Leader] = there
          BY <3>1, <4>1, ReadyParts, Numbers DEF Goto
        <4>3. QED BY <3>1, <4>1, <4>2
      <3>2. PassLeaderBarrier => JoinNext(1, "relock")
        BY DEF PassLeaderBarrier
      <3>3. \A i \in Followers : Join(i) => JoinNext(i + 1, "leave") \/ JoinNext(i + 1, "relock")
        BY DEF Join
      <3>4. QED BY <3>1, <3>2, <3>3
    <2>5. QED BY <2>1, <2>2, <2>3, <2>4 DEF LeaderStep
  <1>6. (\E t \in Followers : FollowerStep(t)) => Goes
    BY WorkGoes, FollowerLockGoes, BarrierGoes DEF FollowerStep
  <1>7. (\E t \in Everyone : EndStep(t)) => Goes
    BY EndGoes
  <1>8. Goes
    BY <1>4, <1>5, <1>6, <1>7 DEF Next, ThreadStep
  <1>9. QED BY <1>1, <1>3, <1>8 DEF Ready, Goes

-----------------------------------------------------------------------------
\* Two who have arrived, and nobody else, have met.
LEMMA TwoMet ==
  ASSUME NEW i, NEW a, NEW b, a # b, arrived[i] = {a, b}
  PROVE  Met(i)
  <1>1. IsFiniteSet({a}) /\ Cardinality({a}) = 1 /\ b \notin {a} /\ {a, b} = {a} \cup {b}
    BY FS_Singleton
  <1>2. Cardinality({a, b}) = 2
    BY <1>1, FS_AddElement
  <1>3. QED BY <1>2 DEF Met

\* At the leader's barrier the leader and a follower have met.
LEMMA LeaderAndOneMet ==
  ASSUME Ready, AllJoinable, Leader \in arrived[Leader],
         NEW t \in Followers, t \in arrived[Leader]
  PROVE  Met(Leader)
  <1>1. arrived[Leader] \subseteq Everyone
    BY ReadyParts, Numbers
  <1>2. \A u \in Followers : u \in arrived[Leader] => u = t
    BY ReadyParts DEF CalledInv
  <1>3. arrived[Leader] = {Leader, t} /\ Leader # t
    BY <1>1, <1>2, Numbers DEF Everyone
  <1>4. QED BY <1>3, TwoMet

\* The leader that joins goes on once every follower is at its own barrier.
LEMMA JoinMayGo ==
  ASSUME Ready, proc = "running", pc[Leader] = "join",
         \A u \in Followers : pc[u] \in {"await"} \cup Late
  PROVE  MayGo(Leader)
  <1>1. AllJoinable
    BY DEF Ready, DetachedInv
  <1>2. PICK i \in Followers : /\ Leader \in arrived[i]
                               /\ \A j \in Followers : j > i => Leader \notin arrived[j]
    BY <1>1 DEF Ready, CameInv
  <1>3. i \in arrived[i]
    BY <1>1 DEF Ready, CameInv, WaysInv
  <1>4. arrived[i] \subseteq {Leader, i}
    BY <1>1, ReadyParts DEF ArrivedInv
  <1>5. Met(i)
    <2>1. arrived[i] = {Leader, i} /\ Leader # i
      BY <1>2, <1>3, <1>4, Numbers
    <2>2. QED BY <2>1, TwoMet
  <1>6. QED BY <1>2, <1>5 DEF MayGo

\* With all of them created and nobody busy, a follower that has not called the
\* leader is at its barrier or past it.
LEMMA AtBarriers ==
  ASSUME Ready, pc[Leader] \in {"wait", "join"},
         \A u \in Followers : pc[u] \notin {"working", "exiting", "call"}
  PROVE  \A u \in Followers : pc[u] \in {"await"} \cup Late
  <1>1. Len(ft_table) = N
    BY ReadyParts DEF TypeInv
  <1>2. \A u \in Followers : pc[u] # "none" /\ pc[u] \in FollowerPlaces
    BY <1>1, ReadyParts, Numbers DEF TypeInv, Followers
  <1>3. QED BY <1>2 DEF FollowerPlaces

LEMMA SomebodyMayGo ==
  ASSUME Ready, proc = "running", \A t \in Everyone : ~MayGo(t)
  PROVE  Deadlocked
  <1> USE Numbers
  <1>1. /\ pc[Leader] \in {"creating", "exiting", "wait", "join", "relock"}
        /\ pc[Leader] \in {"exiting", "relock"} => holder # -1
        /\ pc[Leader] = "creating" => Len(ft_table) < N /\ holder # -1
        /\ pc[Leader] = "wait" => ~Met(Leader)
    <2>1. pc[Leader] \in LeaderPlaces
      BY ReadyParts DEF TypeInv
    <2>2. ~MayGo(Leader)
      OBVIOUS
    <2>3. QED BY <2>1, <2>2 DEF MayGo, LeaderPlaces, Joining, Late
  <1>2. ASSUME NEW u \in Followers
        PROVE  /\ pc[u] \in {"none", "working", "exiting", "call", "await", "relock"}
               /\ pc[u] \in {"exiting", "relock"} => holder # -1
               /\ pc[u] = "working" => slow /\ pc[Leader] \in {"creating", "exiting", "arrive"}
               /\ pc[u] = "call" => ~Met(Leader) /\ holder = u
    <2>1. pc[u] \in FollowerPlaces
      BY ReadyParts DEF TypeInv
    <2>2. ~MayGo(u) /\ u \in Everyone
      OBVIOUS
    <2>3. pc[u] = "call" => holder = u
      BY <2>2, ReadyParts DEF HolderInv
    <2>4. QED BY <2>1, <2>2, <2>3 DEF MayGo, FollowerPlaces, Late
  <1>3. CASE holder = -1
    <2>1. pc[Leader] \in {"wait", "join"} /\ AllJoinable
      BY <1>1, <1>3 DEF Ready, DetachedInv
    <2>2. \A u \in Followers : pc[u] \notin {"working", "exiting", "call"}
      BY <1>2, <1>3, <2>1
    <2>3. CASE pc[Leader] = "join"
      BY <2>1, <2>2, <2>3, AtBarriers, JoinMayGo
    <2>4. CASE pc[Leader] = "wait"
      <3>1. Busy = {}
        BY <2>2 DEF Busy
      <3>2. active_joinable_threads = 0
        BY <2>1, <3>1, NobodyBusy, ReadyParts
      <3>3. \E t \in Followers : t \in arrived[Leader]
        BY <2>1, <2>4, <3>2 DEF Ready, CameInv
      <3>4. Leader \in arrived[Leader]
        BY <2>4 DEF Ready, WaysInv
      <3>5. QED BY <1>1, <2>1, <2>4, <3>3, <3>4, LeaderAndOneMet
    <2>5. QED BY <2>1, <2>3, <2>4
  <1>4. ASSUME NEW t \in Everyone, holder = t
        PROVE  Deadlocked
    <2>1. pc[t] \in {"call", "join"}
      <3>1. pc[t] \in {"leave", "unlock", "call", "join"} /\ ~MayGo(t)
        BY <1>4 DEF Ready, WaysInv
      <3>2. QED BY <3>1 DEF MayGo
    <2>2. CASE pc[t] = "join"
      <3>1. t = Leader
        BY <1>2, <2>2 DEF Everyone
      <3>2. AllJoinable
        BY <2>2, <3>1 DEF Ready, DetachedInv
      <3>3. Busy = {}
        BY <2>2, <3>1, <3>2, NobodyBusy, ReadyParts DEF JoinsInv, Joining
      <3>4. \A u \in Followers : pc[u] \notin {"working", "exiting", "call"}
        BY <1>2, <1>4, <3>1, <3>3 DEF Busy
      <3>5. QED BY <2>2, <3>1, <3>4, AtBarriers, JoinMayGo
    <2>3. CASE pc[t] = "call"
      <3>1. t \in Followers
        BY <1>1, <2>3 DEF Everyone
      <3>2. AllJoinable /\ t \in arrived[Leader]
        BY <2>3, <3>1 DEF Ready, DetachedInv, WaysInv
      <3>3. Leader \notin arrived[Leader]
        BY <1>2, <2>3, <3>1, <3>2, LeaderAndOneMet
      <3>4. pc[Leader] # "wait" /\ pc[Leader] \notin Joining
        BY <3>1, <3>2, <3>3 DEF Ready, WaysInv, CameInv
      <3>5. pc[Leader] = "exiting" \/ (pc[Leader] = "creating" /\ Len(ft_table) < N)
        BY <1>1, <3>4 DEF Joining, Late
      <3>6. ASSUME NEW u \in Followers \ {t}
            PROVE  pc[u] \in {"none", "exiting", "await"}
        <4>1. pc[u] # "call"
          BY <1>2, <1>4
        <4>2. pc[u] # "working"
          <5>1. ~slow
            BY <2>3, <3>1, <3>5 DEF Ready, PaceInv
          <5>2. QED BY <1>2, <5>1
        <4>3. pc[u] # "relock"
          BY <3>2, <3>4, ReadyParts DEF JoinsInv, Late
        <4>4. QED BY <1>2, <4>1, <4>2, <4>3
      <3>7. QED BY <1>4, <2>3, <3>1, <3>5, <3>6 DEF Deadlocked
    <2>4. QED BY <2>1, <2>2, <2>3
  <1>5. holder \in Everyone \cup {-1}
    BY ReadyParts DEF TypeInv
  <1>6. QED BY <1>3, <1>4, <1>5

\* For any number of threads of one status: as long as the process runs somebody
\* has a step to take, or the last joinable follower has finished too early and
\* waits, with the mutex, for a leader that needs the mutex; and when work is slow
\* that does not happen (foothread.c:167).  The safety half of Ends.
THEOREM OnlyEarlyWorkBlocks ==
  OneStatus => (Spec => [](/\ proc # "running" \/ Deadlocked \/ \E t \in Everyone : MayGo(t)
                           /\ slow => ~Deadlocked))
  <1> SUFFICES ASSUME OneStatus
               PROVE  Spec => [](/\ proc # "running" \/ Deadlocked \/ \E t \in Everyone : MayGo(t)
                                 /\ slow => ~Deadlocked)
    OBVIOUS
  <1>1. Init => Ready
    BY ReadyInit
  <1>2. Ready => proc # "running" \/ Deadlocked \/ \E t \in Everyone : MayGo(t)
    BY SomebodyMayGo
  <1>3. Ready => (slow => ~Deadlocked)
    BY Numbers DEF Ready, PaceInv, Deadlocked
  <1>4. QED BY <1>1, <1>2, <1>3, ReadyStep, PTL DEF Spec

-----------------------------------------------------------------------------
(* foothread_barrier_wait.                                                 *)

\* The mutex of the counter is one.
OneInside == /\ mtx_sem = 1 => \A t \in Threads : ~Inside(t)
             /\ \A t, u \in Threads : Inside(t) /\ Inside(u) => t = u

\* A full count is about to be reset by whoever completed it.
FullOnlyInside ==
  waiting_count = max_count => \E t \in Threads : place[t] \in {"release", "reset"}

BarrierInv == BarrierTypeOK /\ OneInside /\ FullOnlyInside

\* The number of threads is a positive number.
LEMMA SomeThreads == max_count \in Nat \ {0}
<1>1. IsFiniteSet(Threads) /\ Threads # {}
  BY BarrierAssumption
<1>2. Cardinality(Threads) \in Nat
  BY <1>1, FS_CardinalityType
<1>3. Cardinality(Threads) # 0
  BY <1>1, FS_EmptySet
<1> QED
  BY <1>2, <1>3 DEF max_count

LEMMA BarrierInvInit == BarrierInit => BarrierInv
BY SomeThreads DEF BarrierInit, BarrierInv, BarrierTypeOK, OneInside, FullOnlyInside, Inside

\* Every step of foothread_barrier_wait keeps the count below its limit and the
\* mutex one.
LEMMA BarrierInvStep == BarrierInv /\ [BarrierNext]_barrierVars => BarrierInv'
<1> SUFFICES ASSUME BarrierInv, [BarrierNext]_barrierVars
             PROVE  BarrierInv'
  OBVIOUS
<1> USE SomeThreads DEF BarrierInv, BarrierTypeOK
<1> max_count' = max_count
  BY DEF max_count
<1>1. ASSUME NEW t \in Threads, Lock(t)
      PROVE  BarrierInv'
  <2> USE <1>1 DEF Lock
  <2>1. BarrierTypeOK'
    OBVIOUS
  <2>2. OneInside'
    BY DEF OneInside, Inside
  <2>3. FullOnlyInside'
    BY DEF FullOnlyInside
  <2> QED
    BY <2>1, <2>2, <2>3
<1>2. ASSUME NEW t \in Threads, Count(t)
      PROVE  BarrierInv'
  <2> USE <1>2 DEF Count, IsLast
  <2>1. \A u \in Threads : place[u] \notin {"release", "reset"}
    BY DEF OneInside, Inside
  <2>2. waiting_count # max_count
    BY <2>1 DEF FullOnlyInside
  <2>3. BarrierTypeOK'
    BY <2>2
  <2>4. OneInside'
    BY DEF OneInside, Inside
  <2>5. FullOnlyInside'
    BY DEF FullOnlyInside
  <2> QED
    BY <2>3, <2>4, <2>5
<1>3. ASSUME NEW t \in Threads, Release(t)
      PROVE  BarrierInv'
  <2> USE <1>3 DEF Release
  <2>1. BarrierTypeOK'
    OBVIOUS
  <2>2. OneInside'
    BY DEF OneInside, Inside
  <2>3. FullOnlyInside'
    BY DEF FullOnlyInside
  <2> QED
    BY <2>1, <2>2, <2>3
<1>4. ASSUME NEW t \in Threads, Reset(t)
      PROVE  BarrierInv'
  <2> USE <1>4 DEF Reset
  <2>1. BarrierTypeOK'
    OBVIOUS
  <2>2. OneInside'
    BY DEF OneInside, Inside
  <2>3. FullOnlyInside'
    BY DEF FullOnlyInside
  <2> QED
    BY <2>1, <2>2, <2>3
<1>5. ASSUME NEW t \in Threads, UnlockLast(t) \/ UnlockCounter(t)
      PROVE  BarrierInv'
  <2> USE <1>5 DEF UnlockLast, UnlockCounter
  <2>1. Inside(t) /\ mtx_sem = 0
    BY DEF OneInside, Inside
  <2>2. BarrierTypeOK'
    BY <2>1
  <2>3. OneInside'
    BY DEF OneInside, Inside
  <2>4. FullOnlyInside'
    BY DEF FullOnlyInside
  <2> QED
    BY <2>2, <2>3, <2>4
<1>6. ASSUME NEW t \in Threads, Wait(t)
      PROVE  BarrierInv'
  <2> USE <1>6 DEF Wait
  <2>1. BarrierTypeOK'
    OBVIOUS
  <2>2. OneInside'
    BY DEF OneInside, Inside
  <2>3. FullOnlyInside'
    BY DEF FullOnlyInside
  <2> QED
    BY <2>1, <2>2, <2>3
<1>7. CASE UNCHANGED barrierVars
  BY <1>7 DEF barrierVars, OneInside, FullOnlyInside, Inside
<1> QED
  BY <1>1, <1>2, <1>3, <1>4, <1>5, <1>6, <1>7 DEF BarrierNext, BarrierWait

\* The barrier's state is well-typed for any number of threads and rounds: its
\* count never passes max_count, and its mutex never goes above 1
\* (foothread.c:287-320).
THEOREM BarrierTypeCorrect == BarrierSpec => []BarrierTypeOK
<1>1. BarrierInv => BarrierTypeOK
  BY DEF BarrierInv
<1> QED
  BY <1>1, BarrierInvInit, BarrierInvStep, PTL DEF BarrierSpec

-----------------------------------------------------------------------------
\* Who waits for a token, or is about to, and who has handed them out.
Asleep == {t \in Threads : place[t] \in {"unlock", "wait"}}
Leaving == {t \in Threads : place[t] \in {"reset", "leave"}}

\* Those who wait for a token are those the tokens are for and those who have been
\* counted since; a full count is with the thread that is about to reset it.
TokensInv ==
  /\ mtx_sem = 1 \/ \E t \in Threads : Inside(t)
  /\ (\A t \in Threads : place[t] \notin {"release", "reset"})
        => Cardinality(Asleep) = wait_sem + waiting_count
  /\ \A t \in Threads : place[t] = "release" => Cardinality(Asleep) + 1 = wait_sem + max_count
  /\ \A t \in Threads : place[t] = "reset" => Cardinality(Asleep) = wait_sem

\* Sizes of the sets of threads.
LEMMA ThreadSets ==
  ASSUME NEW S \in SUBSET Threads
  PROVE  /\ IsFiniteSet(S) /\ Cardinality(S) \in Nat
         /\ Cardinality(S) <= max_count
         /\ Cardinality(S) = max_count => S = Threads
         /\ \A t \in Threads \ S : Cardinality(S \cup {t}) = Cardinality(S) + 1
         /\ \A t \in S : Cardinality(S \ {t}) = Cardinality(S) - 1
<1>1. IsFiniteSet(Threads)
  BY BarrierAssumption
<1>2. IsFiniteSet(S) /\ Cardinality(S) <= max_count /\ (Cardinality(S) = max_count => S = Threads)
  BY <1>1, FS_Subset DEF max_count
<1>3. Cardinality(S) \in Nat
  BY <1>2, FS_CardinalityType
<1>4. \A t \in Threads \ S : Cardinality(S \cup {t}) = Cardinality(S) + 1
  BY <1>2, FS_AddElement
<1>5. \A t \in S : Cardinality(S \ {t}) = Cardinality(S) - 1
  BY <1>2, FS_RemoveElement
<1> QED
  BY <1>2, <1>3, <1>4, <1>5

LEMMA AsleepSets == Asleep \in SUBSET Threads /\ Leaving \in SUBSET Threads
BY DEF Asleep, Leaving

LEMMA TokensInit == BarrierInit => TokensInv
<1> SUFFICES ASSUME BarrierInit PROVE TokensInv
  OBVIOUS
<1>1. Asleep = {}
  BY DEF Asleep, BarrierInit
<1>2. Cardinality(Asleep) = 0
  BY <1>1, FS_EmptySet
<1> QED
  BY <1>2 DEF BarrierInit, TokensInv

\* Whoever has the mutex is alone with it.
LEMMA AloneInside ==
  ASSUME BarrierInv, NEW t \in Threads, Inside(t)
  PROVE  mtx_sem = 0 /\ \A u \in Threads \ {t} : ~Inside(u)
<1>1. mtx_sem = 0 \/ mtx_sem = 1
  BY DEF BarrierInv, BarrierTypeOK
<1> QED
  BY <1>1 DEF BarrierInv, OneInside

\* Every step of foothread_barrier_wait keeps tokens and sleepers in step.
LEMMA TokensStep == BarrierInv /\ TokensInv /\ [BarrierNext]_barrierVars => TokensInv'
<1> SUFFICES ASSUME BarrierInv, TokensInv, [BarrierNext]_barrierVars
             PROVE  TokensInv'
  OBVIOUS
<1>0. /\ place \in [Threads -> {"out", "count", "release", "reset", "leave", "unlock", "wait"}]
      /\ wait_sem \in Nat /\ waiting_count \in Nat /\ max_count' = max_count
  BY SomeThreads DEF BarrierInv, BarrierTypeOK, max_count
<1>a. Cardinality(Asleep) \in Nat
  BY AsleepSets, ThreadSets
<1>1. ASSUME NEW t \in Threads, Lock(t)
      PROVE  TokensInv'
  <2>1. place[t] = "out" /\ place' = [place EXCEPT ![t] = "count"]
        /\ UNCHANGED <<wait_sem, waiting_count>>
    BY <1>1 DEF Lock
  <2>2. Asleep' = Asleep /\ Inside(t)'
    BY <1>0, <2>1 DEF Asleep, Inside
  <2>3. \A u \in Threads : \A x \in {"release", "reset"} : place'[u] = x <=> place[u] = x
    BY <1>0, <2>1
  <2> QED
    BY <1>0, <2>1, <2>2, <2>3 DEF TokensInv
<1>2. ASSUME NEW t \in Threads, Count(t)
      PROVE  TokensInv'
  <2>1. place[t] = "count" /\ waiting_count' = waiting_count + 1 /\ UNCHANGED <<wait_sem, mtx_sem>>
        /\ place' = [place EXCEPT ![t] = IF waiting_count' = max_count THEN "release" ELSE "unlock"]
    BY <1>2 DEF Count, IsLast
  <2>2. \A u \in Threads : place[u] \notin {"release", "reset"}
    BY <2>1, AloneInside DEF Inside
  <2>3. Cardinality(Asleep) = wait_sem + waiting_count /\ t \in Threads \ Asleep
    BY <2>1, <2>2 DEF TokensInv, Asleep
  <2>4. Inside(t)'
    BY <1>0, <2>1 DEF Inside
  <2>5. CASE waiting_count' = max_count
    <3>1. Asleep' = Asleep /\ place'[t] = "release"
      BY <1>0, <2>1, <2>5 DEF Asleep
    <3>2. Cardinality(Asleep') + 1 = wait_sem' + max_count'
      BY <1>0, <1>a, <2>1, <2>3, <2>5, <3>1
    <3>3. \A u \in Threads : place'[u] # "reset"
      BY <1>0, <2>1, <2>2, <2>5
    <3> QED
      BY <2>4, <3>1, <3>2, <3>3 DEF TokensInv
  <2>6. CASE waiting_count' # max_count
    <3>1. Asleep' = Asleep \cup {t}
      BY <1>0, <2>1, <2>6 DEF Asleep
    <3>2. Cardinality(Asleep') = Cardinality(Asleep) + 1
      BY <2>3, <3>1, AsleepSets, ThreadSets
    <3>3. Cardinality(Asleep') = wait_sem' + waiting_count'
      BY <1>0, <1>a, <2>1, <2>3, <3>2
    <3>4. \A u \in Threads : place'[u] \notin {"release", "reset"}
      BY <1>0, <2>1, <2>2, <2>6
    <3> QED
      BY <2>4, <3>3, <3>4 DEF TokensInv
  <2> QED
    BY <2>5, <2>6
<1>3. ASSUME NEW t \in Threads, UnlockCounter(t)
      PROVE  TokensInv'
  <2>1. place[t] = "unlock" /\ place' = [place EXCEPT ![t] = "wait"]
        /\ mtx_sem' = mtx_sem + 1 /\ UNCHANGED <<wait_sem, waiting_count>>
    BY <1>3 DEF UnlockCounter
  <2>2. Asleep' = Asleep
    BY <1>0, <2>1 DEF Asleep
  <2>3. mtx_sem = 0 /\ mtx_sem' = 1
    BY <2>1, AloneInside DEF Inside
  <2>4. \A u \in Threads : \A x \in {"release", "reset"} : place'[u] = x <=> place[u] = x
    BY <1>0, <2>1
  <2> QED
    BY <1>0, <2>1, <2>2, <2>3, <2>4 DEF TokensInv
<1>4. ASSUME NEW t \in Threads, Wait(t)
      PROVE  TokensInv'
  <2>1. place[t] = "wait" /\ place' = [place EXCEPT ![t] = "out"]
        /\ wait_sem' = wait_sem - 1 /\ UNCHANGED <<mtx_sem, waiting_count>>
    BY <1>4 DEF Wait
  <2>2. Asleep' = Asleep \ {t} /\ t \in Asleep
    BY <1>0, <2>1 DEF Asleep
  <2>3. Cardinality(Asleep') = Cardinality(Asleep) - 1
    BY <2>2, AsleepSets, ThreadSets
  <2>4. \A u \in Threads : Inside(u)' <=> Inside(u)
    BY <1>0, <2>1 DEF Inside
  <2>5. \A u \in Threads : \A x \in {"release", "reset"} : place'[u] = x <=> place[u] = x
    BY <1>0, <2>1
  <2>6. \A c \in Nat : /\ Cardinality(Asleep) = wait_sem + c => Cardinality(Asleep') = wait_sem' + c
                       /\ Cardinality(Asleep) + 1 = wait_sem + c => Cardinality(Asleep') + 1 = wait_sem' + c
    BY <1>0, <1>a, <2>1, <2>3
  <2>7. Cardinality(Asleep) = wait_sem => Cardinality(Asleep') = wait_sem'
    BY <1>0, <1>a, <2>1, <2>3
  <2>8. max_count \in Nat
    BY SomeThreads
  <2>9. mtx_sem' = 1 \/ \E u \in Threads : Inside(u)'
    BY <2>1, <2>4 DEF TokensInv
  <2>10. (\A u \in Threads : place'[u] \notin {"release", "reset"})
            => Cardinality(Asleep') = wait_sem' + waiting_count'
    BY <1>0, <2>1, <2>5, <2>6 DEF TokensInv
  <2>11. \A u \in Threads : place'[u] = "release" => Cardinality(Asleep') + 1 = wait_sem' + max_count'
    BY <1>0, <2>5, <2>6, <2>8 DEF TokensInv
  <2>12. \A u \in Threads : place'[u] = "reset" => Cardinality(Asleep') = wait_sem'
    BY <2>5, <2>7 DEF TokensInv
  <2> QED
    BY <2>9, <2>10, <2>11, <2>12 DEF TokensInv
<1>5. ASSUME NEW t \in Threads, Release(t)
      PROVE  TokensInv'
  <2>1. place[t] = "release" /\ place' = [place EXCEPT ![t] = "reset"]
        /\ wait_sem' = wait_sem + max_count - 1
    BY <1>5 DEF Release
  <2>2. Asleep' = Asleep /\ Inside(t)'
    BY <1>0, <2>1 DEF Asleep, Inside
  <2>3. Cardinality(Asleep') = wait_sem'
    BY <1>0, <1>a, <2>1, <2>2, SomeThreads DEF TokensInv
  <2>4. place'[t] = "reset" /\ \A u \in Threads : place'[u] # "release"
    BY <1>0, <2>1, AloneInside DEF Inside
  <2> QED
    BY <2>2, <2>3, <2>4 DEF TokensInv
<1>6. ASSUME NEW t \in Threads, Reset(t)
      PROVE  TokensInv'
  <2>1. place[t] = "reset" /\ place' = [place EXCEPT ![t] = "leave"]
        /\ waiting_count' = 0 /\ UNCHANGED wait_sem
    BY <1>6 DEF Reset
  <2>2. Asleep' = Asleep /\ Inside(t)'
    BY <1>0, <2>1 DEF Asleep, Inside
  <2>3. Cardinality(Asleep') = wait_sem' + waiting_count'
    BY <1>0, <2>1, <2>2 DEF TokensInv
  <2>4. \A u \in Threads : place'[u] \notin {"release", "reset"}
    BY <1>0, <2>1, AloneInside DEF Inside
  <2> QED
    BY <2>2, <2>3, <2>4 DEF TokensInv
<1>7. ASSUME NEW t \in Threads, UnlockLast(t)
      PROVE  TokensInv'
  <2>1. place[t] = "leave" /\ place' = [place EXCEPT ![t] = "out"]
        /\ mtx_sem' = mtx_sem + 1 /\ UNCHANGED <<wait_sem, waiting_count>>
    BY <1>7 DEF UnlockLast
  <2>2. Asleep' = Asleep
    BY <1>0, <2>1 DEF Asleep
  <2>3. mtx_sem = 0 /\ mtx_sem' = 1
    BY <2>1, AloneInside DEF Inside
  <2>4. \A u \in Threads : \A x \in {"release", "reset"} : place'[u] = x <=> place[u] = x
    BY <1>0, <2>1
  <2> QED
    BY <1>0, <2>1, <2>2, <2>3, <2>4 DEF TokensInv
<1>8. CASE UNCHANGED barrierVars
  BY <1>8 DEF barrierVars, TokensInv, Asleep, Inside, max_count
<1> QED
  BY <1>1, <1>2, <1>3, <1>4, <1>5, <1>6, <1>7, <1>8 DEF BarrierNext, BarrierWait

-----------------------------------------------------------------------------
\* Who is at "release" finds all the others asleep and no token left.
LEMMA AllAreIn ==
  ASSUME BarrierInv, TokensInv, NEW t \in Threads, place[t] = "release"
  PROVE  wait_sem = 0 /\ \A u \in Threads : Counted(u)
<1>1. Cardinality(Asleep) + 1 = wait_sem + max_count /\ wait_sem \in Nat
  BY DEF TokensInv, BarrierInv, BarrierTypeOK
<1>2. Asleep \cup {t} \in SUBSET Threads /\ t \in Threads \ Asleep
  BY DEF Asleep
<1>3. Cardinality(Asleep \cup {t}) = Cardinality(Asleep) + 1 /\ Cardinality(Asleep) \in Nat
  BY <1>2, AsleepSets, ThreadSets
<1>4. Cardinality(Asleep \cup {t}) <= max_count
  BY <1>2, ThreadSets
<1>5. wait_sem = 0 /\ Cardinality(Asleep \cup {t}) = max_count
  BY <1>1, <1>3, <1>4, SomeThreads
<1>6. Asleep \cup {t} = Threads
  BY <1>2, <1>5, ThreadSets
<1> QED
  BY <1>5, <1>6 DEF Asleep, Counted

LEMMA LeavingCount ==
  ASSUME BarrierInv
  PROVE  /\ \A t \in Leaving : Leaving = {t} /\ Cardinality(Leaving) = 1
         /\ Leaving = {} => Cardinality(Leaving) = 0
         /\ Cardinality(Leaving) \in {0, 1}
<1>1. ASSUME NEW t \in Leaving PROVE Leaving = {t} /\ Cardinality(Leaving) = 1
  <2>1. Leaving = {t}
    BY <1>1, AloneInside DEF Leaving, Inside
  <2> QED
    BY <2>1, FS_Singleton
<1>2. Leaving = {} => Cardinality(Leaving) = 0
  BY FS_EmptySet
<1> QED
  BY <1>1, <1>2

\* Nobody calls more often than it does.
PassedInv ==
  \A t \in Threads : passed[t] <= Rounds /\ (place[t] # "out" => passed[t] < Rounds)

LEMMA PassedStep == BarrierInv /\ PassedInv /\ [BarrierNext]_barrierVars => PassedInv'
<1> SUFFICES ASSUME BarrierInv, PassedInv, [BarrierNext]_barrierVars
             PROVE  PassedInv'
  OBVIOUS
<1>0. /\ place \in [Threads -> {"out", "count", "release", "reset", "leave", "unlock", "wait"}]
      /\ passed \in [Threads -> Nat] /\ Rounds \in Nat
  BY BarrierAssumption DEF BarrierInv, BarrierTypeOK
<1>1. ASSUME NEW t \in Threads, Lock(t)
      PROVE  PassedInv'
  BY <1>0, <1>1 DEF Lock, PassedInv
<1>2. ASSUME NEW t \in Threads, Count(t) \/ UnlockCounter(t) \/ Release(t) \/ Reset(t)
      PROVE  PassedInv'
  <2>1. UNCHANGED passed /\ place[t] # "out" /\ \E x : place' = [place EXCEPT ![t] = x]
    BY <1>2 DEF Count, UnlockCounter, Release, Reset
  <2> QED
    BY <1>0, <2>1 DEF PassedInv
<1>3. ASSUME NEW t \in Threads, UnlockLast(t) \/ Wait(t)
      PROVE  PassedInv'
  <2>1. /\ place[t] # "out" /\ place' = [place EXCEPT ![t] = "out"]
        /\ passed' = [passed EXCEPT ![t] = @ + 1]
    BY <1>3 DEF UnlockLast, Wait
  <2>2. passed'[t] <= Rounds
    BY <1>0, <2>1 DEF PassedInv
  <2> QED
    BY <1>0, <2>1, <2>2 DEF PassedInv
<1>4. CASE UNCHANGED barrierVars
  BY <1>4 DEF barrierVars, PassedInv
<1> QED
  BY <1>1, <1>2, <1>3, <1>4 DEF BarrierNext, BarrierWait

\* Every step is a step of Rendezvous or none: to be counted is to come, to hand
\* out the tokens is to open.
LEMMA MeetingStep ==
  BarrierInv /\ TokensInv /\ PassedInv /\ [BarrierNext]_barrierVars => [Meeting!MeetingNext]_(Meeting!meetingVars)
<1> SUFFICES ASSUME BarrierInv, TokensInv, PassedInv, [BarrierNext]_barrierVars
             PROVE  [Meeting!MeetingNext]_(Meeting!meetingVars)
  OBVIOUS
<1> DEFINE inside == {t \in Threads : Counted(t)}
<1>0. /\ place \in [Threads -> {"out", "count", "release", "reset", "leave", "unlock", "wait"}]
      /\ wait_sem \in Nat /\ passed \in [Threads -> Nat] /\ max_count' = max_count
  BY DEF BarrierInv, BarrierTypeOK, max_count
<1>b. BarrierInv'
  BY BarrierInvStep
<1>1. ASSUME NEW t \in Threads, Count(t)
      PROVE  Meeting!Come(t)
  <2>0. passed[t] < Rounds
    BY <1>1 DEF Count, PassedInv
  <2>1. place[t] = "count" /\ UNCHANGED <<wait_sem, passed>>
        /\ (place' = [place EXCEPT ![t] = "release"] \/ place' = [place EXCEPT ![t] = "unlock"])
    BY <1>1 DEF Count
  <2>2. t \notin inside /\ inside' = inside \cup {t}
    BY <1>0, <2>1 DEF Counted
  <2>3. Leaving' = Leaving
    BY <1>0, <2>1 DEF Leaving
  <2> QED
    BY <2>0, <2>1, <2>2, <2>3 DEF Meeting!Come, Leaving
<1>2. ASSUME NEW t \in Threads, Release(t)
      PROVE  Meeting!Open
  <2>1. place[t] = "release" /\ place' = [place EXCEPT ![t] = "reset"]
        /\ wait_sem' = wait_sem + max_count - 1 /\ UNCHANGED passed
    BY <1>2 DEF Release
  <2>2. wait_sem = 0 /\ inside = Threads
    BY <2>1, AllAreIn
  <2>3. inside' = inside
    BY <1>0, <2>1 DEF Counted
  <2>4. Cardinality(Leaving) = 0
    <3>1. Leaving = {}
      BY <2>1, AloneInside DEF Leaving, Inside
    <3> QED
      BY <3>1, LeavingCount
  <2>5. Cardinality(Leaving') = 1
    <3>1. Leaving' = {t}
      BY <1>0, <2>1, AloneInside DEF Leaving, Inside
    <3> QED
      BY <3>1, FS_Singleton
  <2>6. wait_sem + Cardinality(Leaving) = 0 /\ wait_sem' + Cardinality(Leaving') = max_count
    BY <2>1, <2>2, <2>4, <2>5, SomeThreads
  <2> QED
    BY <2>1, <2>2, <2>3, <2>6 DEF Meeting!Open, Leaving, max_count
<1>3. ASSUME NEW t \in Threads, UnlockLast(t) \/ Wait(t)
      PROVE  Meeting!Go(t)
  <2>1. /\ place[t] \in {"leave", "wait"} /\ place' = [place EXCEPT ![t] = "out"]
        /\ passed' = [passed EXCEPT ![t] = @ + 1]
        /\ place[t] = "wait" => wait_sem > 0 /\ wait_sem' = wait_sem - 1
        /\ place[t] = "leave" => UNCHANGED wait_sem
    BY <1>3 DEF UnlockLast, Wait
  <2>2. t \in inside /\ inside' = inside \ {t}
    BY <1>0, <2>1 DEF Counted
  <2>3. /\ wait_sem + Cardinality(Leaving) > 0
        /\ wait_sem' + Cardinality(Leaving') = (wait_sem + Cardinality(Leaving)) - 1
    <3>1. CASE place[t] = "wait"
      <4>1. Leaving' = Leaving
        BY <1>0, <2>1, <3>1 DEF Leaving
      <4>2. Cardinality(Leaving) \in {0, 1}
        BY LeavingCount
      <4> QED
        BY <1>0, <2>1, <3>1, <4>1, <4>2
    <3>2. CASE place[t] = "leave"
      <4>1. t \in Leaving
        BY <3>2 DEF Leaving
      <4>2. Leaving = {t} /\ Cardinality(Leaving) = 1
        BY <4>1, LeavingCount
      <4>3. Leaving' = {}
        BY <1>0, <2>1, <4>2 DEF Leaving
      <4>4. Cardinality(Leaving') = 0
        BY <4>3, FS_EmptySet
      <4> QED
        BY <1>0, <2>1, <3>2, <4>2, <4>4
    <3> QED
      BY <2>1, <3>1, <3>2
  <2> QED
    BY <2>1, <2>2, <2>3 DEF Meeting!Go, Leaving
<1>4. ASSUME NEW t \in Threads, Lock(t) \/ UnlockCounter(t) \/ Reset(t)
      PROVE  UNCHANGED Meeting!meetingVars
  <2>1. UNCHANGED <<wait_sem, passed>> /\ \E x \in {"count", "wait", "leave"} :
           /\ place' = [place EXCEPT ![t] = x]
           /\ place[t] = IF x = "count" THEN "out" ELSE IF x = "wait" THEN "unlock" ELSE "reset"
    BY <1>4 DEF Lock, UnlockCounter, Reset
  <2>2. inside' = inside
    BY <1>0, <2>1 DEF Counted
  <2>3. Leaving' = Leaving
    BY <1>0, <2>1 DEF Leaving
  <2> QED
    BY <2>1, <2>2, <2>3 DEF Meeting!meetingVars, Leaving
<1>5. CASE UNCHANGED barrierVars
  BY <1>5 DEF barrierVars, Meeting!meetingVars, Counted
<1> QED
  BY <1>1, <1>2, <1>3, <1>4, <1>5 DEF BarrierNext, BarrierWait, Meeting!MeetingNext

MeetInv == BarrierInv /\ TokensInv /\ PassedInv

LEMMA MeetInvInit == BarrierInit => MeetInv
BY BarrierInvInit, TokensInit, BarrierAssumption DEF MeetInv, PassedInv, BarrierInit

LEMMA MeetInvStep == MeetInv /\ [BarrierNext]_barrierVars => MeetInv'
BY BarrierInvStep, TokensStep, PassedStep DEF MeetInv

\* For any number of threads and of uses, a barrier implements Rendezvous: it
\* opens only when all are in it, for as many returns as there are threads, and
\* no token is left at the next opening (foothread.c:287-320).
THEOREM AllAreInWhenItOpens == BarrierSpec => OpensForAll
<1>1. BarrierInit => Meeting!MeetingInit
  <2> SUFFICES ASSUME BarrierInit PROVE Meeting!MeetingInit
    OBVIOUS
  <2>1. {t \in Threads : Counted(t)} = {} /\ Leaving = {}
    BY DEF BarrierInit, Counted, Leaving
  <2>2. Cardinality(Leaving) = 0
    BY <2>1, FS_EmptySet
  <2>3. wait_sem + Cardinality(Leaving) = 0
    BY <2>2 DEF BarrierInit
  <2> QED
    BY <2>1, <2>3, Zenon DEF BarrierInit, Meeting!MeetingInit, Leaving
<1>2. MeetInv /\ [BarrierNext]_barrierVars => [Meeting!MeetingNext]_(Meeting!meetingVars)
  BY MeetingStep DEF MeetInv
<1> QED
  BY <1>1, <1>2, MeetInvInit, MeetInvStep, PTL DEF BarrierSpec, OpensForAll, Meeting!MeetingSpec

-----------------------------------------------------------------------------
\* Once anybody has been let go, everybody has made a first call.
FirstInv ==
  (wait_sem > 0 \/ \E t \in Threads : place[t] \in {"reset", "leave"} \/ passed[t] > 0)
    => \A u \in Threads : Counted(u) \/ passed[u] > 0

LEMMA FirstStep == MeetInv /\ FirstInv /\ [BarrierNext]_barrierVars => FirstInv'
<1> SUFFICES ASSUME MeetInv, FirstInv, [BarrierNext]_barrierVars
             PROVE  FirstInv'
  OBVIOUS
<1>0. /\ place \in [Threads -> {"out", "count", "release", "reset", "leave", "unlock", "wait"}]
      /\ wait_sem \in Nat /\ passed \in [Threads -> Nat]
  BY DEF MeetInv, BarrierInv, BarrierTypeOK
<1>1. ASSUME NEW t \in Threads, Release(t)
      PROVE  FirstInv'
  <2>1. \A u \in Threads : Counted(u)
    BY <1>1, AllAreIn DEF MeetInv, Release
  <2>2. place' = [place EXCEPT ![t] = "reset"]
    BY <1>1 DEF Release
  <2>3. \A u \in Threads : Counted(u)'
    BY <1>0, <2>1, <2>2 DEF Counted
  <2> QED
    BY <2>3 DEF FirstInv
<1>2. ASSUME NEW t \in Threads, Lock(t) \/ Count(t) \/ UnlockCounter(t)
      PROVE  FirstInv'
  <2>1. /\ UNCHANGED <<wait_sem, passed>> /\ place[t] \in {"out", "count", "unlock"}
        /\ \E x \in {"count", "release", "unlock", "wait"} :
             place' = [place EXCEPT ![t] = x] /\ (x = "count" => place[t] = "out")
    BY <1>2 DEF Lock, Count, UnlockCounter
  <2>2. \A u \in Threads : Counted(u) => Counted(u)'
    BY <1>0, <2>1 DEF Counted
  <2>3. \A u \in Threads : place'[u] \in {"reset", "leave"} => place[u] \in {"reset", "leave"}
    BY <1>0, <2>1
  <2> QED
    BY <2>1, <2>2, <2>3 DEF FirstInv
<1>3. ASSUME NEW t \in Threads, Reset(t) \/ UnlockLast(t) \/ Wait(t)
      PROVE  FirstInv'
  <2>1. /\ place[t] \in {"reset", "leave"} \/ wait_sem > 0
        /\ \/ place' = [place EXCEPT ![t] = "leave"] /\ UNCHANGED passed
           \/ place' = [place EXCEPT ![t] = "out"] /\ passed' = [passed EXCEPT ![t] = @ + 1]
    BY <1>3 DEF Reset, UnlockLast, Wait
  <2>2. \A u \in Threads : Counted(u) \/ passed[u] > 0
    BY <2>1 DEF FirstInv
  <2>3. \A u \in Threads : Counted(u)' \/ passed'[u] > 0
    BY <1>0, <2>1, <2>2 DEF Counted
  <2> QED
    BY <2>3 DEF FirstInv
<1>4. CASE UNCHANGED barrierVars
  BY <1>4 DEF barrierVars, FirstInv, Counted
<1> QED
  BY <1>1, <1>2, <1>3, <1>4 DEF BarrierNext, BarrierWait

\* For any number of threads, however often the barrier is used: nobody returns
\* from its first call before everybody has been counted in one.  This is what
\* FooThread and ComputeSum, whose barriers are used once, take a barrier for
\* (foothread.c:123-187, computesum.c:43-63).
THEOREM FirstCallsMeet ==
  BarrierSpec => [](\A t \in Threads : passed[t] > 0 =>
                      \A u \in Threads : Counted(u) \/ passed[u] > 0)
<1>1. BarrierInit => FirstInv
  BY DEF BarrierInit, FirstInv
<1>2. FirstInv => \A t \in Threads : passed[t] > 0 => \A u \in Threads : Counted(u) \/ passed[u] > 0
  BY DEF FirstInv
<1> QED
  BY <1>1, <1>2, FirstStep, MeetInvInit, MeetInvStep, PTL DEF BarrierSpec

-----------------------------------------------------------------------------
\* The returns so far, and that each opening allows a return for each thread.
Returns == {r \in Threads \X (1..Rounds) : r[2] <= passed[r[1]]}

GroupsInv ==
  \E g \in Nat : Cardinality(Returns) + (wait_sem + Cardinality(Leaving)) = max_count * g

LEMMA ReturnsCount ==
  ASSUME MeetInv
  PROVE  /\ IsFiniteSet(Threads \X (1..Rounds)) /\ Returns \subseteq Threads \X (1..Rounds)
         /\ IsFiniteSet(Returns) /\ Cardinality(Returns) \in Nat
         /\ Cardinality(Threads \X (1..Rounds)) = max_count * Rounds
<1>1. IsFiniteSet(Threads) /\ Rounds \in Nat
  BY BarrierAssumption
<1>2. IsFiniteSet(1..Rounds) /\ Cardinality(1..Rounds) = Rounds
  BY <1>1, FS_Interval
<1>3. /\ IsFiniteSet(Threads \X (1..Rounds))
      /\ Cardinality(Threads \X (1..Rounds)) = Cardinality(Threads) * Cardinality(1..Rounds)
  BY <1>1, <1>2, FS_Product
<1>4. Returns \subseteq Threads \X (1..Rounds)
  BY DEF Returns
<1>5. IsFiniteSet(Returns)
  BY <1>3, <1>4, FS_Subset
<1> QED
  BY <1>2, <1>3, <1>4, <1>5, FS_CardinalityType DEF max_count

LEMMA GroupsInit == BarrierInit => GroupsInv
<1> SUFFICES ASSUME BarrierInit PROVE GroupsInv
  OBVIOUS
<1>1. Returns = {} /\ Leaving = {}
  BY BarrierAssumption DEF BarrierInit, Returns, Leaving
<1>2. Cardinality(Returns) = 0 /\ Cardinality(Leaving) = 0
  BY <1>1, FS_EmptySet
<1>3. Cardinality(Returns) + (wait_sem + Cardinality(Leaving)) = max_count * 0
  BY <1>2, SomeThreads DEF BarrierInit
<1> QED
  BY <1>3 DEF GroupsInv

\* An opening completes the number of returns to the next multiple of max_count.
LEMMA GroupsStep == MeetInv /\ GroupsInv /\ [BarrierNext]_barrierVars => GroupsInv'
<1> SUFFICES ASSUME MeetInv, GroupsInv, [BarrierNext]_barrierVars
             PROVE  GroupsInv'
  OBVIOUS
<1> DEFINE allowed == wait_sem + Cardinality(Leaving)
<1>0. /\ wait_sem \in Nat /\ Cardinality(Leaving) \in Nat /\ allowed \in Nat
      /\ passed \in [Threads -> Nat] /\ max_count' = max_count /\ Rounds \in Nat
  BY BarrierAssumption, LeavingCount DEF MeetInv, BarrierInv, BarrierTypeOK, max_count
<1>1. MeetInv' /\ [Meeting!MeetingNext]_(Meeting!meetingVars)
  BY MeetInvStep, MeetingStep DEF MeetInv
<1>2. PICK g \in Nat : Cardinality(Returns) + allowed = max_count * g
  BY DEF GroupsInv
<1> HIDE DEF allowed
<1>3. CASE UNCHANGED <<passed, allowed>>
  <2>1. Returns' = Returns
    BY <1>3 DEF Returns
  <2>2. Cardinality(Returns') + allowed' = max_count' * g
    BY <1>0, <1>2, <1>3, <2>1
  <2> QED
    BY <2>2 DEF GroupsInv, allowed
<1>4. CASE UNCHANGED passed /\ allowed = 0 /\ allowed' = max_count
  <2>1. Returns' = Returns
    BY <1>4 DEF Returns
  <2>2. Cardinality(Returns') = max_count * g
    BY <1>2, <1>4, <2>1, ReturnsCount
  <2>3. Cardinality(Returns') + allowed' = max_count' * (g + 1) /\ g + 1 \in Nat
    BY <1>0, <1>4, <2>2, SomeThreads
  <2> QED
    BY <2>3 DEF GroupsInv, allowed
<1>5. ASSUME NEW t \in Threads, passed' = [passed EXCEPT ![t] = @ + 1], allowed' = allowed - 1
      PROVE  GroupsInv'
  <2>1. passed'[t] <= Rounds
    BY <1>1 DEF MeetInv, PassedInv
  <2>2. passed[t] + 1 \in 1..Rounds
    BY <1>0, <1>5, <2>1
  <2>3. <<t, passed[t] + 1>> \notin Returns
    BY <1>0 DEF Returns
  <2>4. Returns' = Returns \cup {<<t, passed[t] + 1>>}
    BY <1>0, <1>5, <2>2 DEF Returns
  <2>5. Cardinality(Returns') = Cardinality(Returns) + 1
    BY <2>3, <2>4, ReturnsCount, FS_AddElement
  <2>6. Cardinality(Returns') + allowed' = max_count' * g
    BY <1>0, <1>2, <1>5, <2>5, ReturnsCount
  <2> QED
    BY <2>6 DEF GroupsInv, allowed
<1>6. \/ UNCHANGED <<passed, allowed>>
      \/ UNCHANGED passed /\ allowed = 0 /\ allowed' = max_count
      \/ \E t \in Threads : passed' = [passed EXCEPT ![t] = @ + 1] /\ allowed' = allowed - 1
  BY <1>1 DEF Meeting!MeetingNext, Meeting!meetingVars, Meeting!Open, Meeting!Come,
     Meeting!Go, Leaving, allowed, max_count
<1> QED
  BY <1>3, <1>4, <1>5, <1>6

-----------------------------------------------------------------------------
\* When a thread's next semop, or its next access to the count, can go on.
MayMeet(t) ==
  \/ place[t] = "out" /\ passed[t] < Rounds /\ mtx_sem > 0
  \/ place[t] \in {"count", "reset", "leave", "unlock"}
  \/ place[t] = "release" /\ (max_count = 1 => wait_sem = 0)
  \/ place[t] = "wait" /\ wait_sem > 0

\* No multiple of n lies between n * (r - 1) and n * r.
LEMMA BetweenMultiples ==
  ASSUME NEW n \in Nat \ {0}, NEW r \in Nat, NEW g \in Nat, NEW s \in Nat,
         0 < s, s < n, n * r - s = n * g
  PROVE  FALSE
<1>1. n * (r - g) = s
  OBVIOUS
<1>2. CASE r - g <= 0
  <2>1. n * (r - g) <= 0
    BY <1>2
  <2> QED
    BY <1>1, <2>1
<1>3. CASE r - g >= 1
  <2>1. n * (r - g) >= n
    BY <1>3
  <2> QED
    BY <1>1, <2>1
<1> QED
  BY <1>2, <1>3

\* If nobody can go on, those who sleep cannot all be in their last call: the
\* returns that are missing would be fewer than an opening allows.
LEMMA SomebodyIsTwoBehind ==
  ASSUME MeetInv, GroupsInv, wait_sem = 0, Leaving = {}, NEW t \in Threads, place[t] = "wait",
         \A u \in Threads : place[u] = "wait" \/ (place[u] = "out" /\ passed[u] = Rounds),
         \E u \in Threads : place[u] = "out"
  PROVE  \E u \in Threads : place[u] = "wait" /\ passed[u] < Rounds - 1
<1> SUFFICES ASSUME \A u \in Threads : place[u] = "wait" => ~(passed[u] < Rounds - 1)
             PROVE  FALSE
  OBVIOUS
<1> DEFINE S == {u \in Threads : place[u] = "wait"}
           missing == S \X {Rounds}
<1>0. passed \in [Threads -> Nat] /\ Rounds \in Nat
  BY BarrierAssumption DEF MeetInv, BarrierInv, BarrierTypeOK
<1>1. \A u \in S : passed[u] = Rounds - 1 /\ Rounds >= 1
  BY <1>0 DEF MeetInv, PassedInv
<1>2. \A u \in Threads \ S : passed[u] = Rounds
  OBVIOUS
<1>3. S \in SUBSET Threads /\ t \in S /\ S # Threads
  OBVIOUS
<1>4. IsFiniteSet(S) /\ Cardinality(S) \in Nat /\ Cardinality(S) < max_count /\ Cardinality(S) > 0
  <2>1. IsFiniteSet(S) /\ Cardinality(S) \in Nat /\ Cardinality(S) <= max_count
        /\ Cardinality(S) # max_count
    BY <1>3, ThreadSets
  <2>2. Cardinality(S) # 0
    BY <1>3, <2>1, FS_EmptySet
  <2> QED
    BY <2>1, <2>2, SomeThreads
<1>5. Returns = (Threads \X (1..Rounds)) \ missing
  BY <1>0, <1>1, <1>2, <1>3 DEF Returns
<1>6. IsFiniteSet({Rounds}) /\ Cardinality({Rounds}) = 1
  BY FS_Singleton
<1>7. IsFiniteSet(missing) /\ Cardinality(missing) = Cardinality(S)
  BY <1>4, <1>6, FS_Product
<1>8. missing \subseteq Threads \X (1..Rounds)
  BY <1>0, <1>1, <1>3
<1>9. Cardinality(Returns) = max_count * Rounds - Cardinality(S)
  <2>1. /\ IsFiniteSet(Threads \X (1..Rounds))
        /\ Cardinality(Threads \X (1..Rounds)) = max_count * Rounds
    BY ReturnsCount
  <2>2. Cardinality((Threads \X (1..Rounds)) \ missing)
          = Cardinality(Threads \X (1..Rounds)) - Cardinality((Threads \X (1..Rounds)) \cap missing)
    BY <2>1, FS_Difference
  <2>3. (Threads \X (1..Rounds)) \cap missing = missing
    BY <1>8
  <2> QED
    BY <1>5, <1>7, <2>1, <2>2, <2>3
<1>10. Cardinality(Leaving) = 0
  BY FS_EmptySet
<1>11. PICK g \in Nat : Cardinality(Returns) + (wait_sem + Cardinality(Leaving)) = max_count * g
  BY DEF GroupsInv
<1>12. max_count * Rounds - Cardinality(S) = max_count * g
  BY <1>0, <1>4, <1>9, <1>10, <1>11, SomeThreads
<1> HIDE DEF S
<1> QED
  BY <1>0, <1>4, <1>12, SomeThreads, BetweenMultiples

\* For any number of threads, however often the barrier is used: until everybody
\* has returned from every call somebody in it can go on, unless one thread has
\* got two calls ahead of another that sleeps.  In particular nobody is left
\* asleep in a barrier that is used once (foothread.c:287-320).
THEOREM OnlyTheRobbedSleep ==
  BarrierSpec => [](AllPassed \/ Robbed \/ \E t \in Threads : MayMeet(t))
<1>1. ASSUME MeetInv, GroupsInv, \A t \in Threads : ~MayMeet(t), ~AllPassed
      PROVE  Robbed
  <2>0. /\ place \in [Threads -> {"out", "count", "release", "reset", "leave", "unlock", "wait"}]
        /\ passed \in [Threads -> Nat] /\ mtx_sem \in {0, 1} /\ wait_sem \in Nat
        /\ waiting_count \in Nat /\ Rounds \in Nat
    BY <1>1, BarrierAssumption, SomeThreads DEF MeetInv, BarrierInv, BarrierTypeOK
  <2>1. \A t \in Threads : place[t] # "release"
    BY <1>1, AllAreIn DEF MayMeet, MeetInv
  <2>2. \A t \in Threads : ~Inside(t)
    BY <1>1, <2>1 DEF MayMeet, Inside
  <2>3. mtx_sem > 0
    BY <1>1, <2>0, <2>2 DEF MeetInv, TokensInv
  <2>4. \A t \in Threads : place[t] = "wait" \/ (place[t] = "out" /\ passed[t] = Rounds)
    BY <1>1, <2>0, <2>2, <2>3 DEF MayMeet, Inside, MeetInv, PassedInv
  <2>5. PICK t \in Threads : place[t] = "wait"
    BY <1>1, <2>4 DEF AllPassed
  <2>6. wait_sem = 0
    BY <1>1, <2>0, <2>5 DEF MayMeet
  <2>7. Leaving = {}
    BY <2>2 DEF Leaving, Inside
  <2>8. \E u \in Threads : place[u] = "out"
    <3> SUFFICES ASSUME \A u \in Threads : place[u] # "out" PROVE FALSE
      OBVIOUS
    <3>1. Asleep = Threads
      BY <2>4 DEF Asleep
    <3>2. max_count = wait_sem + waiting_count
      BY <1>1, <2>2, <3>1 DEF MeetInv, TokensInv, Inside, max_count
    <3>3. waiting_count = max_count
      BY <2>0, <2>6, <3>2
    <3> QED
      BY <1>1, <2>2, <3>3 DEF MeetInv, BarrierInv, FullOnlyInside, Inside
  <2>9. PICK u \in Threads : place[u] = "wait" /\ passed[u] < Rounds - 1
    BY <1>1, <2>4, <2>5, <2>6, <2>7, <2>8, SomebodyIsTwoBehind
  <2>10. PICK v \in Threads : place[v] = "out" /\ passed[v] = Rounds
    BY <2>4, <2>8
  <2>11. passed[v] > passed[u] + 1
    BY <2>0, <2>9, <2>10
  <2> QED
    BY <2>4, <2>6, <2>9, <2>11 DEF Robbed
<1>2. MeetInv /\ GroupsInv => AllPassed \/ Robbed \/ \E t \in Threads : MayMeet(t)
  BY <1>1
<1> QED
  BY <1>2, MeetInvInit, MeetInvStep, GroupsInit, GroupsStep, PTL DEF BarrierSpec
=============================================================================
