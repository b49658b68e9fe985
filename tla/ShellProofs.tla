---------------------------- MODULE ShellProofs ----------------------------
(***************************************************************************)
(* The command interpreters.  The job manager of Assignment2: only one job *)
(* runs, in the foreground, and the table and the count of suspended jobs  *)
(* can be trusted.  The two processes of Assignment3: one is the commander *)
(* at a time, and each command is executed once.                           *)
(***************************************************************************)
EXTENDS JobManager, CommandExecute, FiniteSetTheorems, SequenceTheorems, TLAPS

(***************************************************************************)
(* The job manager                                                         *)
(***************************************************************************)
Statuses == {"", "FINISHED", "KILLED", "TERMINATED", "SUSPENDED"}

Handler == [sig : Signals, child_it : 0..MaxJobs, sent : BOOLEAN]

\* The type invariant, proved with the rest.
JobTypeOK ==
  /\ mpc \in {"prompt", "forked", "wait", "reset", "continue", "label", "over", "crashed"}
  /\ handlers \in Seq(Handler)
  /\ pid \in Rows \cup {-1} /\ sus_jobs \in Int /\ total_jobs \in 1..MaxJobs + 1
  /\ status_arr \in [Rows -> Statuses]
  /\ job \in [Rows -> {"none", "running", "halted", "stopped", "zombie", "gone"}]
  /\ interrupted \in SUBSET Rows /\ raced \in BOOLEAN

\* There is a job in the foreground from its start or its choice to the next prompt;
\* but for the one that is just being entered it is in the table.
PidInv ==
  /\ pid = -1 <=> mpc \in {"prompt", "over"}
  /\ mpc \in {"prompt", "over"} => handlers = <<>>
  /\ mpc = "forked" => pid = total_jobs
  /\ mpc \in {"wait", "reset", "continue", "label"} => pid \in InTable
  /\ \A r \in Rows : r >= total_jobs /\ r # pid => job[r] = "none"

\* At main's "reset" waitpid has reported the end or the stop of the job.
ForegroundInv == OneInForeground /\ (mpc = "reset" => job[pid] # "running")

\* A handler has found the job that it passes the signal to, unless main has yet to
\* enter it.
HandlerInv ==
  \A h \in 1..Len(handlers) :
    handlers[h].child_it \in IF pid \in InTable THEN {pid} ELSE InTable \cup {0}

\* The jobs listed, without the one that main has counted off already.
Pickable == Listed \ IF mpc \in {"continue", "label"} THEN {pid} ELSE {}

CountInv == Cardinality(Pickable) <= sus_jobs

\* Without races there is at most the one handler whose signal reaches the job
\* that runs under waitpid, and the other jobs' rows are right all along.
QuietInv ==
  /\ interrupted = {}
  /\ sus_jobs = Cardinality(Pickable)
  /\ \A r \in Rows \ {pid} : r \in Listed <=> job[r] = "stopped"
  /\ handlers # <<>> =>
       /\ mpc = "wait" /\ Len(handlers) = 1 /\ pid \notin Listed
       /\ handlers[1].sent =>
            job[pid] = IF handlers[1].sig = "SIGINT" THEN "zombie" ELSE "halted"
       /\ ~handlers[1].sent => job[pid] \in {"running", "zombie"}
  /\ handlers = <<>> =>
       /\ mpc = "forked" => job[pid] \in {"running", "zombie"}
       /\ mpc = "wait" => /\ job[pid] \in {"running", "halted", "zombie"}
                          /\ pid \in Listed <=> job[pid] = "halted"
       /\ mpc = "reset" => pid \in Listed <=> job[pid] = "stopped"
       /\ mpc = "continue" => pid \in Listed /\ job[pid] = "stopped"
       /\ mpc = "label" => job[pid] \in {"running", "zombie"}

JobInv == JobTypeOK /\ PidInv /\ ForegroundInv /\ HandlerInv

BooksInv == JobInv /\ CountInv /\ (Ended \/ raced \/ QuietInv)

\* Sizes of sets of rows.
LEMMA RowSets ==
  ASSUME NEW S \in SUBSET Rows
  PROVE  /\ IsFiniteSet(S) /\ Cardinality(S) \in Nat
         /\ \A T \in SUBSET S : Cardinality(T) <= Cardinality(S)
         /\ \A r \in S : Cardinality(S \ {r}) = Cardinality(S) - 1
         /\ \A r \in Rows \ S : Cardinality(S \cup {r}) = Cardinality(S) + 1
  <1>1. MaxJobs \in Nat /\ 1 \in Int
    BY JobsAssumption
  <1>2. IsFiniteSet(Rows)
    BY <1>1, FS_Interval DEF Rows
  <1>3. IsFiniteSet(S)
    BY <1>2, FS_Subset
  <1>4. QED BY <1>3, FS_Subset, FS_CardinalityType, FS_AddElement, FS_RemoveElement

LEMMA ListedRows == JobTypeOK => Listed \in SUBSET Rows /\ Pickable \in SUBSET Rows
  BY JobsAssumption DEF JobTypeOK, Listed, Pickable, InTable, Rows

LEMMA JobInvInit == JobInit => BooksInv
  <1> SUFFICES ASSUME JobInit PROVE BooksInv
    OBVIOUS
  <1> USE JobsAssumption
  <1>0. /\ mpc = "prompt" /\ handlers = <<>> /\ pid = -1 /\ sus_jobs = 0 /\ total_jobs = 1
        /\ job = [r \in Rows |-> "none"] /\ interrupted = {}
    BY DEF JobInit
  <1>1. JobTypeOK
    <2>1. raced \in BOOLEAN
      BY DEF JobInit
    <2>2. handlers \in Seq(Handler)
      BY <1>0, EmptySeq
    <2>3. status_arr \in [Rows -> Statuses]
      BY DEF JobInit, Statuses
    <2>4. total_jobs \in 1..MaxJobs + 1
      BY <1>0
    <2>5. QED BY <1>0, <2>1, <2>2, <2>3, <2>4 DEF JobTypeOK
  <1>2. PidInv
    BY <1>0 DEF PidInv, Rows
  <1>3. ForegroundInv /\ HandlerInv
    BY <1>0, EmptySeq DEF ForegroundInv, HandlerInv, OneInForeground
  <1>4. Listed = {} /\ Pickable = {}
    <2>1. Listed = {}
      BY <1>0 DEF InTable, Listed
    <2>2. QED BY <2>1 DEF Pickable
  <1>5. CountInv
    <2>1. Cardinality(Pickable) = 0
      BY <1>4, FS_EmptySet
    <2>2. QED BY <1>0, <2>1 DEF CountInv
  <1>6. QuietInv
    BY <1>0, <1>4, FS_EmptySet DEF QuietInv
  <1>7. QED BY <1>1, <1>2, <1>3, <1>5, <1>6 DEF BooksInv, JobInv

\* A handler that passes its signal on stays where it is, and is for a job.
LEMMA PassedOn ==
  ASSUME JobTypeOK, PidInv, PassOn
  PROVE  /\ pid \in Rows
         /\ handlers' \in Seq(Handler) /\ Len(handlers') = Len(handlers) /\ Len(handlers) \in Nat \ {0}
         /\ handlers'[1] = [handlers[1] EXCEPT !.sent = TRUE] /\ handlers[1] \in Handler
         /\ Head(handlers) = handlers[1]
         /\ \A h \in 2..Len(handlers) : handlers'[h] = handlers[h]
  <1>1. handlers # <<>> /\ handlers \in Seq(Handler)
    BY DEF PassOn, JobTypeOK
  <1>2. pid \in Rows
    BY <1>1 DEF PidInv, JobTypeOK
  <1>3. /\ Len(handlers) \in Nat \ {0} /\ Head(handlers) = handlers[1] /\ handlers[1] \in Handler
        /\ Tail(handlers) \in Seq(Handler) /\ Len(Tail(handlers)) = Len(handlers) - 1
        /\ \A h \in 1..Len(handlers) - 1 : Tail(handlers)[h] = handlers[h + 1]
    BY <1>1, EmptySeq, HeadTailProperties, ElementOfSeq
  <1> DEFINE first == [handlers[1] EXCEPT !.sent = TRUE]
             rest == Tail(handlers)
  <1>4. first \in Handler
    BY <1>3 DEF Handler
  <1>5. handlers' = <<first>> \o rest
    BY <1>3 DEF PassOn
  <1> HIDE DEF first, rest
  <1>6. rest \in Seq(Handler) /\ Len(rest) = Len(handlers) - 1
        /\ \A h \in 1..Len(handlers) - 1 : rest[h] = handlers[h + 1]
    BY <1>3 DEF rest
  <1>7. /\ handlers' \in Seq(Handler) /\ Len(handlers') = 1 + Len(rest)
        /\ handlers'[1] = first /\ \A h \in 2..Len(rest) + 1 : handlers'[h] = rest[h - 1]
    BY <1>4, <1>5, <1>6
  <1>8. \A h \in 2..Len(handlers) : handlers'[h] = handlers[h]
    BY <1>3, <1>6, <1>7
  <1>9. QED BY <1>2, <1>3, <1>6, <1>7, <1>8 DEF first

LEMMA JobTypeStep == JobInv /\ [JobNext]_jobVars => JobTypeOK'
  <1> SUFFICES ASSUME JobInv, [JobNext]_jobVars PROVE JobTypeOK'
    OBVIOUS
  <1> USE JobsAssumption DEF JobInv, JobTypeOK, Main, table, kernel, signalVars
  <1>1. CASE Fork
    BY <1>1 DEF Fork, Rows
  <1>2. CASE Quit
    BY <1>2 DEF Quit, Killed
  <1>3. CASE EnterInTable
    <2>1. total_jobs \in Rows /\ total_jobs' \in 1..MaxJobs + 1
      BY <1>3 DEF EnterInTable, PidInv, Rows
    <2>2. QED BY <1>3, <2>1 DEF EnterInTable, SetStatus, Statuses
  <1>4. CASE Wait \/ ResetPid
    BY <1>4 DEF Wait, ResetPid
  <1>5. ASSUME NEW r \in Rows, Pick(r) \/ Kill(r) PROVE JobTypeOK'
    <2>1. CASE Pick(r)
      BY <2>1 DEF Pick
    <2>2. CASE Kill(r)
      <3>1. /\ UNCHANGED <<mpc, pid, total_jobs, interrupted, handlers, raced>>
            /\ sus_jobs' = sus_jobs - 1
        BY <2>2 DEF Kill
      <3>2. status_arr' \in [Rows -> Statuses]
        BY <2>2 DEF Kill, SetStatus, Statuses
      <3>3. job' \in [Rows -> {"none", "running", "halted", "stopped", "zombie", "gone"}]
        BY <2>2 DEF Kill, Killed
      <3>4. QED BY <3>1, <3>2, <3>3
    <2>3. QED BY <1>5, <2>1, <2>2
  <1>6. CASE Continue \/ Label
    BY <1>6 DEF Continue, Label, SetStatus, Statuses
  <1>7. ASSUME NEW sig \in Signals, Deliver(sig) PROVE JobTypeOK'
    <2>1. PICK child_it \in ChildIt :
            handlers' = <<[sig |-> sig, child_it |-> child_it, sent |-> FALSE]>> \o handlers
      BY <1>7 DEF Deliver
    <2>2. child_it \in 0..MaxJobs
      BY DEF ChildIt, InTable, Rows
    <2>3. handlers' \in Seq(Handler)
      BY <2>1, <2>2 DEF Handler
    <2>4. raced' \in BOOLEAN
      BY <1>7 DEF Deliver
    <2>5. UNCHANGED <<mpc, pid, table, kernel>>
      BY <1>7 DEF Deliver
    <2>6. QED BY <2>3, <2>4, <2>5
  <1>p. CASE PassOn
    <2>1. handlers' \in Seq(Handler)
      BY <1>p, PassedOn
    <2>2. raced' \in BOOLEAN
      BY <1>p DEF PassOn
    <2>3. UNCHANGED <<mpc, pid, table>>
      BY <1>p DEF PassOn
    <2>4. job' \in [Rows -> {"none", "running", "halted", "stopped", "zombie", "gone"}]
      BY <1>p DEF PassOn, Send
    <2>5. pid \in Rows /\ interrupted' \in SUBSET Rows
      BY <1>p, PassedOn DEF PassOn, Send
    <2>6. QED BY <2>1, <2>2, <2>3, <2>4, <2>5
  <1>8. CASE HandlerReturns
    <2>1. handlers' \in Seq(Handler)
      BY <1>8 DEF HandlerReturns
    <2>2. status_arr' \in [Rows -> Statuses]
      BY <1>8 DEF HandlerReturns, Statuses
    <2>3. sus_jobs' \in Int
      BY <1>8 DEF HandlerReturns
    <2>4. UNCHANGED <<mpc, pid, total_jobs, kernel, raced>>
      BY <1>8 DEF HandlerReturns
    <2>5. QED BY <2>1, <2>2, <2>3, <2>4
  <1>9. CASE Crash
    BY <1>9 DEF Crash
  <1>10. ASSUME NEW r \in Rows, JobEnds(r) PROVE JobTypeOK'
    BY <1>10 DEF JobEnds
  <1>11. CASE UNCHANGED jobVars
    BY <1>11 DEF jobVars
  <1>12. QED BY <1>1, <1>2, <1>3, <1>4, <1>5, <1>6, <1>7, <1>8, <1>9, <1>10, <1>11, <1>p
             DEF JobNext, JobUser, MainStep

LEMMA PidStep == JobInv /\ [JobNext]_jobVars => PidInv'
  <1> SUFFICES ASSUME JobInv, [JobNext]_jobVars PROVE PidInv'
    OBVIOUS
  <1> USE JobsAssumption DEF JobInv, JobTypeOK, PidInv, Main, table, kernel, signalVars, InTable
  <1>1. CASE Fork
    BY <1>1 DEF Fork, Rows
  <1>2. CASE Quit
    BY <1>2 DEF Quit, Killed
  <1>3. CASE EnterInTable
    BY <1>3 DEF EnterInTable, SetStatus, Rows
  <1>4. CASE Wait \/ ResetPid
    <2>1. CASE Wait
      BY <2>1 DEF Wait, Rows
    <2>2. CASE ResetPid
      BY <2>2 DEF ResetPid, Rows
    <2>3. QED BY <1>4, <2>1, <2>2
  <1>5. ASSUME NEW r \in Rows, Pick(r) PROVE PidInv'
    <2>1. r \in InTable
      BY <1>5 DEF Pick, MayPick, Listed
    <2>2. QED BY <1>5, <2>1 DEF Pick, Rows
  <1>6. ASSUME NEW r \in Rows, Kill(r) PROVE PidInv'
    BY <1>6 DEF Kill, Killed
  <1>7. CASE Continue \/ Label
    BY <1>7 DEF Continue, Label, Rows
  <1>8. ASSUME NEW sig \in Signals, Deliver(sig) PROVE PidInv'
    BY <1>8 DEF Deliver, Rows
  <1>p. CASE PassOn
    BY <1>p DEF PassOn, Send, Rows
  <1>9. CASE HandlerReturns
    BY <1>9 DEF HandlerReturns
  <1>10. CASE Crash
    BY <1>10 DEF Crash
  <1>11. ASSUME NEW r \in Rows, JobEnds(r) PROVE PidInv'
    BY <1>11 DEF JobEnds
  <1>12. CASE UNCHANGED jobVars
    BY <1>12 DEF jobVars
  <1>13. QED BY <1>1, <1>2, <1>3, <1>4, <1>5, <1>6, <1>7, <1>8, <1>9, <1>10, <1>11, <1>12, <1>p
             DEF JobNext, JobUser, MainStep

LEMMA ForegroundStep == JobInv /\ [JobNext]_jobVars => ForegroundInv'
  <1> SUFFICES ASSUME JobInv, [JobNext]_jobVars PROVE ForegroundInv'
    OBVIOUS
  <1> USE JobsAssumption DEF JobInv, JobTypeOK, PidInv, ForegroundInv, OneInForeground, Main, table,
        kernel, signalVars
  <1>0. \A r \in Rows : pid = -1 => job[r] # "running"
    BY DEF Rows
  <1>1. CASE Fork
    BY <1>0, <1>1 DEF Fork, Rows
  <1>2. CASE Quit
    BY <1>0, <1>2 DEF Quit, Killed
  <1>3. CASE EnterInTable
    BY <1>3 DEF EnterInTable
  <1>4. CASE Wait
    BY <1>4 DEF Wait, Reportable, InTable, Rows
  <1>5. CASE ResetPid
    BY <1>5 DEF ResetPid
  <1>6. ASSUME NEW r \in Rows, Pick(r) \/ Kill(r) PROVE ForegroundInv'
    BY <1>0, <1>6 DEF Pick, Kill, Killed
  <1>7. CASE Continue
    BY <1>7 DEF Continue
  <1>8. CASE Label
    BY <1>8 DEF Label
  <1>9. ASSUME NEW sig \in Signals, Deliver(sig) PROVE ForegroundInv'
    BY <1>9 DEF Deliver
  <1>p. CASE PassOn
    BY <1>p DEF PassOn, Send
  <1>10. CASE HandlerReturns
    BY <1>10 DEF HandlerReturns
  <1>11. CASE Crash
    BY <1>11 DEF Crash
  <1>12. ASSUME NEW r \in Rows, JobEnds(r) PROVE ForegroundInv'
    BY <1>12 DEF JobEnds
  <1>13. CASE UNCHANGED jobVars
    BY <1>13 DEF jobVars
  <1>14. QED BY <1>1, <1>2, <1>3, <1>4, <1>5, <1>6, <1>7, <1>8, <1>9, <1>10, <1>11, <1>12, <1>13, <1>p
             DEF JobNext, JobUser, MainStep

LEMMA HandlerStep == JobInv /\ [JobNext]_jobVars => HandlerInv'
  <1> SUFFICES ASSUME JobInv, [JobNext]_jobVars PROVE HandlerInv'
    OBVIOUS
  <1> USE DEF JobInv
  <1>1. CASE JobUser \/ MainStep
    <2>1. handlers' = <<>>
      BY <1>1 DEF JobUser, MainStep, Fork, Quit, EnterInTable, Wait, ResetPid, Pick, Continue, Label, Kill,
                  Main, signalVars
    <2>2. QED BY <2>1, EmptySeq DEF HandlerInv
  <1>2. ASSUME NEW sig \in Signals, Deliver(sig) PROVE HandlerInv'
    <2>1. PICK child_it \in ChildIt :
            handlers' = <<[sig |-> sig, child_it |-> child_it, sent |-> FALSE]>> \o handlers
      BY <1>2 DEF Deliver
    <2>2. handlers \in Seq(Handler)
      BY DEF JobTypeOK
    <2>3. /\ Len(handlers') = Len(handlers) + 1 /\ Len(handlers) \in Nat
          /\ handlers'[1].child_it = child_it
          /\ \A h \in 2..Len(handlers) + 1 : handlers'[h] = handlers[h - 1]
      BY <2>1, <2>2
    <2>4. UNCHANGED <<pid, total_jobs>>
      BY <1>2 DEF Deliver, table
    <2>5. QED BY <2>3, <2>4 DEF HandlerInv, ChildIt, InTable
  <1>p. CASE PassOn
    <2>1. /\ Len(handlers') = Len(handlers) /\ Len(handlers) \in Nat \ {0}
          /\ \A h \in 1..Len(handlers) : handlers'[h].child_it = handlers[h].child_it
      BY <1>p, PassedOn DEF Handler
    <2>2. UNCHANGED <<pid, total_jobs>>
      BY <1>p DEF PassOn, table
    <2>3. QED BY <2>1, <2>2 DEF HandlerInv, InTable
  <1>3. CASE HandlerReturns
    <2>1. handlers # <<>> /\ handlers' = Tail(handlers) /\ UNCHANGED <<pid, total_jobs>>
      BY <1>3 DEF HandlerReturns
    <2>2. handlers \in Seq(Handler)
      BY DEF JobTypeOK
    <2>3. /\ Len(handlers') = Len(handlers) - 1 /\ Len(handlers) \in Nat
          /\ \A h \in 1..Len(handlers') : handlers'[h] = handlers[h + 1]
      BY <2>1, <2>2, HeadTailProperties
    <2>4. QED BY <2>1, <2>3 DEF HandlerInv, InTable
  <1>4. CASE Crash \/ (\E r \in Rows : JobEnds(r)) \/ UNCHANGED jobVars
    <2>1. UNCHANGED <<handlers, pid, total_jobs>>
      BY <1>4 DEF Crash, JobEnds, jobVars, signalVars, table
    <2>2. QED BY <2>1 DEF HandlerInv, InTable
  <1>5. QED BY <1>1, <1>2, <1>3, <1>4, <1>p DEF JobNext

\* The handler that returns, and the row it writes.
LEMMA HandlerAtHand ==
  ASSUME JobInv, handlers # <<>>
  PROVE  /\ Len(handlers) \in Nat \ {0} /\ Head(handlers) = handlers[1]
         /\ handlers[1] \in Handler
         /\ handlers[1].child_it \in InTable \cup {0}
         /\ pid \in InTable => handlers[1].child_it = pid
         /\ Len(Tail(handlers)) = Len(handlers) - 1
  <1>1. handlers \in Seq(Handler)
    BY DEF JobInv, JobTypeOK
  <1>2. Len(handlers) \in Nat \ {0} /\ Len(Tail(handlers)) = Len(handlers) - 1
    BY <1>1, EmptySeq, HeadTailProperties
  <1>3. Head(handlers) = handlers[1] /\ 1 \in 1..Len(handlers)
    BY <1>1, <1>2
  <1>4. QED BY <1>1, <1>2, <1>3, ElementOfSeq DEF JobInv, HandlerInv

\* What a returning handler does to the list and the count.
LEMMA HandlerWrites ==
  ASSUME JobInv, HandlerReturns
  PROVE  /\ handlers[1].sig = "SIGINT" => /\ sus_jobs' = sus_jobs
                                          /\ Listed' = Listed \ {handlers[1].child_it}
         /\ handlers[1].sig = "SIGTSTP" => /\ sus_jobs' = sus_jobs + 1
                                           /\ Listed' = Listed \cup ({handlers[1].child_it} \cap InTable)
         /\ handlers[1].sig \in Signals
  <1> DEFINE it == handlers[1].child_it
  <1>1. /\ Head(handlers) = handlers[1] /\ it \in InTable \cup {0} /\ handlers[1].sig \in Signals
        /\ sus_jobs \in Int
    BY HandlerAtHand DEF HandlerReturns, JobInv, JobTypeOK, Handler
  <1>2. InTable \in SUBSET Rows /\ InTable' = InTable
    BY JobsAssumption DEF HandlerReturns, InTable, Rows, JobInv, JobTypeOK
  <1>3. status_arr' = [r \in Rows |-> IF r # it THEN status_arr[r]
                          ELSE IF handlers[1].sig = "SIGINT" THEN "TERMINATED" ELSE "SUSPENDED"]
    BY <1>1 DEF HandlerReturns
  <1>4. sus_jobs' = sus_jobs + IF handlers[1].sig = "SIGTSTP" THEN 1 ELSE 0
    BY <1>1 DEF HandlerReturns
  <1>5. \A r \in InTable : r \in Listed' <=>
          IF r # it THEN r \in Listed ELSE handlers[1].sig # "SIGINT"
    BY <1>2, <1>3 DEF Listed
  <1>6. Listed \subseteq InTable /\ Listed' \subseteq InTable
    BY <1>2 DEF Listed
  <1>7. QED BY <1>1, <1>4, <1>5, <1>6 DEF Signals

\* What main does to the list.
LEMMA MainWrites ==
  ASSUME JobInv
  PROVE  /\ UNCHANGED <<total_jobs, status_arr>> => Listed' = Listed
         /\ EnterInTable => Listed' = Listed
         /\ Label => Listed' = Listed \ {pid}
         /\ \A r \in Rows : Kill(r) => Listed' = Listed \ {r}
         /\ \A r \in Rows : Pick(r) \/ Kill(r) => r \in Listed \/ Listed = {}
  <1> USE JobsAssumption DEF JobInv, JobTypeOK, Rows, InTable, Listed, SetStatus
  <1>1. UNCHANGED <<total_jobs, status_arr>> => Listed' = Listed
    OBVIOUS
  <1>2. ASSUME EnterInTable PROVE Listed' = Listed
    <2>1. /\ status_arr' = [status_arr EXCEPT ![total_jobs] = "FINISHED"]
          /\ total_jobs' = total_jobs + 1 /\ total_jobs \in Rows
      BY <1>2 DEF EnterInTable, PidInv, Main
    <2>2. QED BY <2>1
  <1>3. ASSUME Label PROVE Listed' = Listed \ {pid}
    BY <1>3 DEF Label
  <1>4. ASSUME NEW r \in Rows, Kill(r) PROVE Listed' = Listed \ {r}
    BY <1>4 DEF Kill
  <1>5. ASSUME NEW r \in Rows, Pick(r) \/ Kill(r) PROVE r \in Listed \/ Listed = {}
    <2>1. r \in MayPick
      BY <1>5 DEF Pick, Kill
    <2>2. QED BY <2>1 DEF MayPick
  <1>6. QED BY <1>1, <1>2, <1>3, <1>4, <1>5

LEMMA CountStep == JobInv /\ CountInv /\ [JobNext]_jobVars => CountInv'
  <1> SUFFICES ASSUME JobInv, CountInv, [JobNext]_jobVars PROVE CountInv'
    OBVIOUS
  <1> USE DEF CountInv
  <1>1. Listed \in SUBSET Rows /\ Pickable \in SUBSET Rows /\ sus_jobs \in Int
    BY ListedRows DEF JobInv, JobTypeOK
  <1>2. Cardinality(Listed) \in Nat /\ Cardinality(Pickable) \in Nat
    BY <1>1, RowSets
  <1>3. CASE Fork \/ Quit \/ EnterInTable \/ Wait \/ ResetPid \/ Continue \/ PassOn \/ Crash
             \/ (\E sig \in Signals : Deliver(sig)) \/ (\E r \in Rows : JobEnds(r)) \/ UNCHANGED jobVars
    <2>1. Listed' = Listed /\ sus_jobs' = sus_jobs
      BY <1>3, MainWrites DEF Fork, Quit, EnterInTable, Wait, ResetPid, Continue, PassOn, Crash,
                              Deliver, JobEnds, jobVars, table
    <2>2. /\ mpc' \in {"continue", "label"} <=> mpc \in {"continue", "label"}
          /\ mpc \in {"continue", "label"} => pid' = pid
      BY <1>3 DEF Fork, Quit, EnterInTable, Wait, ResetPid, Continue, PassOn, Crash, Deliver, JobEnds,
                  jobVars, Main
    <2>3. Pickable' = Pickable
      BY <2>1, <2>2 DEF Pickable
    <2>4. QED BY <2>1, <2>3
  <1>4. ASSUME NEW r \in Rows, Pick(r) PROVE CountInv'
    <2>1. Listed' = Listed /\ (r \in Listed \/ Listed = {})
      BY <1>4, MainWrites DEF Pick
    <2>2. Pickable = Listed /\ Pickable' = Listed \ {r} /\ sus_jobs' = sus_jobs - 1 /\ sus_jobs > 0
      BY <1>4, <2>1 DEF Pick, Pickable, Main
    <2>3. CASE r \in Listed
      BY <1>1, <1>2, <2>2, <2>3, RowSets
    <2>4. CASE Listed = {}
      <3>1. Listed \ {r} = {}
        BY <2>4
      <3>2. QED BY <1>1, <2>2, <3>1, FS_EmptySet
    <2>5. QED BY <2>1, <2>3, <2>4
  <1>5. ASSUME NEW r \in Rows, Kill(r) PROVE CountInv'
    <2>1. Listed' = Listed \ {r} /\ (r \in Listed \/ Listed = {})
      BY <1>5, MainWrites
    <2>2. Pickable = Listed /\ Pickable' = Listed \ {r} /\ sus_jobs' = sus_jobs - 1 /\ sus_jobs > 0
      BY <1>5, <2>1 DEF Kill, Pickable, Main
    <2>3. CASE r \in Listed
      BY <1>1, <1>2, <2>2, <2>3, RowSets
    <2>4. CASE Listed = {}
      <3>1. Listed \ {r} = {}
        BY <2>4
      <3>2. QED BY <1>1, <2>2, <3>1, FS_EmptySet
    <2>5. QED BY <2>1, <2>3, <2>4
  <1>6. CASE Label
    <2>1. Pickable' = Pickable /\ sus_jobs' = sus_jobs
      BY <1>6, MainWrites DEF Label, Main, Pickable
    <2>2. QED BY <2>1
  <1>7. CASE HandlerReturns
    <2> DEFINE it == handlers[1].child_it
    <2>1. UNCHANGED <<mpc, pid>>
      BY <1>7 DEF HandlerReturns
    <2>2. CASE handlers[1].sig = "SIGINT"
      <3>1. Pickable' \in SUBSET Pickable /\ sus_jobs' = sus_jobs
        BY <1>7, <2>1, <2>2, HandlerWrites DEF Pickable
      <3>2. Cardinality(Pickable') <= Cardinality(Pickable)
        BY <1>1, <3>1, RowSets
      <3>3. Cardinality(Pickable') \in Nat
        BY <1>1, <3>1, RowSets
      <3>4. QED BY <1>1, <1>2, <3>1, <3>2, <3>3
    <2>3. CASE handlers[1].sig = "SIGTSTP"
      <3>1. Pickable' \in SUBSET (Pickable \cup {it}) /\ sus_jobs' = sus_jobs + 1
        BY <1>7, <2>1, <2>3, HandlerWrites DEF Pickable
      <3>2. Pickable' \in SUBSET Rows
        <4>1. JobTypeOK'
          BY <1>7, JobTypeStep
        <4>2. QED BY <4>1, JobsAssumption DEF JobTypeOK, Listed, Pickable, InTable, Rows
      <3>3. Cardinality(Pickable') \in Nat
        BY <3>2, RowSets
      <3>4. CASE it \in Rows \ Pickable
        <4>1. Pickable \cup {it} \in SUBSET Rows
          BY <1>1, <3>4
        <4>2. Cardinality(Pickable') <= Cardinality(Pickable \cup {it})
          BY <3>1, <4>1, RowSets
        <4>3. Cardinality(Pickable \cup {it}) = Cardinality(Pickable) + 1
          BY <1>1, <3>4, RowSets
        <4>4. QED BY <1>1, <1>2, <3>1, <3>3, <4>2, <4>3
      <3>5. CASE it \notin Rows \ Pickable
        <4>1. Pickable' \in SUBSET Pickable
          BY <3>1, <3>2, <3>5
        <4>2. Cardinality(Pickable') <= Cardinality(Pickable)
          BY <1>1, <4>1, RowSets
        <4>3. QED BY <1>1, <1>2, <3>1, <3>3, <4>2
      <3>6. QED BY <3>4, <3>5
    <2>4. QED BY <1>7, <2>2, <2>3, HandlerWrites DEF Signals
  <1>8. QED BY <1>3, <1>4, <1>5, <1>6, <1>7 DEF JobNext, JobUser, MainStep

LEMMA QuietStep ==
  ASSUME JobInv, QuietInv, ~raced, [JobNext]_jobVars, ~Ended', ~raced'
  PROVE  QuietInv'
  <1> USE JobsAssumption DEF JobInv
  <1> DEFINE RowsRight == \A r \in Rows \ {pid} : r \in Listed <=> job[r] = "stopped"
             HandlerRight == handlers # <<>> =>
                /\ mpc = "wait" /\ Len(handlers) = 1 /\ pid \notin Listed
                /\ handlers[1].sent =>
                     job[pid] = IF handlers[1].sig = "SIGINT" THEN "zombie" ELSE "halted"
                /\ ~handlers[1].sent => job[pid] \in {"running", "zombie"}
             MainRight == handlers = <<>> =>
                /\ mpc = "forked" => job[pid] \in {"running", "zombie"}
                /\ mpc = "wait" => /\ job[pid] \in {"running", "halted", "zombie"}
                                   /\ pid \in Listed <=> job[pid] = "halted"
                /\ mpc = "reset" => pid \in Listed <=> job[pid] = "stopped"
                /\ mpc = "continue" => pid \in Listed /\ job[pid] = "stopped"
                /\ mpc = "label" => job[pid] \in {"running", "zombie"}
  <1>1. interrupted = {} /\ sus_jobs = Cardinality(Pickable) /\ RowsRight /\ HandlerRight /\ MainRight
    BY DEF QuietInv
  <1>2. ASSUME interrupted' = {}, sus_jobs' = Cardinality(Pickable'), RowsRight', HandlerRight', MainRight'
        PROVE  QuietInv'
    BY <1>2 DEF QuietInv
  <1> HIDE DEF RowsRight, HandlerRight, MainRight
  <1>3. /\ Listed \in SUBSET Rows /\ sus_jobs \in Int
        /\ job \in [Rows -> {"none", "running", "halted", "stopped", "zombie", "gone"}]
        /\ pid \in Rows \cup {-1} /\ total_jobs \in 1..MaxJobs + 1
    BY ListedRows DEF JobTypeOK
  <1>4. CASE Fork
    <2>1. /\ Listed' = Listed /\ pid = -1 /\ pid' = total_jobs /\ handlers' = <<>> /\ mpc = "prompt"
          /\ mpc' = "forked" /\ total_jobs \in Rows
          /\ job' = [job EXCEPT ![total_jobs] = "running"] /\ UNCHANGED <<interrupted, sus_jobs>>
      BY <1>3, <1>4, MainWrites DEF Fork, Main, PidInv, table, signalVars, Rows
    <2>2. Pickable' = Pickable
      BY <2>1 DEF Pickable
    <2>3. RowsRight'
      BY <1>1, <1>3, <2>1 DEF RowsRight, Rows
    <2>4. HandlerRight' /\ MainRight'
      BY <1>3, <2>1 DEF HandlerRight, MainRight
    <2>5. QED BY <1>1, <1>2, <2>1, <2>2, <2>3, <2>4
  <1>5. CASE EnterInTable
    <2>1. /\ Listed' = Listed /\ pid = total_jobs /\ handlers = <<>> /\ handlers' = <<>>
          /\ mpc = "forked" /\ mpc' = "wait"
          /\ UNCHANGED <<pid, job, interrupted, sus_jobs>>
      BY <1>5, MainWrites DEF EnterInTable, Main, PidInv, kernel, signalVars
    <2>2. pid \notin Listed
      BY <1>3, <2>1 DEF Listed, InTable
    <2>3. Pickable' = Pickable
      BY <2>1 DEF Pickable
    <2>4. RowsRight'
      BY <1>1, <2>1 DEF RowsRight
    <2>5. HandlerRight' /\ MainRight'
      BY <1>1, <2>1, <2>2 DEF HandlerRight, MainRight
    <2>6. QED BY <1>1, <1>2, <2>1, <2>3, <2>4, <2>5
  <1>6. CASE Wait
    <2>1. /\ Listed' = Listed /\ handlers = <<>> /\ handlers' = <<>> /\ mpc = "wait" /\ mpc' = "reset"
          /\ job' = [job EXCEPT ![pid] = IF @ = "halted" THEN "stopped" ELSE "gone"]
          /\ pid \in Rows /\ UNCHANGED <<pid, interrupted, sus_jobs>>
      BY <1>3, <1>6, MainWrites DEF Wait, Main, PidInv, table, signalVars, InTable, Rows
    <2>2. Pickable' = Pickable
      BY <2>1 DEF Pickable
    <2>3. RowsRight'
      BY <1>1, <1>3, <2>1 DEF RowsRight
    <2>4. HandlerRight' /\ MainRight'
      BY <1>1, <1>3, <2>1 DEF HandlerRight, MainRight
    <2>5. QED BY <1>1, <1>2, <2>1, <2>2, <2>3, <2>4
  <1>7. CASE ResetPid
    <2>1. /\ Listed' = Listed /\ handlers = <<>> /\ handlers' = <<>> /\ mpc = "reset" /\ mpc' = "prompt"
          /\ pid \in Rows /\ pid' = -1 /\ UNCHANGED <<job, interrupted, sus_jobs>>
      BY <1>3, <1>7, MainWrites DEF ResetPid, Main, PidInv, table, kernel, signalVars, InTable, Rows
    <2>2. Pickable' = Pickable
      BY <2>1 DEF Pickable
    <2>3. RowsRight'
      BY <1>1, <2>1 DEF RowsRight, MainRight
    <2>4. HandlerRight' /\ MainRight'
      BY <2>1 DEF HandlerRight, MainRight
    <2>5. QED BY <1>1, <1>2, <2>1, <2>2, <2>3, <2>4
  <1>8. ASSUME NEW r \in Rows, Pick(r) \/ Kill(r)
        PROVE  /\ r \in Listed /\ pid = -1 /\ handlers = <<>> /\ handlers' = <<>> /\ mpc = "prompt"
               /\ Pickable = Listed /\ sus_jobs' = sus_jobs - 1
               /\ Cardinality(Listed \ {r}) = Cardinality(Listed) - 1
    <2>1. /\ pid = -1 /\ handlers = <<>> /\ handlers' = <<>> /\ mpc = "prompt"
          /\ sus_jobs > 0 /\ sus_jobs' = sus_jobs - 1
      BY <1>8 DEF Pick, Kill, Main, PidInv, signalVars
    <2>2. Pickable = Listed
      BY <2>1 DEF Pickable
    <2>3. Listed # {}
      BY <1>1, <2>1, <2>2, FS_EmptySet
    <2>4. r \in Listed
      BY <1>8, <2>3, MainWrites
    <2>5. QED BY <1>3, <2>1, <2>2, <2>4, RowSets
  <1>9. ASSUME NEW r \in Rows, Pick(r) PROVE QuietInv'
    <2>1. /\ Listed' = Listed /\ pid' = r /\ mpc' = "continue" /\ UNCHANGED <<job, interrupted>>
      BY <1>9, MainWrites DEF Pick, Main, kernel
    <2>2. Pickable' = Listed \ {r}
      BY <2>1 DEF Pickable
    <2>3. RowsRight' /\ job[r] = "stopped"
      <3>1. pid = -1 /\ r \in Listed
        BY <1>8, <1>9
      <3>2. \A q \in Rows : q \in Listed <=> job[q] = "stopped"
        BY <1>1, <3>1 DEF RowsRight, Rows
      <3>3. QED BY <2>1, <3>1, <3>2 DEF RowsRight
    <2>4. HandlerRight' /\ MainRight'
      BY <1>8, <1>9, <2>1, <2>3 DEF HandlerRight, MainRight
    <2>5. QED BY <1>1, <1>2, <1>8, <1>9, <2>1, <2>2, <2>3, <2>4
  <1>10. ASSUME NEW r \in Rows, Kill(r) PROVE QuietInv'
    <2>1. /\ Listed' = Listed \ {r} /\ pid' = pid /\ mpc' = "prompt" /\ UNCHANGED interrupted
          /\ job' = [q \in Rows |-> IF q \in {r} /\ job[q] \in {"halted", "stopped"}
                                    THEN "zombie" ELSE job[q]]
      BY <1>10, MainWrites DEF Kill, Main, Killed
    <2>2. Pickable' = Listed \ {r}
      BY <2>1 DEF Pickable
    <2>3. RowsRight'
      BY <1>1, <1>8, <1>10, <2>1 DEF RowsRight, Rows
    <2>4. HandlerRight' /\ MainRight'
      BY <1>8, <1>10, <2>1 DEF HandlerRight, MainRight
    <2>5. QED BY <1>1, <1>2, <1>8, <1>10, <2>1, <2>2, <2>3, <2>4
  <1>11. CASE Continue
    <2>1. /\ Listed' = Listed /\ handlers = <<>> /\ handlers' = <<>> /\ mpc = "continue" /\ mpc' = "label"
          /\ pid \in Rows /\ UNCHANGED <<pid, sus_jobs>> /\ interrupted' = {}
      BY <1>1, <1>3, <1>11, MainWrites DEF Continue, Main, PidInv, table, signalVars, InTable, Rows
    <2>2. job' = [job EXCEPT ![pid] = "running"]
      BY <1>1, <1>3, <1>11, <2>1 DEF Continue, MainRight
    <2>3. Pickable' = Pickable
      BY <2>1 DEF Pickable
    <2>4. RowsRight'
      BY <1>1, <1>3, <2>1, <2>2 DEF RowsRight
    <2>5. HandlerRight' /\ MainRight'
      BY <1>3, <2>1, <2>2 DEF HandlerRight, MainRight
    <2>6. QED BY <1>1, <1>2, <2>1, <2>3, <2>4, <2>5
  <1>12. CASE Label
    <2>1. /\ Listed' = Listed \ {pid} /\ handlers = <<>> /\ handlers' = <<>> /\ mpc = "label" /\ mpc' = "wait"
          /\ UNCHANGED <<pid, job, interrupted, sus_jobs>>
      BY <1>12, MainWrites DEF Label, Main, kernel, signalVars
    <2>2. Pickable' = Pickable
      BY <2>1 DEF Pickable
    <2>3. RowsRight'
      BY <1>1, <2>1 DEF RowsRight
    <2>4. HandlerRight' /\ MainRight'
      BY <1>1, <2>1 DEF HandlerRight, MainRight
    <2>5. QED BY <1>1, <1>2, <2>1, <2>2, <2>3, <2>4
  <1>13. ASSUME NEW sig \in Signals, Deliver(sig) PROVE QuietInv'
    <2>1. /\ mpc = "wait" /\ job[pid] = "running" /\ handlers = <<>>
      BY <1>13 DEF Deliver
    <2>2. PICK child_it \in ChildIt : handlers' = <<[sig |-> sig, child_it |-> child_it, sent |-> FALSE]>> \o handlers
      BY <1>13 DEF Deliver
    <2>3. handlers' # <<>> /\ Len(handlers') = 1 /\ ~handlers'[1].sent
      BY <2>1, <2>2
    <2>4. Listed' = Listed /\ UNCHANGED <<pid, mpc, sus_jobs, job, interrupted>>
      BY <1>13, MainWrites DEF Deliver, table, kernel
    <2>5. pid \notin Listed
      BY <1>1, <2>1 DEF MainRight
    <2>6. Pickable' = Pickable
      BY <2>4 DEF Pickable
    <2>7. RowsRight'
      BY <1>1, <2>4 DEF RowsRight
    <2>8. HandlerRight' /\ MainRight'
      BY <2>1, <2>3, <2>4, <2>5 DEF HandlerRight, MainRight
    <2>9. QED BY <1>1, <1>2, <2>4, <2>6, <2>7, <2>8
  <1>p. CASE PassOn
    <2>1. /\ job[pid] = "running" /\ handlers # <<>>
          /\ Listed' = Listed /\ UNCHANGED <<pid, mpc, sus_jobs>>
      BY <1>p, MainWrites DEF PassOn, table
    <2>2. /\ pid \in Rows /\ Len(handlers') = Len(handlers) /\ Len(handlers) \in Nat \ {0}
          /\ handlers'[1].sent /\ handlers'[1].sig = handlers[1].sig /\ Head(handlers) = handlers[1]
      BY <1>p, PassedOn DEF Handler
    <2>3. mpc = "wait" /\ Len(handlers) = 1 /\ pid \notin Listed
      BY <1>1, <2>1 DEF HandlerRight
    <2>4. /\ job' = [job EXCEPT ![pid] = IF handlers[1].sig = "SIGINT" THEN "zombie" ELSE "halted"]
          /\ interrupted' = {}
      BY <1>1, <1>3, <1>p, <2>1, <2>2 DEF PassOn, Send
    <2>5. Pickable' = Pickable
      BY <2>1 DEF Pickable
    <2>6. RowsRight'
      BY <1>1, <1>3, <2>1, <2>2, <2>4 DEF RowsRight
    <2>7. handlers' # <<>>
      BY <1>p DEF PassOn
    <2>8. HandlerRight' /\ MainRight'
      BY <1>3, <2>1, <2>2, <2>3, <2>4, <2>7 DEF HandlerRight, MainRight
    <2>9. QED BY <1>1, <1>2, <2>1, <2>4, <2>5, <2>6, <2>8
  <1>14. CASE HandlerReturns
    <2>1. /\ handlers # <<>> /\ handlers' = Tail(handlers) /\ handlers[1].sent
          /\ UNCHANGED <<mpc, pid, job, interrupted>>
      BY <1>14, HandlerAtHand DEF HandlerReturns, kernel
    <2>2. /\ mpc = "wait" /\ Len(handlers) = 1 /\ pid \notin Listed
          /\ job[pid] = IF handlers[1].sig = "SIGINT" THEN "zombie" ELSE "halted"
      BY <1>1, <2>1 DEF HandlerRight
    <2>3. handlers' = <<>> /\ pid \in InTable /\ pid \in Rows /\ handlers[1].child_it = pid
      <3>1. handlers \in Seq(Handler)
        BY DEF JobTypeOK
      <3>2. Tail(handlers) \in Seq(Handler) /\ Len(Tail(handlers)) = 0
        BY <2>1, <2>2, <3>1, HeadTailProperties
      <3>3. handlers' = <<>>
        BY <2>1, <3>2, EmptySeq
      <3>4. pid \in InTable /\ pid \in Rows
        BY <1>3, <2>2 DEF PidInv, InTable, Rows
      <3>5. QED BY <2>1, <3>3, <3>4, HandlerAtHand
    <2>4. CASE handlers[1].sig = "SIGINT"
      <3>1. Listed' = Listed /\ sus_jobs' = sus_jobs
        BY <1>14, <2>2, <2>3, <2>4, HandlerWrites
      <3>2. Pickable' = Pickable
        BY <2>1, <3>1 DEF Pickable
      <3>3. RowsRight'
        BY <1>1, <2>1, <3>1 DEF RowsRight
      <3>4. HandlerRight' /\ MainRight'
        BY <2>1, <2>2, <2>3, <2>4, <3>1 DEF HandlerRight, MainRight
      <3>5. QED BY <1>1, <1>2, <2>1, <3>1, <3>2, <3>3, <3>4
    <2>5. CASE handlers[1].sig = "SIGTSTP"
      <3>1. Listed' = Listed \cup {pid} /\ sus_jobs' = sus_jobs + 1
        BY <1>14, <2>3, <2>5, HandlerWrites
      <3>2. Pickable = Listed /\ Pickable' = Listed \cup {pid}
        BY <2>1, <2>2, <3>1 DEF Pickable
      <3>3. Cardinality(Pickable') = Cardinality(Pickable) + 1
        BY <1>3, <2>2, <2>3, <3>2, RowSets
      <3>4. RowsRight'
        BY <1>1, <2>1, <3>1 DEF RowsRight
      <3>5. HandlerRight' /\ MainRight'
        BY <2>1, <2>2, <2>3, <2>5, <3>1 DEF HandlerRight, MainRight
      <3>6. QED BY <1>1, <1>2, <2>1, <3>1, <3>3, <3>4, <3>5
    <2>6. QED BY <1>14, <2>4, <2>5, HandlerWrites DEF Signals
  <1>15. ASSUME NEW r \in Rows, JobEnds(r) PROVE QuietInv'
    <2>1. /\ job[r] = "running" /\ job' = [job EXCEPT ![r] = "zombie"]
          /\ UNCHANGED <<mpc, handlers, pid, sus_jobs, interrupted>> /\ Listed' = Listed
      BY <1>15, MainWrites DEF JobEnds, table, signalVars
    <2>2. Pickable' = Pickable
      BY <2>1 DEF Pickable
    <2>3. r = pid
      BY <2>1 DEF ForegroundInv, OneInForeground
    <2>4. RowsRight'
      BY <1>1, <1>3, <2>1 DEF RowsRight
    <2>5. HandlerRight' /\ MainRight'
      BY <1>1, <1>3, <2>1, <2>3 DEF HandlerRight, MainRight
    <2>6. QED BY <1>1, <1>2, <2>1, <2>2, <2>4, <2>5
  <1>16. CASE UNCHANGED jobVars
    <2>1. /\ UNCHANGED <<mpc, handlers, pid, job, sus_jobs, interrupted>> /\ Listed' = Listed
      BY <1>16, MainWrites DEF jobVars
    <2>2. Pickable' = Pickable
      BY <2>1 DEF Pickable
    <2>3. RowsRight' /\ HandlerRight' /\ MainRight'
      BY <1>1, <2>1 DEF RowsRight, HandlerRight, MainRight
    <2>4. QED BY <1>1, <1>2, <2>1, <2>2, <2>3
  <1>17. ~Quit /\ ~Crash
    BY DEF Quit, Crash, Main, Ended
  <1>18. QED BY <1>4, <1>5, <1>6, <1>7, <1>9, <1>10, <1>11, <1>12, <1>13, <1>14, <1>15, <1>16, <1>17,
                <1>p DEF JobNext, JobUser, MainStep

\* mgr stays over or crashed, and a race stays known.
LEMMA HistoryStep ==
  ASSUME JobInv, [JobNext]_jobVars
  PROVE  (Ended => Ended') /\ (raced => raced')
  <1>1. ASSUME Ended PROVE Ended'
    <2>1. ~JobUser /\ ~MainStep /\ ~HandlerReturns
      BY <1>1 DEF Ended, JobInv, PidInv, JobUser, MainStep, HandlerReturns, Main, Fork, Quit, EnterInTable, Wait,
                  ResetPid, Pick, Continue, Label, Kill
    <2>2. QED BY <1>1, <2>1 DEF Ended, JobNext, Deliver, PassOn, Crash, JobEnds, jobVars
  <1>2. ASSUME raced PROVE raced'
    BY <1>2 DEF JobNext, JobUser, MainStep, Deliver, PassOn, HandlerReturns, Crash, JobEnds, jobVars, signalVars,
                Main, Fork, Quit, EnterInTable, Wait, ResetPid, Pick, Continue, Label, Kill
  <1>3. QED BY <1>1, <1>2

LEMMA BooksStep == BooksInv /\ [JobNext]_jobVars => BooksInv'
  <1> SUFFICES ASSUME BooksInv, [JobNext]_jobVars PROVE BooksInv'
    OBVIOUS
  <1>1. JobInv /\ CountInv /\ (Ended \/ raced \/ QuietInv)
    BY DEF BooksInv
  <1>2. JobInv'
    BY <1>1, JobTypeStep, PidStep, ForegroundStep, HandlerStep DEF JobInv
  <1>3. (Ended \/ raced \/ QuietInv)'
    BY <1>1, HistoryStep, QuietStep
  <1>4. QED BY <1>1, <1>2, <1>3, CountStep DEF BooksInv

LEMMA SpecBooksInv == JobSpec => []BooksInv
  BY JobInvInit, BooksStep, PTL DEF JobSpec

\* However many jobs there are and whenever which signals are typed, no job runs behind the
\* prompt (mgr.c:113-118, 146-151).
THEOREM JobsRunInForeground == JobSpec => []OneInForeground
  <1>1. BooksInv => OneInForeground
    BY DEF BooksInv, JobInv, ForegroundInv
  <1>2. QED BY SpecBooksInv, <1>1, PTL

\* At the prompt the count of suspended jobs covers the list; and without a signal that comes at
\* another moment than a job's run under waitpid, list, count and jobs agree
\* (mgr.c:33, 51-52, 121, 141-144).
THEOREM SuspendedJobsAreKnown == JobSpec => []BooksAreRight
  <1>1. BooksInv => BooksAreRight
    <2> SUFFICES ASSUME BooksInv, mpc = "prompt"
                 PROVE  /\ Cardinality(Listed) <= sus_jobs
                        /\ ~raced => /\ Listed = {r \in Rows : job[r] = "stopped"}
                                     /\ sus_jobs = Cardinality(Listed)
      BY DEF BooksAreRight
    <2>1. Pickable = Listed /\ pid = -1 /\ Listed \in SUBSET Rows
      BY ListedRows DEF Pickable, BooksInv, JobInv, PidInv
    <2>2. ASSUME ~raced PROVE Listed = {r \in Rows : job[r] = "stopped"} /\ sus_jobs = Cardinality(Listed)
      <3>1. QuietInv
        BY <2>2 DEF BooksInv, Ended
      <3>2. \A r \in Rows : r \in Listed <=> job[r] = "stopped"
        BY <2>1, <3>1 DEF QuietInv, Rows
      <3>3. QED BY <2>1, <3>1, <3>2 DEF QuietInv
    <2>3. QED BY <2>1, <2>2 DEF BooksInv, CountInv
  <1>2. QED BY SpecBooksInv, <1>1, PTL

(***************************************************************************)
(* The command and execute processes                                       *)
(***************************************************************************)

Places == {"start", "input", "toE", "scan", "swap", "blocked", "toC", "exited"}

\* The type invariant, proved with the rest of IInv.
CSETypeOK == /\ pc \in [Procs -> Places]
             /\ command \in [Procs -> Int] /\ stdin \in [Procs -> Seq(Int)]
             /\ p \in Seq(Int) /\ swap_p \in Nat /\ typed \in Nat

HoldsExit(s) == \E n \in 1..Len(s) : s[n] = EXIT

\* Nobody has an exit at hand before one has been typed.
ExitInv == ExitTyped \/ /\ ~HoldsExit(p)
                        /\ \A q \in Procs : command[q] # EXIT /\ ~HoldsExit(stdin[q])

IInv == CSETypeOK /\ ExitInv /\ OneCommander

-----------------------------------------------------------------------------
LEMMA AppendExit ==
  ASSUME NEW s \in Seq(Int), ~HoldsExit(s), NEW x \in Int, x # EXIT
  PROVE  ~HoldsExit(Append(s, x))
  BY DEF HoldsExit

LEMMA HeadTailExit ==
  ASSUME NEW s \in Seq(Int), ~HoldsExit(s), s # <<>>
  PROVE  Head(s) # EXIT /\ Head(s) \in Int /\ ~HoldsExit(Tail(s)) /\ Tail(s) \in Seq(Int)
  BY DEF HoldsExit

LEMMA EmptyHoldsNoExit == ~HoldsExit(<<>>)
  BY DEF HoldsExit

LEMMA InitIInv == Init => IInv
  <1> SUFFICES ASSUME Init PROVE IInv
    OBVIOUS
  <1>1. CSETypeOK
    BY DEF Init, CSETypeOK, Places, NOTHING
  <1>2. ExitInv
    BY EmptyHoldsNoExit DEF Init, ExitInv, NOTHING, EXIT
  <1>3. ~ExitTyped /\ Commanders = {FirstChild} /\ swap_p = 0
    BY DEF Init, ExitTyped, Commanders, Procs, FirstChild, SecondChild
  <1>4. OneCommander
    BY <1>3 DEF OneCommander, Procs
  <1>5. QED BY <1>1, <1>2, <1>4 DEF IInv

LEMMA TypeStep == CSETypeOK /\ [Next]_cseVars => CSETypeOK'
  <1> SUFFICES ASSUME CSETypeOK, [Next]_cseVars PROVE CSETypeOK'
    OBVIOUS
  <1> USE DEF CSETypeOK, Places, Goes, ends, pipes, counters, EXIT, NOTHING, AfterCommand, TakeSwap
  <1>1. ASSUME NEW q \in Procs, User(q) \/ Process(q) PROVE CSETypeOK'
    <2>1. CASE Forward(q) BY <2>1 DEF Forward
    <2>2. CASE TypeCommand(q) BY <2>2 DEF TypeCommand
    <2>3. CASE TypeExit(q) BY <2>3 DEF TypeExit
    <2>4. CASE TypeSwaprole(q) BY <2>4 DEF TypeSwaprole
    <2>5. CASE EnterExecute(q) BY <2>5 DEF EnterExecute
    <2>6. CASE Scan(q)
      <3> DEFINE input == IF stdin[q] = <<>> THEN p ELSE stdin[q]
      <3>1. input \in Seq(Int) /\ pc' = [pc EXCEPT ![q] = "swap"]
        BY <2>6 DEF Scan
      <3>2. CASE input = <<>>
        BY <2>6, <3>1, <3>2 DEF Scan
      <3>3. CASE input # <<>>
        <4>1. Head(input) \in Int /\ Tail(input) \in Seq(Int)
          BY <3>1, <3>3
        <4>2. /\ command' = [command EXCEPT ![q] = Head(input)]
              /\ stdin' = [stdin EXCEPT ![q] = Tail(input)]
          BY <2>6, <3>3 DEF Scan
        <4>3. p' \in Seq(Int) /\ UNCHANGED <<swap_p, typed>>
          BY <2>6 DEF Scan
        <4> HIDE DEF input
        <4>4. QED BY <3>1, <4>1, <4>2, <4>3
      <3>4. QED BY <3>2, <3>3
    <2>7. CASE ReadSwaprole(q)
      <3>1. pc' = [pc EXCEPT ![q] = "toC"] /\ swap_p' \in Nat
        BY <2>7 DEF ReadSwaprole
      <3>2. QED BY <2>7, <3>1 DEF ReadSwaprole
    <2>8. CASE Block(q) BY <2>8 DEF Block
    <2>9. CASE Execute(q) BY <2>9 DEF Execute
    <2>10. CASE EnterCommand(q) BY <2>10 DEF EnterCommand
    <2>11. QED BY <1>1, <2>1, <2>2, <2>3, <2>4, <2>5, <2>6, <2>7, <2>8, <2>9, <2>10 DEF User, Process
  <1>2. CASE UNCHANGED cseVars BY <1>2 DEF cseVars
  <1>3. QED BY <1>1, <1>2 DEF Next

\* An exit is typed by the process that then exits; Scan and Forward only move it.
LEMMA ExitStep == CSETypeOK /\ ExitInv /\ [Next]_cseVars => ExitInv'
  <1> SUFFICES ASSUME CSETypeOK, ExitInv, [Next]_cseVars PROVE ExitInv'
    OBVIOUS
  <1> USE AppendExit, HeadTailExit, EmptyHoldsNoExit DEF CSETypeOK, Places, Goes, ends, pipes, counters, EXIT, NOTHING, AfterCommand, ExitInv, ExitTyped
  <1>1. ASSUME NEW q \in Procs, User(q) \/ Process(q) PROVE ExitInv'
    <2>1. CASE Forward(q) BY <2>1 DEF Forward
    <2>2. CASE TypeCommand(q) BY <2>2 DEF TypeCommand
    <2>3. CASE TypeExit(q) BY <2>3 DEF TypeExit
    <2>4. CASE TypeSwaprole(q) BY <2>4 DEF TypeSwaprole
    <2>5. CASE EnterExecute(q) BY <2>5 DEF EnterExecute
    <2>6. CASE Scan(q)
      <3> DEFINE input == IF stdin[q] = <<>> THEN p ELSE stdin[q]
      <3>1. pc' = [pc EXCEPT ![q] = "swap"] /\ pc[q] = "scan"
        BY <2>6 DEF Scan
      <3>2. CASE ExitTyped
        BY <3>1, <3>2
      <3>3. CASE ~ExitTyped
        <4>1. input \in Seq(Int) /\ ~HoldsExit(input) /\ ~HoldsExit(p')
          BY <2>6, <3>3 DEF Scan
        <4>2. CASE input = <<>>
          BY <2>6, <3>3, <4>1, <4>2 DEF Scan
        <4>3. CASE input # <<>>
          <5>1. Head(input) # EXIT /\ ~HoldsExit(Tail(input))
            BY <4>1, <4>3
          <5>2. /\ command' = [command EXCEPT ![q] = Head(input)]
                /\ stdin' = [stdin EXCEPT ![q] = Tail(input)]
            BY <2>6, <4>3 DEF Scan
          <5> HIDE DEF input
          <5>3. QED BY <3>3, <4>1, <5>1, <5>2
        <4>4. QED BY <4>2, <4>3
      <3>4. QED BY <3>2, <3>3
    <2>7. CASE ReadSwaprole(q) BY <2>7 DEF ReadSwaprole
    <2>8. CASE Block(q) BY <2>8 DEF Block
    <2>9. CASE Execute(q) BY <2>9 DEF Execute
    <2>10. CASE EnterCommand(q) BY <2>10 DEF EnterCommand
    <2>11. QED BY <1>1, <2>1, <2>2, <2>3, <2>4, <2>5, <2>6, <2>7, <2>8, <2>9, <2>10 DEF User, Process
  <1>2. CASE UNCHANGED cseVars BY <1>2 DEF cseVars
  <1>3. QED BY <1>1, <1>2 DEF Next

\* The role goes into the pipe with swaprole and out of it with its reading.
LEMMA CommanderStep == CSETypeOK /\ ExitInv /\ OneCommander /\ [Next]_cseVars => OneCommander'
  <1> SUFFICES ASSUME CSETypeOK, ExitInv, OneCommander, [Next]_cseVars PROVE OneCommander'
    OBVIOUS
  <1> USE DEF CSETypeOK, Places, Goes, ends, pipes, counters, AfterCommand, TakeSwap, ExitInv, ExitTyped,
         Commanders, OneCommander
  <1>1. ASSUME NEW q \in Procs, User(q) \/ Process(q) PROVE OneCommander'
    <2>1. CASE Forward(q) BY <2>1 DEF Forward
    <2>2. CASE TypeCommand(q) BY <2>2 DEF TypeCommand
    <2>3. CASE TypeExit(q) BY <2>3 DEF TypeExit
    <2>4. CASE TypeSwaprole(q) BY <2>4 DEF TypeSwaprole
    <2>5. CASE EnterExecute(q) BY <2>5 DEF EnterExecute
    <2>6. CASE Scan(q) BY <2>6 DEF Scan
    <2>7. CASE ReadSwaprole(q)
      <3>1. pc' = [pc EXCEPT ![q] = "toC"] /\ pc[q] \in {"swap", "blocked"}
        BY <2>7 DEF ReadSwaprole
      <3>2. ~ExitTyped /\ swap_p = 1 /\ swap_p' = 0 /\ Commanders = {}
        BY <2>7 DEF ReadSwaprole
      <3>3. ~ExitTyped' /\ Commanders' = {q}
        BY <3>1, <3>2
      <3>4. QED BY <3>2, <3>3
    <2>8. CASE Block(q) BY <2>8 DEF Block
    <2>9. CASE Execute(q) BY <2>9 DEF Execute
    <2>10. CASE EnterCommand(q) BY <2>10 DEF EnterCommand
    <2>11. QED BY <1>1, <2>1, <2>2, <2>3, <2>4, <2>5, <2>6, <2>7, <2>8, <2>9, <2>10 DEF User, Process
  <1>2. CASE UNCHANGED cseVars BY <1>2 DEF cseVars
  <1>3. QED BY <1>1, <1>2 DEF Next

LEMMA SpecIInv == Spec => []IInv
  <1>1. IInv /\ [Next]_cseVars => IInv'
    BY TypeStep, ExitStep, CommanderStep DEF IInv
  <1>2. QED BY InitIInv, <1>1, PTL DEF Spec

\* Whatever is typed and however the two processes interleave, there is one
\* commander or one swaprole on its way, until exit is typed (CSE.c:113-118,
\* 157-165).
THEOREM RoleIsHeldOnce == Spec => []OneCommander
  <1>1. IInv => OneCommander
    BY DEF IInv
  <1>2. QED BY SpecIInv, <1>1, PTL

-----------------------------------------------------------------------------
\* When a process can go on; in command mode the next thing may be typed.
MayGo(q) == \/ pc[q] \in {"start", "input", "toE", "scan", "swap", "toC"}
            \/ pc[q] = "blocked" /\ swap_p > 0

\* Whatever is typed and however the two interleave, they stop only after exit:
\* until then they never both wait for a swaprole that nobody has sent, although
\* the flag by which one of them makes its read not wait is the other's as well
\* (CSE.c:112-140, 154-178, 196).
THEOREM StopsOnlyAfterExit ==
  Spec => []((\E q \in Procs : MayGo(q)) \/ (ExitTyped /\ Over))
  <1>1. ASSUME IInv, \A q \in Procs : ~MayGo(q)
        PROVE  ExitTyped /\ Over
    <2>1. \A q \in Procs : pc[q] = "exited" \/ (pc[q] = "blocked" /\ ~(swap_p > 0))
      BY <1>1 DEF IInv, CSETypeOK, Places, MayGo
    <2>2. Over
      BY <2>1 DEF Over
    <2>3. ExitTyped
      <3>1. ASSUME ~ExitTyped PROVE FALSE
        <4>1. FirstChild \in Procs /\ pc[FirstChild] = "blocked" /\ ~(swap_p > 0)
          BY <2>1, <3>1 DEF Procs, ExitTyped
        <4>2. Commanders = {}
          BY <2>1 DEF Commanders
        <4>3. swap_p = 1
          BY <1>1, <3>1, <4>2 DEF IInv, OneCommander
        <4>4. QED BY <4>1, <4>3
      <3>2. QED BY <3>1
    <2>4. QED BY <2>2, <2>3
  <1>2. IInv => (\E q \in Procs : MayGo(q)) \/ (ExitTyped /\ Over)
    BY <1>1
  <1>3. QED BY SpecIInv, <1>2, PTL

-----------------------------------------------------------------------------
\* What q has read from the pipe and not executed: the command at hand, if its string is
\* one still to be executed, and what stdio has read with it.
Ahead(q) == (IF pc[q] \in {"swap", "blocked"} /\ command[q] # NOTHING THEN <<command[q]>> ELSE <<>>) \o stdin[q]

\* Apart from exit, no command comes twice in s, none is in both s and t, and all
\* in s are among the first.
Once(s) == \A m, n \in 1..Len(s) : s[m] # EXIT /\ s[m] = s[n] => m = n
Apart(s, t) == \A m \in 1..Len(s), n \in 1..Len(t) : s[m] # EXIT => s[m] # t[n]
Known(s, last) == \A n \in 1..Len(s) : s[n] = EXIT \/ s[n] \in 1..last

\* A command is in one place at a time: executed, read ahead by one of the
\* processes, or in the pipe.
Separate(e, a, b, s, last) ==
  /\ e \in Seq(Int) /\ a \in Seq(Int) /\ b \in Seq(Int) /\ s \in Seq(Int) /\ last \in Nat
  /\ Once(e) /\ Once(a) /\ Once(b) /\ Once(s)
  /\ Known(e, last) /\ Known(a, last) /\ Known(b, last) /\ Known(s, last)
  /\ Apart(e, a) /\ Apart(e, b) /\ Apart(e, s) /\ Apart(a, b) /\ Apart(a, s) /\ Apart(b, s)

OnceInv == /\ \A q, u \in Procs : q # u => Separate(executed, Ahead(q), Ahead(u), p, typed)
           /\ ~HoldsExit(executed)

\* The commands still to be executed as q will find them are those after the last one
\* that was executed, and exit behind them.
Due(line, done, last) ==
  /\ \A n \in 1..Len(line) : line[n] = IF done + n <= last THEN done + n ELSE EXIT
  /\ done + Len(line) \in {last, last + 1}

IsNext(q) == LET line == Ahead(q) \o p
             IN  /\ Due(line, Len(executed), typed)
                 /\ ExitTyped \/ Len(executed) + Len(line) = typed

\* With every swaprole typed when all is done, only one process has commands to execute;
\* one that reads, or has ended, has none left over.
OrderInv ==
  /\ \A n \in 1..Len(executed) : executed[n] = n
  /\ swap_p > 0 => Len(executed) = typed
  /\ \A q \in Procs : pc[q] \in {"input", "toC", "exited"} => stdin[q] = <<>>
  /\ \E q \in Procs : IsNext(q) /\ \A u \in Procs \ {q} : Ahead(u) = <<>>

LineInv == IInv /\ OnceInv /\ (hasty \/ OrderInv)

-----------------------------------------------------------------------------
LEMMA AheadType ==
  ASSUME CSETypeOK, NEW q \in Procs
  PROVE  /\ Ahead(q) \in Seq(Int)
         /\ pc[q] \notin {"swap", "blocked"} \/ command[q] = NOTHING => Ahead(q) = stdin[q]
         /\ pc[q] \in {"swap", "blocked"} /\ command[q] # NOTHING =>
              /\ Ahead(q) # <<>> /\ Head(Ahead(q)) = command[q] /\ Tail(Ahead(q)) = stdin[q]
  <1>1. stdin[q] \in Seq(Int) /\ command[q] \in Int
    BY DEF CSETypeOK
  <1>2. <<command[q]>> \o stdin[q] \in Seq(Int) /\ <<>> \o stdin[q] = stdin[q]
    BY <1>1
  <1>3. /\ <<command[q]>> \o stdin[q] # <<>> /\ Head(<<command[q]>> \o stdin[q]) = command[q]
        /\ Tail(<<command[q]>> \o stdin[q]) = stdin[q]
    BY <1>1
  <1>4. QED BY <1>1, <1>2, <1>3 DEF Ahead

LEMMA SeparateFor ==
  ASSUME OnceInv, NEW q \in Procs
  PROVE  /\ Once(p) /\ Once(executed) /\ Once(Ahead(q))
         /\ Known(p, typed) /\ Known(Ahead(q), typed) /\ Known(executed, typed)
  <1>1. PICK u \in Procs : u # q
    BY DEF Procs, FirstChild, SecondChild
  <1>2. Separate(executed, Ahead(q), Ahead(u), p, typed)
    BY <1>1 DEF OnceInv
  <1>3. QED BY <1>2 DEF Separate

\* The ways in which commands go from place to place.
Kept == UNCHANGED <<p, executed, typed>> /\ \A q \in Procs : Ahead(q)' = Ahead(q)
Others(q) == \A u \in Procs \ {q} : Ahead(u)' = Ahead(u)
SendsOn(q) == /\ Ahead(q) # <<>> /\ p' = Append(p, Head(Ahead(q))) /\ Ahead(q)' = Tail(Ahead(q))
              /\ UNCHANGED <<executed, typed>> /\ Others(q)
Types == /\ typed' = typed + 1 /\ p' = Append(p, typed + 1)
         /\ UNCHANGED executed /\ \A q \in Procs : Ahead(q)' = Ahead(q)
TypesExit == /\ p' = Append(p, EXIT)
             /\ UNCHANGED <<executed, typed>> /\ \A q \in Procs : Ahead(q)' = Ahead(q)
Fills(q) == /\ Ahead(q) = <<>> /\ Ahead(q)' = p /\ p' = <<>>
            /\ UNCHANGED <<executed, typed>> /\ Others(q)
Drops(q) == /\ Ahead(q) # <<>> /\ Ahead(q)' = Tail(Ahead(q))
            /\ UNCHANGED <<p, executed, typed>> /\ Others(q)
Does(q) == /\ Ahead(q) # <<>> /\ Ahead(q)' = Tail(Ahead(q)) /\ Head(Ahead(q)) # EXIT
           /\ executed' = Append(executed, Head(Ahead(q)))
           /\ UNCHANGED <<p, typed>> /\ Others(q)

\* Which action does which.
LEMMA Moves ==
  ASSUME CSETypeOK, OnceInv, NEW q \in Procs
  PROVE  /\ Forward(q) => SendsOn(q)
         /\ TypeCommand(q) => Types
         /\ TypeExit(q) => TypesExit
         /\ TypeSwaprole(q) \/ EnterExecute(q) \/ Block(q) \/ EnterCommand(q) => Kept
         /\ Scan(q) => Kept \/ Fills(q)
         /\ ReadSwaprole(q) => Kept \/ Drops(q)
         /\ Execute(q) => \/ Kept /\ command[q] = NOTHING
                          \/ Drops(q) /\ command[q] = EXIT
                          \/ Does(q)
  <1> USE AheadType DEF Goes, ends, pipes, counters
  <1>0. ASSUME CSETypeOK', NEW u \in Procs
        PROVE  /\ pc'[u] \notin {"swap", "blocked"} \/ command'[u] = NOTHING => Ahead(u)' = stdin'[u]
               /\ pc'[u] \in {"swap", "blocked"} /\ command'[u] # NOTHING =>
                    Ahead(u)' = <<command'[u]>> \o stdin'[u]
    <2>1. stdin'[u] \in Seq(Int)
      BY <1>0 DEF CSETypeOK
    <2>2. <<>> \o stdin'[u] = stdin'[u]
      BY <2>1
    <2>3. QED BY <2>2 DEF Ahead
  <1>1. ASSUME NEW u \in Procs, pc'[u] = pc[u], command'[u] = command[u], stdin'[u] = stdin[u]
        PROVE  Ahead(u)' = Ahead(u)
    BY <1>1 DEF Ahead
  <1>2. ASSUME Forward(q) PROVE SendsOn(q)
    <2>1. CSETypeOK' /\ pc' \in [Procs -> Places] /\ pc[q] = "input" /\ pc'[q] = "input"
      BY <1>2, TypeStep DEF Forward, Next, Process, CSETypeOK
    <2>2. Ahead(q) = stdin[q] /\ Ahead(q)' = stdin'[q] /\ stdin'[q] = Tail(stdin[q])
      BY <1>0, <1>2, <2>1 DEF Forward, CSETypeOK
    <2>3. Others(q)
      BY <1>1, <1>2 DEF Others, Forward, CSETypeOK
    <2>4. QED BY <1>2, <2>2, <2>3 DEF SendsOn, Forward
  <1>3. ASSUME TypeCommand(q) PROVE Types
    <2>1. \A u \in Procs : Ahead(u)' = Ahead(u)
      BY <1>1, <1>3 DEF TypeCommand, CSETypeOK
    <2>2. QED BY <1>3, <2>1 DEF TypeCommand, Types
  <1>4. ASSUME TypeExit(q) PROVE TypesExit
    <2>1. \A u \in Procs \ {q} : Ahead(u)' = Ahead(u)
      BY <1>1, <1>4 DEF TypeExit, CSETypeOK
    <2>2. CSETypeOK' /\ pc[q] = "input" /\ pc'[q] = "exited" /\ stdin' = stdin
      BY <1>4, TypeStep DEF TypeExit, Next, User, CSETypeOK
    <2>3. Ahead(q)' = Ahead(q)
      BY <1>0, <2>2
    <2>4. QED BY <1>4, <2>1, <2>3 DEF TypeExit, TypesExit
  <1>5. ASSUME TypeSwaprole(q) \/ EnterExecute(q) \/ EnterCommand(q) PROVE Kept
    <2>1. \A u \in Procs \ {q} : Ahead(u)' = Ahead(u)
      BY <1>1, <1>5 DEF TypeSwaprole, EnterExecute, EnterCommand, CSETypeOK
    <2>2. /\ CSETypeOK' /\ stdin' = stdin
          /\ pc[q] \notin {"swap", "blocked"} /\ pc'[q] \notin {"swap", "blocked"}
      BY <1>5, TypeStep DEF TypeSwaprole, EnterExecute, EnterCommand, Next, User, Process, CSETypeOK
    <2>3. Ahead(q)' = Ahead(q)
      BY <1>0, <2>2
    <2>4. QED BY <1>5, <2>1, <2>3 DEF TypeSwaprole, EnterExecute, EnterCommand, Kept
  <1>6. ASSUME Block(q) PROVE Kept
    <2>1. \A u \in Procs \ {q} : Ahead(u)' = Ahead(u)
      BY <1>1, <1>6 DEF Block, CSETypeOK
    <2>2. pc[q] = "swap" /\ pc'[q] = "blocked" /\ UNCHANGED <<command, stdin, p, executed, typed>>
      BY <1>6 DEF Block, CSETypeOK
    <2>3. Ahead(q)' = Ahead(q)
      BY <2>2 DEF Ahead
    <2>4. QED BY <2>1, <2>2, <2>3 DEF Kept
  <1>7. ASSUME Scan(q) PROVE Kept \/ Fills(q)
    <2> DEFINE input == IF stdin[q] = <<>> THEN p ELSE stdin[q]
    <2>1. /\ CSETypeOK' /\ pc[q] = "scan" /\ pc'[q] = "swap" /\ UNCHANGED <<executed, typed>>
          /\ Ahead(q) = stdin[q] /\ input \in Seq(Int)
      BY <1>7, TypeStep DEF Scan, Next, Process, CSETypeOK
    <2>2. Others(q)
      BY <1>1, <1>7 DEF Others, Scan, CSETypeOK
    <2>3. CASE input = <<>>
      <3>1. command'[q] = NOTHING /\ stdin' = stdin /\ stdin[q] = <<>> /\ p' = p
        BY <1>7, <2>3 DEF Scan, CSETypeOK
      <3>2. Ahead(q)' = Ahead(q)
        BY <1>0, <2>1, <3>1
      <3>3. QED BY <2>1, <2>2, <3>1, <3>2 DEF Kept, Others
    <2>4. CASE input # <<>>
      <3>1. /\ command'[q] = Head(input) /\ stdin'[q] = Tail(input)
            /\ p' = IF stdin[q] = <<>> THEN <<>> ELSE p
        BY <1>7, <2>4 DEF Scan, CSETypeOK
      <3>2. <<Head(input)>> \o Tail(input) = input
        BY <2>1, <2>4
      <3>3. Head(input) # NOTHING
        <4>1. Known(p, typed) /\ Known(Ahead(q), typed)
          BY SeparateFor
        <4>2. Known(input, typed) /\ Len(input) \in Nat \ {0} /\ Head(input) = input[1]
          BY <2>1, <2>4, <4>1, EmptySeq
        <4>3. typed \in Nat /\ 1 \in 1..Len(input)
          BY <4>2 DEF CSETypeOK
        <4> HIDE DEF input
        <4>4. Head(input) = EXIT \/ Head(input) \in 1..typed
          BY <4>2, <4>3 DEF Known
        <4>5. QED BY <4>3, <4>4 DEF EXIT, NOTHING
      <3>4. Ahead(q)' = input
        BY <1>0, <2>1, <3>1, <3>2, <3>3
      <3>5. CASE stdin[q] = <<>>
        BY <2>1, <2>2, <3>1, <3>4, <3>5 DEF Fills
      <3>6. CASE stdin[q] # <<>>
        BY <2>1, <2>2, <3>1, <3>4, <3>6 DEF Kept, Others
      <3>7. QED BY <3>5, <3>6
    <2>5. QED BY <2>3, <2>4
  <1>8. ASSUME ReadSwaprole(q) PROVE Kept \/ Drops(q)
    <2>1. /\ CSETypeOK' /\ pc'[q] = "toC" /\ UNCHANGED <<stdin, p, executed, typed>>
          /\ pc[q] \in {"swap", "blocked"}
      BY <1>8, TypeStep DEF ReadSwaprole, Next, Process, CSETypeOK
    <2>2. Others(q)
      BY <1>1, <1>8 DEF Others, ReadSwaprole, CSETypeOK
    <2>3. Ahead(q)' = stdin[q]
      BY <1>0, <2>1
    <2>4. CASE command[q] = NOTHING
      BY <2>1, <2>2, <2>3, <2>4 DEF Kept, Others
    <2>5. CASE command[q] # NOTHING
      BY <2>1, <2>2, <2>3, <2>5 DEF Drops
    <2>6. QED BY <2>4, <2>5
  <1>9. ASSUME Execute(q)
        PROVE  \/ Kept /\ command[q] = NOTHING
               \/ Drops(q) /\ command[q] = EXIT
               \/ Does(q)
    <2>1. /\ CSETypeOK' /\ pc'[q] \in {"exited", "scan"} /\ UNCHANGED <<stdin, p, typed>>
          /\ pc[q] = "swap"
      BY <1>9, TypeStep DEF Execute, Next, Process, CSETypeOK, AfterCommand
    <2>2. Others(q)
      BY <1>1, <1>9 DEF Others, Execute, CSETypeOK
    <2>3. Ahead(q)' = stdin[q]
      BY <1>0, <2>1
    <2>4. executed' = IF command[q] \in {NOTHING, EXIT} THEN executed ELSE Append(executed, command[q])
      BY <1>9 DEF Execute
    <2>5. CASE command[q] = NOTHING
      <3>1. executed' = executed /\ Ahead(q)' = Ahead(q)
        BY <2>1, <2>3, <2>4, <2>5
      <3>2. Kept
        BY <2>1, <2>2, <3>1 DEF Kept, Others
      <3>3. QED BY <2>5, <3>2
    <2>6. CASE command[q] = EXIT
      BY <2>1, <2>2, <2>3, <2>4, <2>6 DEF Drops, NOTHING, EXIT
    <2>7. CASE command[q] \notin {NOTHING, EXIT}
      BY <2>1, <2>2, <2>3, <2>4, <2>7 DEF Does
    <2>8. QED BY <2>5, <2>6, <2>7
  <1>10. QED BY <1>2, <1>3, <1>4, <1>5, <1>6, <1>7, <1>8, <1>9

-----------------------------------------------------------------------------
LEMMA OnceFacts ==
  /\ Once(<<>>)
  /\ \A last \in Nat : Known(<<>>, last)
  /\ \A s \in Seq(Int) : Apart(<<>>, s) /\ Apart(s, <<>>)
  /\ \A s, t \in Seq(Int) : Apart(s, t) => Apart(t, s)
  BY DEF Once, Known, Apart

\* Taking the first command of s.
LEMMA OnceTail ==
  ASSUME NEW last \in Nat, NEW s \in Seq(Int), s # <<>>, Once(s), Known(s, last)
  PROVE  /\ Tail(s) \in Seq(Int) /\ Once(Tail(s)) /\ Known(Tail(s), last)
         /\ Head(s) \in Int /\ (Head(s) = EXIT \/ Head(s) \in 1..last)
         /\ Apart(Tail(s), <<Head(s)>>)
         /\ \A t \in Seq(Int) : Apart(s, t) => Apart(Tail(s), t) /\ Apart(<<Head(s)>>, t)
  <1>1. /\ Tail(s) \in Seq(Int) /\ Head(s) \in Int /\ Len(Tail(s)) = Len(s) - 1 /\ Len(s) \in Nat \ {0}
        /\ \A n \in 1..Len(Tail(s)) : Tail(s)[n] = s[n + 1]
        /\ Head(s) = s[1] /\ 1 \in 1..Len(s)
    BY HeadTailProperties, EmptySeq
  <1>2. \A n \in 1..Len(Tail(s)) : n + 1 \in 1..Len(s) /\ n + 1 # 1
    BY <1>1
  <1>3. Once(Tail(s))
    BY <1>1, <1>2 DEF Once
  <1>4. Known(Tail(s), last) /\ (Head(s) = EXIT \/ Head(s) \in 1..last)
    BY <1>1, <1>2 DEF Known
  <1>5. Len(<<Head(s)>>) = 1 /\ <<Head(s)>>[1] = Head(s)
    BY <1>1
  <1>6. Apart(Tail(s), <<Head(s)>>)
    BY <1>1, <1>2, <1>5 DEF Apart, Once
  <1>7. ASSUME NEW t \in Seq(Int), Apart(s, t)
        PROVE  Apart(Tail(s), t) /\ Apart(<<Head(s)>>, t)
    BY <1>1, <1>2, <1>5, <1>7 DEF Apart
  <1>8. QED BY <1>1, <1>3, <1>4, <1>6, <1>7

\* Putting a command behind s.
LEMMA OnceAppend ==
  ASSUME NEW last \in Nat, NEW s \in Seq(Int), Once(s), Known(s, last), NEW x \in Int, x = EXIT \/ x \in 1..last,
         Apart(<<x>>, s)
  PROVE  /\ Append(s, x) \in Seq(Int) /\ Once(Append(s, x)) /\ Known(Append(s, x), last)
         /\ \A t \in Seq(Int) : Apart(s, t) /\ Apart(<<x>>, t) => Apart(Append(s, x), t)
  <1> DEFINE a == Append(s, x)
  <1>1. /\ a \in Seq(Int) /\ Len(a) = Len(s) + 1 /\ Len(s) \in Nat /\ a[Len(s) + 1] = x
        /\ \A n \in 1..Len(s) : a[n] = s[n]
        /\ \A n \in 1..Len(a) : n \in 1..Len(s) \/ n = Len(s) + 1
    BY AppendProperties
  <1>2. Len(<<x>>) = 1 /\ <<x>>[1] = x /\ 1 \in 1..1
    OBVIOUS
  <1> HIDE DEF a
  <1>3. \A n \in 1..Len(s) : x # EXIT => s[n] # x
    BY <1>2 DEF Apart
  <1>4. Once(a)
    BY <1>1, <1>3 DEF Once
  <1>5. Known(a, last)
    BY <1>1 DEF Known
  <1>6. ASSUME NEW t \in Seq(Int), Apart(s, t), Apart(<<x>>, t) PROVE Apart(a, t)
    <2>1. \A m \in 1..Len(s), k \in 1..Len(t) : s[m] # EXIT => s[m] # t[k]
      BY <1>6 DEF Apart
    <2>2. \A k \in 1..Len(t) : x # EXIT => x # t[k]
      BY <1>2, <1>6 DEF Apart
    <2>3. ASSUME NEW m \in 1..Len(a), NEW k \in 1..Len(t), a[m] # EXIT PROVE a[m] # t[k]
      <3>1. CASE m \in 1..Len(s)
        BY <1>1, <2>1, <2>3, <3>1
      <3>2. CASE m = Len(s) + 1
        BY <1>1, <2>2, <2>3, <3>2
      <3>3. QED BY <1>1, <3>1, <3>2
    <2>4. QED BY <2>3 DEF Apart
  <1>7. QED BY <1>1, <1>4, <1>5, <1>6 DEF a

LEMMA NextCommand ==
  ASSUME NEW last \in Nat, NEW s \in Seq(Int), Known(s, last)
  PROVE  /\ Apart(<<last + 1>>, s) /\ Apart(<<EXIT>>, s)
         /\ Known(s, last + 1)
  <1>1. /\ Len(<<last + 1>>) = 1 /\ <<last + 1>>[1] = last + 1
        /\ Len(<<EXIT>>) = 1 /\ <<EXIT>>[1] = EXIT
    OBVIOUS
  <1>2. QED BY <1>1 DEF Known, Apart, EXIT

LEMMA SeparateMoves ==
  ASSUME NEW e, NEW a, NEW b, NEW s, NEW last, Separate(e, a, b, s, last)
  PROVE  /\ Separate(e, b, a, s, last)
         /\ Separate(e, a, b, Append(s, last + 1), last + 1)
         /\ Separate(e, a, b, Append(s, EXIT), last)
         /\ a = <<>> => Separate(e, s, b, <<>>, last)
         /\ a # <<>> =>
              /\ Separate(e, Tail(a), b, Append(s, Head(a)), last)
              /\ Separate(e, Tail(a), b, s, last)
              /\ Head(a) # EXIT => Separate(Append(e, Head(a)), Tail(a), b, s, last)
  <1> USE OnceFacts
  <1>0. /\ e \in Seq(Int) /\ a \in Seq(Int) /\ b \in Seq(Int) /\ s \in Seq(Int) /\ last \in Nat
        /\ Once(e) /\ Once(a) /\ Once(b) /\ Once(s)
        /\ Known(e, last) /\ Known(a, last) /\ Known(b, last) /\ Known(s, last)
        /\ Apart(e, a) /\ Apart(e, b) /\ Apart(e, s) /\ Apart(a, b) /\ Apart(a, s) /\ Apart(b, s)
    BY DEF Separate
  <1>1. Separate(e, b, a, s, last)
    BY <1>0 DEF Separate
  <1>2. Separate(e, a, b, Append(s, last + 1), last + 1)
    <2>1. last + 1 \in Nat /\ last + 1 \in 1..last + 1 /\ last + 1 \in Int
      BY <1>0
    <2>2. /\ Known(e, last + 1) /\ Known(a, last + 1) /\ Known(b, last + 1) /\ Known(s, last + 1)
          /\ Apart(<<last + 1>>, e) /\ Apart(<<last + 1>>, a) /\ Apart(<<last + 1>>, b)
          /\ Apart(<<last + 1>>, s)
      BY <1>0, NextCommand
    <2>3. /\ Append(s, last + 1) \in Seq(Int) /\ Once(Append(s, last + 1))
          /\ Known(Append(s, last + 1), last + 1)
          /\ \A t \in Seq(Int) : Apart(s, t) /\ Apart(<<last + 1>>, t) => Apart(Append(s, last + 1), t)
      BY <1>0, <2>1, <2>2, OnceAppend
    <2>4. QED BY <1>0, <2>1, <2>2, <2>3 DEF Separate
  <1>3. Separate(e, a, b, Append(s, EXIT), last)
    <2>1. EXIT \in Int
      BY DEF EXIT
    <2>2. Apart(<<EXIT>>, e) /\ Apart(<<EXIT>>, a) /\ Apart(<<EXIT>>, b) /\ Apart(<<EXIT>>, s)
      BY <1>0, NextCommand
    <2>3. /\ Append(s, EXIT) \in Seq(Int) /\ Once(Append(s, EXIT)) /\ Known(Append(s, EXIT), last)
          /\ \A t \in Seq(Int) : Apart(s, t) /\ Apart(<<EXIT>>, t) => Apart(Append(s, EXIT), t)
      BY <1>0, <2>1, <2>2, OnceAppend
    <2>4. QED BY <1>0, <2>2, <2>3 DEF Separate
  <1>4. ASSUME a = <<>> PROVE Separate(e, s, b, <<>>, last)
    <2>1. <<>> \in Seq(Int)
      BY EmptySeq
    <2>2. QED BY <1>0, <2>1 DEF Separate
  <1>5. ASSUME a # <<>>
        PROVE  /\ Separate(e, Tail(a), b, Append(s, Head(a)), last)
               /\ Separate(e, Tail(a), b, s, last)
               /\ Head(a) # EXIT => Separate(Append(e, Head(a)), Tail(a), b, s, last)
    <2> DEFINE x == Head(a)  r == Tail(a)
    <2>1. /\ r \in Seq(Int) /\ Once(r) /\ Known(r, last) /\ x \in Int /\ (x = EXIT \/ x \in 1..last)
          /\ Apart(r, <<x>>)
          /\ \A t \in Seq(Int) : Apart(a, t) => Apart(r, t) /\ Apart(<<x>>, t)
      BY <1>0, <1>5, OnceTail
    <2>2. <<x>> \in Seq(Int)
      BY <2>1
    <2> HIDE DEF x, r
    <2>3. Apart(<<x>>, r) /\ Apart(<<x>>, e) /\ Apart(<<x>>, s) /\ Apart(<<x>>, b)
      BY <1>0, <2>1, <2>2
    <2>4. Apart(r, e) /\ Apart(r, s) /\ Apart(r, b) /\ Apart(e, r)
      BY <1>0, <2>1
    <2>5. /\ Append(s, x) \in Seq(Int) /\ Once(Append(s, x)) /\ Known(Append(s, x), last)
          /\ \A t \in Seq(Int) : Apart(s, t) /\ Apart(<<x>>, t) => Apart(Append(s, x), t)
      BY <1>0, <2>1, <2>3, OnceAppend
    <2>6. /\ Append(e, x) \in Seq(Int) /\ Once(Append(e, x)) /\ Known(Append(e, x), last)
          /\ \A t \in Seq(Int) : Apart(e, t) /\ Apart(<<x>>, t) => Apart(Append(e, x), t)
      BY <1>0, <2>1, <2>3, OnceAppend
    <2>7. Separate(e, r, b, Append(s, x), last)
      BY <1>0, <2>1, <2>3, <2>4, <2>5 DEF Separate
    <2>8. Separate(e, r, b, s, last)
      BY <1>0, <2>1, <2>4 DEF Separate
    <2>9. Separate(Append(e, x), r, b, s, last)
      BY <1>0, <2>1, <2>3, <2>4, <2>6 DEF Separate
    <2>10. QED BY <2>7, <2>8, <2>9 DEF x, r
  <1>6. QED BY <1>1, <1>2, <1>3, <1>4, <1>5

LEMMA InitOnce == Init => OnceInv
  <1> SUFFICES ASSUME Init PROVE OnceInv
    OBVIOUS
  <1>1. \A q \in Procs : Ahead(q) = <<>>
    BY DEF Init, Ahead
  <1>2. executed = <<>> /\ p = <<>> /\ typed = 0
    BY DEF Init
  <1>3. Separate(<<>>, <<>>, <<>>, <<>>, 0)
    BY EmptySeq, OnceFacts DEF Separate
  <1>4. QED BY <1>1, <1>2, <1>3, EmptyHoldsNoExit DEF OnceInv

\* Every step of a process moves commands in one of the ways, or none.
LEMMA StepMoves ==
  ASSUME CSETypeOK, OnceInv, [Next]_cseVars
  PROVE  Kept \/ Types \/ TypesExit \/ \E q \in Procs : SendsOn(q) \/ Fills(q) \/ Drops(q) \/ Does(q)
  <1>1. ASSUME NEW q \in Procs, User(q) \/ Process(q)
        PROVE  Kept \/ Types \/ TypesExit \/ SendsOn(q) \/ Fills(q) \/ Drops(q) \/ Does(q)
    BY <1>1, Moves DEF User, Process
  <1>2. CASE UNCHANGED cseVars
    BY <1>2 DEF cseVars, ends, pipes, counters, Kept, Ahead
  <1>3. QED BY <1>1, <1>2 DEF Next

LEMMA OnceStep == CSETypeOK /\ OnceInv /\ [Next]_cseVars => OnceInv'
  <1> SUFFICES ASSUME CSETypeOK, OnceInv, [Next]_cseVars PROVE OnceInv'
    OBVIOUS
  <1>1. CASE Kept
    BY <1>1 DEF Kept, OnceInv, HoldsExit
  <1>2. CASE Types \/ TypesExit
    <2>1. ASSUME NEW q \in Procs, NEW u \in Procs, q # u
          PROVE  Separate(executed, Ahead(q), Ahead(u), p, typed)'
      <3>1. Separate(executed, Ahead(q), Ahead(u), p, typed)
        BY <2>1 DEF OnceInv
      <3>2. QED BY <1>2, <3>1, SeparateMoves DEF Types, TypesExit
    <2>2. executed' = executed
      BY <1>2 DEF Types, TypesExit
    <2>3. QED BY <2>1, <2>2 DEF OnceInv, HoldsExit
  <1>3. ASSUME NEW q \in Procs, SendsOn(q) \/ Fills(q) \/ Drops(q) \/ Does(q)
        PROVE  OnceInv'
    <2>1. ASSUME NEW u \in Procs, q # u
          PROVE  /\ Separate(executed, Ahead(q), Ahead(u), p, typed)'
                 /\ Separate(executed, Ahead(u), Ahead(q), p, typed)'
      <3>1. Separate(executed, Ahead(q), Ahead(u), p, typed) /\ (Others(q) => Ahead(u)' = Ahead(u))
        BY <2>1 DEF OnceInv, Others
      <3>2. Separate(executed, Ahead(q), Ahead(u), p, typed)'
        <4>1. CASE SendsOn(q)
          BY <3>1, <4>1, SeparateMoves DEF SendsOn
        <4>2. CASE Fills(q)
          BY <3>1, <4>2, SeparateMoves DEF Fills
        <4>3. CASE Drops(q)
          BY <3>1, <4>3, SeparateMoves DEF Drops
        <4>4. CASE Does(q)
          BY <3>1, <4>4, SeparateMoves DEF Does
        <4>5. QED BY <1>3, <4>1, <4>2, <4>3, <4>4
      <3>3. QED BY <3>2, SeparateMoves
    <2>2. ~HoldsExit(executed)'
      <3>1. CASE Does(q)
        <4>1. PICK u \in Procs : u # q
          BY DEF Procs, FirstChild, SecondChild
        <4>2. executed \in Seq(Int) /\ ~HoldsExit(executed) /\ Ahead(q) \in Seq(Int)
          BY <4>1 DEF OnceInv, Separate
        <4>3. Head(Ahead(q)) \in Int /\ Head(Ahead(q)) # EXIT
          BY <3>1, <4>2, HeadTailProperties DEF Does
        <4>4. QED BY <3>1, <4>2, <4>3, AppendExit DEF Does, HoldsExit
      <3>2. CASE SendsOn(q) \/ Fills(q) \/ Drops(q)
        BY <3>2 DEF SendsOn, Fills, Drops, OnceInv, HoldsExit
      <3>3. QED BY <1>3, <3>1, <3>2
    <2>3. \A a, b \in Procs : a = q \/ b = q \/ a = b
      BY DEF Procs, FirstChild, SecondChild
    <2>4. QED BY <2>1, <2>2, <2>3 DEF OnceInv
  <1>4. QED BY <1>1, <1>2, <1>3, StepMoves

-----------------------------------------------------------------------------
LEMMA JoinedLine ==
  ASSUME NEW a \in Seq(Int), NEW s \in Seq(Int)
  PROVE  /\ a \o s \in Seq(Int) /\ Len(a \o s) = Len(a) + Len(s)
         /\ \A x \in Int : a \o Append(s, x) = Append(a \o s, x)
         /\ <<>> \o s = s /\ s \o <<>> = s
         /\ a # <<>> => /\ Tail(a) \o s = Tail(a \o s) /\ Head(a \o s) = Head(a)
                        /\ a \o s # <<>>
  <1>1. /\ a \o s \in Seq(Int) /\ Len(a \o s) = Len(a) + Len(s) /\ Len(a) \in Nat /\ Len(s) \in Nat
        /\ \A n \in 1..Len(a) + Len(s) : (a \o s)[n] = IF n <= Len(a) THEN a[n] ELSE s[n - Len(a)]
    BY ConcatProperties
  <1>2. <<>> \o s = s /\ s \o <<>> = s
    BY ConcatEmptySeq
  <1>3. ASSUME NEW x \in Int PROVE a \o Append(s, x) = Append(a \o s, x)
    <2>1. <<x>> \in Seq(Int)
      OBVIOUS
    <2>2. Append(s, x) = s \o <<x>> /\ Append(a \o s, x) = (a \o s) \o <<x>>
      BY <1>1, AppendIsConcat
    <2>3. QED BY <2>1, <2>2, ConcatAssociative
  <1>4. ASSUME a # <<>>
        PROVE  Tail(a) \o s = Tail(a \o s) /\ Head(a \o s) = Head(a) /\ a \o s # <<>>
    <2>1. /\ Tail(a) \in Seq(Int) /\ Len(Tail(a)) = Len(a) - 1 /\ Len(a) \in Nat \ {0}
          /\ \A n \in 1..Len(a) - 1 : Tail(a)[n] = a[n + 1]
      BY <1>4, EmptySeq, HeadTailProperties
    <2>2. a \o s # <<>>
      BY <1>1, <2>1, EmptySeq
    <2>3. /\ Tail(a \o s) \in Seq(Int) /\ Len(Tail(a \o s)) = Len(a \o s) - 1
          /\ \A n \in 1..Len(a \o s) - 1 : Tail(a \o s)[n] = (a \o s)[n + 1]
      BY <1>1, <2>2, HeadTailProperties
    <2>4. /\ Tail(a) \o s \in Seq(Int) /\ Len(Tail(a) \o s) = Len(a) - 1 + Len(s)
          /\ \A n \in 1..Len(a) - 1 + Len(s) :
               (Tail(a) \o s)[n] = IF n <= Len(a) - 1 THEN Tail(a)[n] ELSE s[n - (Len(a) - 1)]
      BY <2>1, ConcatProperties
    <2>5. \A n \in 1..Len(a) - 1 + Len(s) : (Tail(a) \o s)[n] = Tail(a \o s)[n]
      <3> SUFFICES ASSUME NEW n \in 1..Len(a) - 1 + Len(s) PROVE (Tail(a) \o s)[n] = Tail(a \o s)[n]
        OBVIOUS
      <3>1. Tail(a \o s)[n] = IF n + 1 <= Len(a) THEN a[n + 1] ELSE s[n + 1 - Len(a)]
        BY <1>1, <2>1, <2>3
      <3>2. n - (Len(a) - 1) = n + 1 - Len(a)
        BY <1>1
      <3>3. QED BY <1>1, <2>1, <2>4, <3>1, <3>2
    <2>6. Tail(a) \o s = Tail(a \o s)
      BY <1>1, <2>3, <2>4, <2>5, SeqEqual
    <2>7. Head(a \o s) = (a \o s)[1] /\ Head(a) = a[1]
      BY <1>1, <2>2, <1>4
    <2>8. QED BY <1>1, <2>1, <2>2, <2>6, <2>7
  <1>5. QED BY <1>1, <1>2, <1>3, <1>4

LEMMA DueMoves ==
  ASSUME NEW line \in Seq(Int), NEW done \in Nat, NEW last \in Nat, Due(line, done, last)
  PROVE  /\ done + Len(line) = last => /\ Due(Append(line, last + 1), done, last + 1)
                                       /\ done + Len(Append(line, last + 1)) = last + 1
                                       /\ Due(Append(line, EXIT), done, last)
         /\ line # <<>> => /\ Head(line) = IF done + 1 <= last THEN done + 1 ELSE EXIT
                           /\ Head(line) # EXIT => /\ Due(Tail(line), done + 1, last)
                                                   /\ done + 1 + Len(Tail(line)) = done + Len(line)
                           /\ Head(line) = EXIT => Len(line) = 1 /\ done = last
  <1>1. Len(line) \in Nat
    OBVIOUS
  <1>2. ASSUME done + Len(line) = last
        PROVE  /\ Due(Append(line, last + 1), done, last + 1)
               /\ done + Len(Append(line, last + 1)) = last + 1
               /\ Due(Append(line, EXIT), done, last)
    <2>1. ASSUME NEW x \in Int
          PROVE  /\ Len(Append(line, x)) = Len(line) + 1
                 /\ \A n \in 1..Len(line) + 1 :
                      Append(line, x)[n] = IF n <= Len(line) THEN line[n] ELSE x
      OBVIOUS
    <2>2. EXIT \in Int /\ last + 1 \in Int
      BY DEF EXIT
    <2>3. \A n \in 1..Len(line) : line[n] = done + n
      BY <1>1, <1>2 DEF Due
    <2>4. Due(Append(line, last + 1), done, last + 1)
      <3>1. PICK a : a = Append(line, last + 1)
        OBVIOUS
      <3>2. Len(a) = Len(line) + 1 /\ \A n \in 1..Len(a) : a[n] = IF n <= Len(line) THEN line[n] ELSE last + 1
        BY <2>1, <2>2, <3>1
      <3>3. ASSUME NEW n \in 1..Len(a)
            PROVE  a[n] = IF done + n <= last + 1 THEN done + n ELSE EXIT
        <4>1. done + n <= last + 1
          BY <1>1, <1>2, <3>2
        <4>2. CASE n \in 1..Len(line)
          <5>1. n <= Len(line)
            BY <1>1, <4>2
          <5>2. a[n] = done + n
            BY <2>3, <3>2, <4>2, <5>1
          <5>3. QED BY <4>1, <5>2
        <4>3. CASE n = Len(line) + 1
          <5>1. ~(n <= Len(line)) /\ done + n = last + 1
            BY <1>1, <1>2, <4>3
          <5>2. a[n] = last + 1
            BY <3>2, <5>1
          <5>3. QED BY <4>1, <5>1, <5>2
        <4>4. QED BY <1>1, <3>2, <4>2, <4>3
      <3>4. done + Len(a) = last + 1
        BY <1>1, <1>2, <3>2
      <3>5. QED BY <3>1, <3>3, <3>4 DEF Due
    <2>5. Due(Append(line, EXIT), done, last)
      <3>1. PICK a : a = Append(line, EXIT)
        OBVIOUS
      <3>2. Len(a) = Len(line) + 1 /\ \A n \in 1..Len(a) : a[n] = IF n <= Len(line) THEN line[n] ELSE EXIT
        BY <2>1, <2>2, <3>1
      <3>3. ASSUME NEW n \in 1..Len(a)
            PROVE  a[n] = IF done + n <= last THEN done + n ELSE EXIT
        <4>1. CASE n \in 1..Len(line)
          <5>1. done + n <= last
            BY <1>1, <1>2, <4>1
          <5>2. QED BY <2>3, <3>2, <3>3, <4>1, <5>1
        <4>2. CASE n = Len(line) + 1
          <5>1. ~(done + n <= last) /\ ~(n <= Len(line))
            BY <1>1, <1>2, <4>2
          <5>2. QED BY <3>2, <5>1
        <4>3. QED BY <1>1, <3>2, <4>1, <4>2
      <3>4. done + Len(a) = last + 1
        BY <1>1, <1>2, <3>2
      <3>5. QED BY <3>1, <3>3, <3>4 DEF Due
    <2>6. QED BY <1>1, <1>2, <2>1, <2>2, <2>4, <2>5
  <1>3. ASSUME line # <<>>
        PROVE  /\ Head(line) = IF done + 1 <= last THEN done + 1 ELSE EXIT
               /\ Head(line) # EXIT => /\ Due(Tail(line), done + 1, last)
                                       /\ done + 1 + Len(Tail(line)) = done + Len(line)
               /\ Head(line) = EXIT => Len(line) = 1 /\ done = last
    <2>1. /\ Len(line) \in Nat \ {0} /\ Head(line) = line[1] /\ 1 \in 1..Len(line)
          /\ Len(Tail(line)) = Len(line) - 1
          /\ \A n \in 1..Len(line) - 1 : Tail(line)[n] = line[n + 1] /\ n + 1 \in 1..Len(line)
      BY <1>3, EmptySeq, HeadTailProperties
    <2>2. Head(line) = IF done + 1 <= last THEN done + 1 ELSE EXIT
      BY <2>1 DEF Due
    <2>3. ASSUME Head(line) = EXIT PROVE Len(line) = 1 /\ done = last
      BY <2>1, <2>2, <2>3 DEF EXIT, Due
    <2>4. \A n \in 1..Len(line) - 1 :
            Tail(line)[n] = IF done + 1 + n <= last THEN done + 1 + n ELSE EXIT
      BY <2>1 DEF Due
    <2>5. done + 1 + Len(Tail(line)) = done + Len(line)
      BY <2>1
    <2>6. Due(Tail(line), done + 1, last)
      BY <2>1, <2>4, <2>5 DEF Due
    <2>7. QED BY <2>2, <2>3, <2>5, <2>6
  <1>4. QED BY <1>2, <1>3

LEMMA InitOrder == Init => OrderInv
  <1> SUFFICES ASSUME Init PROVE OrderInv
    OBVIOUS
  <1>1. \A q \in Procs : Ahead(q) = <<>> /\ stdin[q] = <<>>
    BY DEF Init, Ahead
  <1>2. executed = <<>> /\ p = <<>> /\ typed = 0 /\ swap_p = 0
    BY DEF Init
  <1>3. <<>> \o <<>> = <<>> /\ Len(<<>>) = 0
    BY EmptySeq
  <1>4. IsNext(FirstChild)
    BY <1>1, <1>2, <1>3 DEF IsNext, Due, Procs
  <1>5. QED BY <1>1, <1>2, <1>3, <1>4 DEF OrderInv, Procs

\* Nobody but w has anything when w's line is the next, unless all is done.
LEMMA OrderStep ==
  ASSUME IInv, OnceInv, OrderInv, [Next]_cseVars, ~hasty'
  PROVE  OrderInv'
  <1> USE DEF IInv
  <1> DEFINE done == Len(executed)
  <1>1. PICK w \in Procs : IsNext(w) /\ \A u \in Procs \ {w} : Ahead(u) = <<>>
    BY DEF OrderInv
  <1>2. /\ \A q \in Procs : Ahead(q) \in Seq(Int)
        /\ executed \in Seq(Int) /\ done \in Nat /\ p \in Seq(Int) /\ typed \in Nat /\ swap_p \in Nat
    <2>1. PICK u \in Procs : w # u
      BY DEF Procs, FirstChild, SecondChild
    <2>2. executed \in Seq(Int)
      BY <2>1 DEF OnceInv, Separate
    <2>3. QED BY <2>2, AheadType DEF CSETypeOK
  <1> DEFINE line == Ahead(w) \o p
  <1>3. /\ line \in Seq(Int) /\ Len(line) = Len(Ahead(w)) + Len(p) /\ Due(line, done, typed)
        /\ ExitTyped \/ done + Len(line) = typed
        /\ Len(Ahead(w)) \in Nat /\ Len(p) \in Nat
    BY <1>1, <1>2, JoinedLine DEF IsNext
  <1>4. ASSUME swap_p > 0
        PROVE  done = typed /\ ~ExitTyped /\ p = <<>> /\ \A q \in Procs : Ahead(q) = <<>>
    <2>1. done = typed /\ ~ExitTyped
      BY <1>4 DEF OrderInv, OneCommander
    <2>2. Len(Ahead(w)) = 0 /\ Len(p) = 0
      BY <1>2, <1>3, <2>1
    <2>3. p = <<>> /\ Ahead(w) = <<>>
      BY <1>2, <2>2, EmptySeq
    <2>4. QED BY <1>1, <2>1, <2>3
  <1> DEFINE Fine == /\ \A n \in 1..Len(executed) : executed[n] = n
                     /\ swap_p > 0 => Len(executed) = typed
                     /\ \A q \in Procs : pc[q] \in {"input", "toC", "exited"} => stdin[q] = <<>>
  <1>5. Fine
    BY DEF OrderInv
  <1>6. ASSUME Fine', NEW q \in Procs, Due((Ahead(q) \o p)', done', typed'),
               ExitTyped' \/ done' + Len((Ahead(q) \o p)') = typed',
               \A u \in Procs \ {q} : Ahead(u)' = <<>>
        PROVE  OrderInv'
    BY <1>6 DEF OrderInv, IsNext
  <1>7. CSETypeOK' /\ \A q \in Procs : stdin[q] # <<>> => Ahead(q) # <<>>
    <2>1. CSETypeOK'
      BY TypeStep
    <2>2. ASSUME NEW q \in Procs, stdin[q] # <<>> PROVE Ahead(q) # <<>>
      BY <2>2, AheadType
    <2>3. QED BY <2>1, <2>2
  <1> HIDE DEF line, Fine
  <1> SUFFICES ASSUME [Next]_cseVars PROVE OrderInv'
    OBVIOUS
  <1>8. ASSUME Kept, Fine', ExitTyped' <=> ExitTyped PROVE OrderInv'
    <2>1. (Ahead(w) \o p)' = line /\ done' = done /\ typed' = typed
      BY <1>8 DEF Kept, line
    <2>2. \A u \in Procs \ {w} : Ahead(u)' = <<>>
      BY <1>1, <1>8 DEF Kept
    <2>3. QED BY <1>3, <1>6, <1>8, <2>1, <2>2
  <1>9. ASSUME NEW q \in Procs, Forward(q) PROVE FALSE
    BY <1>5, <1>9 DEF Forward, Goes, Fine
  <1>10. ASSUME NEW q \in Procs, TypeCommand(q) \/ TypeExit(q) PROVE OrderInv'
    <2>1. pc[q] = "input" /\ stdin[q] = <<>> /\ UNCHANGED <<stdin, swap_p, executed>>
      BY <1>10 DEF TypeCommand, TypeExit, Goes, ends
    <2>2. ~ExitTyped /\ swap_p = 0
      BY <2>1 DEF OneCommander, Commanders
    <2>3. done + Len(line) = typed
      BY <1>3, <2>2
    <2>4. Fine'
      <3>1. \E there \in {"input", "exited"} : pc' = [pc EXCEPT ![q] = there]
        BY <1>10 DEF TypeCommand, TypeExit, Goes
      <3>2. ASSUME NEW u \in Procs, pc'[u] \in {"input", "toC", "exited"} PROVE stdin[u] = <<>>
        <4>1. CASE u = q
          BY <2>1, <4>1
        <4>2. CASE u # q
          <5>1. pc'[u] = pc[u]
            BY <3>1, <4>2 DEF CSETypeOK
          <5>2. QED BY <1>5, <3>2, <5>1 DEF Fine
        <4>3. QED BY <4>1, <4>2
      <3>3. executed' = executed /\ stdin' = stdin /\ ~(swap_p' > 0)
        BY <2>1, <2>2
      <3>4. QED BY <1>5, <3>2, <3>3 DEF Fine
    <2>5. CASE TypeCommand(q)
      <3>1. Types
        BY <2>5, Moves
      <3>2. (Ahead(w) \o p)' = Append(line, typed + 1) /\ typed' = typed + 1 /\ done' = done
        <4>1. typed + 1 \in Int
          BY <1>2
        <4>2. (Ahead(w) \o p)' = Ahead(w) \o Append(p, typed + 1)
          BY <3>1 DEF Types
        <4>3. Ahead(w) \o Append(p, typed + 1) = Append(line, typed + 1)
          BY <1>2, <4>1, JoinedLine DEF line
        <4>4. QED BY <3>1, <4>2, <4>3 DEF Types
      <3>3. \A u \in Procs \ {w} : Ahead(u)' = <<>>
        BY <1>1, <3>1 DEF Types
      <3>4. Due(Append(line, typed + 1), done, typed + 1) /\ done + Len(Append(line, typed + 1)) = typed + 1
        <4>1. PICK d \in Nat : d = done
          BY <1>2
        <4>2. line \in Seq(Int) /\ typed \in Nat /\ Due(line, d, typed) /\ d + Len(line) = typed
          BY <1>2, <1>3, <2>3, <4>1
        <4>3. Due(Append(line, typed + 1), d, typed + 1)
          BY <4>2, DueMoves
        <4>4. Len(Append(line, typed + 1)) = Len(line) + 1
          BY <4>2
        <4>5. Len(line) \in Nat
          BY <4>2
        <4>6. QED BY <4>1, <4>2, <4>3, <4>4, <4>5
      <3>5. QED BY <1>6, <2>4, <3>2, <3>3, <3>4
    <2>6. CASE TypeExit(q)
      <3>1. TypesExit
        BY <2>6, Moves
      <3>2. (Ahead(w) \o p)' = Append(line, EXIT) /\ typed' = typed /\ done' = done
        <4>1. EXIT \in Int
          BY DEF EXIT
        <4>2. (Ahead(w) \o p)' = Ahead(w) \o Append(p, EXIT)
          BY <3>1 DEF TypesExit
        <4>3. Ahead(w) \o Append(p, EXIT) = Append(line, EXIT)
          BY <1>2, <4>1, JoinedLine DEF line
        <4>4. QED BY <3>1, <4>2, <4>3 DEF TypesExit
      <3>3. \A u \in Procs \ {w} : Ahead(u)' = <<>>
        BY <1>1, <3>1 DEF TypesExit
      <3>4. Due(Append(line, EXIT), done, typed)
        BY <1>2, <1>3, <2>3, DueMoves
      <3>5. ExitTyped'
        BY <2>6 DEF TypeExit, Goes, ExitTyped, CSETypeOK
      <3>6. QED BY <1>6, <2>4, <3>2, <3>3, <3>4, <3>5
    <2>7. QED BY <1>10, <2>5, <2>6
  <1>11. ASSUME NEW q \in Procs, TypeSwaprole(q) PROVE OrderInv'
    <2>1. pc[q] = "input" /\ pc' = [pc EXCEPT ![q] = "toE"] /\ UNCHANGED <<stdin, typed, executed>>
      BY <1>11 DEF TypeSwaprole, Goes, ends
    <2>2. ~ExitTyped /\ ~ExitTyped'
      BY <2>1 DEF OneCommander, Commanders, ExitTyped, CSETypeOK
    <2>3. ~(done < typed)
      BY <1>11 DEF TypeSwaprole
    <2>4. done = typed
      BY <1>2, <1>3, <2>2, <2>3
    <2>5. Fine'
      BY <1>5, <2>1, <2>4 DEF Fine, CSETypeOK
    <2>6. QED BY <1>8, <1>11, <2>2, <2>5, Moves
  <1>12. ASSUME NEW q \in Procs, EnterExecute(q) \/ Block(q) \/ EnterCommand(q) PROVE OrderInv'
    <2>1. UNCHANGED <<stdin, typed, executed, swap_p>>
      BY <1>12 DEF EnterExecute, Block, EnterCommand, ends, pipes, counters
    <2>2. /\ ExitTyped' <=> ExitTyped
          /\ \A u \in Procs : pc'[u] \in {"input", "toC", "exited"} => pc[u] \in {"input", "toC", "exited"}
      BY <1>12 DEF EnterExecute, Block, EnterCommand, Goes, ExitTyped, CSETypeOK
    <2>3. Fine'
      BY <1>5, <2>1, <2>2 DEF Fine
    <2>4. QED BY <1>8, <1>12, <2>2, <2>3, Moves
  <1>13. ASSUME NEW q \in Procs, Scan(q) PROVE OrderInv'
    <2>1. /\ pc[q] = "scan" /\ pc' = [pc EXCEPT ![q] = "swap"] /\ UNCHANGED <<typed, executed, swap_p>>
          /\ \A u \in Procs \ {q} : stdin'[u] = stdin[u]
      BY <1>13 DEF Scan, Goes, counters, CSETypeOK
    <2>2. ExitTyped' <=> ExitTyped
      BY <2>1 DEF ExitTyped, CSETypeOK
    <2>3. Fine'
      BY <1>5, <2>1 DEF Fine, CSETypeOK
    <2>4. CASE Kept
      BY <1>8, <2>2, <2>3, <2>4
    <2>5. CASE Fills(q)
      <3>1. Ahead(w) = <<>>
        <4>1. CASE w = q
          BY <2>5, <4>1 DEF Fills
        <4>2. CASE w # q /\ swap_p > 0
          BY <1>4, <4>2
        <4>3. CASE w # q /\ ~(swap_p > 0)
          <5>1. pc[w] \in {"input", "toC", "exited"}
            <6>1. \A u \in Procs : u = w \/ u = q
              BY <4>3 DEF Procs, FirstChild, SecondChild
            <6>2. CASE ExitTyped
              BY <2>1, <6>1, <6>2 DEF ExitTyped
            <6>3. CASE ~ExitTyped
              <7>1. swap_p = 0
                BY <1>2, <4>3
              <7>2. \E c \in Procs : c \in Commanders
                BY <6>3, <7>1 DEF OneCommander
              <7>3. QED BY <2>1, <6>1, <7>2 DEF Commanders
            <6>4. QED BY <6>2, <6>3
          <5>2. QED BY <1>5, <5>1, AheadType DEF Fine
        <4>4. QED BY <4>1, <4>2, <4>3
      <3>2. line = p /\ Ahead(q)' = p /\ p' = <<>> /\ done' = done /\ typed' = typed
        BY <1>2, <2>5, <3>1, JoinedLine DEF line, Fills
      <3>3. (Ahead(q) \o p)' = line
        BY <1>2, <3>2, JoinedLine
      <3>4. \A u \in Procs \ {q} : Ahead(u)' = <<>>
        BY <1>1, <2>5, <3>1 DEF Fills, Others
      <3>5. QED BY <1>3, <1>6, <2>2, <2>3, <3>2, <3>3, <3>4
    <2>6. QED BY <1>13, <2>4, <2>5, Moves
  <1>14. ASSUME NEW q \in Procs, ReadSwaprole(q) PROVE OrderInv'
    <2>1. /\ swap_p > 0 /\ pc' = [pc EXCEPT ![q] = "toC"] /\ UNCHANGED <<stdin, typed, executed>>
      BY <1>14 DEF ReadSwaprole, TakeSwap, Goes, counters
    <2>2. done = typed /\ ~ExitTyped /\ \A u \in Procs : Ahead(u) = <<>> /\ stdin[u] = <<>>
      BY <1>4, <1>7, <2>1
    <2>3. ExitTyped' <=> ExitTyped
      BY <2>1, <2>2 DEF ExitTyped, CSETypeOK
    <2>4. Fine'
      BY <1>5, <2>1, <2>2 DEF Fine
    <2>5. Kept
      BY <1>14, <2>2, Moves DEF Drops
    <2>6. QED BY <1>8, <2>3, <2>4, <2>5
  <1>15. ASSUME NEW q \in Procs, Execute(q) PROVE OrderInv'
    <2>1. /\ swap_p = 0 /\ pc[q] = "swap" /\ pc' = [pc EXCEPT ![q] = AfterCommand(command[q])]
          /\ UNCHANGED <<stdin, typed, swap_p>>
      BY <1>15 DEF Execute, Goes, ends, pipes, counters
    <2>2. CASE Kept /\ command[q] = NOTHING
      <3>1. AfterCommand(command[q]) = "scan"
        BY <2>2 DEF AfterCommand, EXIT, NOTHING
      <3>2. ExitTyped' <=> ExitTyped
        BY <2>1, <3>1 DEF ExitTyped, CSETypeOK
      <3>3. Fine'
        BY <1>5, <2>1, <2>2, <3>1 DEF Fine, CSETypeOK, Kept
      <3>4. QED BY <1>8, <2>2, <3>2, <3>3
    <2>3. ASSUME Ahead(q) # <<>>, Ahead(q)' = Tail(Ahead(q)), Others(q), p' = p
          PROVE  /\ q = w /\ line # <<>> /\ (Ahead(q) \o p)' = Tail(line) /\ Head(line) = Head(Ahead(q))
                 /\ \A u \in Procs \ {q} : Ahead(u)' = <<>>
      <3>1. q = w
        BY <1>1, <2>3
      <3>2. (Ahead(q) \o p)' = Tail(line) /\ Head(line) = Head(Ahead(q)) /\ line # <<>>
        <4>1. Tail(Ahead(w)) \o p = Tail(line) /\ Head(line) = Head(Ahead(w)) /\ line # <<>>
          BY <1>2, <2>3, <3>1, JoinedLine DEF line
        <4>2. (Ahead(q) \o p)' = Tail(Ahead(w)) \o p
          BY <2>3, <3>1
        <4>3. QED BY <3>1, <4>1, <4>2
      <3>3. QED BY <1>1, <2>3, <3>1, <3>2 DEF Others
    <2>4. CASE Drops(q) /\ command[q] = EXIT
      <3>1. /\ q = w /\ line # <<>> /\ (Ahead(q) \o p)' = Tail(line) /\ Head(line) = EXIT
            /\ \A u \in Procs \ {q} : Ahead(u)' = <<>>
        BY <2>1, <2>3, <2>4, AheadType DEF Drops, EXIT, NOTHING
      <3>2. Len(line) = 1 /\ done = typed
        BY <1>2, <1>3, <3>1, DueMoves
      <3>3. Len(Tail(line)) = 0
        <4>1. Len(Tail(line)) = Len(line) - 1
          BY <1>3, <3>1, HeadTailProperties
        <4>2. QED BY <3>2, <4>1
      <3>4. done' = done /\ typed' = typed
        BY <2>4 DEF Drops
      <3>5. Due(Tail(line), done, typed)
        <4>1. done \in Nat /\ done = typed
          BY <1>2, <3>2
        <4>2. PICK rest : rest = Tail(line)
          OBVIOUS
        <4>3. Len(rest) = 0
          BY <3>3, <4>2
        <4>4. Due(rest, done, typed)
          BY <4>1, <4>3 DEF Due
        <4>5. QED BY <4>2, <4>4
      <3>6. ExitTyped'
        BY <2>1, <2>4 DEF ExitTyped, AfterCommand, CSETypeOK
      <3>7. stdin[q] = <<>>
        <4>1. Len(Ahead(q)) \in Nat \ {0} /\ Len(Ahead(q)) <= 1
          <5>1. \A x, y \in Nat : x # 0 /\ 1 = x + y => x <= 1
            OBVIOUS
          <5>2. Len(Ahead(q)) # 0
            BY <1>2, <2>4, EmptySeq DEF Drops
          <5>3. Len(Ahead(q)) \in Nat /\ 1 = Len(Ahead(q)) + Len(p)
            BY <1>3, <3>1, <3>2
          <5>4. QED BY <1>3, <5>1, <5>2, <5>3
        <4>2. Tail(Ahead(q)) \in Seq(Int) /\ Len(Tail(Ahead(q))) = 0
          <5>1. Ahead(q) \in Seq(Int) /\ Ahead(q) # <<>>
            BY <1>2, <2>4 DEF Drops
          <5>2. Tail(Ahead(q)) \in Seq(Int) /\ Len(Tail(Ahead(q))) = Len(Ahead(q)) - 1
            BY <5>1, HeadTailProperties
          <5>3. QED BY <4>1, <5>2
        <4>3. Tail(Ahead(q)) = stdin[q]
          <5>1. EXIT # NOTHING
            BY DEF EXIT, NOTHING
          <5>2. pc[q] \in {"swap", "blocked"} /\ command[q] # NOTHING
            BY <2>1, <2>4, <5>1
          <5>3. QED BY <5>2, AheadType
        <4>4. QED BY <4>2, <4>3, EmptySeq
      <3>8. Fine'
        BY <1>5, <2>1, <2>4, <3>7 DEF Fine, CSETypeOK, Drops
      <3>9. QED BY <1>6, <3>1, <3>4, <3>5, <3>6, <3>8
    <2>5. CASE Does(q)
      <3>1. /\ q = w /\ line # <<>> /\ (Ahead(q) \o p)' = Tail(line) /\ Head(line) = Head(Ahead(q))
            /\ \A u \in Procs \ {q} : Ahead(u)' = <<>>
        BY <2>3, <2>5 DEF Does
      <3>2. Head(line) # EXIT /\ executed' = Append(executed, Head(line)) /\ typed' = typed
        BY <2>5, <3>1 DEF Does
      <3>3. /\ Head(line) = done + 1 /\ Due(Tail(line), done + 1, typed)
            /\ done + 1 + Len(Tail(line)) = done + Len(line)
        BY <1>2, <1>3, <3>1, <3>2, DueMoves
      <3>4. /\ done' = done + 1 /\ \A n \in 1..done : executed'[n] = executed[n]
            /\ executed'[done + 1] = done + 1
        BY <1>2, <3>2, <3>3, AppendProperties
      <3>5. command[q] # EXIT
        <4>1. CASE command[q] = NOTHING
          BY <4>1 DEF EXIT, NOTHING
        <4>2. CASE command[q] # NOTHING
          <5>1. Head(Ahead(q)) = command[q]
            BY <2>1, <4>2, AheadType
          <5>2. QED BY <3>1, <3>2, <5>1
        <4>3. QED BY <4>1, <4>2
      <3>6. AfterCommand(command[q]) = "scan" /\ (ExitTyped' <=> ExitTyped)
        BY <2>1, <3>5 DEF AfterCommand, ExitTyped, CSETypeOK
      <3>7. \A n \in 1..Len(executed)' : executed'[n] = n
        <4>1. SUFFICES ASSUME NEW n \in 1..done + 1 PROVE executed'[n] = n
          BY <3>4
        <4>2. CASE n = done + 1
          BY <3>4, <4>2
        <4>3. CASE n # done + 1
          <5>1. n \in 1..done
            BY <1>2, <4>3
          <5>2. QED BY <1>5, <3>4, <5>1 DEF Fine
        <4>4. QED BY <4>2, <4>3
      <3>8. Fine'
        BY <1>5, <2>1, <3>6, <3>7 DEF Fine, CSETypeOK
      <3>9. QED BY <1>3, <1>6, <3>1, <3>2, <3>3, <3>4, <3>6, <3>8
    <2>6. QED BY <1>15, <2>2, <2>4, <2>5, Moves
  <1>16. CASE UNCHANGED cseVars
    <2>1. UNCHANGED <<pc, command, stdin, p, swap_p, typed, executed>>
      BY <1>16 DEF cseVars, ends, pipes, counters
    <2>2. Kept /\ Fine' /\ (ExitTyped' <=> ExitTyped)
      BY <1>5, <2>1 DEF Kept, Fine, ExitTyped, Ahead
    <2>3. QED BY <1>8, <2>2
  <1>17. QED BY <1>9, <1>10, <1>11, <1>12, <1>13, <1>14, <1>15, <1>16 DEF Next, User, Process

LEMMA SpecLineInv == Spec => []LineInv
  <1>1. Init => LineInv
    BY InitIInv, InitOnce, InitOrder DEF LineInv
  <1>2. LineInv /\ [Next]_cseVars => LineInv'
    <2> SUFFICES ASSUME LineInv, [Next]_cseVars PROVE LineInv'
      OBVIOUS
    <2>1. IInv' /\ OnceInv'
      BY TypeStep, ExitStep, CommanderStep, OnceStep DEF LineInv, IInv
    <2>2. ASSUME hasty PROVE hasty'
      BY <2>2 DEF Next, User, Process, Forward, TypeCommand, TypeExit, TypeSwaprole, EnterExecute, Scan,
                  ReadSwaprole, Block, Execute, EnterCommand, cseVars, counters
    <2>3. QED BY <2>1, <2>2, OrderStep DEF LineInv
  <1>3. QED BY <1>1, <1>2, PTL DEF Spec

\* No command is executed twice, whoever reads it ahead or sends it on again; and with every
\* swaprole typed when all is done, they are executed in the order they were typed
\* (CSE.c:154-157, 177).
THEOREM CommandsAreExecutedOnce == Spec => []ExecutedOnce
  <1>1. LineInv => ExecutedOnce
    <2> SUFFICES ASSUME LineInv PROVE ExecutedOnce
      OBVIOUS
    <2>1. executed \in Seq(Int) /\ Once(executed) /\ ~HoldsExit(executed)
      <3>1. Separate(executed, Ahead(FirstChild), Ahead(SecondChild), p, typed)
        BY DEF LineInv, OnceInv, Procs, FirstChild, SecondChild
      <3>2. QED BY <3>1 DEF LineInv, OnceInv, Separate
    <2>2. DOMAIN executed = 1..Len(executed) /\ Len(executed) \in Nat
      BY <2>1
    <2>3. IsInjective(executed)
      BY <2>1, <2>2 DEF Once, HoldsExit, IsInjective
    <2>4. ASSUME ~hasty PROVE executed = [n \in 1..Len(executed) |-> n]
      <3>1. \A n \in 1..Len(executed) : executed[n] = n
        BY <2>4 DEF LineInv, OrderInv
      <3>2. executed = [n \in 1..Len(executed) |-> executed[n]]
        BY <2>1, <2>2
      <3>3. QED BY <3>1, <3>2
    <2>5. QED BY <2>3, <2>4 DEF ExecutedOnce
  <1>2. QED BY SpecLineInv, <1>1, PTL
====
