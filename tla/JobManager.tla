------------------------------ MODULE JobManager ------------------------------
(***************************************************************************)
(* Assignment2/mgr.c: a job manager that runs one job at a time in the     *)
(* foreground, and handlers for Ctrl-C and Ctrl-Z that pass the signal on  *)
(* to that job and write its status.  A handler may run between any two    *)
(* steps of main, and one inside the other.  Row r of the process table is *)
(* job r, so pid holds a row; row 0 is mgr itself.  The jobs and what the  *)
(* kernel does with their signals are modelled from mgr.c's use of them.   *)
(***************************************************************************)
EXTENDS Integers, Sequences, FiniteSets

CONSTANTS MaxJobs,    \* the rows for jobs; 10 in the code
          MaxSignals  \* bound: how often Ctrl-C and Ctrl-Z are typed while a job is up

ASSUME JobsAssumption == MaxJobs \in Nat \ {0} /\ MaxSignals \in Nat

Rows == 1..MaxJobs
Signals == {"SIGINT", "SIGTSTP"}

VARIABLES mpc,         \* main
          handlers,    \* the handlers that run, the innermost first
          pid, sus_jobs, total_jobs, status_arr,
          job,         \* the jobs: a "halted" one has stopped and waitpid has not said so yet
          interrupted, \* the stopped jobs that a SIGINT waits for
          signalled,   \* how many signals there have been
          raced        \* history: a signal came, or was passed on, when its job was not
                    \* running under waitpid

jobVars == <<mpc, handlers, pid, sus_jobs, total_jobs, status_arr, job, interrupted, signalled,
             raced>>
table == <<sus_jobs, total_jobs, status_arr>>
kernel == <<job, interrupted>>
signalVars == <<handlers, signalled, raced>>

JobInit == /\ mpc = "prompt" /\ handlers = <<>>
           /\ pid = -1 /\ sus_jobs = 0 /\ total_jobs = 1
           /\ status_arr = [r \in Rows |-> ""]
           /\ job = [r \in Rows |-> "none"] /\ interrupted = {}
           /\ signalled = 0 /\ raced = FALSE

InTable == 1 .. total_jobs - 1
Listed == {r \in InTable : status_arr[r] = "SUSPENDED"}

Main(from, to) == mpc = from /\ mpc' = to /\ handlers = <<>> /\ UNCHANGED signalVars

SetStatus(r, text) == status_arr' = [status_arr EXCEPT ![r] = text]

Killed(rows) == job' = [r \in Rows |-> IF r \in rows /\ job[r] \in {"halted", "stopped"}
                                       THEN "zombie" ELSE job[r]]

-----------------------------------------------------------------------------
(* main.                                                                   *)

Fork ==
  /\ Main("prompt", "forked") /\ total_jobs <= MaxJobs
  /\ pid' = total_jobs
  /\ job' = [job EXCEPT ![total_jobs] = "running"]
  /\ UNCHANGED <<table, interrupted>>

\* The table is full, or the user quits: the jobs listed as suspended are killed.
Quit ==
  /\ Main("prompt", "over")
  /\ Killed(Listed)
  /\ UNCHANGED <<table, pid, interrupted>>

EnterInTable ==
  /\ Main("forked", "wait")
  /\ SetStatus(total_jobs, "FINISHED")
  /\ total_jobs' = total_jobs + 1
  /\ UNCHANGED <<pid, sus_jobs, kernel>>

\* Mutant of Reportable: waitpid without WUNTRACED.
OnlyDeath(r) == job[r] \in {"zombie", "gone"}

\* waitpid returns for a job that has died, has stopped, or is no longer there:
\* then it fails and status, still 0, reads as an exit.
Reportable(r) == job[r] \in {"zombie", "halted", "gone"}

Wait ==
  /\ Main("wait", "reset") /\ Reportable(pid)
  /\ job' = [job EXCEPT ![pid] = IF @ = "halted" THEN "stopped" ELSE "gone"]
  /\ UNCHANGED <<pid, table, interrupted>>

ResetPid ==
  /\ Main("reset", "prompt") /\ pid' = -1
  /\ UNCHANGED <<table, kernel>>

\* The user picks one of the jobs listed; when none is, the row of any job.
\* Picking or killing mgr itself, in row 0, is left out.
MayPick == IF Listed # {} THEN Listed ELSE InTable

Pick(r) ==
  /\ Main("prompt", "continue") /\ sus_jobs > 0 /\ r \in MayPick
  /\ sus_jobs' = sus_jobs - 1 /\ pid' = r
  /\ UNCHANGED <<total_jobs, status_arr, kernel>>

\* SIGCONT; a SIGINT that has waited is delivered now, a SIGTSTP is forgotten.
Continue ==
  /\ Main("continue", "label")
  /\ job' = [job EXCEPT ![pid] = IF @ \notin {"halted", "stopped"} THEN @
                                 ELSE IF pid \in interrupted THEN "zombie" ELSE "running"]
  /\ interrupted' = interrupted \ {pid}
  /\ UNCHANGED <<pid, table>>

\* Mutant of Label: nobody waits for a job that was continued.
LabelOnly ==
  /\ Main("label", "reset")
  /\ SetStatus(pid, "FINISHED")
  /\ UNCHANGED <<pid, sus_jobs, total_jobs, kernel>>

Label ==
  /\ Main("label", "wait")
  /\ SetStatus(pid, "FINISHED")
  /\ UNCHANGED <<pid, sus_jobs, total_jobs, kernel>>

\* Mutant of Kill: the count stays.
KillUncounted(r) ==
  /\ Main("prompt", "prompt") /\ sus_jobs > 0 /\ r \in MayPick
  /\ Killed({r}) /\ SetStatus(r, "KILLED")
  /\ UNCHANGED <<pid, sus_jobs, total_jobs, interrupted>>

Kill(r) ==
  /\ Main("prompt", "prompt") /\ sus_jobs > 0 /\ r \in MayPick
  /\ sus_jobs' = sus_jobs - 1
  /\ Killed({r}) /\ SetStatus(r, "KILLED")
  /\ UNCHANGED <<pid, total_jobs, interrupted>>

-----------------------------------------------------------------------------
(* The handlers.                                                           *)

\* kill(): a stopped job keeps a SIGINT for later.
Send(sig, r) ==
  /\ job' = [job EXCEPT ![r] = IF @ # "running" THEN @
                               ELSE IF sig = "SIGINT" THEN "zombie" ELSE "halted"]
  /\ interrupted' = IF sig = "SIGINT" /\ job[r] \in {"halted", "stopped"}
                    THEN interrupted \cup {r} ELSE interrupted

\* The rows child_it may be: before the job is in the table it is uninitialised
\* and may name any other row or, as 0, none of them.
ChildIt == IF pid \in InTable THEN {pid} ELSE InTable \cup {0}

\* A handler begins and looks for the job.  With no job up (pid = -1) it changes
\* nothing.
Deliver(sig) ==
  /\ signalled < MaxSignals /\ signalled' = signalled + 1
  /\ pid # -1 /\ mpc # "crashed"
  /\ \A h \in 1..Len(handlers) : handlers[h].sig # sig
  /\ \E child_it \in ChildIt :
       handlers' = <<[sig |-> sig, child_it |-> child_it, sent |-> FALSE]>> \o handlers
  /\ raced' = (raced \/ mpc # "wait" \/ job[pid] # "running" \/ handlers # <<>>)
  /\ UNCHANGED <<mpc, pid, table, kernel>>

\* It passes the signal on; meanwhile the job may have ended, or the other handler
\* may have come and gone.
PassOn ==
  /\ handlers # <<>> /\ mpc # "crashed" /\ ~Head(handlers).sent
  /\ handlers' = <<[Head(handlers) EXCEPT !.sent = TRUE]>> \o Tail(handlers)
  /\ Send(Head(handlers).sig, pid)
  /\ raced' = (raced \/ job[pid] # "running")
  /\ UNCHANGED <<mpc, pid, table, signalled>>

\* main goes on where it was: signal() has waitpid restarted.
HandlerReturns ==
  /\ handlers # <<>> /\ mpc # "crashed" /\ Head(handlers).sent
  /\ LET h == Head(handlers)
     IN  /\ status_arr' = [r \in Rows |->
              IF r # h.child_it THEN status_arr[r]
              ELSE IF h.sig = "SIGINT" THEN "TERMINATED" ELSE "SUSPENDED"]
         /\ sus_jobs' = sus_jobs + IF h.sig = "SIGTSTP" THEN 1 ELSE 0
  /\ handlers' = Tail(handlers)
  /\ UNCHANGED <<mpc, pid, total_jobs, kernel, signalled, raced>>

\* An uninitialised child_it may also be far outside the arrays.
Crash ==
  /\ handlers # <<>> /\ pid \notin InTable /\ mpc = "forked"
  /\ mpc' = "crashed"
  /\ UNCHANGED <<signalVars, pid, table, kernel>>

-----------------------------------------------------------------------------
JobEnds(r) ==
  /\ job[r] = "running"
  /\ job' = [job EXCEPT ![r] = "zombie"]
  /\ UNCHANGED <<mpc, pid, table, interrupted, signalVars>>

JobUser == Fork \/ Quit \/ \E r \in Rows : Pick(r) \/ Kill(r)

MainStep == EnterInTable \/ Wait \/ ResetPid \/ Continue \/ Label

Ended == mpc \in {"over", "crashed"}

JobNext == \/ JobUser \/ MainStep
           \/ \E sig \in Signals : Deliver(sig)
           \/ PassOn \/ HandlerReturns \/ Crash
           \/ \E r \in Rows : JobEnds(r)
           \/ Ended /\ UNCHANGED jobVars

JobSpec == JobInit /\ [][JobNext]_jobVars

\* mgr runs on and a job ends in the end; nobody has to type anything.
JobFairSpec == /\ JobSpec
               /\ WF_jobVars(MainStep) /\ WF_jobVars(PassOn) /\ WF_jobVars(HandlerReturns)
               /\ \A r \in Rows : WF_jobVars(JobEnds(r))

-----------------------------------------------------------------------------
\* A job runs only while mgr waits for it or is on its way to: none is ever
\* left running behind the prompt (mgr.c:113-118, 146-151).
OneInForeground == \A r \in Rows : job[r] = "running" => pid = r

\* At the prompt every job listed as suspended can still be picked, although the
\* handlers and main both write status and count; and if signals came only to
\* running jobs under waitpid, the list and the count say exactly which jobs
\* are stopped (mgr.c:33, 51-52, 121, 141-144).
BooksAreRight ==
  mpc = "prompt" =>
    /\ Cardinality(Listed) <= sus_jobs
    /\ ~raced => /\ Listed = {r \in Rows : job[r] = "stopped"}
                 /\ sus_jobs = Cardinality(Listed)

\* Whatever is typed when, mgr never waits forever for a job (mgr.c:114, 147).
PromptComesBack == (pid # -1) ~> (pid = -1 \/ mpc = "crashed")
=============================================================================
