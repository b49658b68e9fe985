------------------------------- MODULE Session -------------------------------
(***************************************************************************)
(* The doctor's session of Assignment6/session.c.  The assistant (main)    *)
(* takes the arrivals of arrival.txt from a queue, starts a thread for     *)
(* each visitor and wakes the doctor; the doctor calls one visitor at a    *)
(* time, and wakes the assistant when the visit is over.                   *)
(*                                                                         *)
(* The kinds of visitors are "P", "R" and "S" as in the file; what the     *)
(* code keeps once per kind is here a function on the kinds: TOTAL is      *)
(* TOTAL_PATIENTS, TOTAL_REPORTER and TOTAL_SALES, and so on.              *)
(*                                                                         *)
(* A thread in pthread_cond_wait is "asleep" until the signal, and then    *)
(* takes the mutex and tests its condition again.  Nobody but the doctor   *)
(* holds doc_sleep_mutex over several steps: what the assistant does with  *)
(* it in one turn of its loop is one step.                                 *)
(***************************************************************************)
EXTENDS EventQueue, FiniteSets

CONSTANTS N,                       \* the most arrivals of a day
          Days,                    \* what arrival.txt may hold
          PatientQuota, SalesQuota \* 25 and 3

Kinds == {"P", "R", "S"}
Arrival == [type : Kinds, time : Int, duration : Nat \ {0}]
Visitors == 1..N

ASSUME DaysAssumption ==
  /\ N \in Nat /\ PatientQuota \in Nat /\ SalesQuota \in Nat
  /\ \A d \in Days : \E n \in 0..N : d \in [1..n -> Arrival]

VARIABLES day,              \* the arrivals of this day
          queue,            \* the event queue, as of EventQueue
          SESSION,          \* 0: not begun, 1: begun, 2: the doctor has left
          cur_time,
          TOTAL, CUR,       \* per kind: arrived so far; started and not called
          SLEEPING,         \* the doctor's flag
          SLEEP,            \* per kind: the visitors' flag
          ASSIST_SLEEP,     \* the assistant's flag
          ONGOING_SESSION,
          dpc, apc, vpc     \* where the doctor, the assistant, each visitor is

sessionVars == <<day, queue, SESSION, cur_time, TOTAL, CUR, SLEEPING, SLEEP, ASSIST_SLEEP,
                 ONGOING_SESSION, dpc, apc, vpc>>

Init == /\ day \in Days
        /\ queue = initEQ(day)
        /\ SESSION = 0 /\ cur_time = 0
        /\ TOTAL = [k \in Kinds |-> 0] /\ CUR = [k \in Kinds |-> 0]
        /\ SLEEPING = TRUE /\ SLEEP = [k \in Kinds |-> TRUE]
        /\ ASSIST_SLEEP = FALSE /\ ONGOING_SESSION = FALSE
        /\ dpc = "lock" /\ apc = "lock"
        /\ vpc = [v \in Visitors |-> "none"]

-----------------------------------------------------------------------------
(* The mutexes and conditions.                                             *)

DocMutexFree == dpc \notin {"decide", "call", "await", "in session"}

Inside == {"in", "visited", "out"}
KindMutexFree(k) == \A v \in DOMAIN day : day[v].type = k => vpc[v] \notin Inside

\* Mutant of Woken: pthread_cond_signal before the other waits is all there is.
SignalLost(pc) == pc

\* The thread at pc once its condition is signalled.
Woken(pc) == IF pc = "asleep" THEN "lock" ELSE pc

-----------------------------------------------------------------------------
(* The assistant.                                                          *)

AssistantSleeps == /\ apc = "lock" /\ DocMutexFree
                   /\ ASSIST_SLEEP /\ apc' = "asleep"
                   /\ UNCHANGED <<day, queue, SESSION, cur_time, TOTAL, CUR, SLEEPING, SLEEP,
                                  ASSIST_SLEEP, ONGOING_SESSION, dpc, vpc>>

\* The assistant has the mutex, and has set its flag.
AssistantAwake == apc = "lock" /\ DocMutexFree /\ ~ASSIST_SLEEP /\ ASSIST_SLEEP' = TRUE

\* The turns end with the mutex unlocked and the flag cleared only then.
Unlocks == apc' = "unlocked"

ClearFlag == /\ apc = "unlocked" /\ apc' = "lock"
             /\ ASSIST_SLEEP' = FALSE
             /\ UNCHANGED <<day, queue, SESSION, cur_time, TOTAL, CUR, SLEEPING, SLEEP,
                            ONGOING_SESSION, dpc, vpc>>

\* nextevent(queue), of a queue that is not empty.
ev == day[queue[1]]

\* The session begins with the first arrival that is not before 0, or with none.
Begin == /\ AssistantAwake /\ SESSION = 0 /\ Unlocks
         /\ queue # <<>> => ev.time >= 0
         /\ SESSION' = 1
         /\ cur_time' = IF queue = <<>> THEN cur_time ELSE 0
         /\ UNCHANGED <<day, queue, TOTAL, CUR, SLEEPING, SLEEP, ONGOING_SESSION, dpc, vpc>>

Room(k) == CASE k = "P" -> TOTAL[k] < PatientQuota
             [] k = "S" -> TOTAL[k] < SalesQuota
             [] k = "R" -> TRUE

\* A visitor who has arrived is started as a thread, or turned away.
Admit ==
  /\ AssistantAwake /\ Unlocks
  /\ queue # <<>>
  /\ \/ SESSION = 0 /\ ev.time < 0
     \/ SESSION = 1 /\ ev.time <= cur_time
  /\ LET k == ev.type
     IN  /\ queue' = delevent(day, queue)
         /\ TOTAL' = [TOTAL EXCEPT ![k] = @ + 1]
         /\ IF Room(k)
            THEN CUR' = [CUR EXCEPT ![k] = @ + 1] /\ vpc' = [vpc EXCEPT ![queue[1]] = "lock"]
            ELSE UNCHANGED <<CUR, vpc>>
  /\ UNCHANGED <<day, SESSION, cur_time, SLEEPING, SLEEP, ONGOING_SESSION, dpc>>

QuotaReached == TOTAL["P"] >= PatientQuota /\ TOTAL["S"] >= SalesQuota

\* Mutant of NobodyWaits: the reporters, who have no quota, are not looked at.
NoCustomerWaits == CUR["P"] = 0 /\ CUR["S"] = 0

NobodyWaits == \A k \in Kinds : CUR[k] = 0

\* Who is next has not arrived yet.
NextIsLater == queue # <<>> /\ ev.time > cur_time

\* The assistant leaves its flag set: the doctor clears it.
WakeDoctor ==
  /\ AssistantAwake /\ SESSION = 1 /\ apc' = "lock"
  /\ queue = <<>> \/ (NextIsLater /\ (~NobodyWaits \/ QuotaReached))
  /\ SLEEPING' = FALSE /\ dpc' = Woken(dpc)
  /\ UNCHANGED <<day, queue, SESSION, cur_time, TOTAL, CUR, SLEEP, ONGOING_SESSION, vpc>>

\* With nobody there and more visitors to come, time goes on to the next.
AdvanceTime ==
  /\ AssistantAwake /\ SESSION = 1 /\ Unlocks
  /\ NextIsLater /\ NobodyWaits /\ ~QuotaReached
  /\ cur_time' = ev.time
  /\ UNCHANGED <<day, queue, SESSION, TOTAL, CUR, SLEEPING, SLEEP, ONGOING_SESSION, dpc, vpc>>

\* When the doctor has left, the others are turned away and the process exits.
Drain ==
  /\ AssistantAwake /\ SESSION = 2 /\ apc' = "exit"
  /\ TOTAL' = [k \in Kinds |-> TOTAL[k] + Cardinality({i \in DOMAIN queue : day[queue[i]].type = k})]
  /\ queue' = <<>>
  /\ UNCHANGED <<day, SESSION, cur_time, CUR, SLEEPING, SLEEP, ONGOING_SESSION, dpc, vpc>>

Assistant == \/ AssistantSleeps \/ ClearFlag \/ Begin \/ Admit \/ WakeDoctor
             \/ AdvanceTime \/ Drain

-----------------------------------------------------------------------------
(* The doctor.                                                             *)

DoctorLocks ==
  /\ dpc = "lock"
  /\ IF SLEEPING THEN dpc' = "asleep" ELSE dpc' = "decide"
  /\ SLEEPING' = TRUE
  /\ UNCHANGED <<day, queue, SESSION, cur_time, TOTAL, CUR, SLEEP, ASSIST_SLEEP,
                 ONGOING_SESSION, apc, vpc>>

\* Mutant of WorkDone: the doctor leaves when the quota is reached.
LeavesAtQuota == QuotaReached

WorkDone == QuotaReached /\ NobodyWaits

\* The doctor locks the three mutexes one after the other; a visitor never waits
\* for a second one with one of them in hand.
DoctorLeaves ==
  /\ dpc = "decide" /\ \A k \in Kinds : KindMutexFree(k)
  /\ WorkDone
  /\ SESSION' = 2
  /\ ASSIST_SLEEP' = FALSE /\ apc' = Woken(apc)
  /\ dpc' = "gone"
  /\ UNCHANGED <<day, queue, cur_time, TOTAL, CUR, SLEEPING, SLEEP, ONGOING_SESSION, vpc>>

DoctorStays ==
  /\ dpc = "decide" /\ \A k \in Kinds : KindMutexFree(k)
  /\ ~WorkDone
  /\ ONGOING_SESSION' = TRUE
  /\ dpc' = "call"
  /\ UNCHANGED <<day, queue, SESSION, cur_time, TOTAL, CUR, SLEEPING, SLEEP, ASSIST_SLEEP,
                 apc, vpc>>

\* Mutant of Called: a patient is called before a reporter.
PatientsFirst == IF CUR["P"] > 0 THEN "P" ELSE IF CUR["R"] > 0 THEN "R" ELSE "S"

\* Whose turn it is, if anybody is there.
Called == IF CUR["R"] > 0 THEN "R" ELSE IF CUR["P"] > 0 THEN "P" ELSE "S"

\* One sleeping thread of the kind is woken; any of its threads that comes to test
\* the flag first may be the one to go in.
WakeOne(k) ==
  LET sleepers == {v \in DOMAIN day : day[v].type = k /\ vpc[v] = "asleep"}
  IN  IF sleepers = {} THEN UNCHANGED vpc
      ELSE \E v \in sleepers : vpc' = [vpc EXCEPT ![v] = Woken(@)]

\* With nobody there the doctor calls nobody, and waits for the visit to end.
DoctorCalls ==
  /\ dpc = "call" /\ \A k \in Kinds : KindMutexFree(k)
  /\ dpc' = "await"
  /\ IF NobodyWaits THEN UNCHANGED <<SLEEP, CUR, vpc>>
     ELSE /\ SLEEP' = [SLEEP EXCEPT ![Called] = FALSE]
          /\ CUR' = [CUR EXCEPT ![Called] = @ - 1]
          /\ WakeOne(Called)
  /\ UNCHANGED <<day, queue, SESSION, cur_time, TOTAL, SLEEPING, ASSIST_SLEEP,
                 ONGOING_SESSION, apc>>

DoctorAwaits ==
  /\ dpc = "await" /\ ONGOING_SESSION /\ dpc' = "in session"
  /\ UNCHANGED <<day, queue, SESSION, cur_time, TOTAL, CUR, SLEEPING, SLEEP, ASSIST_SLEEP,
                 ONGOING_SESSION, apc, vpc>>

DoctorIsDone ==
  /\ dpc = "await" /\ ~ONGOING_SESSION /\ dpc' = "lock"
  /\ ASSIST_SLEEP' = FALSE /\ apc' = Woken(apc)
  /\ UNCHANGED <<day, queue, SESSION, cur_time, TOTAL, CUR, SLEEPING, SLEEP, ONGOING_SESSION,
                 vpc>>

Doctor == DoctorLocks \/ DoctorLeaves \/ DoctorStays \/ DoctorCalls \/ DoctorAwaits
          \/ DoctorIsDone

-----------------------------------------------------------------------------
(* A visitor: patient, salesrep and reporter differ in what is per kind.   *)

\* Mutant of ResetFlag: the flag is left as the doctor set it.
LeaveFlag(k) == UNCHANGED SLEEP

ResetFlag(k) == SLEEP' = [SLEEP EXCEPT ![k] = TRUE]

Enter(v) ==
  /\ vpc[v] = "lock"
  /\ LET k == day[v].type
     IN  /\ KindMutexFree(k)
         /\ IF SLEEP[k]
            THEN vpc' = [vpc EXCEPT ![v] = "asleep"] /\ UNCHANGED SLEEP
            ELSE vpc' = [vpc EXCEPT ![v] = "in"] /\ ResetFlag(k)
  /\ UNCHANGED <<day, queue, SESSION, cur_time, TOTAL, CUR, SLEEPING, ASSIST_SLEEP,
                 ONGOING_SESSION, dpc, apc>>

Visit(v) ==
  /\ vpc[v] = "in" /\ vpc' = [vpc EXCEPT ![v] = "visited"]
  /\ cur_time' = day[v].duration + IF cur_time < day[v].time THEN day[v].time ELSE cur_time
  /\ UNCHANGED <<day, queue, SESSION, TOTAL, CUR, SLEEPING, SLEEP, ASSIST_SLEEP,
                 ONGOING_SESSION, dpc, apc>>

EndSession(v) ==
  /\ vpc[v] = "visited" /\ vpc' = [vpc EXCEPT ![v] = "out"]
  /\ ONGOING_SESSION' = FALSE
  /\ dpc' = IF dpc = "in session" THEN "await" ELSE dpc
  /\ UNCHANGED <<day, queue, SESSION, cur_time, TOTAL, CUR, SLEEPING, SLEEP, ASSIST_SLEEP, apc>>

UnlockKind(v) ==
  /\ vpc[v] = "out" /\ vpc' = [vpc EXCEPT ![v] = "gone"]
  /\ UNCHANGED <<day, queue, SESSION, cur_time, TOTAL, CUR, SLEEPING, SLEEP, ASSIST_SLEEP,
                 ONGOING_SESSION, dpc, apc>>

Visitor(v) == Enter(v) \/ Visit(v) \/ EndSession(v) \/ UnlockKind(v)

-----------------------------------------------------------------------------
Over == apc = "exit"

Arrivals(k) == Cardinality({v \in DOMAIN day : day[v].type = k})
EnoughCome == Arrivals("P") >= PatientQuota /\ Arrivals("S") >= SalesQuota

\* On a day with too few visitors the doctor ends up in a session with nobody.
Stalled == /\ ~EnoughCome /\ queue = <<>> /\ NobodyWaits
           /\ dpc = "in session" /\ apc \in {"lock", "asleep"}
           /\ \A v \in Visitors : vpc[v] \in {"none", "gone"}

Next == \/ ~Over /\ (Assistant \/ Doctor \/ \E v \in DOMAIN day : Visitor(v))
        \/ (Over \/ Stalled) /\ UNCHANGED sessionVars

Spec == Init /\ [][Next]_sessionVars

\* The kernel runs every thread that is not blocked.
FairSpec == /\ Spec
            /\ WF_sessionVars(~Over /\ Assistant) /\ WF_sessionVars(~Over /\ Doctor)
            /\ \A v \in Visitors : WF_sessionVars(~Over /\ Visitor(v))

-----------------------------------------------------------------------------
Started(v) == vpc[v] \in {"lock", "asleep"} \cup Inside

Queued == {queue[i] : i \in DOMAIN queue}

\* The heap loses and doubles nobody, and who is on top comes first of all that are
\* left (event.c:44-54, 77-96).
QueueInOrder ==
  /\ Len(queue) = Cardinality(Queued)
  /\ Cardinality(Queued) + TOTAL["P"] + TOTAL["R"] + TOTAL["S"] = Len(day)
  /\ \A v \in Queued : Precedes(ev, day[v])

\* One visitor at a time, and only while the doctor waits for it, though the kinds
\* share no mutex (session.c:134, 158, 189, 220): of the kinds called and the
\* visitors with the doctor there is never more than one.
OneInChamber ==
  LET there == {v \in Visitors : vpc[v] \in {"in", "visited"}}
      called == {k \in Kinds : ~SLEEP[k]}
  IN  /\ Cardinality(there) + Cardinality(called) <= 1
      /\ there \cup called # {} => ONGOING_SESSION /\ dpc \in {"await", "in session"}

\* When the doctor calls a visitor, nobody of a more urgent kind who has arrived by
\* then waits or is still in the queue (session.c:111-127, 473).
UrgentFirst ==
  [][\A k \in Kinds : SLEEP[k] /\ ~SLEEP'[k] =>
       \A v \in DOMAIN day :
         day[v].time <= cur_time /\ Urgency[day[v].type] < Urgency[k] =>
           v \notin Queued /\ ~Started(v)]_sessionVars

\* Time passes by the length of a visit, or to the next arrival when nobody is there
\* (session.c:159, 559): no visit has to wait for its visitor to arrive, and the
\* doctor is never idle while somebody waits.
NoIdleTime ==
  [][cur_time' # cur_time =>
       \/ \E v \in Visitors : vpc[v] = "in" /\ cur_time' = cur_time + day[v].duration
       \/ cur_time' > cur_time /\ \A v \in Visitors : ~Started(v) \/ vpc[v] = "out"]_sessionVars

\* The visitors of a kind that the doctor has seen.
Seen(k) == {v \in DOMAIN day : day[v].type = k /\ vpc[v] = "gone"}

\* The doctor leaves only when the quotas are reached and every visitor that was
\* started has been seen and has let go of its mutex, which the assistant then
\* destroys (session.c:76, 443).  As many have been seen as P_args and S_args have
\* room for, however many came (session.c:325, 353).
LeavesLast ==
  SESSION = 2 => /\ QuotaReached /\ \A v \in Visitors : ~Started(v)
                 /\ Cardinality(Seen("P")) = PatientQuota
                 /\ Cardinality(Seen("S")) = SalesQuota

\* A day with enough visitors ends (session.c:456).
DayEnds == EnoughCome ~> Over
=============================================================================
