---------------------------- MODULE VirtualMemory ----------------------------
(***************************************************************************)
(* Assignment8: demand paging simulated by k + 3 operating-system processes*)
(* that share page tables and talk over three System V message queues.     *)
(*                                                                         *)
(*   Master     builds the page tables, forks the others, waits, reports   *)
(*   Scheduler  takes process ids from MQ1, lets one run, waits on MQ2     *)
(*   Process p  walks its reference string, one request on MQ3 per page    *)
(*   MMU        answers requests from the page tables, tells the Scheduler *)
(*                                                                         *)
(* One action is what one of them does up to its next system call that     *)
(* another can see.  MQ3 carries requests (type 1) and replies (type 2);   *)
(* msgrcv takes the oldest message of the type it names, so it is two      *)
(* queues.  The page-fault counters and the timestamp are left out: they   *)
(* are only added to and printed.                                          *)
(***************************************************************************)
EXTENDS PageTables, Sequences

CONSTANTS
  Strings,      \* the reference strings that Master may draw
  SleepOrders,  \* TRUE: the 10 ms sleep of the Scheduler (sched.c:49) lasts
                \*   longer than the delivery of a reply that was already sent;
                \* FALSE: nothing is known about the relative speeds
  LeftBehind,   \* semaphores in the set an interrupted run left, 0 for none
  QueueCap,     \* messages that MQ1 and MQ2 hold before msgsnd waits for room
  MaxAge        \* bound: the MMU's requests of itself stop at this lru_counter

ASSUME VMAssumption == /\ Strings \subseteq Seq(Pages) \ {<<>>}
                       /\ SleepOrders \in BOOLEAN
                       /\ LeftBehind \in Nat
                       /\ QueueCap \in Nat \ {0}
                       /\ MaxAge \in Nat

QUIT     == -9     \* the page number that says "the process has terminated"
FAULT    == -1     \* frame of a reply: page fault, handled, try again
INVALID  == -2     \* frame of a reply: no such page, terminate

VARIABLES
  mpc,             \* where Master is
  mi,              \* the index of Master's current loop
  pages_upto,      \* total_page_count after each iteration of the loop 260
  cur_free_frame,  \* Master: the next frame to give away
  ref_str,         \* the reference string of each process
  ipc,             \* the message queues and the semaphores exist
  sem1, sem2,      \* Master's semaphore and those of the processes
  mq1, mq2,        \* ready queue; messages of the MMU to the Scheduler
  mq3_req,         \* MQ3: requests [pid, page]
  mq3_resp,        \* MQ3: replies [pid, page, frame]
  spc, k_left,     \* where the Scheduler is, its count of live processes
  ppc, ref_idx,    \* where process p is, pages of its string already served
  mmu_pc, mmu_pid, \* where the MMU is, the process of its current request
  results,         \* results.txt: "raw", "clustered", or written to after that
  hits,            \* history: references of p that found their page in memory
  last_ref         \* history: the value of hits[p] at the last one to page g

masterVars == <<mpc, mi, pages_upto, cur_free_frame, ref_str, ipc>>
semVars    == <<sem1, sem2>>
queueVars  == <<mq1, mq2, mq3_req, mq3_resp>>
schedVars  == <<spc, k_left>>
procVars   == <<ppc, ref_idx>>
mmuVars    == <<mmu_pc, mmu_pid>>
history    == <<hits, last_ref>>
vars == <<tableVars, masterVars, semVars, queueVars, schedVars, procVars,
          mmuVars, results, history>>

\* semget fails when the set that exists is smaller than the one asked for, for
\* Master and for everybody after it; semop on id -1 then fails at once.
SemsUsable == ipc /\ (LeftBehind = 0 \/ LeftBehind >= K)

Init ==
  /\ TableInit
  /\ mpc = "sizes" /\ mi = 0
  /\ pages_upto = [i \in 0..K |-> 0]
  /\ cur_free_frame = 0
  /\ ref_str = [p \in Procs |-> <<>>]
  /\ ipc = TRUE
  /\ sem1 = 0 /\ sem2 = [p \in Procs |-> 0]
  /\ mq1 = <<>> /\ mq2 = <<>> /\ mq3_req = <<>> /\ mq3_resp = <<>>
  /\ spc = "unborn" /\ k_left = K
  /\ ppc = [p \in Procs |-> "unborn"]
  /\ ref_idx = [p \in Procs |-> 0]
  /\ mmu_pc = "unborn" /\ mmu_pid = 0
  /\ results = "raw"
  /\ hits = [p \in Procs |-> 0]
  /\ last_ref = [p \in Procs |-> [g \in Pages |-> 0]]

-----------------------------------------------------------------------------
(***************************************************************************)
(* Master.                                                                 *)
(***************************************************************************)

\* One iteration of a loop over the processes; the last one leads to `next'.
Advance(next) ==
  IF mi + 1 < K THEN mi' = mi + 1 /\ mpc' = mpc
                ELSE mi' = 0 /\ mpc' = next

\* The size s of a table and a string of 2s to 10s pages below s.
ChooseTable ==
  /\ mpc = "sizes"
  /\ \E s \in 1..M, str \in Strings :
       /\ 2*s <= Len(str) /\ Len(str) <= 10*s
       /\ \A j \in 1..Len(str) : str[j] < s
       /\ size' = [size EXCEPT ![mi] = s]
       /\ ref_str' = [ref_str EXCEPT ![mi] = str]
       /\ pages_upto' = [pages_upto EXCEPT ![mi+1] = pages_upto[mi] + s]
  /\ Advance("illegal")
  /\ UNCHANGED <<frame, valid_bit, lru_counter, free_frames, cur_free_frame, ipc,
                 semVars, queueVars, schedVars, procVars, mmuVars, results, history>>

\* One process in ten gets an illegal page; rand() % (m - m_i) traps when the
\* process has all m pages.
AddIllegalPage ==
  /\ mpc = "illegal"
  /\ \/ ref_str' = ref_str /\ Advance("grant")
     \/ /\ size[mi] < M
        /\ \E j \in 1..Len(ref_str[mi]), g \in size[mi] .. M-1 :
             ref_str' = [ref_str EXCEPT ![mi][j] = g]
        /\ Advance("grant")
     \/ /\ size[mi] = M
        /\ mpc' = "sigfpe"
        /\ UNCHANGED <<mi, ref_str>>
  /\ UNCHANGED <<tableVars, pages_upto, cur_free_frame, ipc,
                 semVars, queueVars, schedVars, procVars, mmuVars, results, history>>

\* Mutant of Share: the division rounds up.
ShareRoundedUp(i) == (F * size[i] + pages_upto[K] - 1) \div pages_upto[K]

\* The frames of process i: as many as its share of all pages.
Share(i) == (F * size[i]) \div pages_upto[K]

AllocateFrames ==
  /\ mpc = "grant"
  /\ Grant(mi, cur_free_frame, Share(mi))
  /\ cur_free_frame' = cur_free_frame + Share(mi)
  /\ Advance("fork_sched")
  /\ UNCHANGED <<pages_upto, ref_str, ipc,
                 semVars, queueVars, schedVars, procVars, mmuVars, results, history>>

ForkScheduler ==
  /\ mpc = "fork_sched" /\ mpc' = "fork_mmu"
  /\ spc' = "ready"
  /\ UNCHANGED <<tableVars, mi, pages_upto, cur_free_frame, ref_str, ipc, k_left,
                 semVars, queueVars, procVars, mmuVars, results, history>>

ForkMMU ==
  /\ mpc = "fork_mmu" /\ mpc' = "fork_procs"
  /\ mmu_pc' = "recv"
  /\ UNCHANGED <<tableVars, mi, pages_upto, cur_free_frame, ref_str, ipc, mmu_pid,
                 semVars, queueVars, schedVars, procVars, results, history>>

ForkProcess ==
  /\ mpc = "fork_procs"
  /\ ppc' = [ppc EXCEPT ![mi] = "enqueue"]
  /\ Advance("wait")
  /\ UNCHANGED <<tableVars, pages_upto, cur_free_frame, ref_str, ipc, ref_idx,
                 semVars, queueVars, schedVars, mmuVars, results, history>>

WaitForScheduler ==
  /\ mpc = "wait" /\ mpc' = "kill"
  /\ sem1 > 0 /\ sem1' = sem1 - 1
  /\ UNCHANGED <<tableVars, mi, pages_upto, cur_free_frame, ref_str, ipc, sem2,
                 queueVars, schedVars, procVars, mmuVars, results, history>>

\* SIGINT goes to the xterm around the MMU: the MMU itself dies some time later.
KillMMU ==
  /\ mpc = "kill" /\ mpc' = "reorder"
  /\ UNCHANGED <<tableVars, mi, pages_upto, cur_free_frame, ref_str, ipc,
                 semVars, queueVars, schedVars, procVars, mmuVars, results, history>>

Reorder ==
  /\ mpc = "reorder" /\ mpc' = "cleanup"
  /\ results' = "clustered"
  /\ UNCHANGED <<tableVars, mi, pages_upto, cur_free_frame, ref_str, ipc,
                 semVars, queueVars, schedVars, procVars, mmuVars, history>>

RemoveQueues ==
  /\ ipc' = FALSE
  /\ mq1' = <<>> /\ mq2' = <<>> /\ mq3_req' = <<>> /\ mq3_resp' = <<>>

Cleanup ==
  /\ mpc = "cleanup" /\ mpc' = "done"
  /\ RemoveQueues
  /\ UNCHANGED <<tableVars, mi, pages_upto, cur_free_frame, ref_str,
                 semVars, schedVars, procVars, mmuVars, results, history>>

\* SIGINT at Master, whose handler is there from its first line on: queues and
\* segments are removed and everything in the process group is killed.  The MMU
\* belongs to the session of its xterm and follows when that terminal closes.
Interrupt ==
  /\ mpc \notin {"done", "killed", "sigfpe"}
  /\ mpc' = "killed"
  /\ RemoveQueues
  /\ spc' = "dead"
  /\ ppc' = [p \in Procs |-> "dead"]
  /\ UNCHANGED <<tableVars, mi, pages_upto, cur_free_frame, ref_str, k_left,
                 ref_idx, semVars, mmuVars, results, history>>

Master == \/ ChooseTable \/ AddIllegalPage \/ AllocateFrames
          \/ ForkScheduler \/ ForkMMU \/ ForkProcess
          \/ WaitForScheduler \/ KillMMU \/ Reorder \/ Cleanup

-----------------------------------------------------------------------------
(***************************************************************************)
(* Scheduler.                                                              *)
(***************************************************************************)

\* Mutant of RepliesDelivered: no sleep.
NoSleep == TRUE

\* What the sleep at the head of the loop gives, if it is long enough.
RepliesDelivered == SleepOrders => mq3_resp = <<>>

\* The oldest process of the ready queue is signalled.
Dispatch ==
  /\ spc = "ready" /\ spc' = "mq2"
  /\ mq1 # <<>>
  /\ RepliesDelivered
  /\ mq1' = Tail(mq1)
  /\ sem2' = IF SemsUsable THEN [sem2 EXCEPT ![Head(mq1)] = @ + 1] ELSE sem2
  /\ UNCHANGED <<tableVars, masterVars, sem1, mq2, mq3_req, mq3_resp, k_left,
                 procVars, mmuVars, results, history>>

\* Mutant of StillLive: the two types are confused.
TypesSwapped(msg) == IF msg.type = 1 THEN k_left - 1 ELSE k_left

\* A message of type 1 means a page fault, one of type 2 a process that ended.
StillLive(msg) == IF msg.type = 2 THEN k_left - 1 ELSE k_left

ReceiveFromMMU ==
  /\ spc = "mq2"
  /\ mq2 # <<>>
  /\ mq2' = Tail(mq2)
  /\ k_left' = StillLive(Head(mq2))
  /\ spc' = IF k_left' > 0 THEN "ready" ELSE "signal"
  /\ UNCHANGED <<tableVars, masterVars, semVars, mq1, mq3_req, mq3_resp,
                 procVars, mmuVars, results, history>>

SignalMaster ==
  /\ spc = "signal" /\ spc' = "done"
  /\ sem1' = sem1 + 1
  /\ UNCHANGED <<tableVars, masterVars, sem2, queueVars, k_left,
                 procVars, mmuVars, results, history>>

Scheduler == Dispatch \/ ReceiveFromMMU \/ SignalMaster

-----------------------------------------------------------------------------
(***************************************************************************)
(* Process p.  No result of msgsnd, msgrcv or semop is looked at: once the *)
(* queues are gone a send is lost, and the zeroed buffer of a receive reads*)
(* as "the page is in frame 0".                                            *)
(***************************************************************************)

\* Mutant of Enqueue: the ready queue is a stack.
EnqueueInFront(p) ==
  /\ ppc[p] = "enqueue" /\ ppc' = [ppc EXCEPT ![p] = "await"]
  /\ ipc => Len(mq1) < QueueCap
  /\ mq1' = IF ipc THEN <<p>> \o mq1 ELSE mq1
  /\ UNCHANGED <<tableVars, masterVars, semVars, mq2, mq3_req, mq3_resp, schedVars,
                 ref_idx, mmuVars, results, history>>

Enqueue(p) ==
  /\ ppc[p] = "enqueue" /\ ppc' = [ppc EXCEPT ![p] = "await"]
  /\ ipc => Len(mq1) < QueueCap
  /\ mq1' = IF ipc THEN Append(mq1, p) ELSE mq1
  /\ UNCHANGED <<tableVars, masterVars, semVars, mq2, mq3_req, mq3_resp, schedVars,
                 ref_idx, mmuVars, results, history>>

AwaitTurn(p) ==
  /\ ppc[p] = "await" /\ ppc' = [ppc EXCEPT ![p] = "request"]
  /\ \/ ~SemsUsable /\ sem2' = sem2
     \/ SemsUsable /\ sem2[p] > 0 /\ sem2' = [sem2 EXCEPT ![p] = @ - 1]
  /\ UNCHANGED <<tableVars, masterVars, sem1, queueVars, schedVars,
                 ref_idx, mmuVars, results, history>>

\* The page process p refers to next.
NextPage(p) == ref_str[p][ref_idx[p] + 1]

Request(p) ==
  /\ ppc[p] = "request" /\ ppc' = [ppc EXCEPT ![p] = "receive"]
  /\ mq3_req' = IF ipc THEN Append(mq3_req, [pid |-> p, page |-> NextPage(p)])
                ELSE mq3_req
  /\ UNCHANGED <<tableVars, masterVars, semVars, mq1, mq2, mq3_resp, schedVars,
                 ref_idx, mmuVars, results, history>>

\* What the process does with the frame of a reply, whosever reply that is.
Obey(p, answer) ==
  CASE answer = FAULT   -> /\ ppc' = [ppc EXCEPT ![p] = "enqueue"]
                           /\ ref_idx' = ref_idx
    [] answer = INVALID -> /\ ppc' = [ppc EXCEPT ![p] = "dead"]
                           /\ ref_idx' = ref_idx
    [] OTHER -> /\ ref_idx' = [ref_idx EXCEPT ![p] = @ + 1]
                /\ ppc' = [ppc EXCEPT ![p] =
                     IF ref_idx[p] + 1 < Len(ref_str[p]) THEN "request" ELSE "quit"]

Receive(p) ==
  /\ ppc[p] = "receive"
  /\ \/ /\ ipc /\ mq3_resp # <<>>
        /\ mq3_resp' = Tail(mq3_resp)
        /\ Obey(p, Head(mq3_resp).frame)
     \/ /\ ~ipc
        /\ mq3_resp' = mq3_resp
        /\ Obey(p, 0)
  /\ UNCHANGED <<tableVars, masterVars, semVars, mq1, mq2, mq3_req, schedVars,
                 mmuVars, results, history>>

Quit(p) ==
  /\ ppc[p] = "quit" /\ ppc' = [ppc EXCEPT ![p] = "dead"]
  /\ mq3_req' = IF ipc THEN Append(mq3_req, [pid |-> p, page |-> QUIT]) ELSE mq3_req
  /\ UNCHANGED <<tableVars, masterVars, semVars, mq1, mq2, mq3_resp, schedVars,
                 ref_idx, mmuVars, results, history>>

Process(p) == Enqueue(p) \/ AwaitTurn(p) \/ Request(p) \/ Receive(p) \/ Quit(p)

-----------------------------------------------------------------------------
(***************************************************************************)
(* MMU.                                                                    *)
(***************************************************************************)

\* The MMU gets the request for page g of process p.  It does not look at the
\* result of msgrcv either: without the queue, the buffer it zeroed asks for
\* page 0 of process 0, over and over.
Incoming(p, g) ==
  /\ mmu_pc = "recv"
  /\ \/ /\ ipc /\ mq3_req # <<>>
        /\ p = Head(mq3_req).pid /\ g = Head(mq3_req).page
        /\ mq3_req' = Tail(mq3_req)
     \/ /\ ~ipc /\ mpc = "done"
        /\ p = 0 /\ g = 0
        /\ \A h \in Pages : lru_counter[0][h] < MaxAge
        /\ mq3_req' = mq3_req

Reply(p, g, answer) ==
  mq3_resp' = IF ipc THEN Append(mq3_resp, [pid |-> p, page |-> g, frame |-> answer])
              ELSE mq3_resp

TellScheduler(p, kind) ==
  /\ ipc => Len(mq2) < QueueCap
  /\ mq2' = IF ipc THEN Append(mq2, [type |-> kind, pid |-> p]) ELSE mq2

\* Every reference is written to results.txt, wherever that file has got to.
LogReference == results' = IF results = "raw" THEN "raw" ELSE "dirty"

MMUTerminate(p) ==
  /\ Incoming(p, QUIT)
  /\ Release(p)
  /\ TellScheduler(p, 2)
  /\ UNCHANGED <<masterVars, semVars, mq1, mq3_resp, schedVars, procVars, mmuVars,
                 results, history>>

MMUInvalid(p, g) ==
  /\ g >= size[p]
  /\ Incoming(p, g)
  /\ LogReference
  /\ Reply(p, g, INVALID)
  /\ mmu_pc' = "invalid" /\ mmu_pid' = p
  /\ UNCHANGED <<tableVars, masterVars, semVars, mq1, mq2, schedVars, procVars, history>>

\* Mutant of MMUFreeInvalid: the frames of the process are not given back.
MMUForgetInvalid ==
  /\ mmu_pc = "invalid" /\ mmu_pc' = "recv"
  /\ TellScheduler(mmu_pid, 2)
  /\ UNCHANGED <<tableVars, masterVars, semVars, mq1, mq3_req, mq3_resp, schedVars,
                 procVars, mmu_pid, results, history>>

\* The rest of the branch for an invalid page, after the reply has gone out.
MMUFreeInvalid ==
  /\ mmu_pc = "invalid" /\ mmu_pc' = "recv"
  /\ Release(mmu_pid)
  /\ TellScheduler(mmu_pid, 2)
  /\ UNCHANGED <<masterVars, semVars, mq1, mq3_req, mq3_resp, schedVars, procVars,
                 mmu_pid, results, history>>

MMUHit(p, g) ==
  /\ g < size[p]
  /\ Incoming(p, g)
  /\ Touch(p, g)
  /\ LogReference
  /\ Reply(p, g, frame[p][g])
  /\ IF ipc THEN /\ hits' = [hits EXCEPT ![p] = @ + 1]
                 /\ last_ref' = [last_ref EXCEPT ![p][g] = hits[p] + 1]
            ELSE UNCHANGED history
  /\ UNCHANGED <<masterVars, semVars, mq1, mq2, schedVars, procVars, mmuVars>>

MMUFault(p, g) ==
  /\ g < size[p]
  /\ Incoming(p, g)
  /\ LoadInFreeFrame(p, g) \/ ReplaceOwnPage(p, g) \/ NoFrameForFault(p, g)
  /\ LogReference
  /\ Reply(p, g, FAULT)
  /\ mmu_pc' = "fault" /\ mmu_pid' = p
  /\ UNCHANGED <<masterVars, semVars, mq1, mq2, schedVars, procVars, history>>

\* The rest of the branch for a page fault, after the reply has gone out.
MMUFaultHandled ==
  /\ mmu_pc = "fault" /\ mmu_pc' = "recv"
  /\ TellScheduler(mmu_pid, 1)
  /\ UNCHANGED <<tableVars, masterVars, semVars, mq1, mq3_req, mq3_resp, schedVars,
                 procVars, mmu_pid, results, history>>

\* The terminal of the MMU is gone.
MMUDie ==
  /\ mpc \in {"reorder", "cleanup", "done", "killed"}
  /\ mmu_pc \in {"recv", "invalid", "fault"}
  /\ mmu_pc' = "dead"
  /\ UNCHANGED <<tableVars, masterVars, semVars, queueVars, schedVars, procVars,
                 mmu_pid, results, history>>

MMU == \/ \E p \in Procs : MMUTerminate(p)
       \/ \E p \in Procs, g \in Pages : MMUInvalid(p, g) \/ MMUHit(p, g) \/ MMUFault(p, g)
       \/ MMUFreeInvalid \/ MMUFaultHandled

-----------------------------------------------------------------------------
\* Everything has ended; what stays behind is what nobody removes.
Ended == /\ mpc \in {"done", "killed", "sigfpe"}
         /\ \A p \in Procs : ppc[p] \in {"unborn", "dead"}
         /\ mmu_pc \in {"unborn", "dead"}

Next == \/ Master \/ Interrupt
        \/ Scheduler
        \/ \E p \in Procs : Process(p)
        \/ MMU \/ MMUDie
        \/ Ended /\ UNCHANGED vars

Spec == Init /\ [][Next]_vars

\* Every one of them is an operating-system process of its own, which the
\* kernel keeps running; nothing obliges the user to interrupt, and a terminal
\* that was told to close does so.
Fairness == /\ WF_vars(Master) /\ WF_vars(Scheduler) /\ WF_vars(MMU) /\ WF_vars(MMUDie)
            /\ \A p \in Procs : WF_vars(Process(p))

FairSpec == Spec /\ Fairness

-----------------------------------------------------------------------------
(***************************************************************************)
(* Properties.                                                             *)
(***************************************************************************)
Requests == [pid : Procs, page : Pages \cup {QUIT}]
Replies  == [pid : Procs, page : Pages, frame : -2 .. F-1]

MasterTypeOK ==
  /\ mpc \in {"sizes", "illegal", "grant", "fork_sched", "fork_mmu", "fork_procs", "wait",
              "kill", "reorder", "cleanup", "done", "killed", "sigfpe"}
  /\ mi \in Procs
  /\ pages_upto \in [0..K -> Nat] /\ cur_free_frame \in 0..F
  /\ ref_str \in [Procs -> Seq(Pages)]
  /\ ipc \in BOOLEAN

MessageTypeOK ==
  /\ sem1 \in Nat /\ sem2 \in [Procs -> Nat]
  /\ mq1 \in Seq(Procs)
  /\ mq2 \in Seq([type : {1, 2}, pid : Procs])
  /\ mq3_req \in Seq(Requests) /\ mq3_resp \in Seq(Replies)

WorkerTypeOK ==
  /\ spc \in {"unborn", "ready", "mq2", "signal", "done", "dead"} /\ k_left \in Int
  /\ ppc \in [Procs -> {"unborn", "enqueue", "await", "request", "receive", "quit", "dead"}]
  /\ ref_idx \in [Procs -> Nat]
  /\ mmu_pc \in {"unborn", "recv", "invalid", "fault", "dead"} /\ mmu_pid \in Procs

RecordTypeOK ==
  /\ results \in {"raw", "clustered", "dirty"}
  /\ hits \in [Procs -> Nat] /\ last_ref \in [Procs -> [Pages -> Nat]]

\* The type invariant: also that Master never hands out a frame it does not
\* have (master.c:263-275) and no process reads past its string (process.c:85-92).
TypeOK == TableTypeOK /\ MasterTypeOK /\ MessageTypeOK /\ WorkerTypeOK /\ RecordTypeOK

\* A process runs on the simulated machine from the Scheduler's signal until it
\* faults or ends, and no two do at once (master.c:164, sched.c:58-64).
Running(p) == ppc[p] \in {"request", "receive", "quit"}
OneAtATime == \A p, q \in Procs : Running(p) /\ Running(q) => p = q

\* A process only ever takes the reply to the request it made itself: nothing
\* but the turn-taking says so, every reply has the same message type
\* (process.c:95-97, mmu.c:146-152).
ReplyToRequester ==
  [][\A p \in Procs :
       (Receive(p) /\ ipc) => /\ Head(mq3_resp).pid = p
                              /\ Head(mq3_resp).page = NextPage(p)]_vars

\* When a page takes the frame of another, the one that loses it belongs to the
\* same process, and no page of that process in memory was referenced longer
\* ago (mmu.c:258-306).
VictimIsLeastRecent ==
  [][\A p, q \in Procs : \A v, g \in Pages :
       (/\ v \in Resident(p) /\ valid_bit'[p][v] = 0
        /\ valid_bit[q][g] = 0 /\ valid_bit'[q][g] = 1)
       => /\ q = p
          /\ \A h \in Resident(p) : last_ref[p][v] <= last_ref[p][h]]_vars

\* Master's last part runs from the Scheduler's signal to the removal of the queues.
Reporting == mpc \in {"kill", "reorder", "cleanup"}

\* Master reports only after every process has ended, but for one that has yet
\* to read that its page was illegal, after every other message has been
\* consumed, no page is mapped and every frame is on the free list again
\* (master.c:343-354; mmu.c:113 "Freeing the frames of the process").
QuiescentAtReport ==
  Reporting =>
    /\ \A x \in Frames : free_frames[x] = 0
    /\ \A p \in Procs :
         /\ Resident(p) = {} /\ sem2[p] = 0
         /\ \/ ppc[p] = "dead"
            \/ ppc[p] = "receive" /\ [q \in 1..Len(mq3_resp) |-> mq3_resp[q].pid] = <<p>>
                                  /\ Head(mq3_resp).frame = INVALID
    /\ mq1 = <<>> /\ mq2 = <<>> /\ mq3_req = <<>>

\* What the program looks like from far away: PagedExecution.
Paged == INSTANCE PagedExecution WITH
  Capacity <- F,
  phase    <- CASE mpc \in {"sizes", "illegal", "grant", "fork_sched", "fork_mmu"} -> "setup"
                [] mpc \in {"fork_procs", "wait"} -> "run"
                [] Reporting -> "reported"
                [] OTHER -> "over",
  owned    <- [p \in Procs |-> 0 .. size[p] - 1],
  work     <- ref_str,
  served   <- ref_idx,
  resident <- [p \in Procs |-> Resident(p)]

\* Under the Scheduler's timing every step of the five kinds of process is one
\* step of that execution or none of it (all of Assignment8).
ServesPages == Paged!AbsSpec

\* Nothing writes to results.txt after Master has clustered it (master.c:73).
ReportStays == results # "dirty"

\* Master comes to an end.
Completes == <>(mpc \in {"done", "killed", "sigfpe"})

\* Whoever waits for the Scheduler gets a turn.
TurnComes == \A p \in Procs : (ppc[p] = "await") ~> (ppc[p] # "await")
=============================================================================
