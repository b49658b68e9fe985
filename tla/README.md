# A verification of the Operating Systems Laboratory programs

The repository holds nine laboratory assignments, separate C programs that
practise processes, signals, pipes, shared memory, semaphores, threads and
message queues. This directory keeps TLA+ models of the concurrent ones, TLC
configurations that check them on small instances, and theorems about them
checked by TLAPS.

The sections: [inventory](#inventory), [modules](#modules-and-the-code),
[runs](#runs), [fairness and time](#fairness-and-time),
[disagreements](#where-the-code-does-not-do-what-it-says), [proofs](#proofs),
[what is left out](#what-is-left-out), [plan](#plan).

To check one run: `tlc -config vm_turns.cfg MCVirtualMemory`; to check the proofs
of a module: `tlapm VirtualMemoryProofs.tla`.

## Inventory

### Assignment8, demand paging (master.c, sched.c, process.c, mmu.c)

*State.* Shared memory with k page tables (SHM1) and the list of free frames
(SHM2); message queues MQ1 (ready processes), MQ2 (MMU to Scheduler) and MQ3
(requests and replies of all processes); semaphores for Master and for the
processes; the file results.txt.

*Parts.* **Master** draws table sizes and reference strings, hands out frames in
proportion, forks the others, waits for the Scheduler, ends the MMU, orders
results.txt and removes the IPC objects; SIGINT removes them at once.
**Scheduler** takes the oldest process of MQ1, signals it, and waits for a message
on MQ2: a fault or an end. **Process** queues itself, waits for its turn, and asks
the MMU for one page after the other; after a fault it queues again.
**MMU** answers each request: a frame, a fault that it has handled in the meantime
(a free frame, or the least recently used page of the same process), or
"illegal page".

*Hard.* Every reply has the same message type; no result of a system call is
looked at; the order of the reply, the freeing of frames and the message to the
Scheduler; the rounding of the shares; starvation of a process without a frame;
what is left by an interrupt.

*Right when* no frame serves two pages; processes run in turn and read their own
replies; a replacement takes the least recently used page; Master reports at the
end, on a system at rest with all its frames back.

### Assignment7, foothread and computesum

*State.* A table of threads, `active_joinable_threads`, `total_threads`, a mutex
made of a semaphore, barriers made of two semaphores and a count; computesum adds
a tree with a partial sum per node.

*Parts.* **foothread_barrier** lets nobody pass before all have come;
**foothread_create / exit / mutex** start threads with clone, and make leader and
followers meet at the end; **computesum** runs one thread for each node of a tree and
adds up the numbers typed at the leaves. **gentree** writes a random tree.

*Hard.* Tokens of a barrier used again; locks held while waiting; a status read
from the wrong table entry; counts read without the mutex; the same semaphores
removed twice.

*Right when* a barrier opens only with everybody in it, no thread's work is cut off,
semaphores are removed only when nobody needs them, everything ends, and the root's
sum is complete.

### Assignment6, the doctor's session (session.c, event.c, arrival.c)

*State.* A heap of arrivals; the session's phase; cur_time; per kind of visitor
(patient, reporter, sales representative) counters, a flag, a mutex and a
condition; flags and conditions of doctor, assistant and session.

*Parts.* The **assistant** (main) starts a thread for each visitor that has arrived,
up to a quota per kind, and wakes the doctor; the **doctor** calls reporters before
patients before sales representatives; a **visitor** moves cur_time on by its
visit. **event.c** keeps the heap; **arrival.c** writes a random list of arrivals.

*Hard.* cur_time is written under four different mutexes; flags written after the
unlock; the doctor waits for a visit with doc_sleep_mutex held; the process ends
under other threads; a day with too few visitors.

*Right when* there is one visitor at a time, the most urgent of those who have
arrived, no idle time while somebody waits, nobody is left when the doctor
leaves, and the day ends.

### Assignment5, topological sort (boss.c, worker.c)

*State.* Shared segments A (the matrix), T (the array) and idx; semaphores sync
(one for each node), mtx and ntfy.

*Parts.* **boss** reads the graph, sets the semaphores, waits for n notifications and
checks the array; a **worker** for each node waits for its predecessors, appends its
node under the mutex, tells its successors and notifies boss. **gengraph** writes a
random graph.

*Hard.* The counts of the semaphores, the mutex around T and idx, workers that come
too early, cycles.

*Right when* the array is a topological order, and on an acyclic graph boss ends
satisfied.

### Assignment4, producer and consumers (prodcons.c, prodconsV2.c)

*State.* Two cells of shared memory: M[0] says for which consumer there is an item, 0 if
for nobody, -1 at the end; M[1] is the item. V2 has a semaphore around the accesses.

*Parts.* The **producer** makes t items for consumers drawn at random, waits until each is
taken, and writes the end mark; a **consumer** polls M[0] for its number. At the end they
print how many items and what sum went to each consumer.

*Hard.* M[0] is written before M[1]; the end mark and the producer's polling are outside
the semaphore, which the consumers take all the time.

*Right when* each consumer gets each of its items once and unaltered, both sides report the same,
and everybody ends.

### Assignment2, job manager (mgr.c, job.c)

*State.* The process table with its statuses, `total_jobs`, `sus_jobs`, and `pid`, the
job in the foreground or -1.

*Parts.* **main** runs, continues and kills jobs, and waits for the one in the foreground;
the **handlers** of Ctrl-C and Ctrl-Z send it the signal and write its status.

*Hard.* Handlers between any two steps of main: before a job is in the table, between
SIGCONT and the update of the status, after the job has ended or stopped; waitpid,
which must come back when the job has ended or stopped, and only then.

*Right when* a job runs only in the foreground, statuses and `sus_jobs` tell
which jobs are suspended, and the prompt always comes back.

### Assignment3, command and execute processes (CSE.c)

*State.* Two processes with a mode each, a pipe of commands, a pipe of swaproles, the
O_NONBLOCK flag of the latter's reading end, and what stdio has read ahead.

*Parts.* The **supervisor** starts both; the one in **command mode** passes on
what is typed; the one in **execute mode** polls both pipes; swaprole exchanges the modes.

*Hard.* Two pipes have no common order; the flag belongs to the open file and so to
both processes; read-ahead survives the swap.

*Right when* one process reads commands, each command is executed once and in order, and
exit ends both.

### Assignment9, directory synchronisation (main.c)

*State.* Two directory trees, and the recursion over them.

*Parts.* **sync_directories** copies what is missing or differs in size or time, removes
what is in the way, then sets times and permissions and removes what the source
does not have (**rec_rmdir**).

*Hard.* A run that is killed between two system calls; files that look alike; open that
fails; times spoilt by later changes.

*Right when* a complete run makes the destination equal to the source, whatever earlier runs left, and
the next run finds nothing to do.

### Not modelled

* Assignment1 (proctree.c): a sequential recursion; each process forks one child at a time
  and waits for it.
* The generators (gengraph.c, gentree.c, arrival.c): sequential; their outputs are
  among the models' inputs.
* Material: examples of single system calls.

## Modules and the code

| Component | Model | Abstract specification | Model values | Proofs |
|---|---|---|---|---|
| Assignment8 | PageTables, VirtualMemory | PagedExecution | MCVirtualMemory | VirtualMemoryProofs |
| Assignment7 barrier | FooBarrier | Rendezvous | | FooThreadProofs |
| Assignment7 threads | FooThread | | MCFooThread | FooThreadProofs |
| Assignment7 computesum | ComputeSum | | | ComputeSumProofs |
| Assignment6 | EventQueue, Session | | MCSession | SessionProofs |
| Assignment5 | TopoSort | TopologicalOrder | MCTopoSort | TopoSortProofs |
| Assignment4 | ProdCons | OneSlotChannel | | ProdConsProofs |
| Assignment2 | JobManager | | | ShellProofs |
| Assignment3 | CommandExecute | | | ShellProofs |
| Assignment9 | DirectorySync | | MCDirectorySync | DirectorySyncProofs |

Names of variables are those of the code where it has one. A variable that the code
does not have is a place (`pc`, `mpc`, ...: where each process or thread is) or a
history (`hits`, `last_ref`, `passed`, `results`), which no action reads in a guard.

**PageTables** is SHM1 and SHM2: `size`, `frame`, `valid_bit` and `lru_counter` are the
fields of the tables, `free_frames` is the list with its end mark -1. Its actions are
what master.c and mmu.c do to them: `Grant` (the flat loop that runs on into the next
table when a share is larger than the table), `Touch`, `LoadInFreeFrame`,
`ReplaceOwnPage`, `NoFrameForFault`, `Release`.

**VirtualMemory** extends it with Master (`ChooseTable` to `Cleanup`, `Interrupt`), Scheduler
(`Dispatch`, `ReceiveFromMMU`, `SignalMaster`), processes (`Enqueue` to `Quit`) and the MMU's
branches. An action reaches to the next system call that somebody else can see: a
reply, the freeing of frames and the message to the Scheduler are three actions, in
the code's order. MQ3 is two queues, one for each message type. `ipc` says
whether the queues still exist; after that sends are lost and receives return at once
with a zeroed buffer.

**PagedExecution** says what this amounts to: each process is served its pages in order, only
pages in memory, which never holds more than f; a page goes out only when memory is
full, for a page of the same process; the report comes when all are through.

**FooBarrier** has one action for each semop and access to the count, and each thread calls
the barrier `Rounds` times. **Rendezvous** says what the code guarantees of a barrier that is used again: it opens
when all are in it, for as many returns as there are threads, none of which is
left at the next opening. It does not say that each call gets one return of its own opening, because
that is not so: `Robbed` is the state in which a thread that came back has taken the
token of one that still sleeps, which then sleeps for good. The first call of each thread is safe
(FirstCallsMeet), and the library and computesum call each barrier once; so **FooThread** and ComputeSum take a
barrier as one meeting: `arrived[i]` is who has come to barrier i. What a thread does
under the mutex between two waits is one action, except where the other
side reads without it (`total_threads` in `Check`). An unlock fails for a thread that is not the owner or after the
removal (`CannotUnlock`), a lock and a second removal after it, and the process
then ends with 1. **ComputeSum** is t_main;
a step leads from one barrier or lock to the next.

**Session** has an action for each stretch that a thread runs under a mutex. A thread in
pthread_cond_wait is "asleep"; a signal sends one sleeper back to lock the mutex and test
its flag, which another thread may have changed first. Only the doctor keeps
doc_sleep_mutex over several steps, so the mutex is free unless the doctor is in
one of them, and the assistant's turn is one step plus `ClearFlag`, the write after
the unlock. A kind's mutex is held by the visitor that is `Inside`.
What the code repeats for three kinds is a function on the kinds.
**EventQueue** is the heap of event.c, node by node, from index 1; its recursions are functions on
the queues and nodes of one length, so that they can be reasoned about.

**TopoSort** has an action for each semop and each access to idx and T; the successors are
told in the order of their numbers. **TopologicalOrder** lets a sequence grow by a node whose
predecessors are in it; the refinement maps the order to the first idx cells of T.

**ProdCons** has both versions, told apart by `locked`: a step is one access to M[0] or M[1] or
one semop. **OneSlotChannel** hands over one item at a time to the consumer it is for; a reliable
one hands over what was given, one that is not hands over any value. Both versions implement it, V2 the
reliable one: in V1 a consumer may read M[1] before the item is there, but never another's item
and never twice.

**JobManager** has main's steps between which a handler can make a difference. `handlers` is the stack of
handlers that run, as each signal is blocked only in its own handler; one finds its job (`Deliver`), passes the
signal on (`PassOn`) and updates the table (`HandlerReturns`), and the other may come before each of these. The effect of kill on
a job, waitpid's answers and the restart of waitpid (glibc's signal() sets SA_RESTART)
are external. An uninitialised `child_it` (mgr.c:24, 42) is any other row, row 0 which
counts for nothing, or a crash.

**CommandExecute** models stdio's read-ahead (`stdin`), since the descriptor under it changes and
the buffer stays, and `nonblock` as one flag, since both processes inherit one open file.
A process that has called read on the empty pipe while the flag was off is "blocked" and
stays so whatever becomes of the flag.

**DirectorySync** has a step for each system call that changes the destination, with the stack of
calls, and the order in which readdir lists entries is open. The trees of the first run are any that a file
system can hold (`TreeAssumption`, `Trees`): only files have data, only directories have entries. `Kill` begins main again on what is
there. Everything happens in one second NOW, which is also a time that files may already have.

## Runs

| Run | Instance | Shows |
|---|---|---|
| vm_turns | 2 processes, 3 pages, 3 frames | `TypeOK`, `OneAtATime`, `ReplyToRequester`, `VictimIsLeastRecent`; `QuiescentAtReport`: at the report nobody runs, is queued or holds a frame; PagedExecution is implemented (`ServesPages`); Master ends (`Completes`) and no process waits forever (`TurnComes`) |
| vm_untimed | 2 processes, 2 entries, 1 frame, a leftover semaphore set, no timing | `FramesExclusive` although all processes run at once and read each other's replies |
| vm_report_written | 2 processes, 2 pages, 2 frames | violation: the MMU writes to the finished report |
| barrier_reused | 4 threads, 3 calls each | `BarrierTypeOK`; refinement of Rendezvous (`OpensForAll`); everybody returns from every call, or the run is in `Robbed`, which it reaches (`EverybodyPasses`) |
| foothread_exit | 3 joinable or 3 detached threads, slow or fast work | `WorkCompleted`, `LeaderJoinsAll`; `RemovedAfterUse`: nothing is removed and no lock or unlock fails before everybody has left the count, and then somebody does remove; `Ends`: everybody ends, or, if work may be fast, leader and last joinable follower wait for each other |
| sum_trees | every tree of 4 nodes | `ChildrenFirst`, `RootSum`, `SumEnds` |
| session_day | 546 days (1-3 patients, a reporter, 0-2 sales representatives) with quotas 2 and 1 | `QueueInOrder`, `OneInChamber`, `UrgentFirst`, `NoIdleTime`; `LeavesLast`: the doctor leaves after the last started visitor, having seen exactly the quotas; `DayEnds` |
| topo_sort | all 512 graphs on 3 nodes | `SortTypeOK`, `BossSatisfied`, refinement of TopologicalOrder, `BossEnds` for acyclic graphs |
| prodcons | both versions, 2 consumers, 3 items | `ReportsAgree`, refinement of OneSlotChannel (`HandsOverEach`), `EverybodyEnds` |
| jobs | 3 jobs, 4 signals | `OneInForeground`, `BooksAreRight`, `PromptComesBack` |
| cse | 3 commands, 3 swaproles, exit | `OneCommander`, `ExecutedOnce`, `ExitEnds` |
| dirsync | all pairs of trees with 3 paths and 6 kinds of node, 2 kills | `Mirrors`, `SecondRunChangesNothing` |

Deadlock is checked in all passing runs. Where a program really stops for good the
model says so with a stuttering step and an exact description of that state: `Stuck` in
TopoSort, `Stalled` in Session, `Deadlocked` in FooThread, `Robbed` in FooBarrier, `Over` in CommandExecute.

*Why the bounds are enough.* Two processes suffice for a stolen reply, a shared
frame and a wrong turn, which each concern two actors; three pages tell
least-recently-used from first-in-first-out, and three frames let a process hold some
while it replaces one. A token is stolen by a thread two calls ahead of the one it is stolen from: three calls let
that happen at the last opening and before it, and four threads leave others to go on. The reference strings (MCVirtualMemory) hit, fault, replace and ask
again for a replaced page. Trees with four nodes include chains, stars and
the mixtures; graphs on three nodes include joins, forks, chains and
cycles. The days have a visitor before, at and after the session's begin,
one patient and one sales representative too many, or one too few, and two events alike; heaps of
up to six events have nodes with one child. Three items let one consumer get two in a row and the other
wait, or each be in turn. Four signals reach a handler inside the other's, a second Ctrl-Z before
waitpid has reported the first, and two suspended jobs, with a third in the foreground. Three
swaproles bring each process back to each role, with commands read ahead on the way. Three paths give a
directory with an entry and a neighbour; the files include two that look alike, a read-only one
and one of two blocks, so that a kill leaves it half written, and two kills let a run
meet what a killed rerun left. Bounds on counters: `MaxAge` stops
the MMU's endless requests of itself after the queues are removed, `QueueCap` is
the room of MQ1 and MQ2.

## Fairness and time

Every fairness condition is weak fairness of one process or thread (`FairSpec` of each
module): the kernel runs whoever is not blocked and serves the semop, message
or condition that can go on. Nothing is assumed about the order of wake-ups, but in ProdCons: its processes are strongly fair, which matters at P
only, since Linux serves the sleepers of a semaphore in the order they came; with
weak fairness the polling consumers could keep the producer out for ever. The workers of
Assignment5 are all started (dowork does), and somebody types at computesum's
prompts. At the prompts of mgr and CSE nobody has to type anything, and SIGINT, Ctrl-Z, a kill and a
closing terminal are never fair.

Two constants stand for durations the programs rely on:

* `SleepOrders` (VirtualMemory): the Scheduler's 10 ms sleep (sched.c:49) outlasts the
  delivery of a reply that was already sent. vm_turns takes it, vm_untimed
  does not; the theorems that need it say so (`Timed`).
* `Paces` (FooThread): whether the followers' work outlasts the leader's way to its barrier,
  as it does when computesum's followers read the keyboard (`slow`). foothread_exit has
  both; only with fast work may the program stop at `Deadlocked`.

## Where the code does not do what it says

A run with a counterexample:

* **The report after the report (mmu.c:100).** The MMU takes a failed msgrcv for a
  request for page 0 of process 0 and writes to results.txt after Master has clustered it.

Seen while modelling, and not among the runs, or there only as an exception that a property names:

* Replies carry the process's id, which nobody looks at (mmu.c:146); only the Scheduler's
  sleep keeps a second process from taking another's reply. Without `SleepOrders`
  `ReplyToRequester` fails.
* "Resetting the barrier" (foothread.c:301) does not make it fit for use again: the count is
  reset while threads have yet to take their tokens, which do not say for whom they are. A
  thread that returns and calls again may take one of them; whom it was for sleeps on, and for good if nobody
  comes any more. barrier_reused reaches this from two calls on (`Robbed`).
* total_threads is read after the unlock (foothread.c:138, 189): a thread that left earlier may read 0
  and remove the mutex under the one that is unlocking it, and several may remove, so that the process ends
  with 1 instead of 0. It only happens when all have left the count (`RemovedAfterUse`).
* The last joinable follower waits for the leader with the mutex that the leader needs to get there
  (foothread.c:169, `Deadlocked`).
* prodcons.c: a consumer may read M[1] before the item is written (126, 134), and the
  checksums then differ. prodconsV2.c never removes its semaphore.
* mgr.c: a Ctrl-Z between SIGCONT and the update of the status is overwritten by "FINISHED" (143-144):
  the job is stopped and not listed. Two Ctrl-Z, or a Ctrl-Z after the job's end, before waitpid
  reports make `sus_jobs` too large, and continue then offers nothing to pick. A signal
  before the job is in the table uses an uninitialised index (24, 42).
* CSE.c: O_NONBLOCK is shared; when the new commander clears it last (174), the new
  executor's read waits for a swaprole, commands wait with it, and exit ends only one process
  (`Over`). A swaprole is read over a command just scanned, which is lost (154-157); one read ahead is sent
  again and executed out of order. A command that execlp cannot run leaves
  the child as another executor (190).
* main.c of Assignment9: a destination that is a directory where the source has a file stays (89);
  a read-only one keeps its contents and still gets the source's time, so that one of the same size
  is taken for up to date from then on. A read-only file whose copy was killed stays half written.
  `Obstructed` names these cases.
* boss returns without removing segments and semaphores when the order is wrong (boss.c:115).
* master.c:254 divides by m - m_i, which is 0 for a process with all m pages: the
  trap is the end "sigfpe" of VirtualMemory.
* With more frames than pages a share overruns its table (master.c:270), and the frames in
  entries past `size` are never given back.
* A set of semaphores that an interrupted run left makes semget fail for a larger k, and
  every semop after it; all processes then run at once (`LeftBehind`, vm_untimed).
* In foothread_exit() a follower goes by the status of the thread created last
  (foothread.c:150). With joinable threads and a detached one created last,
  a joinable one does not wait for the leader, and the first exit, which is
  exit_group, ends the process under the others.
* A session with too few visitors never ends (session.c:122-134, `Stalled`).

## Proofs

The theorems hold for every value of the constants, or those the table names. They assume only the named
assumptions of the modules (positive numbers of processes and pages, finite sets of
threads, well-formed inputs), which TLC evaluates on the runs' instances.

| Theorem | States | Argument |
|---|---|---|
| VirtualMemoryProofs!TypeCorrect, NoFrameShared | `TypeOK`, `FramesExclusive` for all k, m, f, strings, timing and leftovers | `IInv` adds `Planned` (what Master's loops have summed up so far: the shares given out are at most the part of f that is due) and `InString` (nobody runs before it is forked, and whoever asks has a page left to ask for). A lemma for each operation on the tables comes first |
| VirtualMemoryProofs!OneRunsAtATime, RepliesReachTheirAsker | `OneAtATime`, `ReplyToRequester` for all k, m, f and strings, under `Timed` | `TurnsInv`: one turn passes from the Scheduler's signal over the process and its request to the MMU and the message that ends it; each link names what is empty or idle meanwhile. `LiveInv`: k_left counts those that have not ended or whose end the Scheduler has yet to hear of |
| VirtualMemoryProofs!AllBackAtReport | `QuiescentAtReport`, under `Timed` and `Enough` | `MappedInv`: a frame in use is that of a page below `size`; `ReleasedInv`: whoever the Scheduler hears has ended holds no page; `ReadyInv`: the ready queue names waiting processes, once each |
| VirtualMemoryProofs!LeastRecentlyUsedGoes | `VictimIsLeastRecent`, under `Timed` | `OrderInv`: the counters of the pages of a process order them as its last references do, but for the page it asks for next, which a fault brings in with a counter of 0; that page is never there when a victim is chosen. `LateInv`: after the queues are removed no victim is |
| VirtualMemoryProofs!ImplementsPagedExecution | `ServesPages`, under `Timed`, if `DrawnEnough` always holds | With all of these, `EndInv`: who ends has come to its end, and a reply without a fault is about a page in memory. Pages in memory are counted by the injection into the frames, onto when none is free |
| VirtualMemoryProofs!TurnIsNeverLost | While Master waits, somebody else can go on, for all k, m, f, strings and sizes of the queues, under `Timed` | `RoundInv`: while the Scheduler waits for the MMU somebody has the turn (`TurnHeld`); who awaits its turn is in the ready queue or has been signalled; the Scheduler waits for the ready queue only while k_left counts somebody. If nobody could go on all would be dead and nobody counted |
| FooThreadProofs!BarrierTypeCorrect, AllAreInWhenItOpens | `BarrierTypeOK`, and `OpensForAll`, the refinement of Rendezvous, for any number of threads and calls | `BarrierInv` ties the mutex to who is inside and bounds the count; `TokensInv`: the count and the tokens together are as many as the threads asleep, so a full count leaves no token and nobody outside |
| FooThreadProofs!FirstCallsMeet | Nobody returns from its first call before all have been counted in one, for any number of threads and calls | `FirstInv`: the same of the tokens, which are there only after a first opening |
| FooThreadProofs!OnlyTheRobbedSleep | Somebody in the barrier can go on until everybody has returned from every call, or it is `Robbed`, for any number of threads and calls | `GroupsInv`: all returns, tokens and those about to return together are a multiple of the number of threads; if all who have not finished sleep and there is no token, the missing returns are such a multiple, so one sleeper lacks at least two |
| FooThreadProofs!RemovedWhenAllHaveLeft | `RemovedAfterUse` for any number of threads of any statuses | `HolderInv`: who is between lock and unlock has the mutex, so that its unlock does not fail; `CountInv`: total_threads is the number of those created that have not yet left, so that it is 0 when all have read it |
| FooThreadProofs!NoWorkIsCutOff, LeaderJoins | `WorkCompleted`, `LeaderJoinsAll` for any number of threads of one status (`OneStatus`), at any pace | `JoinableInv`: the count of joinable threads is the number of those still at work, none is left at work when one calls the leader, and the leader's joins go through the table in order, each meeting a follower that has come |
| FooThreadProofs!OnlyEarlyWorkBlocks | While the process runs somebody can go on, or it is at `Deadlocked`, and never there if the work is slow; for any number of threads of one status | `Ready`: each thread is on the way its status gives it (`WaysInv`), slow work ends only after the leader waits (`PaceInv`), and who has come to which barrier (`CameInv`, `DetachedInv`) |
| ComputeSumProofs!CompletePartialSums | `ChildrenFirst` for all trees | `ArrivedInv`: at a node's barrier are only the node and those of its children that have added; a full barrier then has all of them |
| ComputeSumProofs!RootPrintsTheSum | `RootSum` for all trees and inputs | `SumInv`: the nodes that have not passed their sums on hold together what the leaves do, and the one that is about to add has seen its parent's sum as it still is. First, sums over finite sets: that the recursion of `MapThenSumSet` has a solution, in whatever order it adds |
| ComputeSumProofs!SomebodyGoesOn | Somebody can go on until all have ended, for all trees, if anything can be typed | `HereInv`: who is past a place has come to its barriers. If nobody could go on, all would be at the barriers above the leaves, and the lowest node that is at its own has all its children there |
| SessionProofs!OneVisitorAtATime | `OneInChamber` for all days and quotas | `IInv`: called kinds and visitors inside are at most one together (`Single`), keep the session going (`KeepsOn`), and are none while the doctor is elsewhere (`Idle`) |
| SessionProofs!QueueIsAHeap | `QueueInOrder` for all days: lists of any length | What the operators compute, for every list: from node j on every node precedes its children (`Heap`); `SiftDown` repairs a heap whose hole is at k (`HeapBut`), by induction on the nodes that are left below; so initEQ builds a heap and delevent keeps it, with everybody in it once. `QueueInv` adds the totals |
| SessionProofs!DoctorLeavesLast, TimeNeverWaits | `LeavesLast`, `NoIdleTime` for all days and quotas | `RoomInv`: those of a kind that are started are as many as the smaller of total and quota. `WaitInv`: the threads that wait are the ones counted and the one called, and who is queued has no thread; so nobody waits when the counts are 0 and the doctor is elsewhere. `TimeInv`: before the session nothing happens, and nobody is started before its time |
| SessionProofs!UrgentAreCalledFirst | `UrgentFirst` for all days and quotas | `CallInv`: from the assistant's wake-up to the call no time passes, and all in the queue are later than now, as the first of the heap is |
| SessionProofs!OnlyTooFewStall | Assistant, doctor or a visitor can go on until the day is over, unless it is `Stalled`, for all days and quotas | `TurnsInv`: that the assistant sleeps exactly while the doctor is up (`TurnInv`), that of a called kind somebody is on the way in (`ComesInv`), that the doctor sits in a session with nobody only while nobody is there and the quotas are not reached (`AloneInv`), and that the totals count who was taken from the queue (`TotalsInv`) |
| TopoSortProofs!SortTypeCorrect, BossIsSatisfied | `SortTypeOK`, `BossSatisfied` for all n and graphs | `IInv`: a semaphore is n less the predecessors that have not told (`SyncInv`), one worker has the mutex (`MutexInv`), the first idx cells are the placed nodes in order (`PlaceInv`), ntfy counts the finished (`NotifyInv`) |
| TopoSortProofs!ArrayIsTopologicalOrder | `GrowsInOrder`, the refinement, for all n and graphs | Only `Advance` changes the mapped order, by T[idx], whose predecessors have told and so are placed |
| TopoSortProofs!OnlyCyclesBlock, EveryStepCounts | Boss or a worker can go on until boss returns, unless the graph has a cycle (`Stuck`); each step takes something off a finite set of things to do. Together: on an acyclic graph boss returns, if steps that can be taken are taken | If all wait, a first waiting node of an acyclic graph has been told by all its predecessors, and its semaphore is n; `HeldInv` says who has the mutex. The things to do are pairs of a process and a step or an edge |
| ProdConsProofs!BothSidesAgree | `ReportsAgree` for any number of consumers and items, any values, both versions | `IInv`: the semaphore is held by the one that is in its section (`LockInv`), M[0] and M[1] say where the item on its way is (`SlotInv`), counts differ by the item on its way (`CountInv`), and with the semaphore sums too (`SumInv`) |
| ProdConsProofs!NobodyWaitsInVain | Somebody can go on until the producer has ended, and what each wait is for can still come (`WaitsAreAnswered`), for any number of consumers and items, both versions | `TakenInv`: a taken semaphore is with somebody who is inside; `StayInv`: no consumer leaves before the end mark |
| ProdConsProofs!ImplementsChannel | `HandsOverEach`, the refinement of OneSlotChannel | The same invariant: an item is handed over when its consumer reads M[1], which with the semaphore holds it |
| ShellProofs!JobsRunInForeground | `OneInForeground` for any number of jobs and signals | `PidInv`: what main has in `pid` at each of its steps, and which rows are taken; `HandlerInv`: whom a handler signals, the job in the foreground or, by an uninitialised index, any row |
| ShellProofs!SuspendedJobsAreKnown | `BooksAreRight` for any number of jobs and signals | `CountInv`: `sus_jobs` is at least the number of jobs to pick, as each step adds to the count before or with the list; `QuietInv`: until a signal comes at another moment than under waitpid, at most one handler runs, and only the row of the foreground job is unsettled |
| ShellProofs!RoleIsHeldOnce | `OneCommander` for any number of commands and swaproles | With `ExitInv`, that nobody holds an exit before one is typed; only `TypeSwaprole`, `TakeSwap` and `TypeExit` disturb it |
| ShellProofs!StopsOnlyAfterExit | A process can go on until exit has been typed, for any number of commands and swaproles | If both waited for a swaprole with none in the pipe, nobody would hold the role, against `OneCommander` |
| ShellProofs!CommandsAreExecutedOnce | `ExecutedOnce` for any number of commands and swaproles | `OnceInv`: a command is in one place, executed, read ahead by one process, or in the pipe. `OrderInv`, until somebody swaps too early: one process has commands ahead, and these and the pipe's are the next ones up to the last typed, with exit behind them |
| DirectorySyncProofs!DirectoriesAreMirrored | `Mirrors` for any names, paths, trees of any depth, contents and number of kills | `SyncInv`. The calls on the stack are those of one path from the root (`StackInv`); what call i has done with its first loop is there with its contents and right below (`CopiedInv`), what it has done with its second loop is right (`SettledInv`); a file is either as it should be, or still seen to differ and writable, or obstructed (`FileInv`), also when a run is killed over it. First, paths: what is below a directory is below one of its entries; then, what each step does to dst: nothing but below its own entry, and to the time of the directory that is in (`AtEntry`) |
| DirectorySyncProofs!SecondRunIsIdle | `SecondRunChangesNothing`, likewise | `AgainInv`: dst is src, or something is obstructed; every step that would change dst is disabled where they agree |

`TypeOK` alone is not inductive: that the frames handed out are at most f depends on sums of
rounded quotients over earlier iterations of Master's loop, which `Planned` carries.
`Timed` is `SleepOrders` and semaphores that can be had; without it, two processes run at
once and read each other's replies, as they do in vm_untimed. `Enough` says that Master drew at least as many pages as it has frames
(`DrawnEnough`: once all are drawn): frames granted past a table are never given back and serve nobody.
Inductions over data, for the heap, the sums of computesum's trees and the paths of Assignment9, are by a smallest counterexample, which a
nonempty set of numbers has since < is well-founded on them.
`FramesExclusive` needs that the marks Master sets lie in the list, which is in
`TypeOK`. In TopoSort, that T is in order needs the semaphores' values, which need the
sets `left` of each worker.

Only model-checked: liveness (`Completes`, `TurnComes`, `EverybodyPasses`, `Ends`, `SumEnds`,
`DayEnds`, `BossEnds`, `EverybodyEnds`, `PromptComesBack`, `ExitEnds`), which the prover cannot do under fairness.
Of these the safety half is proved for every value of the constants where several processes wait for each other
(all of Assignment4 to 8, and CSE.c): in every reachable state that is not an end or a dead end named in the
model, somebody's guard holds. ENABLED is out of the prover's reach too, so these theorems restate the guards (`...MayGo`); the
deadlock check of the runs and the comparison of each `MayGo` with the action it belongs to keep them honest. Only TopoSortProofs adds
a measure (`LessTodo`); elsewhere that going on leads to the end stays with TLC, as it does for the two
programs in which one process waits for its children or nobody waits (mgr.c, Assignment9).

Every invariant and action property
of the runs, and every refinement, is proved (`VictimIsLeastRecent`, `ServesPages`, `WorkCompleted` and
`LeaderJoinsAll` under the conditions the table names); the finding of vm_report_written stays with its run.

## What is left out

* Texts printed, and the page-fault counters and timestamp of Assignment8, which are only
  added to and printed.
* SIGINT at the MMU is its death: the handler's change of one byte of a buffer before
  that is not modelled. After an interrupt of Master the MMU only dies. `Cleanup` is one step: an
  interrupt between its removals (master.c:358-369) finds no segment, and the handler dies of it (51).
* C's integer overflow: the integers of the models are unbounded; f would have to
  make segments of gigabytes. f = 0, with which every process faults forever, is left to
  the theorems, which cover it.
* More than 100 threads (foothread.c:72), more than 20 reporters (session.c:387), more than
  128 events (event.c:33): writes past arrays.
* Workers started before boss says "Setup done".
* Failing system calls other than those on removed or unobtainable IPC objects.
* mgr.c: input of more than one letter, which overruns `input` and `name`; a signal to the child
  between fork and exec, when it still has mgr's handlers; choices that were not listed, unless
  nothing was; picking row 0, mgr itself.
* CSE.c: the end of a terminal's input, several words on a line, commands that fail to
  execute or that read the pipe themselves.
* Assignment9: access times, symbolic links, directories one may not write to or search, full disks,
  the umask, and changes by others during the run. After a chmod a directory in a file's place is not
  entered again, so its mode does not matter.
* prodcons with no consumers.
* SEM_UNDO (foothread.c): threads end with exit_group, so there is nothing to undo for
  anybody.
* The reading of files and of arguments; initial states are what they can hold.

## Plan

Written, in this order: Assignment8 (PageTables, VirtualMemory, its abstract
specification and proofs), Assignment7 (barrier, threads, computesum), Assignment5,
Assignment6, Assignment4, Assignment2, Assignment3, Assignment9. No component whose
steps can interleave, fail or be interrupted is left.

Next:

1. CommandExecute with commands that cannot be executed, and so more than one executor.
2. Mixed statuses in FooThread, with what holds of the detached threads then.
