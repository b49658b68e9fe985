------------------------------- MODULE ProdCons -------------------------------
(***************************************************************************)
(* Assignment4: a producer hands items to consumers through two integers   *)
(* of shared memory, M[0] for whom and M[1] the item.  prodcons.c does so  *)
(* without, prodconsV2.c with a semaphore around the accesses; the rest of *)
(* the two programs is the same, and `locked' says which one runs.  Each   *)
(* access to M and each semop is a step.  Consumer k is the process with   *)
(* consumer_number k; the producer's c is the code's c + 1.                *)
(***************************************************************************)
EXTENDS Integers

CONSTANTS N,        \* how many consumers
          T,        \* how many items
          Items,    \* what rand() % 1000 may give
          Versions  \* TRUE: prodconsV2.c, FALSE: prodcons.c

ASSUME ProdConsAssumption == /\ N \in Nat \ {0} /\ T \in Nat
                             /\ \A x \in Items : x \in Nat
                             /\ Versions \subseteq BOOLEAN

Consumers == 1..N

VARIABLES locked,
          M0, M1, semid,              \* the shared memory, the semaphore
          ppc, i, c, item,            \* the producer
          counts, checksum,
          cpc, count, sum             \* the consumers; sum is their checksum

shared == <<M0, M1, semid>>
producer == <<ppc, i, c, item, counts, checksum>>
consumers == <<cpc, count, sum>>
prodConsVars == <<locked, shared, producer, consumers>>

None == [k \in Consumers |-> 0]

Init == /\ locked \in Versions
        /\ M0 = 0 /\ M1 = 0 /\ semid = 1
        /\ ppc = "choose" /\ i = 0 /\ c = 1 /\ item = 0
        /\ counts = None /\ checksum = None
        /\ cpc = [k \in Consumers |-> "test"]
        /\ count = None /\ sum = None

\* P and V; in prodcons.c there is neither.
Take == IF locked THEN semid > 0 /\ semid' = semid - 1 ELSE UNCHANGED semid
Give == semid' = IF locked THEN semid + 1 ELSE semid

-----------------------------------------------------------------------------
ProducerGoes(from, to) == ppc = from /\ ppc' = to

Choose ==
  /\ i < T /\ ProducerGoes("choose", "lock")
  /\ c' \in Consumers /\ item' \in Items
  /\ checksum' = [checksum EXCEPT ![c'] = @ + item']
  /\ counts' = [counts EXCEPT ![c'] = @ + 1]
  /\ UNCHANGED <<i, shared>>

ProducerLock ==
  /\ ProducerGoes("lock", "name") /\ Take
  /\ UNCHANGED <<M0, M1, i, c, item, counts, checksum>>

WriteName ==
  /\ ProducerGoes("name", "put") /\ M0' = c
  /\ UNCHANGED <<M1, semid, i, c, item, counts, checksum>>

WriteItem ==
  /\ ProducerGoes("put", "unlock") /\ M1' = item
  /\ UNCHANGED <<M0, semid, i, c, item, counts, checksum>>

ProducerUnlock ==
  /\ ProducerGoes("unlock", "spin") /\ Give
  /\ UNCHANGED <<M0, M1, i, c, item, counts, checksum>>

\* Mutant of Taken: the producer does not wait for the consumer.
AnyTime == TRUE

Taken == M0 = 0

AwaitConsumer ==
  /\ ProducerGoes("spin", "choose") /\ Taken
  /\ i' = i + 1
  /\ UNCHANGED <<shared, c, item, counts, checksum>>

\* M[0] = -1 is written without the semaphore, in both versions.
WriteEnd ==
  /\ i = T /\ ProducerGoes("choose", "wait") /\ M0' = -1
  /\ UNCHANGED <<M1, semid, i, c, item, counts, checksum>>

\* wait() for every consumer, then the report.
Reap ==
  /\ ProducerGoes("wait", "done")
  /\ \A k \in Consumers : cpc[k] = "exited"
  /\ UNCHANGED <<shared, i, c, item, counts, checksum>>

Producer ==
  /\ \/ Choose \/ ProducerLock \/ WriteName \/ WriteItem \/ ProducerUnlock
     \/ AwaitConsumer \/ WriteEnd \/ Reap
  /\ UNCHANGED <<locked, consumers>>

-----------------------------------------------------------------------------
ConsumerGoes(k, from, to) == cpc[k] = from /\ cpc' = [cpc EXCEPT ![k] = to]

Test(k) ==
  /\ ConsumerGoes(k, "test", IF M0 # -1 THEN "lock" ELSE "exited")
  /\ UNCHANGED <<shared, count, sum>>

\* Mutant of ConsumerLock: V2 without P for the consumers.
NoLock(k) ==
  /\ ConsumerGoes(k, "lock", "match") /\ UNCHANGED <<shared, count, sum>>

ConsumerLock(k) ==
  /\ ConsumerGoes(k, "lock", "match") /\ Take
  /\ UNCHANGED <<M0, M1, count, sum>>

\* Mutant of IsFor: any item will do.
IsForAnybody(k) == M0 > 0

IsFor(k) == M0 = k

Match(k) ==
  /\ ConsumerGoes(k, "match", IF IsFor(k) THEN "read" ELSE "unlock")
  /\ UNCHANGED <<shared, count, sum>>

ReadItem(k) ==
  /\ ConsumerGoes(k, "read", "clear")
  /\ sum' = [sum EXCEPT ![k] = @ + M1]
  /\ count' = [count EXCEPT ![k] = @ + 1]
  /\ UNCHANGED shared

ClearName(k) ==
  /\ ConsumerGoes(k, "clear", "unlock") /\ M0' = 0
  /\ UNCHANGED <<M1, semid, count, sum>>

ConsumerUnlock(k) ==
  /\ ConsumerGoes(k, "unlock", "test") /\ Give
  /\ UNCHANGED <<M0, M1, count, sum>>

Consumer(k) ==
  /\ \/ Test(k) \/ ConsumerLock(k) \/ Match(k) \/ ReadItem(k) \/ ClearName(k)
     \/ ConsumerUnlock(k)
  /\ UNCHANGED <<locked, producer>>

-----------------------------------------------------------------------------
Ended == ppc = "done"

Next == \/ Producer
        \/ \E k \in Consumers : Consumer(k)
        \/ Ended /\ UNCHANGED prodConsVars

Spec == Init /\ [][Next]_prodConsVars

\* Processes run on, and whoever sleeps in P is served in its turn however
\* often the others take the semaphore again: the kernel keeps the sleepers of
\* a semaphore in a queue and V serves its head.
FairSpec == /\ Spec
            /\ SF_prodConsVars(Producer)
            /\ \A k \in Consumers : SF_prodConsVars(Consumer(k))

-----------------------------------------------------------------------------
\* Between the producer's choice and the consumer's reading an item is on its way.
OnItsWay == \/ ppc \in {"lock", "name"}
            \/ ppc \in {"put", "unlock", "spin"} /\ M0 = c /\ cpc[c] # "clear"

Channel == INSTANCE OneSlotChannel WITH
             reliable <- locked,
             slot <- IF OnItsWay THEN <<c, item>> ELSE <<>>

\* Both versions hand over every item once and to the consumer it is for, and
\* never a second one before the first is read; with the semaphore the item
\* read is the item sent, although M[0] names the consumer before M[1] holds it
\* (prodcons.c:126-139, prodconsV2.c:149-167).
HandsOverEach == Channel!ChannelSpec

\* What the programs are to show (prodcons.c:87, 153): in the end the numbers
\* of items agree in both, with the semaphore the checksums too.
ReportsAgree ==
  Ended => counts = count /\ (locked => checksum = sum)

\* The end mark is never overwritten by a consumer's 0, so every consumer sees
\* it and the producer ends (prodcons.c:68, 143).
EverybodyEnds == <>Ended
=============================================================================
