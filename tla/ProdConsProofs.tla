---------------------------- MODULE ProdConsProofs ----------------------------
(***************************************************************************)
(* For any number of consumers and items, both versions of Assignment4     *)
(* implement OneSlotChannel and report the same numbers on both sides, and *)
(* somebody can go on until all is done.                                   *)
(***************************************************************************)
EXTENDS ProdCons, TLAPS

ProducerPlaces == {"choose", "lock", "name", "put", "unlock", "spin", "wait", "done"}
ConsumerPlaces == {"test", "lock", "match", "read", "clear", "unlock", "exited"}

\* The type invariant, proved with the rest of IInv.
ProdTypeOK ==
  /\ locked \in BOOLEAN
  /\ M0 \in Consumers \cup {0, -1} /\ M1 \in Items \cup {0} /\ semid \in {0, 1}
  /\ ppc \in ProducerPlaces /\ i \in 0..T /\ c \in Consumers /\ item \in Items \cup {0}
  /\ counts \in [Consumers -> Nat] /\ checksum \in [Consumers -> Nat]
  /\ cpc \in [Consumers -> ConsumerPlaces]
  /\ count \in [Consumers -> Nat] /\ sum \in [Consumers -> Nat]
  /\ ppc \in {"lock", "name", "put", "unlock", "spin"} => i < T

ProducerIn == ppc \in {"name", "put", "unlock"}
ConsumerIn(k) == cpc[k] \in {"match", "read", "clear", "unlock"}

\* In V2 at most one is between P and V, and semid says whether there is one.
LockInv ==
  locked => /\ ProducerIn => semid = 0 /\ \A k \in Consumers : ~ConsumerIn(k)
            /\ \A k \in Consumers : ConsumerIn(k) => semid = 0
            /\ \A j, k \in Consumers : ConsumerIn(j) /\ ConsumerIn(k) => j = k

\* What M holds at each place of the producer, and who may be at the item.
SlotInv ==
  /\ M0 \in Consumers => M0 = c /\ ppc \in {"put", "unlock", "spin"}
  /\ M0 = -1 <=> ppc \in {"wait", "done"}
  /\ \A k \in Consumers : cpc[k] \in {"read", "clear"} => M0 = k
  /\ ppc \in {"lock", "name", "put", "unlock", "spin"} => item \in Items
  /\ locked /\ ppc \in {"unlock", "spin"} => M1 = item

\* What was sent is what was received and what is on its way.
CountInv == \A k \in Consumers :
  counts[k] = count[k] + IF OnItsWay /\ c = k THEN 1 ELSE 0

SumInv == locked => \A k \in Consumers :
  checksum[k] = sum[k] + IF OnItsWay /\ c = k THEN item ELSE 0

IInv == ProdTypeOK /\ LockInv /\ SlotInv /\ CountInv /\ SumInv

-----------------------------------------------------------------------------
\* Consumers have positive numbers, so neither 0 nor -1 names one.
LEMMA ConsumersPositive == 0 \notin Consumers /\ -1 \notin Consumers /\ 1 \in Consumers
  BY ProdConsAssumption DEF Consumers

\* Items are numbers, so the sums stay numbers.
LEMMA ItemsAreNumbers == \A x \in Items \cup {0} : x \in Nat
  BY ProdConsAssumption

LEMMA InitIInv == Init => IInv
  <1> SUFFICES ASSUME Init PROVE IInv
    OBVIOUS
  <1> USE ConsumersPositive, ProdConsAssumption
  <1>1. ProdTypeOK
    BY DEF Init, None, ProdTypeOK, ProducerPlaces, ConsumerPlaces
  <1>2. LockInv /\ SlotInv
    BY DEF Init, LockInv, SlotInv, ProducerIn, ConsumerIn
  <1>3. CountInv /\ SumInv
    BY DEF Init, None, CountInv, SumInv, OnItsWay
  <1>4. QED BY <1>1, <1>2, <1>3 DEF IInv

LEMMA TypeStep == ProdTypeOK /\ LockInv /\ [Next]_prodConsVars => ProdTypeOK'
  <1> SUFFICES ASSUME ProdTypeOK, LockInv, [Next]_prodConsVars PROVE ProdTypeOK'
    OBVIOUS
  <1> USE ConsumersPositive, ItemsAreNumbers
     DEF ProdTypeOK, ProducerPlaces, ConsumerPlaces, ProducerGoes, ConsumerGoes,
         Take, Give, shared, producer, consumers, LockInv, ProducerIn, ConsumerIn
  <1>1. CASE Producer
    <2>1. CASE Choose BY <1>1, <2>1 DEF Producer, Choose
    <2>2. CASE ProducerLock BY <1>1, <2>2 DEF Producer, ProducerLock
    <2>3. CASE WriteName BY <1>1, <2>3 DEF Producer, WriteName
    <2>4. CASE WriteItem BY <1>1, <2>4 DEF Producer, WriteItem
    <2>5. CASE ProducerUnlock BY <1>1, <2>5 DEF Producer, ProducerUnlock
    <2>6. CASE AwaitConsumer BY <1>1, <2>6, ProdConsAssumption DEF Producer, AwaitConsumer
    <2>7. CASE WriteEnd BY <1>1, <2>7 DEF Producer, WriteEnd
    <2>8. CASE Reap BY <1>1, <2>8 DEF Producer, Reap
    <2>9. QED BY <1>1, <2>1, <2>2, <2>3, <2>4, <2>5, <2>6, <2>7, <2>8 DEF Producer
  <1>2. ASSUME NEW k \in Consumers, Consumer(k) PROVE ProdTypeOK'
    <2>1. CASE Test(k) BY <1>2, <2>1 DEF Consumer, Test
    <2>2. CASE ConsumerLock(k) BY <1>2, <2>2 DEF Consumer, ConsumerLock
    <2>3. CASE Match(k) BY <1>2, <2>3 DEF Consumer, Match
    <2>4. CASE ReadItem(k) BY <1>2, <2>4 DEF Consumer, ReadItem
    <2>5. CASE ClearName(k) BY <1>2, <2>5 DEF Consumer, ClearName
    <2>6. CASE ConsumerUnlock(k) BY <1>2, <2>6 DEF Consumer, ConsumerUnlock
    <2>7. QED BY <1>2, <2>1, <2>2, <2>3, <2>4, <2>5, <2>6 DEF Consumer
  <1>3. CASE UNCHANGED prodConsVars BY <1>3 DEF prodConsVars
  <1>4. QED BY <1>1, <1>2, <1>3 DEF Next

\* Nobody passes P while another is inside, and V lets the next one in.
LEMMA LockStep == ProdTypeOK /\ LockInv /\ [Next]_prodConsVars => LockInv'
  <1> SUFFICES ASSUME ProdTypeOK, LockInv, [Next]_prodConsVars PROVE LockInv'
    OBVIOUS
  <1> USE DEF ProdTypeOK, ProducerPlaces, ConsumerPlaces, ProducerGoes, ConsumerGoes, Take, Give,
         shared, producer, consumers, LockInv, ProducerIn, ConsumerIn
  <1>1. CASE Producer
    <2>1. CASE Choose BY <1>1, <2>1 DEF Producer, Choose
    <2>2. CASE ProducerLock BY <1>1, <2>2 DEF Producer, ProducerLock
    <2>3. CASE WriteName BY <1>1, <2>3 DEF Producer, WriteName
    <2>4. CASE WriteItem BY <1>1, <2>4 DEF Producer, WriteItem
    <2>5. CASE ProducerUnlock BY <1>1, <2>5 DEF Producer, ProducerUnlock
    <2>6. CASE AwaitConsumer BY <1>1, <2>6 DEF Producer, AwaitConsumer
    <2>7. CASE WriteEnd BY <1>1, <2>7 DEF Producer, WriteEnd
    <2>8. CASE Reap BY <1>1, <2>8 DEF Producer, Reap
    <2>9. QED BY <1>1, <2>1, <2>2, <2>3, <2>4, <2>5, <2>6, <2>7, <2>8 DEF Producer
  <1>2. ASSUME NEW k \in Consumers, Consumer(k) PROVE LockInv'
    <2>1. CASE Test(k) BY <1>2, <2>1 DEF Consumer, Test
    <2>2. CASE ConsumerLock(k) BY <1>2, <2>2 DEF Consumer, ConsumerLock
    <2>3. CASE Match(k) BY <1>2, <2>3 DEF Consumer, Match
    <2>4. CASE ReadItem(k) BY <1>2, <2>4 DEF Consumer, ReadItem
    <2>5. CASE ClearName(k) BY <1>2, <2>5 DEF Consumer, ClearName
    <2>6. CASE ConsumerUnlock(k) BY <1>2, <2>6 DEF Consumer, ConsumerUnlock
    <2>7. QED BY <1>2, <2>1, <2>2, <2>3, <2>4, <2>5, <2>6 DEF Consumer
  <1>3. CASE UNCHANGED prodConsVars BY <1>3 DEF prodConsVars
  <1>4. QED BY <1>1, <1>2, <1>3 DEF Next

\* Only the consumer named gets to the item, and clears the name once.
LEMMA SlotStep == ProdTypeOK /\ LockInv /\ SlotInv /\ [Next]_prodConsVars => SlotInv'
  <1> SUFFICES ASSUME ProdTypeOK, LockInv, SlotInv, [Next]_prodConsVars PROVE SlotInv'
    OBVIOUS
  <1> USE ConsumersPositive DEF ProdTypeOK, ProducerPlaces, ConsumerPlaces, ProducerGoes, ConsumerGoes, Taken, IsFor,
         shared, producer, consumers, LockInv, ProducerIn, ConsumerIn, SlotInv
  <1>1. CASE Producer
    <2>1. CASE Choose BY <1>1, <2>1 DEF Producer, Choose
    <2>2. CASE ProducerLock BY <1>1, <2>2 DEF Producer, ProducerLock
    <2>3. CASE WriteName BY <1>1, <2>3 DEF Producer, WriteName
    <2>4. CASE WriteItem BY <1>1, <2>4 DEF Producer, WriteItem
    <2>5. CASE ProducerUnlock BY <1>1, <2>5 DEF Producer, ProducerUnlock
    <2>6. CASE AwaitConsumer BY <1>1, <2>6 DEF Producer, AwaitConsumer
    <2>7. CASE WriteEnd BY <1>1, <2>7 DEF Producer, WriteEnd
    <2>8. CASE Reap BY <1>1, <2>8 DEF Producer, Reap
    <2>9. QED BY <1>1, <2>1, <2>2, <2>3, <2>4, <2>5, <2>6, <2>7, <2>8 DEF Producer
  <1>2. ASSUME NEW k \in Consumers, Consumer(k) PROVE SlotInv'
    <2>1. CASE Test(k) BY <1>2, <2>1 DEF Consumer, Test
    <2>2. CASE ConsumerLock(k) BY <1>2, <2>2 DEF Consumer, ConsumerLock
    <2>3. CASE Match(k) BY <1>2, <2>3 DEF Consumer, Match
    <2>4. CASE ReadItem(k) BY <1>2, <2>4 DEF Consumer, ReadItem
    <2>5. CASE ClearName(k) BY <1>2, <2>5 DEF Consumer, ClearName
    <2>6. CASE ConsumerUnlock(k) BY <1>2, <2>6 DEF Consumer, ConsumerUnlock
    <2>7. QED BY <1>2, <2>1, <2>2, <2>3, <2>4, <2>5, <2>6 DEF Consumer
  <1>3. CASE UNCHANGED prodConsVars BY <1>3 DEF prodConsVars
  <1>4. QED BY <1>1, <1>2, <1>3 DEF Next

\* Choosing puts an item on its way, reading takes it from there.
LEMMA CountStep == ProdTypeOK /\ SlotInv /\ CountInv /\ [Next]_prodConsVars => CountInv'
  <1> SUFFICES ASSUME ProdTypeOK, SlotInv, CountInv, [Next]_prodConsVars PROVE CountInv'
    OBVIOUS
  <1> USE ConsumersPositive DEF ProdTypeOK, ProducerGoes, ConsumerGoes, Taken, IsFor, OnItsWay,
         shared, producer, consumers, SlotInv, CountInv
  <1>1. CASE Producer
    <2>1. CASE Choose BY <1>1, <2>1 DEF Producer, Choose
    <2>2. CASE ProducerLock BY <1>1, <2>2 DEF Producer, ProducerLock
    <2>3. CASE WriteName BY <1>1, <2>3 DEF Producer, WriteName
    <2>4. CASE WriteItem BY <1>1, <2>4 DEF Producer, WriteItem
    <2>5. CASE ProducerUnlock BY <1>1, <2>5 DEF Producer, ProducerUnlock
    <2>6. CASE AwaitConsumer BY <1>1, <2>6 DEF Producer, AwaitConsumer
    <2>7. CASE WriteEnd BY <1>1, <2>7 DEF Producer, WriteEnd
    <2>8. CASE Reap BY <1>1, <2>8 DEF Producer, Reap
    <2>9. QED BY <1>1, <2>1, <2>2, <2>3, <2>4, <2>5, <2>6, <2>7, <2>8 DEF Producer
  <1>2. ASSUME NEW k \in Consumers, Consumer(k) PROVE CountInv'
    <2>1. CASE Test(k) BY <1>2, <2>1 DEF Consumer, Test
    <2>2. CASE ConsumerLock(k) BY <1>2, <2>2 DEF Consumer, ConsumerLock
    <2>3. CASE Match(k) BY <1>2, <2>3 DEF Consumer, Match
    <2>4. CASE ReadItem(k) BY <1>2, <2>4 DEF Consumer, ReadItem
    <2>5. CASE ClearName(k) BY <1>2, <2>5 DEF Consumer, ClearName
    <2>6. CASE ConsumerUnlock(k) BY <1>2, <2>6 DEF Consumer, ConsumerUnlock
    <2>7. QED BY <1>2, <2>1, <2>2, <2>3, <2>4, <2>5, <2>6 DEF Consumer
  <1>3. CASE UNCHANGED prodConsVars BY <1>3 DEF prodConsVars
  <1>4. QED BY <1>1, <1>2, <1>3 DEF Next

\* With the semaphore what is read is the item that was sent.
LEMMA SumStep == ProdTypeOK /\ LockInv /\ SlotInv /\ SumInv /\ [Next]_prodConsVars => SumInv'
  <1> SUFFICES ASSUME ProdTypeOK, LockInv, SlotInv, SumInv, [Next]_prodConsVars PROVE SumInv'
    OBVIOUS
  <1> USE ConsumersPositive, ItemsAreNumbers DEF ProdTypeOK, ProducerGoes, ConsumerGoes, Taken, IsFor, OnItsWay,
         shared, producer, consumers, SlotInv, LockInv, ProducerIn, ConsumerIn, SumInv
  <1>1. CASE Producer
    <2>1. CASE Choose BY <1>1, <2>1 DEF Producer, Choose
    <2>2. CASE ProducerLock BY <1>1, <2>2 DEF Producer, ProducerLock
    <2>3. CASE WriteName BY <1>1, <2>3 DEF Producer, WriteName
    <2>4. CASE WriteItem BY <1>1, <2>4 DEF Producer, WriteItem
    <2>5. CASE ProducerUnlock BY <1>1, <2>5 DEF Producer, ProducerUnlock
    <2>6. CASE AwaitConsumer BY <1>1, <2>6 DEF Producer, AwaitConsumer
    <2>7. CASE WriteEnd BY <1>1, <2>7 DEF Producer, WriteEnd
    <2>8. CASE Reap BY <1>1, <2>8 DEF Producer, Reap
    <2>9. QED BY <1>1, <2>1, <2>2, <2>3, <2>4, <2>5, <2>6, <2>7, <2>8 DEF Producer
  <1>2. ASSUME NEW k \in Consumers, Consumer(k) PROVE SumInv'
    <2>1. CASE Test(k) BY <1>2, <2>1 DEF Consumer, Test
    <2>2. CASE ConsumerLock(k) BY <1>2, <2>2 DEF Consumer, ConsumerLock
    <2>3. CASE Match(k) BY <1>2, <2>3 DEF Consumer, Match
    <2>4. CASE ReadItem(k) BY <1>2, <2>4 DEF Consumer, ReadItem
    <2>5. CASE ClearName(k) BY <1>2, <2>5 DEF Consumer, ClearName
    <2>6. CASE ConsumerUnlock(k) BY <1>2, <2>6 DEF Consumer, ConsumerUnlock
    <2>7. QED BY <1>2, <2>1, <2>2, <2>3, <2>4, <2>5, <2>6 DEF Consumer
  <1>3. CASE UNCHANGED prodConsVars BY <1>3 DEF prodConsVars
  <1>4. QED BY <1>1, <1>2, <1>3 DEF Next

LEMMA SpecIInv == Spec => []IInv
  <1>1. IInv /\ [Next]_prodConsVars => IInv'
    BY TypeStep, LockStep, SlotStep, CountStep, SumStep DEF IInv
  <1>2. QED BY InitIInv, <1>1, PTL DEF Spec

-----------------------------------------------------------------------------
\* For any number of consumers and items, when the producer has ended both
\* sides report the same numbers and, with the semaphore, the same checksums
\* (prodcons.c:87 and 153).
THEOREM BothSidesAgree == Spec => []ReportsAgree
  <1>1. IInv => ReportsAgree
    <2> SUFFICES ASSUME IInv, Ended PROVE counts = count /\ (locked => checksum = sum)
      BY DEF ReportsAgree
    <2>1. ~OnItsWay
      BY DEF Ended, OnItsWay
    <2>2. \A k \in Consumers : counts[k] = count[k]
      BY <2>1 DEF IInv, CountInv, ProdTypeOK
    <2>3. locked => \A k \in Consumers : checksum[k] = sum[k]
      BY <2>1 DEF IInv, SumInv, ProdTypeOK
    <2>4. QED BY <2>2, <2>3 DEF IInv, ProdTypeOK
  <1>2. QED BY SpecIInv, <1>1, PTL

-----------------------------------------------------------------------------
\* Only the producer's choice and a consumer's reading are steps of the channel.
LEMMA ChannelStep ==
  IInv /\ IInv' /\ [Next]_prodConsVars =>
    [Channel!Send \/ Channel!Receive]_(Channel!channelVars)
  <1> SUFFICES ASSUME IInv, IInv', [Next]_prodConsVars
               PROVE [Channel!Send \/ Channel!Receive]_(Channel!channelVars)
    OBVIOUS
  <1> DEFINE mapped == IF OnItsWay THEN <<c, item>> ELSE <<>>
  <1> USE ConsumersPositive DEF IInv, ProdTypeOK, SlotInv, OnItsWay, shared, producer, consumers
  <1>1. CASE Producer
    <2>1. CASE Choose
      <3>1. mapped = <<>> /\ mapped' = <<c', item'>>
        BY <2>1 DEF Choose, ProducerGoes
      <3>2. Channel!Send
        BY <1>1, <2>1, <3>1 DEF Producer, Choose, Channel!Send
      <3>3. QED BY <3>2
    <2>2. CASE ProducerLock
      BY <1>1, <2>2 DEF Producer, ProducerLock, ProducerGoes, Taken, Channel!channelVars
    <2>3. CASE WriteName
      BY <1>1, <2>3 DEF Producer, WriteName, ProducerGoes, Taken, Channel!channelVars
    <2>4. CASE WriteItem
      BY <1>1, <2>4 DEF Producer, WriteItem, ProducerGoes, Taken, Channel!channelVars
    <2>5. CASE ProducerUnlock
      BY <1>1, <2>5 DEF Producer, ProducerUnlock, ProducerGoes, Taken, Channel!channelVars
    <2>6. CASE AwaitConsumer
      BY <1>1, <2>6 DEF Producer, AwaitConsumer, ProducerGoes, Taken, Channel!channelVars
    <2>7. CASE WriteEnd
      BY <1>1, <2>7 DEF Producer, WriteEnd, ProducerGoes, Taken, Channel!channelVars
    <2>8. CASE Reap
      BY <1>1, <2>8 DEF Producer, Reap, ProducerGoes, Taken, Channel!channelVars
    <2>9. QED BY <1>1, <2>1, <2>2, <2>3, <2>4, <2>5, <2>6, <2>7, <2>8 DEF Producer
  <1>2. ASSUME NEW k \in Consumers, Consumer(k)
        PROVE [Channel!Send \/ Channel!Receive]_(Channel!channelVars)
    <2>1. CASE ReadItem(k)
      <3>1. M0 = k /\ c = k /\ ppc \in {"put", "unlock", "spin"}
        BY <2>1 DEF ReadItem, ConsumerGoes
      <3>2. mapped = <<c, item>> /\ mapped' = <<>>
        BY <1>2, <2>1, <3>1 DEF Consumer, ReadItem, ConsumerGoes
      <3>3. M1 \in Items \cup {0} /\ (locked => M1 = item)
        <4>1. locked => ppc = "spin" \/ ppc = "unlock"
          BY <2>1, <3>1 DEF ReadItem, ConsumerGoes, LockInv, ProducerIn, ConsumerIn
        <4>2. QED BY <4>1
      <3>4. /\ count' = [count EXCEPT ![c] = @ + 1] /\ sum' = [sum EXCEPT ![c] = @ + M1]
            /\ UNCHANGED <<locked, counts, checksum>>
        BY <1>2, <2>1, <3>1 DEF Consumer, ReadItem
      <3>5. Channel!Receive
        BY <3>2, <3>3, <3>4 DEF Channel!Receive
      <3>6. QED BY <3>5
    <2>2. CASE Test(k)
      BY <1>2, <2>2 DEF Consumer, Test, ConsumerGoes, IsFor, Channel!channelVars
    <2>3. CASE ConsumerLock(k)
      BY <1>2, <2>3 DEF Consumer, ConsumerLock, ConsumerGoes, IsFor, Channel!channelVars
    <2>4. CASE Match(k)
      BY <1>2, <2>4 DEF Consumer, Match, ConsumerGoes, IsFor, Channel!channelVars
    <2>5. CASE ClearName(k)
      BY <1>2, <2>5 DEF Consumer, ClearName, ConsumerGoes, IsFor, Channel!channelVars
    <2>6. CASE ConsumerUnlock(k)
      BY <1>2, <2>6 DEF Consumer, ConsumerUnlock, ConsumerGoes, IsFor, Channel!channelVars
    <2>7. QED BY <1>2, <2>1, <2>2, <2>3, <2>4, <2>5, <2>6 DEF Consumer
  <1>3. CASE UNCHANGED prodConsVars
    BY <1>3 DEF prodConsVars, Channel!channelVars
  <1>4. QED BY <1>1, <1>2, <1>3 DEF Next

\* For any number of consumers and items, prodcons.c implements the unreliable
\* channel and prodconsV2.c the reliable one: an item is received once, by the
\* consumer it is for, before the next is sent, and with the semaphore it is
\* the item that was sent (prodcons.c:126-139, prodconsV2.c:149-167).
THEOREM ImplementsChannel == Spec => HandsOverEach
  <1>1. Init => Channel!ChannelInit
    <2> SUFFICES ASSUME Init PROVE Channel!ChannelInit
      OBVIOUS
    <2>1. ~OnItsWay /\ locked \in BOOLEAN
      BY ProdConsAssumption DEF Init, OnItsWay
    <2>2. QED BY <2>1 DEF Init, None, Channel!ChannelInit
  <1>2. QED BY <1>1, SpecIInv, ChannelStep, PTL DEF Spec, HandsOverEach, Channel!ChannelSpec

-----------------------------------------------------------------------------
\* When the producer's and a consumer's next step can be taken.
ProducerMayGo ==
  \/ ppc = "choose" /\ (i = T \/ (i < T /\ Items # {}))
  \/ ProducerIn
  \/ ppc = "lock" /\ (~locked \/ semid > 0)
  \/ ppc = "spin" /\ M0 = 0
  \/ ppc = "wait" /\ \A k \in Consumers : cpc[k] = "exited"

ConsumerMayGo(k) ==
  \/ cpc[k] = "test" \/ ConsumerIn(k)
  \/ cpc[k] = "lock" /\ (~locked \/ semid > 0)

\* A semaphore that is taken is taken by somebody, and no consumer leaves
\* before the end mark is there.
TakenInv == /\ ~locked => semid > 0
            /\ semid > 0 \/ ProducerIn \/ \E k \in Consumers : ConsumerIn(k)
StayInv == \A k \in Consumers : cpc[k] = "exited" => ppc \in {"wait", "done"}

LEMMA StayStep == ProdTypeOK /\ SlotInv /\ StayInv /\ [Next]_prodConsVars => StayInv'
<1> SUFFICES ASSUME ProdTypeOK, SlotInv, StayInv, [Next]_prodConsVars PROVE StayInv'
  OBVIOUS
<1>1. CASE Producer
  <2>1. cpc' = cpc
    BY <1>1 DEF Producer, consumers
  <2>2. ppc \in {"wait", "done"} => ppc' \in {"wait", "done"}
    BY <1>1 DEF Producer, Choose, ProducerLock, WriteName, WriteItem, ProducerUnlock,
                AwaitConsumer, WriteEnd, Reap, ProducerGoes
  <2> QED
    BY <2>1, <2>2 DEF StayInv
<1>2. ASSUME NEW k \in Consumers, Consumer(k) PROVE StayInv'
  <2>1. ppc' = ppc
    BY <1>2 DEF Consumer, producer
  <2>2. PICK there : cpc' = [cpc EXCEPT ![k] = there]
                     /\ (there = "exited" => M0 = -1)
    BY <1>2 DEF Consumer, Test, ConsumerLock, Match, ReadItem, ClearName, ConsumerUnlock,
                ConsumerGoes
  <2>3. there = "exited" => ppc \in {"wait", "done"}
    BY <2>2 DEF SlotInv
  <2> QED
    BY <2>1, <2>2, <2>3 DEF StayInv, ProdTypeOK
<1>3. CASE UNCHANGED prodConsVars
  BY <1>3 DEF prodConsVars, producer, consumers, StayInv
<1> QED
  BY <1>1, <1>2, <1>3 DEF Next

LEMMA TakenStep == ProdTypeOK /\ TakenInv /\ [Next]_prodConsVars => TakenInv'
<1> SUFFICES ASSUME ProdTypeOK, TakenInv, [Next]_prodConsVars PROVE TakenInv'
  OBVIOUS
<1>0. semid \in {0, 1} /\ (~locked => semid > 0)
  BY DEF ProdTypeOK, TakenInv
<1>1. CASE Producer
  <2>1. cpc' = cpc /\ locked' = locked
    BY <1>1 DEF Producer, consumers
  <2>2. \A k \in Consumers : ConsumerIn(k)' <=> ConsumerIn(k)
    BY <2>1 DEF ConsumerIn
  <2>3. ~locked => semid' = semid
    BY <1>1 DEF Producer, Choose, ProducerLock, WriteName, WriteItem, ProducerUnlock,
                AwaitConsumer, WriteEnd, Reap, Take, Give, shared
  <2>4. ProducerIn' \/ (semid' = semid /\ ~ProducerIn) \/ ProducerUnlock
    BY <1>1 DEF Producer, Choose, ProducerLock, WriteName, WriteItem, AwaitConsumer,
                WriteEnd, Reap, ProducerGoes, ProducerIn, shared
  <2>5. ProducerUnlock => semid' > 0
    BY <1>0 DEF ProducerUnlock, Give
  <2> QED
    BY <2>1, <2>2, <2>3, <2>4, <2>5 DEF TakenInv
<1>2. ASSUME NEW k \in Consumers, Consumer(k) PROVE TakenInv'
  <2>1. ppc' = ppc /\ locked' = locked
    BY <1>2 DEF Consumer, producer
  <2>2. ProducerIn' <=> ProducerIn
    BY <2>1 DEF ProducerIn
  <2>3. ~locked => semid' = semid
    BY <1>2 DEF Consumer, Test, ConsumerLock, Match, ReadItem, ClearName, ConsumerUnlock,
                Take, Give, shared
  <2>4. PICK there : cpc' = [cpc EXCEPT ![k] = there]
    BY <1>2 DEF Consumer, Test, ConsumerLock, Match, ReadItem, ClearName, ConsumerUnlock,
                ConsumerGoes
  <2>5. \A j \in Consumers \ {k} : ConsumerIn(j)' <=> ConsumerIn(j)
    BY <2>4 DEF ConsumerIn, ProdTypeOK
  <2>6. CASE Test(k)
    <3>1. semid' = semid /\ ~ConsumerIn(k)
      BY <2>6 DEF Test, ConsumerGoes, ConsumerIn, shared
    <3> QED
      BY <2>1, <2>2, <2>5, <3>1 DEF TakenInv
  <2>7. CASE ConsumerLock(k) \/ Match(k) \/ ReadItem(k) \/ ClearName(k)
    <3>1. cpc'[k] \in {"match", "read", "clear", "unlock"}
      BY <2>7 DEF ConsumerLock, Match, ReadItem, ClearName, ConsumerGoes, ProdTypeOK
    <3>2. ConsumerIn(k)'
      BY <3>1 DEF ConsumerIn
    <3> QED
      BY <1>0, <2>1, <2>3, <3>2 DEF TakenInv
  <2>8. CASE ConsumerUnlock(k)
    <3>1. semid' > 0
      BY <1>0, <2>8 DEF ConsumerUnlock, Give
    <3> QED
      BY <3>1 DEF TakenInv
  <2> QED
    BY <1>2, <2>6, <2>7, <2>8 DEF Consumer
<1>3. CASE UNCHANGED prodConsVars
  BY <1>3 DEF prodConsVars, shared, producer, consumers, TakenInv, ProducerIn, ConsumerIn
<1> QED
  BY <1>1, <1>2, <1>3 DEF Next

\* What each wait is for can still come: a taken semaphore is with somebody
\* between P and V; the producer spins until the consumer that M[0] names, which
\* has not left, clears the name; and the end mark, once there, stays there.
WaitsAreAnswered ==
  /\ semid > 0 \/ ProducerIn \/ \E k \in Consumers : ConsumerIn(k)
  /\ ppc = "spin" => M0 = 0 \/ (M0 = c /\ cpc[c] # "exited")
  /\ ppc \in {"wait", "done"} => M0 = -1
  /\ \A k \in Consumers : cpc[k] = "exited" => M0 = -1

\* For any number of consumers and items, in both versions somebody can go on
\* until the producer has ended, and every wait is for something that can still
\* come: no interleaving of the waits in P and on M[0] leaves everybody waiting
\* (prodcons.c:68-84, 137-148; prodconsV2.c:90-91, 149-176).
THEOREM NobodyWaitsInVain ==
  Items # {} =>
    (Spec => []/\ ProducerMayGo \/ (\E k \in Consumers : ConsumerMayGo(k)) \/ Ended
               /\ WaitsAreAnswered)
<1> SUFFICES ASSUME Items # {}
             PROVE  Spec => []/\ ProducerMayGo \/ (\E k \in Consumers : ConsumerMayGo(k)) \/ Ended
                              /\ WaitsAreAnswered
  OBVIOUS
<1>1. ASSUME IInv, TakenInv, StayInv, ~ProducerMayGo, ~Ended,
             \A k \in Consumers : ~ConsumerMayGo(k)
      PROVE  FALSE
  <2>1. ppc \in ProducerPlaces /\ cpc \in [Consumers -> ConsumerPlaces]
    BY <1>1 DEF IInv, ProdTypeOK
  <2>2. semid > 0
    BY <1>1 DEF TakenInv, ProducerMayGo, ConsumerMayGo
  <2>0. i = T \/ i < T
    BY <1>1, ProdConsAssumption DEF IInv, ProdTypeOK
  <2>3. ppc \in {"spin", "wait"}
    BY <1>1, <2>0, <2>1, <2>2 DEF ProducerMayGo, ProducerIn, ProducerPlaces, Ended
  <2>4. \A k \in Consumers : cpc[k] = "exited"
    BY <1>1, <2>1, <2>2 DEF ConsumerMayGo, ConsumerIn, ConsumerPlaces
  <2>5. ppc = "wait"
    BY <2>3, <2>4, <1>1, ConsumersPositive DEF StayInv
  <2> QED
    BY <1>1, <2>4, <2>5 DEF ProducerMayGo
<1>2. Init => TakenInv /\ StayInv
  <2> SUFFICES ASSUME Init PROVE TakenInv /\ StayInv
    OBVIOUS
  <2>1. semid > 0
    BY DEF Init
  <2>2. \A k \in Consumers : cpc[k] # "exited"
    BY DEF Init
  <2> QED
    BY <2>1, <2>2 DEF TakenInv, StayInv
<1>3. ASSUME IInv, TakenInv, StayInv PROVE WaitsAreAnswered
  <2>1. /\ M0 \in Consumers \cup {0, -1}
        /\ M0 \in Consumers => M0 = c
        /\ M0 = -1 <=> ppc \in {"wait", "done"}
        /\ c \in Consumers
    BY <1>3 DEF IInv, ProdTypeOK, SlotInv
  <2>2. ppc = "spin" => M0 = 0 \/ M0 = c
    BY <2>1
  <2> QED
    BY <1>3, <2>1, <2>2 DEF TakenInv, StayInv, WaitsAreAnswered
<1>4. IInv /\ TakenInv /\ StayInv =>
        /\ ProducerMayGo \/ (\E k \in Consumers : ConsumerMayGo(k)) \/ Ended
        /\ WaitsAreAnswered
  BY <1>1, <1>3
<1>5. IInv /\ TakenInv /\ StayInv /\ [Next]_prodConsVars => TakenInv' /\ StayInv'
  BY TakenStep, StayStep DEF IInv
<1> QED
  BY SpecIInv, <1>2, <1>4, <1>5, PTL DEF Spec
=============================================================================
