---------------------------- MODULE OneSlotChannel ----------------------------
(***************************************************************************)
(* What Assignment4's shared memory is for: one item at a time goes from   *)
(* the producer to the consumer it is for, and both keep the number of the *)
(* items and their sum.  An unreliable channel may deliver another item in *)
(* its place, but never loses one, doubles one or gives it to somebody     *)
(* else.                                                                   *)
(***************************************************************************)
EXTENDS Integers

CONSTANTS Consumers, Items

VARIABLES reliable,          \* whether items arrive as they were sent
          slot,              \* what is on its way: <<>> or <<consumer, item>>
          counts, checksum,  \* sent, by consumer
          count, sum         \* received, by consumer

channelVars == <<reliable, slot, counts, checksum, count, sum>>

ChannelInit == /\ reliable \in BOOLEAN
               /\ slot = <<>>
               /\ counts = [k \in Consumers |-> 0] /\ checksum = counts
               /\ count = counts /\ sum = counts

Send == /\ slot = <<>>
        /\ \E k \in Consumers, x \in Items :
             /\ slot' = <<k, x>>
             /\ counts' = [counts EXCEPT ![k] = @ + 1]
             /\ checksum' = [checksum EXCEPT ![k] = @ + x]
        /\ UNCHANGED <<reliable, count, sum>>

Receive == /\ slot # <<>> /\ slot' = <<>>
           /\ \E x \in Items \cup {0} :
                /\ reliable => x = slot[2]
                /\ count' = [count EXCEPT ![slot[1]] = @ + 1]
                /\ sum' = [sum EXCEPT ![slot[1]] = @ + x]
           /\ UNCHANGED <<reliable, counts, checksum>>

ChannelSpec == ChannelInit /\ [][Send \/ Receive]_channelVars
=============================================================================
