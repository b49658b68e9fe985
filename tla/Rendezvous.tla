------------------------------ MODULE Rendezvous ------------------------------
(***************************************************************************)
(* What a barrier promises to threads that call it again and again: it     *)
(* opens when all of them are in it, and each opening allows as many       *)
(* returns as there are threads, none of which is left at the next one.    *)
(* Whoever is in the barrier may be the one that returns, also who has     *)
(* returned from this opening before.                                      *)
(***************************************************************************)
EXTENDS Naturals

CONSTANTS Threads, Rounds,
          Parties     \* how many threads there are

VARIABLES inside,   \* the threads in the barrier
          open,     \* returns that the last opening still allows
          gone      \* how often each thread has returned

meetingVars == <<inside, open, gone>>

MeetingInit == inside = {} /\ open = 0 /\ gone = [t \in Threads |-> 0]

Come(t) == /\ t \notin inside /\ gone[t] < Rounds
           /\ inside' = inside \cup {t}
           /\ UNCHANGED <<open, gone>>

Open == /\ inside = Threads /\ open = 0
        /\ open' = Parties
        /\ UNCHANGED <<inside, gone>>

Go(t) == /\ t \in inside /\ open > 0
         /\ inside' = inside \ {t}
         /\ open' = open - 1
         /\ gone' = [gone EXCEPT ![t] = @ + 1]

MeetingNext == Open \/ \E t \in Threads : Come(t) \/ Go(t)

MeetingSpec == MeetingInit /\ [][MeetingNext]_meetingVars
=============================================================================
