---------------------------- MODULE CommandExecute ----------------------------
(***************************************************************************)
(* Assignment3/CSE.c: one process reads commands and one executes them;    *)
(* swaprole exchanges the roles.  Commands go through pipe p, swaproles    *)
(* through pipe swap_p, and both processes have all four ends open.  The   *)
(* commands are numbered as they are typed.                                *)
(***************************************************************************)
EXTENDS Integers, Sequences, SequencesExt

CONSTANTS MaxCommands,  \* bound: how many commands are typed, without exit
          MaxSwaps      \* bound: how many swaproles are typed

ASSUME BoundsAssumption == MaxCommands \in Nat /\ MaxSwaps \in Nat

FirstChild == 1
SecondChild == 2
Procs == {FirstChild, SecondChild}

EXIT == 0      \* the command exit
NOTHING == -1  \* an empty command string

VARIABLES pc,        \* where each process is; "input" and "toC" are in command mode
          command,   \* the string each has read last
          stdin,     \* what each has read ahead from its standard input
          p,         \* the commands in pipe p
          swap_p,    \* how many swaproles are in pipe swap_p
          nonblock,  \* O_NONBLOCK of swap_p's reading end, one flag for both processes
          typed, swaps,  \* how many commands and swaproles have been typed
          executed,  \* history: the commands executed, in order
          hasty      \* history: a swaprole was typed before all was executed

ends == <<command, stdin>>
pipes == <<p, swap_p>>
counters == <<typed, swaps, hasty>>
cseVars == <<pc, ends, pipes, nonblock, counters, executed>>

Init == /\ pc = [q \in Procs |-> IF q = FirstChild THEN "input" ELSE "start"]
        /\ command = [q \in Procs |-> NOTHING] /\ stdin = [q \in Procs |-> <<>>]
        /\ p = <<>> /\ swap_p = 0 /\ nonblock = FALSE
        /\ typed = 0 /\ swaps = 0 /\ hasty = FALSE
        /\ executed = <<>>

Goes(q, from, to) == pc[q] = from /\ pc' = [pc EXCEPT ![q] = to]

-----------------------------------------------------------------------------
(* Command mode.  What is left of the pipe in stdio's buffer is read before *)
(* anything that is typed: fflush(stdin) cannot drop what came from a pipe. *)

Forward(q) ==
  /\ Goes(q, "input", "input") /\ stdin[q] # <<>>
  /\ p' = Append(p, Head(stdin[q]))
  /\ stdin' = [stdin EXCEPT ![q] = Tail(@)]
  /\ UNCHANGED <<command, swap_p, nonblock, counters, executed>>

TypeCommand(q) ==
  /\ Goes(q, "input", "input") /\ stdin[q] = <<>>
  /\ typed < MaxCommands /\ typed' = typed + 1
  /\ p' = Append(p, typed')
  /\ UNCHANGED <<ends, swap_p, nonblock, swaps, hasty, executed>>

TypeExit(q) ==
  /\ Goes(q, "input", "exited") /\ stdin[q] = <<>>
  /\ p' = Append(p, EXIT)
  /\ UNCHANGED <<ends, swap_p, nonblock, counters, executed>>

TypeSwaprole(q) ==
  /\ Goes(q, "input", "toE") /\ stdin[q] = <<>>
  /\ swaps < MaxSwaps /\ swaps' = swaps + 1
  /\ swap_p' = swap_p + 1
  /\ hasty' = (hasty \/ Len(executed) < typed)
  /\ UNCHANGED <<ends, p, nonblock, typed, executed>>

-----------------------------------------------------------------------------
(* Execute mode.                                                           *)

EnterExecute(q) ==
  /\ Goes(q, "start", "scan") \/ Goes(q, "toE", "scan")
  /\ nonblock' = TRUE
  /\ UNCHANGED <<ends, pipes, counters, executed>>

\* Mutant of Scan: the string is not cleared first.
ScanWithoutClearing(q) ==
  /\ Goes(q, "scan", "swap")
  /\ LET input == IF stdin[q] = <<>> THEN p ELSE stdin[q]
     IN  IF input = <<>>
         THEN UNCHANGED ends
         ELSE /\ command' = [command EXCEPT ![q] = Head(input)]
              /\ stdin' = [stdin EXCEPT ![q] = Tail(input)]
  /\ p' = IF stdin[q] = <<>> THEN <<>> ELSE p
  /\ UNCHANGED <<swap_p, nonblock, counters, executed>>

\* scanf takes the next command of its buffer and fills that, when it is empty,
\* with all that is in the pipe; with nothing there it leaves the string empty.
Scan(q) ==
  /\ Goes(q, "scan", "swap")
  /\ LET input == IF stdin[q] = <<>> THEN p ELSE stdin[q]
     IN  IF input = <<>>
         THEN command' = [command EXCEPT ![q] = NOTHING] /\ UNCHANGED stdin
         ELSE /\ command' = [command EXCEPT ![q] = Head(input)]
              /\ stdin' = [stdin EXCEPT ![q] = Tail(input)]
  /\ p' = IF stdin[q] = <<>> THEN <<>> ELSE p
  /\ UNCHANGED <<swap_p, nonblock, counters, executed>>

\* Mutant of TakeSwap: the message stays in the pipe.
PeekSwap == swap_p > 0 /\ UNCHANGED swap_p

TakeSwap == swap_p > 0 /\ swap_p' = swap_p - 1

\* A swaprole is read over the command that was just scanned.
ReadSwaprole(q) ==
  /\ Goes(q, "swap", "toC") \/ Goes(q, "blocked", "toC")
  /\ TakeSwap
  /\ command' = [command EXCEPT ![q] = NOTHING]
  /\ UNCHANGED <<stdin, p, nonblock, counters, executed>>

\* Once a read waits for a message, only a message ends it.
Block(q) ==
  /\ Goes(q, "swap", "blocked") /\ swap_p = 0 /\ ~nonblock
  /\ UNCHANGED <<ends, pipes, nonblock, counters, executed>>

\* Mutant of AfterCommand: exit is executed like any other command.
ScanOn(cmd) == "scan"

AfterCommand(cmd) == IF cmd = EXIT THEN "exited" ELSE "scan"

\* No swaprole is there: the command, if there is one, is executed.
Execute(q) ==
  /\ Goes(q, "swap", AfterCommand(command[q]))
  /\ swap_p = 0 /\ nonblock
  /\ executed' = IF command[q] \in {NOTHING, EXIT} THEN executed ELSE Append(executed, command[q])
  /\ UNCHANGED <<ends, pipes, nonblock, counters>>

EnterCommand(q) ==
  /\ Goes(q, "toC", "input")
  /\ nonblock' = FALSE
  /\ UNCHANGED <<ends, pipes, counters, executed>>

-----------------------------------------------------------------------------
User(q) == TypeCommand(q) \/ TypeExit(q) \/ TypeSwaprole(q)

Process(q) == \/ Forward(q) \/ EnterExecute(q) \/ Scan(q) \/ ReadSwaprole(q)
              \/ Block(q) \/ Execute(q) \/ EnterCommand(q)

\* Both are gone, or one has exited and the other waits for a swaprole that
\* nobody can send any more.
Over == \A q \in Procs : pc[q] \in {"exited", "blocked"}

Next == \/ \E q \in Procs : User(q) \/ Process(q)
        \/ Over /\ UNCHANGED cseVars

Spec == Init /\ [][Next]_cseVars

\* Both processes run on; nobody has to type anything.
FairSpec == Spec /\ \A q \in Procs : WF_cseVars(Process(q))

-----------------------------------------------------------------------------
Commanders == {q \in Procs : pc[q] \in {"input", "toC"}}
ExitTyped == \E q \in Procs : pc[q] = "exited"

\* The role of commander is never held twice nor lost: a process has it or the
\* one swaprole in the pipe stands for it, until exit is typed (CSE.c:113-118,
\* 157-165: the two sides change role at different times).
OneCommander ==
  IF ExitTyped THEN Commanders = {} /\ swap_p = 0
  ELSE \/ swap_p = 0 /\ \E q \in Procs : Commanders = {q}
       \/ swap_p = 1 /\ Commanders = {}

\* No command is ever executed twice, although one may be read ahead by a process
\* that then swaps and sends it again; and if everything typed was executed
\* before each swaprole, all are executed in the order they were typed
\* (CSE.c:154-157, 177).
ExecutedOnce ==
  /\ IsInjective(executed)
  /\ ~hasty => executed = [n \in 1..Len(executed) |-> n]

\* After exit both processes end, unless the one that was to execute it waits
\* for a swaprole (CSE.c:137, 196 "Exit command, so exit").
ExitEnds == ExitTyped ~> Over
=============================================================================
