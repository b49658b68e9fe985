--------------------------- MODULE DirectorySync ---------------------------
(***************************************************************************)
(* Assignment9/main.c: makes one directory tree like another, in two loops *)
(* per directory, the first for contents and the second for times and      *)
(* permissions.  It may be killed between any two system calls and run     *)
(* again.  A path is a sequence of names, <<>> the directory given to main;*)
(* a file's data is a sequence of blocks and its size their number; times  *)
(* are seconds, and all that happens here happens in the same second.      *)
(***************************************************************************)
EXTENDS Integers, Sequences, SequencesExt

CONSTANTS Names,    \* what an entry of a directory may be called
          Blocks,   \* what a block of a file may hold
          Paths,    \* the paths there may be: not <<>>, and closed under Front
          Nodes,    \* what there may be at a path before the first run
          NOW,      \* the second in which this happens, also a time a file may have
          MaxKills  \* bound: how often a run is killed

NONE == [kind |-> "none", data |-> <<>>, mtime |-> 0, mode |-> "rw"]

Node == [kind : {"none", "dir", "file"}, data : Seq(Blocks), mtime : Int, mode : {"rw", "ro"}]

\* Only files have data, and where there is nothing there is NONE.
WellFormed(node) == /\ node \in Node
                    /\ node.kind # "file" => node.data = <<>>
                    /\ node.kind = "none" => node = NONE

ASSUME TreeAssumption ==
  /\ NONE \in Nodes /\ \A node \in Nodes : WellFormed(node)
  /\ NOW \in Int /\ MaxKills \in Nat
  /\ \A p \in Paths : p \in Seq(Names) /\ p # <<>> /\ (Len(p) = 1 \/ Front(p) \in Paths)

VARIABLES src,      \* the tree copied, which nobody changes
          dst,      \* the tree that is made like it
          stack,    \* the calls of sync_directories, the innermost last
          writing,  \* the file whose blocks are being copied; <<>> is none
          before,   \* history: dst before the first run
          kills,    \* how many runs were killed
          again     \* a complete run is followed by a second one

syncVars == <<src, dst, stack, writing, before, kills, again>>
history == <<src, before, kills, again>>

Exists(tree, p) == tree[p].kind # "none"
Entries(tree, d) == {p \in Paths : Front(p) = d /\ Exists(tree, p)}

\* Only directories have something below them.
Trees == {t \in [Paths -> Nodes] :
            \A p \in Paths : Exists(t, p) /\ Len(p) > 1 => t[Front(p)].kind = "dir"}

Call(d) == [dir |-> d, loop |-> "contents", todo |-> Entries(src, d)]

Init == /\ src \in Trees /\ dst \in Trees /\ before = dst
        /\ stack = <<Call(<<>>)>> /\ writing = <<>>
        /\ kills = 0 /\ again = FALSE

\* Entry p comes up in a loop of the innermost call.
In(loop, p) == /\ stack # <<>> /\ writing = <<>>
               /\ Last(stack).loop = loop /\ p \in Last(stack).todo

Done(p) == stack' = [stack EXCEPT ![Len(stack)].todo = @ \ {p}]

\* Creating or removing an entry also gives its directory a new time.
SetEntry(p, node) ==
  dst' = [q \in Paths |-> IF q = p THEN node
                          ELSE IF q = Front(p) THEN [dst[q] EXCEPT !.mtime = NOW]
                          ELSE dst[q]]

-----------------------------------------------------------------------------
(* The first loop: contents.  Case 1, src has a file.                      *)

\* creat makes a file with the permissions of the one in src, which may be read-only.
Creat(p) ==
  /\ In("contents", p) /\ src[p].kind = "file" /\ ~Exists(dst, p)
  /\ SetEntry(p, [src[p] EXCEPT !.data = <<>>, !.mtime = NOW])
  /\ writing' = p /\ Done(p)
  /\ UNCHANGED history

\* Mutant of Differ: times tell all.
DifferInTime(s, d) == s.mtime # d.mtime

Differ(s, d) == Len(s.data) # Len(d.data) \/ s.mtime # d.mtime

MayOpen(d) == d.kind = "file" /\ d.mode = "rw"

Truncate(p) ==
  /\ In("contents", p) /\ src[p].kind = "file" /\ Exists(dst, p)
  /\ MayOpen(dst[p]) /\ Differ(src[p], dst[p])
  /\ dst' = [dst EXCEPT ![p].data = <<>>, ![p].mtime = NOW]
  /\ writing' = p /\ Done(p)
  /\ UNCHANGED history

\* They look alike, or open fails and so does each write after it.
LeaveFile(p) ==
  /\ In("contents", p) /\ src[p].kind = "file" /\ Exists(dst, p)
  /\ ~(MayOpen(dst[p]) /\ Differ(src[p], dst[p]))
  /\ Done(p)
  /\ UNCHANGED <<dst, writing, history>>

Write ==
  /\ writing # <<>>
  /\ LET p == writing
         copied == Len(dst[p].data)
     IN  IF copied < Len(src[p].data)
         THEN /\ dst' = [dst EXCEPT ![p].data = Append(@, src[p].data[copied + 1]),
                                    ![p].mtime = NOW]
              /\ UNCHANGED writing
         ELSE writing' = <<>> /\ UNCHANGED dst
  /\ UNCHANGED <<stack, history>>

(* Case 2, src has a directory.  Whatever dst has makes place for one.     *)

RemoveFile(p) ==
  /\ In("contents", p) /\ src[p].kind = "dir" /\ dst[p].kind = "file"
  /\ SetEntry(p, NONE)
  /\ UNCHANGED <<stack, writing, history>>

Mkdir(p) ==
  /\ In("contents", p) /\ src[p].kind = "dir" /\ ~Exists(dst, p)
  /\ SetEntry(p, [src[p] EXCEPT !.mtime = NOW])
  /\ UNCHANGED <<stack, writing, history>>

Recurse(p) ==
  /\ In("contents", p) /\ src[p].kind = "dir" /\ dst[p].kind = "dir"
  /\ stack' = Append([stack EXCEPT ![Len(stack)].todo = @ \ {p}], Call(p))
  /\ UNCHANGED <<dst, writing, history>>

-----------------------------------------------------------------------------
(* The second loop: times, permissions, and what src does not have.        *)

Rewind ==
  /\ stack # <<>> /\ writing = <<>>
  /\ Last(stack).loop = "contents" /\ Last(stack).todo = {}
  /\ stack' = [stack EXCEPT ![Len(stack)] =
                 [dir |-> @.dir, loop |-> "times", todo |-> Entries(dst, Last(stack).dir)]]
  /\ UNCHANGED <<dst, writing, history>>

\* Mutant of TimesDiffer: only a later time is taken over.
IsLater(p) == src[p].mtime > dst[p].mtime

TimesDiffer(p) == src[p].mtime # dst[p].mtime

SetTimes(p) ==
  /\ In("times", p) /\ Exists(src, p) /\ TimesDiffer(p)
  /\ dst' = [dst EXCEPT ![p].mtime = src[p].mtime]
  /\ UNCHANGED <<stack, writing, history>>

SetMode(p) ==
  /\ In("times", p) /\ Exists(src, p) /\ ~TimesDiffer(p)
  /\ dst' = [dst EXCEPT ![p].mode = src[p].mode]
  /\ Done(p)
  /\ UNCHANGED <<writing, history>>

\* remove or rec_rmdir: entry by entry, a directory after what is in it.
RemoveExtra(p) ==
  /\ In("times", p) /\ ~Exists(src, p)
  /\ \E q \in Paths :
       /\ IsPrefix(p, q) /\ Exists(dst, q) /\ Entries(dst, q) = {}
       /\ SetEntry(q, NONE)
       /\ IF q = p THEN Done(p) ELSE UNCHANGED stack
  /\ UNCHANGED <<writing, history>>

Return ==
  /\ stack # <<>> /\ Last(stack).loop = "times" /\ Last(stack).todo = {}
  /\ stack' = Front(stack)
  /\ UNCHANGED <<dst, writing, history>>

-----------------------------------------------------------------------------
sync_directories ==
  \/ \E p \in Paths : \/ Creat(p) \/ Truncate(p) \/ LeaveFile(p)
                      \/ RemoveFile(p) \/ Mkdir(p) \/ Recurse(p)
                      \/ SetTimes(p) \/ SetMode(p) \/ RemoveExtra(p)
  \/ Write \/ Rewind \/ Return

Ended == stack = <<>>

\* The run is killed and main starts again.
Kill == /\ ~Ended /\ ~again /\ kills < MaxKills
        /\ kills' = kills + 1
        /\ stack' = <<Call(<<>>)>> /\ writing' = <<>>
        /\ UNCHANGED <<src, dst, before, again>>

RunAgain == /\ Ended /\ ~again
            /\ again' = TRUE
            /\ stack' = <<Call(<<>>)>>
            /\ UNCHANGED <<src, dst, writing, before, kills>>

Next == sync_directories \/ Kill \/ RunAgain \/ (Ended /\ again /\ UNCHANGED syncVars)

Spec == Init /\ [][Next]_syncVars

-----------------------------------------------------------------------------
\* What the program cannot bring up to date: a directory where src has a file, a
\* read-only file, a file that looks like src's and is not, and a read-only file
\* that a killed run may have left incomplete (main.c:75, 85, 89).
Obstructed(p) ==
  /\ src[p].kind = "file"
  /\ \/ before[p].kind = "dir"
     \/ before[p].kind = "file" /\ src[p].data # before[p].data
        /\ (before[p].mode = "ro" \/ ~Differ(src[p], before[p]))
     \/ ~Exists(before, p) /\ src[p].mode = "ro" /\ kills > 0

\* When a run ends, also after others were killed at any point, dst is src, but
\* for what is obstructed, and even there times and permissions are src's: no
\* directory's time is spoilt by what came after it was set (main.c:59, 120).
Mirrors ==
  Ended => \A p \in Paths :
    /\ Exists(src, p) => dst[p].mtime = src[p].mtime /\ dst[p].mode = src[p].mode
    /\ dst[p] = src[p] \/ \E q \in Paths : IsPrefix(q, p) /\ Obstructed(q)

\* A second run has nothing to do, unless something was obstructed (main.c:85, 133).
SecondRunChangesNothing ==
  [][again => dst' = dst \/ \E p \in Paths : Obstructed(p)]_syncVars
=============================================================================
