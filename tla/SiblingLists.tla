---------------------------- MODULE SiblingLists ----------------------------
(***************************************************************************)
(* The order of one level of the tree, as the desktop's store.py keeps it: *)
(* a plain list of nodes.  Adding puts a node at the end, a fork goes just *)
(* below its source and the forks already there, a move puts a node where  *)
(* the user dropped it, and nothing else ever changes the order.  The      *)
(* shared tree promises the same, and can also bring deleted nodes back.   *)
(***************************************************************************)
EXTENDS Naturals, Sequences, SequencesExt

CONSTANTS
  Nodes,  \* nodes that may stand on the level
  None    \* no source, and no node

VARIABLES
  list,     \* the level's nodes in order
  thread,   \* thread_id: the session a conversation goes on with
  fork_of   \* the thread a conversation was forked from

Listed(n) == n \in Range(list)
IndexOf(n) == CHOOSE i \in DOMAIN list : list[i] = n

\* fork_conversation(), of what has a thread: below the source and the run of the
\* forks of that thread.
Fork(source, n) ==
  /\ Listed(source) /\ thread[source] # None /\ ~Listed(n)
  /\ LET after == {i \in IndexOf(source) + 1 .. Len(list) : fork_of[list[i]] # thread[source]}
         place == IF after = {} THEN Len(list) + 1
                  ELSE CHOOSE i \in after : \A j \in after : i <= j
     IN  list' = InsertAt(list, place, n)
  /\ fork_of' = [fork_of EXCEPT ![n] = thread[source]]
  /\ thread' = [thread EXCEPT ![n] = None]

OthersStay(n) ==
  \A m \in Nodes \ {n} : thread'[m] = thread[m] /\ fork_of'[m] = fork_of[m]

\* delete(), and the half of move() that takes a node off its level.
Delete(n) ==
  /\ Listed(n)
  /\ list' = RemoveAt(list, IndexOf(n))
  /\ OthersStay(n)

\* move() on one level, to a place among the other nodes ...
MoveTo(n, place) ==
  /\ Listed(n)
  /\ list' = InsertAt(RemoveAt(list, IndexOf(n)), place, n)
  /\ UNCHANGED <<thread, fork_of>>

\* ... which the desktop counts before the node is taken out.
Move(n, index) == MoveTo(n, IF index > IndexOf(n) THEN index - 1 ELSE index)

\* The half of move() that puts a node on another level; a node can be created
\* and restored there, too, on the shared tree.
Enter(n, place) ==
  /\ ~Listed(n)
  /\ list' = InsertAt(list, place, n)

\* add_conversation() and add_project()
Add(n) ==
  /\ Enter(n, Len(list) + 1)
  /\ thread' = [thread EXCEPT ![n] = None]
  /\ fork_of' = [fork_of EXCEPT ![n] = None]

\* set_thread_id()
SetThread(n, t) ==
  /\ Listed(n)
  /\ thread' = [thread EXCEPT ![n] = t]
  /\ UNCHANGED <<list, fork_of>>

\* clear_thread() forgets the sessions and the source.
Reset(n) ==
  /\ Listed(n)
  /\ thread' = [thread EXCEPT ![n] = None]
  /\ fork_of' = [fork_of EXCEPT ![n] = None]
  /\ UNCHANGED list

Empty == list = <<>> /\ thread = [n \in Nodes |-> None] /\ fork_of = thread

=============================================================================
