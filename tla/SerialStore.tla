---------------------------- MODULE SerialStore ----------------------------
(***************************************************************************)
(* What Database.write promises its callers (db.py): each job takes effect *)
(* at most once and in one piece, a value means it took effect, an error   *)
(* means it did not and never will.  When the process dies a caller may be *)
(* left without an answer, and then the job may or may not be in the file. *)
(***************************************************************************)
EXTENDS Sequences, Naturals

CONSTANT Jobs

VARIABLES
  log,      \* the jobs that took effect, in order
  answer    \* what the caller of each job knows

storeVars == <<log, answer>>

Effected(j) == \E i \in 1..Len(log) : log[i] = j

Init ==
  /\ log = <<>>
  /\ answer = [j \in Jobs |-> "none"]

TakeEffect(j) ==
  /\ answer[j] = "none"
  /\ ~Effected(j)
  /\ log' = Append(log, j)
  /\ UNCHANGED answer

Succeed(j) ==
  /\ answer[j] = "none"
  /\ Effected(j)
  /\ answer' = [answer EXCEPT ![j] = "value"]
  /\ UNCHANGED log

Fail(j) ==
  /\ answer[j] = "none"
  /\ ~Effected(j)
  /\ answer' = [answer EXCEPT ![j] = "error"]
  /\ UNCHANGED log

\* The process dies with these calls in flight.
Lose(S) ==
  /\ \A j \in S : answer[j] = "none"
  /\ answer' = [j \in Jobs |-> IF j \in S THEN "lost" ELSE answer[j]]
  /\ UNCHANGED log

Next ==
  \/ \E j \in Jobs : TakeEffect(j) \/ Succeed(j) \/ Fail(j)
  \/ \E S \in SUBSET Jobs : Lose(S)

Spec == Init /\ [][Next]_storeVars

=============================================================================
