---------------------------- MODULE WriterQueue ----------------------------
(***************************************************************************)
(* The single writer of the service (db.py): any number of request threads *)
(* submit jobs, one thread takes them in order and runs each inside BEGIN  *)
(* IMMEDIATE ... COMMIT, retrying a job that another process locks out;    *)
(* close() lets the queue drain.                                           *)
(*                                                                         *)
(* submit() is three steps, because the closed flag is read before the job *)
(* is put.  The statements sent to SQLite are external: each may succeed,  *)
(* find the file locked, or fail.  A job is what the caller asked for; the *)
(* rows it writes belong to the modules about the services.                *)
(***************************************************************************)
EXTENDS Sequences, Naturals

CONSTANTS
  Jobs,          \* calls of submit(), each from a thread of its own
  Stop,          \* the None that close() puts
  LockRetries,   \* LOCK_RETRIES
  OpenMayFail    \* whether connect() in the writer thread may raise

ASSUME JobAssumption == Stop \notin Jobs
ASSUME RetryAssumption == LockRetries \in Nat \ {0}

VARIABLES
  caller,     \* where each call of submit() stands
  queue,      \* self._jobs
  accepted,   \* history: the order in which jobs were put
  writer,     \* where the writer thread stands
  job,        \* the job it holds, Stop when none
  attempt,    \* the loop counter of _run
  txn,        \* the job whose writes the open transaction holds, Stop when none
  outcome,    \* what _run ended with for the job it holds
  result,     \* the result dictionary each caller waits on
  closer,     \* where close() stands; the closed flag is set once it left "open"
  log         \* jobs committed to the file, in order

vars == <<caller, queue, accepted, writer, job, attempt, txn, outcome, result, closer, log>>

Finished == {"returned", "raised", "refused", "lost"}

TypeOK ==
  /\ caller \in [Jobs -> {"idle", "admitted", "waiting"} \cup Finished]
  /\ queue \in Seq(Jobs \cup {Stop})
  /\ accepted \in Seq(Jobs)
  /\ writer \in {"opening", "idle", "begin", "work", "commit", "deliver", "stopped", "dead"}
  /\ job \in Jobs \cup {Stop}
  /\ attempt \in 0..LockRetries
  /\ txn \in Jobs \cup {Stop}
  /\ outcome \in {"value", "error"}
  /\ result \in [Jobs -> {"none", "value", "error"}]
  /\ closer \in {"open", "flagged", "joining", "closed"}
  /\ log \in Seq(Jobs)

Committed(j) == \E i \in 1..Len(log) : log[i] = j

-----------------------------------------------------------------------------
(* submit(), in the thread of the caller. *)

CheckClosed(j) ==
  /\ caller[j] = "idle"
  /\ caller' = [caller EXCEPT ![j] = IF closer = "open" THEN "admitted" ELSE "refused"]
  /\ UNCHANGED <<queue, accepted, writer, job, attempt, txn, outcome, result, closer, log>>

\* Faulty variant: last in, first out.
PutFirst(j) ==
  /\ caller[j] = "admitted"
  /\ caller' = [caller EXCEPT ![j] = "waiting"]
  /\ queue' = <<j>> \o queue
  /\ accepted' = Append(accepted, j)
  /\ UNCHANGED <<writer, job, attempt, txn, outcome, result, closer, log>>

Put(j) ==
  /\ caller[j] = "admitted"
  /\ caller' = [caller EXCEPT ![j] = "waiting"]
  /\ queue' = Append(queue, j)
  /\ accepted' = Append(accepted, j)
  /\ UNCHANGED <<writer, job, attempt, txn, outcome, result, closer, log>>

WakeUp(j) ==
  /\ caller[j] = "waiting"
  /\ result[j] # "none"
  /\ caller' = [caller EXCEPT ![j] = IF result[j] = "value" THEN "returned" ELSE "raised"]
  /\ UNCHANGED <<queue, accepted, writer, job, attempt, txn, outcome, result, closer, log>>

-----------------------------------------------------------------------------
(* _serve() and _run(), in the writer thread. *)

Open ==
  /\ writer = "opening"
  /\ writer' = "idle"
  /\ UNCHANGED <<caller, queue, accepted, job, attempt, txn, outcome, result, closer, log>>

\* connect() is outside the try: the thread ends and nobody is told.
OpenFails ==
  /\ OpenMayFail
  /\ writer = "opening"
  /\ writer' = "dead"
  /\ UNCHANGED <<caller, queue, accepted, job, attempt, txn, outcome, result, closer, log>>

Take ==
  /\ writer = "idle"
  /\ queue # <<>>
  /\ queue' = Tail(queue)
  /\ job' = Head(queue)
  /\ writer' = IF Head(queue) = Stop THEN "stopped" ELSE "begin"
  /\ attempt' = 0
  /\ UNCHANGED <<caller, accepted, txn, outcome, result, closer, log>>

\* The caller gets the exception.
GiveUp ==
  /\ writer' = "deliver"
  /\ outcome' = "error"
  /\ UNCHANGED <<caller, queue, accepted, job, attempt, result, closer, log>>

\* Another process holds the lock: sleep and start over, unless this was the
\* last attempt, which ends in StorageBusy.
BackOff ==
  /\ attempt' = attempt + 1
  /\ writer' = IF attempt + 1 < LockRetries THEN "begin" ELSE "deliver"
  /\ outcome' = "error"
  /\ UNCHANGED <<caller, queue, accepted, job, result, closer, log>>

\* Faulty variant: the exception is passed on with the transaction open.
LeaveOpen == UNCHANGED txn

Rollback == txn' = Stop

\* SQLite starts no transaction within a transaction.
Begin ==
  /\ writer = "begin"
  /\ txn = Stop
  /\ writer' = "work"
  /\ txn' = job
  /\ UNCHANGED <<caller, queue, accepted, job, attempt, outcome, result, closer, log>>

BeginLocked == writer = "begin" /\ BackOff /\ UNCHANGED txn

BeginFails == writer = "begin" /\ GiveUp /\ UNCHANGED txn

\* fn(conn) ran to its end.
Work ==
  /\ writer = "work"
  /\ writer' = "commit"
  /\ UNCHANGED <<caller, queue, accepted, job, attempt, txn, outcome, result, closer, log>>

WorkRaises == writer = "work" /\ GiveUp /\ Rollback

Commit ==
  /\ writer = "commit"
  /\ writer' = "deliver"
  /\ outcome' = "value"
  /\ log' = Append(log, txn)
  /\ txn' = Stop
  /\ UNCHANGED <<caller, queue, accepted, job, attempt, result, closer>>

CommitLocked == writer = "commit" /\ BackOff /\ Rollback

CommitFails == writer = "commit" /\ GiveUp /\ Rollback

\* Faulty variants: an exception that wakes nobody, and one that is swallowed.
DeliverValueOnly ==
  /\ writer = "deliver"
  /\ writer' = "idle"
  /\ job' = Stop
  /\ result' = [result EXCEPT ![job] = IF outcome = "value" THEN "value" ELSE @]
  /\ UNCHANGED <<caller, queue, accepted, attempt, txn, outcome, closer, log>>

DeliverAsValue ==
  /\ writer = "deliver"
  /\ writer' = "idle"
  /\ job' = Stop
  /\ result' = [result EXCEPT ![job] = "value"]
  /\ UNCHANGED <<caller, queue, accepted, attempt, txn, outcome, closer, log>>

Deliver ==
  /\ writer = "deliver"
  /\ writer' = "idle"
  /\ job' = Stop
  /\ result' = [result EXCEPT ![job] = outcome]
  /\ UNCHANGED <<caller, queue, accepted, attempt, txn, outcome, closer, log>>

-----------------------------------------------------------------------------
(* close(), called once when the service shuts down. *)

SetClosed ==
  /\ closer = "open"
  /\ closer' = "flagged"
  /\ UNCHANGED <<caller, queue, accepted, writer, job, attempt, txn, outcome, result, log>>

PutStop ==
  /\ closer = "flagged"
  /\ closer' = "joining"
  /\ queue' = Append(queue, Stop)
  /\ UNCHANGED <<caller, accepted, writer, job, attempt, txn, outcome, result, log>>

\* join(timeout=15) returns when the thread ended or when the time is up.
Joined ==
  /\ closer = "joining"
  /\ closer' = "closed"
  /\ UNCHANGED <<caller, queue, accepted, writer, job, attempt, txn, outcome, result, log>>

-----------------------------------------------------------------------------
\* The process dies at any moment and is started again: only what was
\* committed survives.
Crash ==
  /\ caller' = [j \in Jobs |-> IF caller[j] \in {"admitted", "waiting"} THEN "lost" ELSE caller[j]]
  /\ queue' = <<>>
  /\ accepted' = <<>>
  /\ writer' = "opening"
  /\ job' = Stop
  /\ attempt' = 0
  /\ txn' = Stop
  /\ outcome' = "error"
  /\ result' = [j \in Jobs |-> "none"]
  /\ closer' = "open"
  /\ UNCHANGED log

Init ==
  /\ caller = [j \in Jobs |-> "idle"]
  /\ queue = <<>>
  /\ accepted = <<>>
  /\ writer = "opening"
  /\ job = Stop
  /\ attempt = 0
  /\ txn = Stop
  /\ outcome = "error"
  /\ result = [j \in Jobs |-> "none"]
  /\ closer = "open"
  /\ log = <<>>

CallerStep(j) == CheckClosed(j) \/ Put(j) \/ WakeUp(j)

WriterStep ==
  \/ Open \/ OpenFails
  \/ Take
  \/ Begin \/ BeginLocked \/ BeginFails
  \/ Work \/ WorkRaises
  \/ Commit \/ CommitLocked \/ CommitFails
  \/ Deliver

CloserStep == SetClosed \/ PutStop \/ Joined

Next ==
  \/ \E j \in Jobs : CallerStep(j)
  \/ WriterStep
  \/ CloserStep
  \/ Crash

Spec == Init /\ [][Next]_vars

\* Threads keep running; nobody has to call submit() or close(), but close()
\* once begun goes on.  Every SQLite call and every job returns.
Fairness ==
  /\ WF_vars(WriterStep)
  /\ \A j \in Jobs : WF_vars(Put(j) \/ WakeUp(j))
  /\ WF_vars(PutStop \/ Joined)

FairSpec == Spec /\ Fairness

-----------------------------------------------------------------------------
(* Properties. *)

\* No retry and no restart runs a job into the file twice.
CommittedOnce == \A i, k \in 1..Len(log) : log[i] = log[k] => i = k

\* The connection never leaves a job with a transaction open: the next BEGIN
\* would fail, and with it every job from then on.
NoTransactionLeftOpen == txn # Stop => txn = job /\ writer \in {"work", "commit"}

\* Strict FIFO: when a job is in the file, every job put before it has been
\* answered, and is in the file before it or not at all.
StrictFIFO ==
  \A k \in 1..Len(accepted) : Committed(accepted[k]) =>
    \A i \in 1..(k - 1) :
      /\ result[accepted[i]] # "none"
      /\ \A a, b \in 1..Len(log) : log[a] = accepted[k] /\ log[b] = accepted[i] => b < a

\* What each caller knows of its job.
Answers ==
  [j \in Jobs |-> IF caller[j] = "returned" THEN "value"
                  ELSE IF caller[j] \in {"raised", "refused"} THEN "error"
                  ELSE IF caller[j] = "lost" THEN "lost" ELSE "none"]

Store == INSTANCE SerialStore WITH answer <- Answers

\* The queue, its retries and its rollbacks implement SerialStore: an answer is
\* never a lie about the file, now or later.
ImplementsStore == Store!Spec

\* A job in the queue of a running writer, ahead of any stop.
InLine(j) ==
  /\ writer # "stopped"
  /\ \E i \in 1..Len(queue) : queue[i] = j /\ \A k \in 1..i : queue[k] # Stop

\* Every job put ahead of the stop is answered: close() drains the queue, and a
\* job that fails or runs out of retries does not block those behind it.
InLineIsAnswered ==
  \A j \in Jobs : InLine(j) ~> caller[j] \in Finished \/ writer = "dead"

=============================================================================
