------------------------- MODULE WriterQueueProofs -------------------------
(***************************************************************************)
(* Proofs that the writer queue keeps the promise of SerialStore, in the   *)
(* order of the queue, for any number of callers and retries and any       *)
(* number of crashes.                                                      *)
(***************************************************************************)
EXTENDS WriterQueue, TLAPS

Busy == writer \in {"begin", "work", "commit", "deliver"}

\* The job the writer holds is in the file exactly when it is about to say so.
HeldJob ==
  Busy => /\ job \in Jobs
          /\ caller[job] = "waiting"
          /\ result[job] = "none"
          /\ Committed(job) <=> writer = "deliver" /\ outcome = "value"

\* Jobs in the queue have not been touched, and no job is there twice or
\* there and in the writer's hands.
QueuedJobs ==
  /\ \A i \in 1..Len(queue) : queue[i] # Stop =>
       /\ caller[queue[i]] = "waiting"
       /\ result[queue[i]] = "none"
       /\ ~Committed(queue[i])
       /\ Busy => queue[i] # job
  /\ \A i, k \in 1..Len(queue) : queue[i] # Stop /\ queue[i] = queue[k] => i = k

\* What a caller knows, or is about to be told, is so.
HonestAnswers ==
  \A j \in Jobs :
    /\ caller[j] \in {"idle", "admitted"} => result[j] = "none" /\ ~Committed(j)
    /\ caller[j] = "waiting" /\ result[j] = "value" => Committed(j)
    /\ caller[j] = "waiting" /\ result[j] = "error" => ~Committed(j)
    /\ caller[j] = "returned" => Committed(j)
    /\ caller[j] \in {"raised", "refused"} => ~Committed(j)

\* A job that is still being tried has attempts left.
AttemptsLeft == writer \in {"begin", "work", "commit"} => attempt < LockRetries

QueueInv ==
  /\ TypeOK
  /\ AttemptsLeft
  /\ NoTransactionLeftOpen
  /\ writer \in {"work", "commit"} => txn = job
  /\ HeldJob
  /\ QueuedJobs
  /\ HonestAnswers
  /\ CommittedOnce

USE JobAssumption, RetryAssumption

LEMMA QueueInvInit == Init => QueueInv
BY DEF Init, QueueInv, TypeOK, Finished, AttemptsLeft, NoTransactionLeftOpen, HeldJob, Busy, QueuedJobs,
       HonestAnswers, CommittedOnce, Committed

\* A step of submit().
LEMMA CallerKeepsInv ==
  ASSUME QueueInv, NEW j \in Jobs, CallerStep(j)
  PROVE  QueueInv'
<1> USE DEF QueueInv
<1>1. CASE CheckClosed(j)
  <2>1. TypeOK'
    BY <1>1 DEF CheckClosed, TypeOK, Finished
  <2>2. HeldJob' /\ QueuedJobs' /\ HonestAnswers'
    BY <1>1 DEF CheckClosed, TypeOK, HeldJob, Busy, QueuedJobs, HonestAnswers, Committed
  <2> QED BY <1>1, <2>1, <2>2 DEF CheckClosed, AttemptsLeft, NoTransactionLeftOpen, CommittedOnce
<1>2. CASE Put(j)
  <2>0. /\ Len(queue') = Len(queue) + 1 /\ Len(queue) \in Nat
        /\ \A i \in 1..Len(queue) : queue'[i] = queue[i]
        /\ queue'[Len(queue) + 1] = j
    BY <1>2 DEF Put, TypeOK
  <2>1. TypeOK'
    BY <1>2 DEF Put, TypeOK, Finished
  <2>2. \A i \in 1..Len(queue) : queue[i] # j
    BY <1>2 DEF Put, QueuedJobs
  <2>3. HeldJob' /\ HonestAnswers'
    BY <1>2 DEF Put, TypeOK, HeldJob, Busy, HonestAnswers, Committed
  <2>4. result[j] = "none" /\ ~Committed(j) /\ (Busy => j # job)
    BY <1>2 DEF Put, HonestAnswers, HeldJob
  <2>5. QueuedJobs'
    <3>1. ASSUME NEW i \in 1..Len(queue'), queue'[i] # Stop
          PROVE  /\ caller[queue'[i]] = "waiting" \/ queue'[i] = j
                 /\ result[queue'[i]] = "none"
                 /\ ~Committed(queue'[i])
                 /\ Busy => queue'[i] # job
      <4>1. CASE i = Len(queue) + 1
        BY <2>0, <2>4, <4>1
      <4>2. CASE i \in 1..Len(queue)
        BY <2>0, <3>1, <4>2 DEF QueuedJobs
      <4> QED BY <2>0, <4>1, <4>2
    <3>2. ASSUME NEW i \in 1..Len(queue'), NEW k \in 1..Len(queue'),
                 queue'[i] # Stop, queue'[i] = queue'[k]
          PROVE  i = k
      <4>1. CASE i \in 1..Len(queue) /\ k \in 1..Len(queue)
        BY <2>0, <3>2, <4>1 DEF QueuedJobs
      <4> QED BY <2>0, <2>2, <3>2, <4>1
    <3>3. /\ caller' = [caller EXCEPT ![j] = "waiting"]
          /\ UNCHANGED <<result, log, writer, job>>
      BY <1>2 DEF Put
    <3>4. \A i \in 1..Len(queue') : queue'[i] # Stop => caller'[queue'[i]] = "waiting"
      <4>1. caller \in [Jobs -> {"idle", "admitted", "waiting"} \cup Finished]
        BY DEF TypeOK
      <4>2. \A i \in 1..Len(queue') : queue'[i] \in Jobs \cup {Stop}
        BY <2>1 DEF TypeOK
      <4> QED BY <3>1, <3>3, <4>1, <4>2
    <3> QED BY <3>1, <3>2, <3>3, <3>4 DEF QueuedJobs, Committed, Busy
  <2> QED BY <1>2, <2>1, <2>3, <2>5 DEF Put, AttemptsLeft, NoTransactionLeftOpen, CommittedOnce
<1>3. CASE WakeUp(j)
  <2>1. TypeOK'
    BY <1>3 DEF WakeUp, TypeOK, Finished
  <2>2. HeldJob' /\ QueuedJobs' /\ HonestAnswers'
    BY <1>3 DEF WakeUp, TypeOK, HeldJob, Busy, QueuedJobs, HonestAnswers, Committed
  <2> QED BY <1>3, <2>1, <2>2 DEF WakeUp, AttemptsLeft, NoTransactionLeftOpen, CommittedOnce
<1> QED BY <1>1, <1>2, <1>3 DEF CallerStep

\* Taking the next job, or the stop, out of the queue.
LEMMA TakeKeepsInv ==
  ASSUME QueueInv, Take
  PROVE  QueueInv'
<1> USE DEF QueueInv
<1>1. /\ Len(queue') = Len(queue) - 1 /\ Len(queue) \in Nat /\ Len(queue) >= 1
      /\ \A i \in 1..Len(queue') : queue'[i] = queue[i + 1] /\ i + 1 \in 1..Len(queue)
      /\ job' = queue[1] /\ job' \in Jobs \cup {Stop}
      /\ writer' = IF job' = Stop THEN "stopped" ELSE "begin"
      /\ UNCHANGED <<caller, accepted, txn, outcome, result, closer, log>>
  BY DEF Take, TypeOK
<1>2. TypeOK'
  BY <1>1 DEF Take, TypeOK
<1>3. HeldJob'
  BY <1>1 DEF HeldJob, Busy, QueuedJobs, Committed
<1>4. QueuedJobs'
  <2>1. ASSUME NEW i \in 1..Len(queue'), queue'[i] # Stop
        PROVE  /\ caller[queue'[i]] = "waiting"
               /\ result[queue'[i]] = "none"
               /\ ~Committed(queue'[i])
               /\ queue'[i] # job'
    <3>1. i + 1 # 1 /\ i + 1 \in 1..Len(queue) /\ 1 \in 1..Len(queue) /\ queue[i + 1] # Stop
      BY <1>1, <2>1
    <3> QED BY <1>1, <2>1, <3>1 DEF QueuedJobs
  <2>2. ASSUME NEW i \in 1..Len(queue'), NEW k \in 1..Len(queue'),
               queue'[i] # Stop, queue'[i] = queue'[k]
        PROVE  i = k
    <3>1. i + 1 = k + 1
      BY <1>1, <2>2 DEF QueuedJobs
    <3> QED BY <3>1
  <2> QED BY <1>1, <2>1, <2>2 DEF QueuedJobs, Committed
<1>5. HonestAnswers'
  BY <1>1 DEF HonestAnswers, Committed
<1>6. AttemptsLeft' /\ NoTransactionLeftOpen' /\ CommittedOnce' /\ (writer' \in {"work", "commit"} => txn' = job')
  BY <1>1 DEF Take, AttemptsLeft, NoTransactionLeftOpen, CommittedOnce
<1> QED BY <1>2, <1>3, <1>4, <1>5, <1>6

\* The commit, the one step that writes the file.
LEMMA CommitKeepsInv ==
  ASSUME QueueInv, Commit
  PROVE  QueueInv'
<1> USE DEF QueueInv
<1>1. /\ txn = job /\ job \in Jobs /\ Busy /\ ~Committed(job) /\ caller[job] = "waiting"
      /\ result[job] = "none"
  BY DEF Commit, HeldJob, Busy
<1>2. /\ Len(log') = Len(log) + 1 /\ Len(log) \in Nat /\ log'[Len(log) + 1] = job
      /\ \A i \in 1..Len(log) : log'[i] = log[i]
      /\ writer' = "deliver" /\ outcome' = "value" /\ txn' = Stop
      /\ UNCHANGED <<caller, queue, accepted, job, attempt, result, closer>>
  BY <1>1 DEF Commit, TypeOK
<1> DEFINE InFile(j) == \E i \in 1..Len(log') : log'[i] = j
<1>3. \A j : InFile(j) <=> Committed(j) \/ j = job
  <2>1. ASSUME NEW j PROVE Committed(j) => InFile(j)
    BY <1>2 DEF Committed
  <2>2. InFile(job)
    BY <1>2
  <2>3. ASSUME NEW j, InFile(j) PROVE Committed(j) \/ j = job
    BY <1>2, <2>3 DEF Committed
  <2> QED BY <2>1, <2>2, <2>3
<1>4. TypeOK'
  BY <1>1 DEF Commit, TypeOK
<1>5. HeldJob'
  BY <1>1, <1>2, <1>3 DEF HeldJob, Busy, Committed
<1>6. QueuedJobs'
  BY <1>1, <1>2, <1>3 DEF QueuedJobs, Busy, Committed
<1>7. HonestAnswers'
  BY <1>1, <1>2, <1>3 DEF HonestAnswers, Committed
<1>8. CommittedOnce'
  BY <1>1, <1>2 DEF CommittedOnce, Committed
<1>9. AttemptsLeft' /\ NoTransactionLeftOpen'
  BY <1>2 DEF AttemptsLeft, NoTransactionLeftOpen
<1> QED BY <1>2, <1>4, <1>5, <1>6, <1>7, <1>8, <1>9

\* The other steps of the writer thread.
LEMMA WriterKeepsInv ==
  ASSUME QueueInv, WriterStep
  PROVE  QueueInv'
<1> USE DEF QueueInv
<1>1. ASSUME Open \/ OpenFails PROVE QueueInv'
  <2>1. /\ UNCHANGED <<caller, queue, accepted, job, attempt, txn, outcome, result, closer, log>>
        /\ writer' \in {"idle", "dead"} /\ ~Busy' /\ writer = "opening"
    BY <1>1 DEF Open, OpenFails, Busy
  <2>2. TypeOK'
    BY <2>1 DEF TypeOK
  <2>3. AttemptsLeft' /\ NoTransactionLeftOpen' /\ HeldJob' /\ CommittedOnce'
    BY <2>1 DEF AttemptsLeft, NoTransactionLeftOpen, HeldJob, CommittedOnce
  <2>4. QueuedJobs' /\ HonestAnswers'
    BY <2>1 DEF QueuedJobs, HonestAnswers, Committed
  <2> QED BY <2>1, <2>2, <2>3, <2>4
<1>2. ASSUME Begin \/ Work PROVE QueueInv'
  <2>1. Busy /\ Busy' /\ UNCHANGED <<caller, queue, job, result, log>>
    BY <1>2 DEF Begin, Work, Busy
  <2>2. TypeOK' /\ AttemptsLeft' /\ NoTransactionLeftOpen' /\ (writer' \in {"work", "commit"} => txn' = job')
    BY <1>2 DEF Begin, Work, TypeOK, AttemptsLeft, NoTransactionLeftOpen
  <2>3. HeldJob'
    BY <1>2, <2>1 DEF Begin, Work, HeldJob, Committed
  <2>4. QueuedJobs' /\ HonestAnswers' /\ CommittedOnce'
    BY <2>1 DEF QueuedJobs, HonestAnswers, CommittedOnce, Committed
  <2> QED BY <2>2, <2>3, <2>4
<1>3. ASSUME \/ BeginLocked \/ BeginFails \/ WorkRaises \/ CommitLocked \/ CommitFails
      PROVE  QueueInv'
  <2>1. /\ writer \in {"begin", "work", "commit"} /\ writer' \in {"begin", "deliver"}
        /\ outcome' = "error" /\ UNCHANGED <<caller, queue, accepted, job, result, closer, log>>
        /\ txn' \in {txn, Stop} /\ (writer = "begin" \/ txn' = Stop)
    BY <1>3 DEF BeginLocked, BeginFails, WorkRaises, CommitLocked, CommitFails, BackOff, GiveUp, Rollback
  <2>2. TypeOK' /\ AttemptsLeft'
    BY <1>3 DEF BeginLocked, BeginFails, WorkRaises, CommitLocked, CommitFails, BackOff, GiveUp,
                Rollback, TypeOK, AttemptsLeft
  <2>3. NoTransactionLeftOpen' /\ (writer' \in {"work", "commit"} => txn' = job')
    BY <2>1 DEF NoTransactionLeftOpen
  <2>4. HeldJob'
    BY <2>1 DEF HeldJob, Busy, Committed
  <2>5. QueuedJobs' /\ HonestAnswers' /\ CommittedOnce'
    BY <2>1 DEF QueuedJobs, HonestAnswers, CommittedOnce, Committed, Busy
  <2> QED BY <2>2, <2>3, <2>4, <2>5
<1>4. ASSUME Deliver PROVE QueueInv'
  <2>1. /\ Busy /\ job \in Jobs /\ caller[job] = "waiting" /\ ~Busy'
        /\ Committed(job) <=> outcome = "value"
        /\ result' = [result EXCEPT ![job] = outcome]
        /\ UNCHANGED <<caller, queue, log, txn>> /\ outcome \in {"value", "error"}
    BY <1>4 DEF Deliver, HeldJob, Busy, TypeOK
  <2>2. TypeOK' /\ AttemptsLeft' /\ NoTransactionLeftOpen' /\ (writer' \in {"work", "commit"} => txn' = job')
    BY <1>4, <2>1 DEF Deliver, TypeOK, AttemptsLeft, NoTransactionLeftOpen
  <2>3. QueuedJobs'
    <3>1. \A i \in 1..Len(queue) : queue[i] # Stop => queue[i] # job /\ queue[i] \in Jobs
      BY <2>1 DEF QueuedJobs, TypeOK
    <3>2. \A i \in 1..Len(queue) : queue[i] # Stop => result'[queue[i]] = "none"
      BY <2>1, <3>1 DEF QueuedJobs, TypeOK
    <3> QED BY <2>1, <3>1, <3>2 DEF QueuedJobs, Committed
  <2>4. HonestAnswers'
    BY <2>1 DEF HonestAnswers, Committed, TypeOK
  <2> QED BY <2>1, <2>2, <2>3, <2>4 DEF HeldJob, CommittedOnce
<1> QED BY <1>1, <1>2, <1>3, <1>4, TakeKeepsInv, CommitKeepsInv DEF WriterStep

\* A step of close(); the stop it puts is no job.
LEMMA CloserKeepsInv ==
  ASSUME QueueInv, CloserStep
  PROVE  QueueInv'
<1> USE DEF QueueInv
<1>1. CASE PutStop
  <2>1. /\ Len(queue') = Len(queue) + 1 /\ Len(queue) \in Nat /\ queue'[Len(queue) + 1] = Stop
        /\ \A i \in 1..Len(queue) : queue'[i] = queue[i]
        /\ UNCHANGED <<caller, accepted, writer, job, attempt, txn, outcome, result, log>>
    BY <1>1 DEF PutStop, TypeOK
  <2>2. \A i \in 1..Len(queue') : queue'[i] # Stop => i \in 1..Len(queue)
    BY <2>1
  <2>3. TypeOK'
    BY <1>1 DEF PutStop, TypeOK
  <2>4. QueuedJobs'
    BY <2>1, <2>2 DEF QueuedJobs, Committed, Busy
  <2> QED
    BY <2>1, <2>3, <2>4 DEF AttemptsLeft, NoTransactionLeftOpen, HeldJob, Busy, HonestAnswers,
                            CommittedOnce, Committed
<1>2. ASSUME SetClosed \/ Joined PROVE QueueInv'
  BY <1>2 DEF SetClosed, Joined, TypeOK, AttemptsLeft, NoTransactionLeftOpen, HeldJob, Busy,
              QueuedJobs, HonestAnswers, CommittedOnce, Committed
<1> QED BY <1>1, <1>2 DEF CloserStep

LEMMA CrashKeepsInv ==
  ASSUME QueueInv, Crash
  PROVE  QueueInv'
<1> USE DEF QueueInv
<1>1. TypeOK'
  BY DEF Crash, TypeOK, Finished
<1>2. \A j \in Jobs : caller'[j] = IF caller[j] \in {"admitted", "waiting"} THEN "lost" ELSE caller[j]
  BY DEF Crash
<1>3. HonestAnswers'
  BY <1>2 DEF Crash, HonestAnswers, Committed
<1>4. Len(queue') = 0
  BY DEF Crash
<1> QED
  BY <1>1, <1>3, <1>4 DEF Crash, AttemptsLeft, NoTransactionLeftOpen, HeldJob, Busy, QueuedJobs,
                          CommittedOnce

LEMMA QueueInvNext == QueueInv /\ [Next]_vars => QueueInv'
<1> SUFFICES ASSUME QueueInv, [Next]_vars PROVE QueueInv'
  OBVIOUS
<1>1. CASE UNCHANGED vars
  BY <1>1 DEF vars, QueueInv, TypeOK, AttemptsLeft, NoTransactionLeftOpen, HeldJob, Busy,
              QueuedJobs, HonestAnswers, CommittedOnce, Committed
<1> QED
  BY <1>1, CallerKeepsInv, WriterKeepsInv, CloserKeepsInv, CrashKeepsInv DEF Next

THEOREM QueueInvariant == Spec => []QueueInv
BY QueueInvInit, QueueInvNext, PTL DEF Spec

\* The variables of the writer queue keep their types.
THEOREM QueueTypeCorrect == Spec => []TypeOK
<1>1. QueueInv => TypeOK
  BY DEF QueueInv
<1> QED BY <1>1, QueueInvariant, PTL

\* No job reaches the file twice, however often it is retried and whenever the
\* process dies (WriterQueue._run).
THEOREM NeverCommittedTwice == Spec => []CommittedOnce
<1>1. QueueInv => CommittedOnce
  BY DEF QueueInv
<1> QED BY <1>1, QueueInvariant, PTL

\* Every way out of _run closes the transaction it opened.
THEOREM TransactionsAreClosed == Spec => []NoTransactionLeftOpen
<1>1. QueueInv => NoTransactionLeftOpen
  BY DEF QueueInv
<1> QED BY <1>1, QueueInvariant, PTL

-----------------------------------------------------------------------------
(* The order. *)

Waits(j) == \E q \in 1..Len(queue) : queue[q] = j

Holds(j) == Busy /\ job = j

\* A job is accepted once, and only after the closed check.
AcceptedOnce ==
  /\ \A i, k \in 1..Len(accepted) : accepted[i] = accepted[k] => i = k
  /\ \A i \in 1..Len(accepted) : caller[accepted[i]] \notin {"idle", "admitted"}

\* What was accepted and not answered is in the queue or in the writer's
\* hands, and nothing else is.
NoneForgotten ==
  /\ \A i \in 1..Len(accepted) :
       result[accepted[i]] = "none" => Waits(accepted[i]) \/ Holds(accepted[i])
  /\ \A j \in Jobs : Waits(j) \/ Holds(j) => \E i \in 1..Len(accepted) : accepted[i] = j

\* The queue keeps the order of acceptance, ...
QueueInOrder ==
  \A p, q \in 1..Len(queue), i, k \in 1..Len(accepted) :
    p < q /\ queue[p] = accepted[i] /\ queue[q] = accepted[k] => i < k

\* ... and nothing behind a job that waits or is worked on has been begun.
NoneOvertakes ==
  \A i, k \in 1..Len(accepted) : i < k =>
    /\ Waits(accepted[i]) => result[accepted[k]] = "none" /\ ~Holds(accepted[k])
    /\ Holds(accepted[i]) => result[accepted[k]] = "none"

FifoInv == AcceptedOnce /\ NoneForgotten /\ QueueInOrder /\ NoneOvertakes /\ StrictFIFO

LEMMA FifoInit == Init => FifoInv
BY DEF Init, FifoInv, AcceptedOnce, NoneForgotten, QueueInOrder, NoneOvertakes, StrictFIFO,
       Waits, Holds, Busy

\* A job that is put comes last, in the queue and in the order.
LEMMA PutKeepsFifo ==
  ASSUME QueueInv, FifoInv, NEW j \in Jobs, Put(j)
  PROVE  FifoInv'
<1> DEFINE n == Len(accepted)
           m == Len(queue)
           Waiting(h) == \E q \in 1..Len(queue') : queue'[q] = h
           Holding(h) == Busy' /\ job' = h
<1>1. /\ n \in Nat /\ Len(accepted') = n + 1 /\ accepted'[n + 1] = j
      /\ \A i \in 1..n : accepted'[i] = accepted[i] /\ accepted[i] \in Jobs
      /\ m \in Nat /\ Len(queue') = m + 1 /\ queue'[m + 1] = j
      /\ \A q \in 1..m : queue'[q] = queue[q]
      /\ UNCHANGED <<writer, job, result, log>>
  BY DEF Put, QueueInv, TypeOK
<1>2. caller[j] = "admitted" /\ result[j] = "none" /\ ~Committed(j) /\ ~Holds(j)
  BY DEF Put, QueueInv, HonestAnswers, HeldJob, Holds
<1>3. \A i \in 1..n : accepted[i] # j
  BY <1>2 DEF FifoInv, AcceptedOnce
<1>4. ~Waits(j)
  BY <1>2, JobAssumption DEF Waits, QueueInv, QueuedJobs
<1>5. \A h : Waiting(h) <=> Waits(h) \/ h = j
  <2>1. ASSUME NEW h, Waits(h) PROVE Waiting(h)
    BY <1>1, <2>1 DEF Waits
  <2>2. Waiting(j)
    BY <1>1 DEF Waits
  <2>3. ASSUME NEW h, Waiting(h), h # j PROVE Waits(h)
    BY <1>1, <2>3 DEF Waits
  <2> QED BY <2>1, <2>2, <2>3
<1>6. \A h : Holding(h) <=> Holds(h)
  BY <1>1 DEF Holds, Busy
<1>7. \A h : Committed(h)' <=> Committed(h)
  BY <1>1 DEF Committed
<1> HIDE DEF n, m
<1>8. AcceptedOnce'
  <2>1. caller'[j] = "waiting" /\ \A h \in Jobs : h # j => caller'[h] = caller[h]
    BY DEF Put, QueueInv, TypeOK
  <2> QED BY <1>1, <1>3, <2>1 DEF FifoInv, AcceptedOnce, n
<1>9. NoneForgotten'
  <2>1. ASSUME NEW i \in 1..(n + 1), result[accepted'[i]] = "none"
        PROVE  Waiting(accepted'[i]) \/ Holding(accepted'[i])
    <3>1. CASE i = n + 1
      BY <1>1, <1>5, <3>1
    <3>2. CASE i \in 1..n
      BY <1>1, <1>5, <1>6, <2>1, <3>2 DEF FifoInv, NoneForgotten, n
    <3> QED BY <1>1, <3>1, <3>2
  <2>2. ASSUME NEW h \in Jobs, Waiting(h) \/ Holding(h)
        PROVE  \E i \in 1..(n + 1) : accepted'[i] = h
    <3>1. CASE h = j
      BY <1>1, <3>1
    <3>2. CASE h # j
      <4>1. PICK i \in 1..n : accepted[i] = h
        BY <1>5, <1>6, <2>2, <3>2 DEF FifoInv, NoneForgotten, n
      <4> QED BY <1>1, <4>1
    <3> QED BY <3>1, <3>2
  <2>3. \A i \in 1..(n + 1) : result'[accepted'[i]] = result[accepted'[i]]
    BY <1>1
  <2> QED BY <1>1, <2>1, <2>2, <2>3 DEF NoneForgotten, Waits, Holds, Busy
<1>10. QueueInOrder'
  <2>1. ASSUME NEW p \in 1..(m + 1), NEW q \in 1..(m + 1), NEW i \in 1..(n + 1), NEW k \in 1..(n + 1),
               p < q, queue'[p] = accepted'[i], queue'[q] = accepted'[k]
        PROVE  i < k
    <3>1. p \in 1..m /\ queue'[p] = queue[p] /\ queue[p] # j
      BY <1>1, <1>4, <2>1 DEF Waits, m
    <3>2. i \in 1..n /\ accepted'[i] = accepted[i]
      <4>1. i # n + 1
        BY <1>1, <2>1, <3>1
      <4> QED BY <1>1, <4>1
    <3>3. CASE k = n + 1
      BY <1>1, <3>2, <3>3
    <3>4. CASE k \in 1..n
      <4>1. q # m + 1
        BY <1>1, <1>3, <2>1, <3>4 DEF n
      <4>2. q \in 1..m /\ queue'[q] = queue[q] /\ accepted'[k] = accepted[k]
        BY <1>1, <3>4, <4>1
      <4> QED BY <2>1, <3>1, <3>2, <3>4, <4>2 DEF FifoInv, QueueInOrder, n, m
    <3> QED BY <1>1, <3>3, <3>4
  <2> QED BY <1>1, <2>1 DEF QueueInOrder
<1>11. NoneOvertakes'
  <2>1. ASSUME NEW i \in 1..(n + 1), NEW k \in 1..(n + 1), i < k
        PROVE  /\ Waiting(accepted'[i]) => result[accepted'[k]] = "none" /\ ~Holding(accepted'[k])
               /\ Holding(accepted'[i]) => result[accepted'[k]] = "none"
    <3>1. i \in 1..n /\ accepted'[i] = accepted[i] /\ accepted[i] # j
      BY <1>1, <1>3, <2>1 DEF n
    <3>2. CASE k = n + 1
      BY <1>1, <1>2, <1>6, <3>2
    <3>3. CASE k \in 1..n
      BY <1>1, <1>5, <1>6, <2>1, <3>1, <3>3 DEF FifoInv, NoneOvertakes, n
    <3> QED BY <1>1, <3>2, <3>3
  <2>2. \A i \in 1..(n + 1) : result'[accepted'[i]] = result[accepted'[i]]
    BY <1>1
  <2> QED BY <1>1, <2>1, <2>2 DEF NoneOvertakes, Waits, Holds, Busy
<1>12. StrictFIFO'
  <2>1. ASSUME NEW k \in 1..(n + 1), Committed(accepted'[k]), NEW i \in 1..(k - 1)
        PROVE  /\ result[accepted'[i]] # "none"
               /\ \A a, b \in 1..Len(log) : log[a] = accepted'[k] /\ log[b] = accepted'[i] => b < a
    <3>1. k \in 1..n /\ i \in 1..n /\ accepted'[k] = accepted[k] /\ accepted'[i] = accepted[i]
      BY <1>1, <1>2, <2>1
    <3> QED BY <2>1, <3>1 DEF FifoInv, StrictFIFO, n
  <2> QED BY <1>1, <2>1 DEF StrictFIFO, Committed
<1> QED BY <1>8, <1>9, <1>10, <1>11, <1>12 DEF FifoInv

\* The writer takes the job that was accepted first of those that wait.
LEMMA TakeKeepsFifo ==
  ASSUME QueueInv, FifoInv, Take
  PROVE  FifoInv'
<1> DEFINE Waiting(h) == \E q \in 1..Len(queue') : queue'[q] = h
           Holding(h) == Busy' /\ job' = h
<1>1. /\ Len(queue') = Len(queue) - 1 /\ Len(queue) \in Nat /\ Len(queue) >= 1
      /\ \A q \in 1..Len(queue') : queue'[q] = queue[q + 1]
  BY DEF Take, QueueInv, TypeOK
<1>2. UNCHANGED <<caller, accepted, result, log>>
  BY DEF Take
<1>3. Len(accepted) \in Nat /\ \A i \in 1..Len(accepted) : accepted[i] \in Jobs
  BY DEF QueueInv, TypeOK
<1>4. \A h : ~Holds(h)
  BY DEF Take, Holds, Busy
<1>5. \A h \in Jobs : Holding(h) <=> queue[1] = h
  <2>1. job' = queue[1] /\ writer' = IF job' = Stop THEN "stopped" ELSE "begin"
    BY DEF Take, QueueInv, TypeOK
  <2> QED BY <2>1, JobAssumption DEF Busy
<1>6. \A h : Waiting(h) => \E q \in 2..Len(queue) : queue[q] = h
  <2> SUFFICES ASSUME NEW h, NEW q \in 1..Len(queue'), queue'[q] = h
               PROVE  \E r \in 2..Len(queue) : queue[r] = h
    OBVIOUS
  <2>1. q + 1 \in 2..Len(queue) /\ queue[q + 1] = h
    BY <1>1
  <2> QED BY <2>1
<1>7. \A h : Waits(h) => queue[1] = h \/ Waiting(h)
  <2> SUFFICES ASSUME NEW h, NEW q \in 1..Len(queue), queue[q] = h, q # 1 PROVE Waiting(h)
    BY DEF Waits
  <2>1. q - 1 \in 1..Len(queue') /\ queue'[q - 1] = h
    BY <1>1
  <2> QED BY <2>1
<1>8. \A h \in Jobs : Waiting(h) \/ Holding(h) <=> Waits(h)
  <2>1. ASSUME NEW h \in Jobs, Waiting(h) PROVE Waits(h)
    <3>1. PICK q \in 2..Len(queue) : queue[q] = h
      BY <1>6, <2>1
    <3> QED BY <1>1, <3>1 DEF Waits
  <2>2. ASSUME NEW h \in Jobs, Holding(h) PROVE Waits(h)
    <3>1. queue[1] = h /\ 1 \in 1..Len(queue)
      BY <1>1, <1>5, <2>2
    <3> QED BY <3>1 DEF Waits
  <2> HIDE DEF Waiting, Holding
  <2> QED BY <1>5, <1>7, <2>1, <2>2
<1>9. AcceptedOnce' /\ StrictFIFO'
  <2>1. AcceptedOnce /\ StrictFIFO
    BY DEF FifoInv
  <2>2. AcceptedOnce'
    BY <1>2, <2>1 DEF AcceptedOnce
  <2>3. StrictFIFO'
    BY <1>2, <2>1 DEF StrictFIFO, Committed
  <2> QED BY <2>2, <2>3
<1>10. NoneForgotten'
  <2>1. \A i \in 1..Len(accepted) : result[accepted[i]] = "none" => Waiting(accepted[i]) \/ Holding(accepted[i])
    BY <1>3, <1>4, <1>8 DEF FifoInv, NoneForgotten
  <2>2. \A h \in Jobs : Waiting(h) \/ Holding(h) => \E i \in 1..Len(accepted) : accepted[i] = h
    BY <1>8 DEF FifoInv, NoneForgotten
  <2> QED BY <1>2, <2>1, <2>2 DEF NoneForgotten, Waits, Holds
<1>11. QueueInOrder'
  <2>1. ASSUME NEW p \in 1..Len(queue'), NEW q \in 1..Len(queue'),
               NEW i \in 1..Len(accepted), NEW k \in 1..Len(accepted),
               p < q, queue'[p] = accepted[i], queue'[q] = accepted[k]
        PROVE  i < k
    <3>1. /\ p + 1 \in 1..Len(queue) /\ queue[p + 1] = accepted[i]
          /\ q + 1 \in 1..Len(queue) /\ queue[q + 1] = accepted[k]
          /\ p + 1 < q + 1
      BY <1>1, <2>1
    <3> QED BY <3>1 DEF FifoInv, QueueInOrder
  <2> QED BY <1>2, <2>1 DEF QueueInOrder
<1>12. NoneOvertakes'
  <2>1. ASSUME NEW i \in 1..Len(accepted), NEW k \in 1..Len(accepted), i < k
        PROVE  /\ Waiting(accepted[i]) => result[accepted[k]] = "none" /\ ~Holding(accepted[k])
               /\ Holding(accepted[i]) => result[accepted[k]] = "none"
    <3>1. Waiting(accepted[i]) \/ Holding(accepted[i]) => result[accepted[k]] = "none"
      BY <1>3, <1>8, <2>1 DEF FifoInv, NoneOvertakes
    <3>2. ASSUME Waiting(accepted[i]), Holding(accepted[k]) PROVE FALSE
      <4>1. PICK q \in 2..Len(queue) : queue[q] = accepted[i]
        BY <1>6, <3>2
      <4>2. queue[1] = accepted[k] /\ 1 \in 1..Len(queue) /\ q \in 1..Len(queue) /\ 1 < q
        BY <1>1, <1>3, <1>5, <3>2
      <4>3. k < i
        BY <4>1, <4>2 DEF FifoInv, QueueInOrder
      <4> QED BY <2>1, <4>3
    <3> QED BY <3>1, <3>2
  <2> QED BY <1>2, <2>1 DEF NoneOvertakes, Waits, Holds
<1> QED BY <1>9, <1>10, <1>11, <1>12 DEF FifoInv

\* A commit comes when everything accepted before has been answered.
LEMMA CommitKeepsFifo ==
  ASSUME QueueInv, FifoInv, Commit
  PROVE  FifoInv'
<1>1. /\ txn = job /\ job \in Jobs /\ Busy /\ ~Committed(job) /\ result[job] = "none" /\ Holds(job)
  BY DEF Commit, QueueInv, HeldJob, Busy, Holds
<1>2. /\ Len(log') = Len(log) + 1 /\ Len(log) \in Nat /\ log'[Len(log) + 1] = job
      /\ \A a \in 1..Len(log) : log'[a] = log[a]
      /\ Busy' /\ UNCHANGED <<caller, queue, accepted, job, result>>
      /\ Len(accepted) \in Nat
  BY <1>1 DEF Commit, QueueInv, TypeOK, Busy
<1>3. AcceptedOnce' /\ NoneForgotten' /\ QueueInOrder' /\ NoneOvertakes'
  <2>1. Busy' = Busy
    BY <1>1, <1>2 DEF Busy
  <2>2. AcceptedOnce' /\ QueueInOrder'
    BY <1>2 DEF FifoInv, AcceptedOnce, QueueInOrder
  <2>3. NoneForgotten'
    BY <1>2, <2>1 DEF FifoInv, NoneForgotten, Waits, Holds
  <2>4. NoneOvertakes'
    BY <1>2, <2>1 DEF FifoInv, NoneOvertakes, Waits, Holds
  <2> QED BY <2>2, <2>3, <2>4
<1>4. ASSUME NEW k \in 1..Len(accepted), NEW i \in 1..(k - 1), NEW c \in 1..Len(log'), log'[c] = accepted[k]
      PROVE  result[accepted[i]] # "none"
  <2>1. i \in 1..Len(accepted) /\ i < k
    BY <1>2
  <2>2. CASE accepted[k] = job
    <3>1. ~Waits(accepted[i])
      BY <1>1, <2>1, <2>2 DEF FifoInv, NoneOvertakes
    <3>2. ~Holds(accepted[i])
      BY <2>1, <2>2 DEF FifoInv, AcceptedOnce, Holds
    <3> QED BY <2>1, <3>1, <3>2 DEF FifoInv, NoneForgotten
  <2>3. CASE accepted[k] # job
    <3>1. Committed(accepted[k])
      BY <1>2, <1>4, <2>3 DEF Committed
    <3> QED BY <3>1 DEF FifoInv, StrictFIFO
  <2> QED BY <2>2, <2>3
<1>5. ASSUME NEW k \in 1..Len(accepted), NEW i \in 1..(k - 1),
             NEW a \in 1..Len(log'), NEW b \in 1..Len(log'), log'[a] = accepted[k], log'[b] = accepted[i]
      PROVE  b < a
  <2>1. accepted[i] # job
    BY <1>1, <1>4, <1>5
  <2>2. b \in 1..Len(log) /\ log[b] = accepted[i]
    BY <1>2, <1>5, <2>1
  <2>3. CASE a = Len(log) + 1
    BY <1>2, <2>2, <2>3
  <2>4. CASE a \in 1..Len(log)
    <3>1. log[a] = accepted[k] /\ Committed(accepted[k])
      BY <1>2, <1>5, <2>4 DEF Committed
    <3> QED BY <2>2, <2>4, <3>1 DEF FifoInv, StrictFIFO
  <2> QED BY <1>2, <2>3, <2>4
<1>6. StrictFIFO'
  BY <1>2, <1>4, <1>5 DEF StrictFIFO, Committed
<1> QED BY <1>3, <1>6 DEF FifoInv

\* An answer lets the next job be the first.
LEMMA DeliverKeepsFifo ==
  ASSUME QueueInv, FifoInv, Deliver
  PROVE  FifoInv'
<1> DEFINE Waiting(h) == \E q \in 1..Len(queue') : queue'[q] = h
           Holding(h) == Busy' /\ job' = h
<1>1. /\ job \in Jobs /\ ~Busy' /\ Holds(job)
      /\ result'[job] # "none" /\ \A h \in Jobs : h # job => result'[h] = result[h]
      /\ UNCHANGED <<caller, queue, accepted, log>>
      /\ \A i \in 1..Len(accepted) : accepted[i] \in Jobs
      /\ Len(accepted) \in Nat
  BY DEF Deliver, QueueInv, HeldJob, Busy, TypeOK, Holds
<1>2. \A h : (Waiting(h) <=> Waits(h)) /\ ~Holding(h) /\ (Holds(h) => h = job)
  BY <1>1 DEF Waits, Holds
<1>3. AcceptedOnce' /\ QueueInOrder'
  BY <1>1 DEF FifoInv, AcceptedOnce, QueueInOrder
<1>4. NoneForgotten'
  <2>1. \A i \in 1..Len(accepted) : result'[accepted[i]] = "none" => Waits(accepted[i])
    BY <1>1, <1>2 DEF FifoInv, NoneForgotten
  <2> QED BY <1>1, <1>2, <2>1 DEF FifoInv, NoneForgotten, Waits, Holds
<1>5. NoneOvertakes'
  <2>1. ASSUME NEW i \in 1..Len(accepted), NEW k \in 1..Len(accepted), i < k, Waits(accepted[i])
        PROVE  result'[accepted[k]] = "none"
    BY <1>1, <2>1 DEF FifoInv, NoneOvertakes
  <2> QED BY <1>1, <1>2, <2>1 DEF NoneOvertakes, Waits, Holds
<1>6. StrictFIFO'
  <2>1. \A h \in Jobs : result[h] # "none" => result'[h] # "none"
    BY <1>1
  <2>2. ASSUME NEW k \in 1..Len(accepted), Committed(accepted[k]), NEW i \in 1..(k - 1)
        PROVE  /\ result'[accepted[i]] # "none"
               /\ \A a, b \in 1..Len(log) : log[a] = accepted[k] /\ log[b] = accepted[i] => b < a
    <3>1. i \in 1..Len(accepted) /\ accepted[i] \in Jobs
      BY <1>1
    <3> QED BY <2>1, <2>2, <3>1 DEF FifoInv, StrictFIFO
  <2> QED BY <1>1, <2>2 DEF StrictFIFO, Committed
<1> QED BY <1>3, <1>4, <1>5, <1>6 DEF FifoInv

\* The stop is no job, and changes the order of none.
LEMMA PutStopKeepsFifo ==
  ASSUME QueueInv, FifoInv, PutStop
  PROVE  FifoInv'
<1> DEFINE Waiting(h) == \E q \in 1..Len(queue') : queue'[q] = h
           Holding(h) == Busy' /\ job' = h
<1>1. /\ Len(queue') = Len(queue) + 1 /\ Len(queue) \in Nat /\ queue'[Len(queue) + 1] = Stop
      /\ \A q \in 1..Len(queue) : queue'[q] = queue[q]
      /\ UNCHANGED <<caller, accepted, writer, job, result, log>>
      /\ \A i \in 1..Len(accepted) : accepted[i] \in Jobs
  BY DEF PutStop, QueueInv, TypeOK
<1>2. \A h \in Jobs : (Waiting(h) <=> Waits(h)) /\ (Holding(h) <=> Holds(h))
  BY <1>1, JobAssumption DEF Waits, Holds, Busy
<1>3. AcceptedOnce' /\ StrictFIFO'
  BY <1>1 DEF FifoInv, AcceptedOnce, StrictFIFO, Committed
<1>4. NoneForgotten'
  <2>1. \A i \in 1..Len(accepted) : result[accepted[i]] = "none" => Waiting(accepted[i]) \/ Holding(accepted[i])
    BY <1>1, <1>2 DEF FifoInv, NoneForgotten
  <2>2. \A h \in Jobs : Waiting(h) \/ Holding(h) => \E i \in 1..Len(accepted) : accepted[i] = h
    BY <1>2 DEF FifoInv, NoneForgotten
  <2> QED BY <1>1, <2>1, <2>2 DEF NoneForgotten, Waits, Holds, Busy
<1>5. QueueInOrder'
  BY <1>1, JobAssumption DEF FifoInv, QueueInOrder
<1>6. NoneOvertakes'
  <2>1. \A i, k \in 1..Len(accepted) : i < k =>
          /\ Waiting(accepted[i]) => result[accepted[k]] = "none" /\ ~Holding(accepted[k])
          /\ Holding(accepted[i]) => result[accepted[k]] = "none"
    BY <1>1, <1>2 DEF FifoInv, NoneOvertakes
  <2> QED BY <1>1, <2>1 DEF NoneOvertakes, Waits, Holds, Busy
<1> QED BY <1>3, <1>4, <1>5, <1>6 DEF FifoInv

\* The other steps neither move a job nor answer one.
LEMMA OthersKeepFifo ==
  ASSUME FifoInv, UNCHANGED <<queue, accepted, job, result, log>>, Busy' = Busy,
         \A i \in 1..Len(accepted) : caller'[accepted[i]] \notin {"idle", "admitted"}
  PROVE  FifoInv'
BY DEF FifoInv, AcceptedOnce, NoneForgotten, QueueInOrder, NoneOvertakes, StrictFIFO, Committed,
       Waits, Holds

LEMMA FifoNext == QueueInv /\ FifoInv /\ [Next]_vars => FifoInv'
<1> SUFFICES ASSUME QueueInv, FifoInv, [Next]_vars PROVE FifoInv'
  OBVIOUS
<1> DEFINE Past(c) == \A i \in 1..Len(accepted) : c[accepted[i]] \notin {"idle", "admitted"}
<1>1. Past(caller) /\ \A i \in 1..Len(accepted) : accepted[i] \in Jobs
  BY DEF FifoInv, AcceptedOnce, QueueInv, TypeOK
<1>2. ASSUME NEW j \in Jobs, CheckClosed(j) \/ WakeUp(j) PROVE FifoInv'
  <2>1. UNCHANGED <<queue, accepted, writer, job, result, log>> /\ Busy' = Busy
    BY <1>2 DEF CheckClosed, WakeUp, Busy
  <2>2. Past(caller')
    <3>1. CASE CheckClosed(j)
      <4>1. \A i \in 1..Len(accepted) : accepted[i] # j
        BY <1>1, <3>1 DEF CheckClosed
      <4> QED BY <1>1, <3>1, <4>1 DEF CheckClosed, QueueInv, TypeOK
    <3>2. CASE WakeUp(j)
      <4>1. caller'[j] \in {"returned", "raised"} /\ \A h \in Jobs : h # j => caller'[h] = caller[h]
        BY <3>2 DEF WakeUp, QueueInv, TypeOK
      <4> QED BY <1>1, <4>1
    <3> QED BY <1>2, <3>1, <3>2
  <2> QED BY <2>1, <2>2, OthersKeepFifo
<1>3. ASSUME \/ Open \/ OpenFails \/ Begin \/ BeginLocked \/ BeginFails \/ Work \/ WorkRaises
             \/ CommitLocked \/ CommitFails
             \/ SetClosed \/ Joined
             \/ UNCHANGED vars
      PROVE  FifoInv'
  <2>1. UNCHANGED <<caller, queue, accepted, job, result, log>> /\ Busy' = Busy
    BY <1>3 DEF Open, OpenFails, Begin, BeginLocked, BeginFails, Work, WorkRaises, CommitLocked,
                CommitFails, BackOff, GiveUp, SetClosed, Joined, Busy, vars
  <2>2. Past(caller')
    BY <1>1, <2>1
  <2> QED BY <2>1, <2>2, OthersKeepFifo
<1>4. ASSUME Crash PROVE FifoInv'
  <2>1. queue' = <<>> /\ accepted' = <<>> /\ ~Busy'
    BY <1>4 DEF Crash, Busy
  <2> QED
    BY <2>1 DEF FifoInv, AcceptedOnce, NoneForgotten, QueueInOrder, NoneOvertakes, StrictFIFO,
                Waits, Holds
<1> QED
  BY <1>2, <1>3, <1>4, PutKeepsFifo, TakeKeepsFifo, CommitKeepsFifo, DeliverKeepsFifo, PutStopKeepsFifo
     DEF Next, CallerStep, WriterStep, CloserStep

\* Jobs reach the file in the order in which they were put, and each only after
\* those before it have been answered (WriterQueue._serve).
THEOREM JobsAreServedInOrder == Spec => []StrictFIFO
<1>1. FifoInv => StrictFIFO
  BY DEF FifoInv
<1> QED BY <1>1, FifoInit, FifoNext, QueueInvariant, PTL DEF Spec

-----------------------------------------------------------------------------
(* The refinement. *)

LEMMA StepImplementsStore == QueueInv /\ QueueInv' /\ [Next]_vars => [Store!Next]_(Store!storeVars)
<1> SUFFICES ASSUME QueueInv, QueueInv', [Next]_vars
             PROVE  Store!Next \/ (log' = log /\ Answers' = Answers)
  BY DEF Store!storeVars
<1>1. /\ Answers \in [Jobs -> {"none", "value", "error", "lost"}]
      /\ Answers' = [j \in Jobs |-> IF caller'[j] = "returned" THEN "value"
                                    ELSE IF caller'[j] \in {"raised", "refused"} THEN "error"
                                    ELSE IF caller'[j] = "lost" THEN "lost" ELSE "none"]
  BY DEF Answers
<1>2. \A j \in Jobs : Store!Effected(j) <=> Committed(j)
  BY DEF Store!Effected, Committed
<1>3. ASSUME UNCHANGED <<caller, log>> PROVE log' = log /\ Answers' = Answers
  BY <1>3 DEF Answers
<1>4. ASSUME NEW j \in Jobs, CallerStep(j)
      PROVE  Store!Next \/ (log' = log /\ Answers' = Answers)
  <2>1. CASE CheckClosed(j) /\ closer # "open"
    <3>1. caller[j] = "idle" /\ caller' = [caller EXCEPT ![j] = "refused"] /\ log' = log
      BY <2>1 DEF CheckClosed
    <3>2. ~Committed(j)
      BY <3>1 DEF QueueInv, HonestAnswers
    <3>3. Answers' = [Answers EXCEPT ![j] = "error"] /\ Answers[j] = "none"
      BY <3>1, <1>1 DEF Answers, QueueInv, TypeOK
    <3> QED BY <1>2, <3>1, <3>2, <3>3 DEF Store!Next, Store!Fail
  <2>2. CASE \/ CheckClosed(j) /\ closer = "open"
             \/ Put(j)
    <3>1. log' = log /\ \E c \in {"admitted", "waiting"} : caller' = [caller EXCEPT ![j] = c]
      BY <2>2 DEF CheckClosed, Put
    <3>2. caller[j] \in {"idle", "admitted"}
      BY <2>2 DEF CheckClosed, Put
    <3>3. Answers' = Answers
      BY <3>1, <3>2, <1>1 DEF Answers, QueueInv, TypeOK
    <3> QED BY <3>1, <3>3
  <2>3. CASE WakeUp(j)
    <3>1. caller[j] = "waiting" /\ result[j] \in {"value", "error"} /\ log' = log
          /\ caller' = [caller EXCEPT ![j] = IF result[j] = "value" THEN "returned" ELSE "raised"]
      BY <2>3 DEF WakeUp, QueueInv, TypeOK
    <3>2. Committed(j) <=> result[j] = "value"
      BY <3>1 DEF QueueInv, HonestAnswers
    <3>3. Answers' = [Answers EXCEPT ![j] = result[j]] /\ Answers[j] = "none"
      BY <3>1, <1>1 DEF Answers, QueueInv, TypeOK
    <3> QED BY <1>2, <3>1, <3>2, <3>3 DEF Store!Next, Store!Fail, Store!Succeed
  <2> QED BY <1>4, <2>1, <2>2, <2>3 DEF CallerStep
<1>5. ASSUME Commit PROVE Store!Next
  <2>1. /\ job \in Jobs /\ caller[job] = "waiting" /\ ~Committed(job)
        /\ log' = Append(log, job) /\ caller' = caller
    BY <1>5 DEF Commit, QueueInv, HeldJob, Busy
  <2>2. Answers' = Answers /\ Answers[job] = "none"
    BY <2>1 DEF Answers
  <2> QED BY <1>2, <2>1, <2>2 DEF Store!Next, Store!TakeEffect
<1>6. ASSUME WriterStep, ~Commit PROVE UNCHANGED <<caller, log>>
  BY <1>6 DEF WriterStep, Open, OpenFails, Take, Begin, BeginLocked, BeginFails, Work, WorkRaises,
              CommitLocked, CommitFails, BackOff, GiveUp, Deliver
<1>7. ASSUME CloserStep PROVE UNCHANGED <<caller, log>>
  BY <1>7 DEF CloserStep, SetClosed, PutStop, Joined
<1>8. ASSUME Crash PROVE Store!Next
  <2> DEFINE S == {j \in Jobs : caller[j] \in {"admitted", "waiting"}}
  <2>1. Answers' = [j \in Jobs |-> IF j \in S THEN "lost" ELSE Answers[j]] /\ log' = log
    BY <1>1, <1>8 DEF Crash, Answers
  <2>2. \A j \in S : Answers[j] = "none"
    BY DEF Answers
  <2>3. S \in SUBSET Jobs
    OBVIOUS
  <2> HIDE DEF S
  <2> QED BY <2>1, <2>2, <2>3 DEF Store!Next, Store!Lose
<1>9. CASE UNCHANGED vars
  BY <1>3, <1>9 DEF vars
<1> QED BY <1>3, <1>4, <1>5, <1>6, <1>7, <1>8, <1>9 DEF Next

\* Database.write: each job takes effect at most once and whole, and an answer
\* is never a lie about the file.
THEOREM QueueImplementsStore == Spec => ImplementsStore
<1>1. Init => Store!Init
  BY DEF Init, Store!Init, Answers
<1> QED
  BY <1>1, StepImplementsStore, QueueInvariant, PTL DEF Spec, ImplementsStore, Store!Spec

=============================================================================
