------------------------- MODULE ConversationTurns -------------------------
(***************************************************************************)
(* Running an agent CLI for a conversation (the desktop's app.py over      *)
(* codex_runner.py).  The UI thread sends prompts, keeps those entered     *)
(* while a turn runs, stops, resets and deletes; every turn has a worker   *)
(* thread that launches the CLI, reads it to its end and puts events on    *)
(* one queue, which the UI thread drains.  Cancelling is asynchronous: a   *)
(* killed turn may still have events on the way, and a window that closes  *)
(* leaves its worker threads wherever they are.                            *)
(*                                                                         *)
(* A turn is named by its serial number; a session (thread_id or           *)
(* claude_session_id) by the turn that opened it.  Log, usage and          *)
(* turn_start events, and all drawing, are left out.                       *)
(***************************************************************************)
EXTENDS Naturals, Sequences, FiniteSets

CONSTANTS
  Convs,        \* conversations of the workspace
  MaxPrompts,   \* bound: prompts entered, and so turns
  MaxLines,     \* bound: lines of note a CLI prints
  MaxBroken     \* bound: turns that meet a refused save or lose their worker

ASSUME ConvsAssumption == Convs # {}
ASSUME BoundAssumption == MaxPrompts \in Nat /\ MaxLines \in Nat /\ MaxBroken \in Nat

Turns == 1..MaxPrompts

VARIABLES
  open,         \* conversations that exist
  prompts,      \* prompts entered so far
  waiting,      \* ConversationView.queued
  turn,         \* self.turns, 0 for none
  stamp,        \* self.turn_serials, 0 for none
  counter,      \* self._turn_counter
  record,       \* status of the execution record of each turn
  transcript,   \* stored messages of each conversation
  session,      \* stored session of each conversation, 0 for none
  events,       \* self.events
  home,         \* the conversation a turn was sent in
  asked,        \* the prompt a turn was sent with
  worker,       \* where the worker thread of each turn stands
  proc,         \* its CLI process
  cancelled,    \* Turn._cancelled
  lines,        \* lines its CLI has not printed yet
  shown,        \* the window is there: on_close() has not gone through
  wiped,        \* history: the last serial when the conversation was reset
  broken        \* history: turns with a handler that raised or a dead worker

uiVars == <<open, prompts, waiting, turn, stamp, counter, record, transcript, session,
            home, asked, wiped, broken>>
workerVars == <<worker, proc, cancelled, lines>>
vars == <<uiVars, workerVars, events, shown>>

Entry == [kind : {"user", "agent", "stopped", "error"}, by : Turns]
Event == [conv : Convs, serial : Turns, kind : {"session", "item", "done"},
          how : {"ok", "failed", "cancelled"}]
Status == {"none", "running", "ok", "failed", "cancelled"}
Stage == {"none", "launching", "spawned", "reading", "finished"}

TypeOK ==
  /\ open \subseteq Convs
  /\ prompts \in 0..MaxPrompts
  /\ waiting \in [Convs -> Seq(Turns)]
  /\ turn \in [Convs -> 0..MaxPrompts]
  /\ stamp \in [Convs -> 0..MaxPrompts]
  /\ counter \in 0..prompts
  /\ record \in [Turns -> Status]
  /\ transcript \in [Convs -> Seq(Entry)]
  /\ session \in [Convs -> 0..MaxPrompts]
  /\ events \in Seq(Event)
  /\ home \in [Turns -> Convs]
  /\ asked \in [Turns -> 0..MaxPrompts]
  /\ worker \in [Turns -> Stage]
  /\ proc \in [Turns -> {"none", "alive", "dead"}]
  /\ cancelled \in [Turns -> BOOLEAN]
  /\ lines \in [Turns -> 0..MaxLines]
  /\ wiped \in [Convs -> 0..MaxPrompts]
  /\ broken \subseteq Turns
  /\ shown \in BOOLEAN

Say(s, kind) == [kind |-> kind, by |-> s]

\* Turn s meets a failure that the code around it does not make good.
Break(s) == Cardinality(broken) < MaxBroken /\ broken' = broken \cup {s}

\* self.turn_records has the record of turn s: start_execution_record() returned
\* and nobody settled it.
HasRecord(s) == record[s] = "running" /\ worker[s] # "none"

-----------------------------------------------------------------------------
(* Sending. *)

\* The part of send() that starts a turn for prompt n, after the messages of
\* the turn before it and ahead of the entries that follow.  When the record of
\* the turn cannot be saved, send() raises with the turn in self.turns and its
\* thread not started.
Begin(c, n, records, following) ==
  LET s == counter + 1 IN
  /\ counter' = s
  /\ turn' = [turn EXCEPT ![c] = s]
  /\ stamp' = [stamp EXCEPT ![c] = s]
  /\ record' = [records EXCEPT ![s] = "running"]
  /\ transcript' = [transcript EXCEPT ![c] = (@ \o <<Say(s, "user")>>) \o following]
  /\ home' = [home EXCEPT ![s] = c]
  /\ asked' = [asked EXCEPT ![s] = n]
  /\ \/ worker' = [worker EXCEPT ![s] = "launching"] /\ UNCHANGED broken
     \/ Break(s) /\ UNCHANGED worker

\* send() returned before it started anything (an attachment is gone, the page
\* dialog was cancelled) or raised (the service refused the message; a
\* message stored all the same is left out).
Decline(c, records, following) ==
  /\ turn' = [turn EXCEPT ![c] = 0]
  /\ stamp' = [stamp EXCEPT ![c] = 0]
  /\ record' = records
  /\ transcript' = [transcript EXCEPT ![c] = @ \o following]
  /\ UNCHANGED <<counter, home, asked, worker, broken>>

\* on_send() with the conversation idle: the composer is emptied first, so a
\* prompt that is declined is gone.
SendNow(c) ==
  /\ c \in open
  /\ turn[c] = 0
  /\ prompts < MaxPrompts
  /\ prompts' = prompts + 1
  /\ Begin(c, prompts + 1, record, <<>>) \/ Decline(c, record, <<>>)
  /\ UNCHANGED <<open, waiting, session, wiped, proc, cancelled, lines, events>>

\* on_send() while a turn runs.
Queue(c) ==
  /\ c \in open
  /\ turn[c] # 0
  /\ prompts < MaxPrompts
  /\ prompts' = prompts + 1
  /\ waiting' = [waiting EXCEPT ![c] = Append(@, prompts + 1)]
  /\ UNCHANGED <<open, turn, stamp, counter, record, transcript, session, home, asked,
                 wiped, broken, workerVars, events>>

-----------------------------------------------------------------------------
(* Stopping, resetting, deleting. *)

\* Turn.cancel(): raise the flag and kill the process, if the worker has
\* already made it known.
Cancel(S) ==
  /\ cancelled' = [s \in Turns |-> cancelled[s] \/ s \in S]
  /\ proc' = [s \in Turns |->
                IF s \in S /\ proc[s] = "alive" /\ worker[s] # "spawned"
                THEN "dead" ELSE proc[s]]

Stop(c) ==
  /\ turn[c] # 0
  /\ Cancel({turn[c]})
  /\ UNCHANGED <<uiVars, worker, lines, events>>

\* Faulty variants of _retire_turn(): the serial stays valid; the record is
\* left as it was.
RetireKeepingSerial(c) ==
  /\ Cancel({turn[c]})
  /\ turn' = [turn EXCEPT ![c] = 0]
  /\ record' = [s \in Turns |-> IF s = turn[c] /\ HasRecord(s) THEN "cancelled" ELSE record[s]]
  /\ UNCHANGED stamp

RetireWithoutRecord(c) ==
  /\ Cancel({turn[c]})
  /\ turn' = [turn EXCEPT ![c] = 0]
  /\ stamp' = [stamp EXCEPT ![c] = 0]
  /\ UNCHANGED record

\* _retire_turn(): drop the turn, if there is one, and make its events stale.
Retire(c) ==
  /\ Cancel({turn[c]})
  /\ turn' = [turn EXCEPT ![c] = 0]
  /\ stamp' = [stamp EXCEPT ![c] = 0]
  /\ record' = [s \in Turns |-> IF s = turn[c] /\ HasRecord(s) THEN "cancelled" ELSE record[s]]

\* drop_queue(), and clear_thread() or the deletion itself.
Clear(c) ==
  /\ waiting' = [waiting EXCEPT ![c] = <<>>]
  /\ transcript' = [transcript EXCEPT ![c] = <<>>]
  /\ session' = [session EXCEPT ![c] = 0]
  /\ wiped' = [wiped EXCEPT ![c] = counter]

Reset(c) ==
  /\ c \in open
  /\ Retire(c)
  /\ Clear(c)
  /\ UNCHANGED <<open, prompts, counter, home, asked, broken, worker, lines, events>>

Delete(c) ==
  /\ c \in open
  /\ Retire(c)
  /\ Clear(c)
  /\ open' = open \ {c}
  /\ UNCHANGED <<prompts, counter, home, asked, broken, worker, lines, events>>

\* Either of them cut short while a turn runs: the record cannot be saved and
\* the queue stays, or the service refuses the rest and the transcript stays.
CutShort(c) ==
  /\ c \in open
  /\ Retire(c)
  /\ turn[c] # 0
  /\ Break(turn[c])
  /\ \/ HasRecord(turn[c]) /\ UNCHANGED waiting
     \/ waiting' = [waiting EXCEPT ![c] = <<>>]
  /\ UNCHANGED <<open, prompts, counter, transcript, session, home, asked, wiped,
                 worker, lines, events>>

-----------------------------------------------------------------------------
(* _pump() and _handle_event(). *)

\* Faulty variant: an event is current as long as its conversation exists.
OfOpenConversation(e) == e.conv \in open

Current(e) == e.serial = stamp[e.conv]

DropStale ==
  /\ events # <<>>
  /\ ~Current(Head(events))
  /\ events' = Tail(events)
  /\ UNCHANGED <<uiVars, workerVars>>

\* The session is stored, or the handler raises.
HandleSession ==
  /\ events # <<>>
  /\ LET e == Head(events) IN
       /\ e.kind = "session"
       /\ Current(e)
       /\ session' \in {session, [session EXCEPT ![e.conv] = e.serial]}
  /\ events' = Tail(events)
  /\ UNCHANGED <<open, prompts, waiting, turn, stamp, counter, record, transcript, home,
                 asked, wiped, broken, workerVars>>

\* The message is stored, or the handler raises and it is lost.
HandleItem ==
  /\ events # <<>>
  /\ LET e == Head(events) IN
       /\ e.kind = "item"
       /\ Current(e)
       /\ \E stored \in {<<>>, <<Say(e.serial, "agent")>>} :
            transcript' = [transcript EXCEPT ![e.conv] = @ \o stored]
  /\ events' = Tail(events)
  /\ UNCHANGED <<open, prompts, waiting, turn, stamp, counter, record, session, home,
                 asked, wiped, broken, workerVars>>

\* The entry that says how a turn ended comes last in the handler, after the
\* prompt of the next turn; when send() raises it is not written at all.
OutcomeOf(e) ==
  IF e.how = "cancelled" THEN <<Say(e.serial, "stopped")>>
  ELSE IF e.how = "failed" THEN <<Say(e.serial, "error")>> ELSE <<>>

\* Faulty variant of start_next_queued(): the prompt stays in the queue.
Peek(c) == UNCHANGED waiting

Dequeue(c) == waiting' = [waiting EXCEPT ![c] = Tail(@)]

\* "done": settle the record, forget the turn, start the next prompt.
HandleDone ==
  /\ events # <<>>
  /\ LET e == Head(events)
         c == e.conv
         records == [record EXCEPT ![e.serial] = e.how]
     IN /\ e.kind = "done"
        /\ Current(e)
        /\ \E outcome \in {<<>>, OutcomeOf(e)} :
             \/ /\ waiting[c] = <<>>
                /\ Decline(c, records, outcome)
                /\ UNCHANGED waiting
             \/ /\ waiting[c] # <<>>
                /\ Dequeue(c)
                /\ \/ Begin(c, Head(waiting[c]), records, outcome)
                   \/ Decline(c, records, outcome)
  /\ events' = Tail(events)
  /\ UNCHANGED <<open, prompts, session, wiped, proc, cancelled, lines>>

\* "done" when the record cannot be saved: it is settled in memory only, and
\* the handler raises before the turn is forgotten.
HandleDoneRaises ==
  /\ events # <<>>
  /\ LET e == Head(events) IN
       /\ e.kind = "done"
       /\ Current(e)
       /\ record' = [record EXCEPT ![e.serial] = e.how]
       /\ Break(e.serial)
  /\ events' = Tail(events)
  /\ UNCHANGED <<open, prompts, waiting, turn, stamp, counter, transcript, session,
                 home, asked, wiped, workerVars>>

-----------------------------------------------------------------------------
(* Turn._run(), in the worker thread, and the CLI process it runs. *)

Emit(s, kind, how) == [conv |-> home[s], serial |-> s, kind |-> kind, how |-> how]

\* The CLI is not installed or cannot be started: the done event does not say
\* whether the turn was cancelled meanwhile.  The two events are put one after
\* the other; whatever comes between them changes neither.
LaunchFails(s) ==
  /\ worker[s] = "launching"
  /\ worker' = [worker EXCEPT ![s] = "finished"]
  /\ events' = events \o <<Emit(s, "item", "failed"), Emit(s, "done", "failed")>>
  /\ UNCHANGED <<uiVars, proc, cancelled, lines>>

Spawn(s) ==
  /\ worker[s] = "launching"
  /\ worker' = [worker EXCEPT ![s] = "spawned"]
  /\ proc' = [proc EXCEPT ![s] = "alive"]
  /\ UNCHANGED <<uiVars, cancelled, lines, events>>

\* Faulty variant: the flag is not looked at again.
AdoptBlindly(s) ==
  /\ worker[s] = "spawned"
  /\ worker' = [worker EXCEPT ![s] = "reading"]
  /\ UNCHANGED <<uiVars, proc, cancelled, lines, events>>

\* Under the lock: make the process known, and kill it if cancel() came first.
Adopt(s) ==
  /\ worker[s] = "spawned"
  /\ worker' = [worker EXCEPT ![s] = "reading"]
  /\ proc' = [proc EXCEPT ![s] = IF cancelled[s] THEN "dead" ELSE @]
  /\ UNCHANGED <<uiVars, cancelled, lines, events>>

\* A line of output, read perhaps after the process is dead: it names the
\* session or is something to show.
ReadLine(s) ==
  /\ worker[s] = "reading"
  /\ lines[s] > 0
  /\ lines' = [lines EXCEPT ![s] = @ - 1]
  /\ \E kind \in {"session", "item"} : events' = Append(events, Emit(s, kind, "ok"))
  /\ UNCHANGED <<uiVars, worker, proc, cancelled>>

Exit(s) ==
  /\ proc[s] = "alive"
  /\ proc' = [proc EXCEPT ![s] = "dead"]
  /\ UNCHANGED <<uiVars, worker, cancelled, lines, events>>

\* Faulty variant: a cancelled turn ends without telling the UI thread.
EndSilentlyIfCancelled(s) ==
  /\ worker[s] = "reading"
  /\ proc[s] = "dead"
  /\ worker' = [worker EXCEPT ![s] = "finished"]
  /\ \E how \in {"ok", "failed"} :
       events' = IF cancelled[s] THEN events ELSE Append(events, Emit(s, "done", how))
  /\ UNCHANGED <<uiVars, proc, cancelled, lines>>

\* End of output: the last event of the turn.
Finish(s) ==
  /\ worker[s] = "reading"
  /\ proc[s] = "dead"
  /\ worker' = [worker EXCEPT ![s] = "finished"]
  /\ \E how \in {"ok", "failed", "cancelled"} :
       /\ (how = "cancelled") = cancelled[s]
       /\ events' = Append(events, Emit(s, "done", how))
  /\ UNCHANGED <<uiVars, proc, cancelled, lines>>

\* A line the worker cannot handle: its thread dies, and says nothing.
WorkerDies(s) ==
  /\ worker[s] = "reading"
  /\ worker' = [worker EXCEPT ![s] = "finished"]
  /\ Break(s)
  /\ UNCHANGED <<open, prompts, waiting, turn, stamp, counter, record, transcript,
                 session, home, asked, wiped, proc, cancelled, lines, events>>

-----------------------------------------------------------------------------
(* on_close() *)

\* Faulty variant: turns are left to themselves.
LeaveRunning(S) == UNCHANGED <<proc, cancelled>>

CancelAll(S) == Cancel({turn[c] : c \in S})

\* Every turn is cancelled and the window goes, and with it whatever it had in
\* memory.  Its threads may go on until the program ends, at any moment; nobody
\* reads their events or settles the records of their turns.
CloseWindow ==
  /\ shown /\ shown' = FALSE
  /\ CancelAll(Convs)
  /\ waiting' = [c \in Convs |-> <<>>]
  /\ turn' = [c \in Convs |-> 0]
  /\ stamp' = [c \in Convs |-> 0]
  /\ events' = <<>>
  /\ UNCHANGED <<open, prompts, counter, record, transcript, session, home, asked, wiped,
                 broken, worker, lines>>

\* The workspace cannot be saved and the user stays: the pump, stopped meanwhile,
\* goes on, but every turn has been cancelled.
CloseRefused ==
  /\ shown
  /\ CancelAll(Convs)
  /\ UNCHANGED <<uiVars, worker, lines, events, shown>>

-----------------------------------------------------------------------------
Init ==
  /\ shown = TRUE
  /\ open = Convs
  /\ prompts = 0
  /\ waiting = [c \in Convs |-> <<>>]
  /\ turn = [c \in Convs |-> 0]
  /\ stamp = [c \in Convs |-> 0]
  /\ counter = 0
  /\ record = [s \in Turns |-> "none"]
  /\ transcript = [c \in Convs |-> <<>>]
  /\ session = [c \in Convs |-> 0]
  /\ events = <<>>
  /\ home \in [Turns -> {CHOOSE c \in Convs : TRUE}]
  /\ asked = [s \in Turns |-> 0]
  /\ worker = [s \in Turns |-> "none"]
  /\ proc = [s \in Turns |-> "none"]
  /\ cancelled = [s \in Turns |-> FALSE]
  /\ lines = [s \in Turns |-> MaxLines]
  /\ wiped = [c \in Convs |-> 0]
  /\ broken = {}

UserStep(c) ==
  /\ shown /\ UNCHANGED shown
  /\ SendNow(c) \/ Queue(c) \/ Stop(c) \/ Reset(c) \/ Delete(c) \/ CutShort(c)

Pump ==
  /\ shown /\ UNCHANGED shown
  /\ DropStale \/ HandleSession \/ HandleItem \/ HandleDone \/ HandleDoneRaises

WorkerStep(s) ==
  /\ UNCHANGED shown
  /\ LaunchFails(s) \/ Spawn(s) \/ Adopt(s) \/ ReadLine(s) \/ Finish(s)

\* The CLI exits, or the thread that reads it dies.
WorkerEnds(s) == UNCHANGED shown /\ (Exit(s) \/ WorkerDies(s))

Next ==
  \/ \E c \in Convs : UserStep(c)
  \/ Pump
  \/ CloseWindow \/ CloseRefused
  \/ \E s \in Turns : WorkerStep(s) \/ WorkerEnds(s)

Spec == Init /\ [][Next]_vars

\* The pump reschedules itself whatever a handler does as long as the window is
\* there, and worker threads keep running as long.  A CLI need not
\* exit by itself, and the user need not do anything.
FairSpec == Spec /\ WF_vars(Pump) /\ \A s \in Turns : WF_vars(shown /\ WorkerStep(s))

-----------------------------------------------------------------------------
(* Properties. *)

\* A reset or deleted conversation stays cleared: nothing of a turn sent before
\* the reset, neither message nor session, comes back, and no conversation gets
\* what a turn of another one said.
NoGhosts ==
  \A c \in Convs :
    /\ session[c] # 0 => session[c] > wiped[c] /\ home[session[c]] = c
    /\ \A i \in 1..Len(transcript[c]) :
         transcript[c][i].by > wiped[c] /\ home[transcript[c][i].by] = c

\* No agent runs out of reach: a CLI that has not been told to stop belongs to
\* the turn its conversation shows, where the stop button reaches it; so a
\* conversation never has two agents at work, and none is left to itself when the
\* window is gone.
NoRunawayAgent ==
  \A s \in Turns :
    proc[s] = "alive" /\ ~cancelled[s] => turn[home[s]] = s

\* Stopping and closing race with launching, and whichever comes second kills: no
\* process lives on that was told to stop, but for the moment before it is known,
\* which lasts for ever only when the program ends in it.
CancelReachesProcess ==
  \A s \in Turns : cancelled[s] /\ worker[s] # "spawned" => proc[s] # "alive"

\* Answers stand behind their own prompt and ahead of the next one.
AnswersFollowPrompts ==
  \A c \in Convs : \A i, k \in 1..Len(transcript[c]) :
    i < k /\ transcript[c][k].kind \in {"user", "agent"}
      => transcript[c][i].by <= transcript[c][k].by

\* A prompt waits or has been sent, once.
SentOnce ==
  \A s \in 1..counter :
    /\ \A r \in 1..counter : asked[r] = asked[s] => r = s
    /\ \A c \in Convs : \A i \in 1..Len(waiting[c]) : waiting[c][i] # asked[s]

\* The execution record of a turn that is over says how it ended, unless the
\* window was closed over it.
RecordsSettle ==
  shown => \A s \in Turns \ broken : record[s] = "running" => turn[home[s]] = s

\* A stopped turn leaves its conversation, even when it was stopped before its
\* process existed or by closing a window that then stayed, unless its worker died
\* or its record could not be saved.
StopIsHonoured ==
  \A s \in Turns :
    (cancelled[s] /\ turn[home[s]] = s /\ shown)
      ~> (turn[home[s]] # s \/ s \in broken \/ ~shown)

=============================================================================
