---------------------- MODULE ConversationTurnsProofs ----------------------
(***************************************************************************)
(* Proofs that no agent runs out of reach, no prompt is sent twice and no  *)
(* message lands in the wrong place, for any number of conversations,      *)
(* prompts and lines.  The invariant is built in layers, each kept with    *)
(* the help of those before it: prompts and serials (Prompted), turns,     *)
(* workers and their events (Placed), execution records (RecordsSettle)    *)
(* and what is stored of a conversation (Kept).                            *)
(***************************************************************************)
EXTENDS ConversationTurns, FiniteSetTheorems, SequenceTheorems, TLAPS

\* A prompt that was sent is one that was entered, and was sent once.
Asked ==
  \A s \in 1..counter :
    /\ asked[s] \in 1..prompts
    /\ \A r \in 1..counter : asked[r] = asked[s] => r = s

\* A prompt that waits was entered, has not been sent and waits in one place.
Unsent ==
  \A c \in Convs : \A i \in 1..Len(waiting[c]) :
    /\ waiting[c][i] \in 1..prompts
    /\ \A s \in 1..counter : asked[s] # waiting[c][i]
    /\ \A d \in Convs : \A k \in 1..Len(waiting[d]) :
         waiting[d][k] = waiting[c][i] => d = c /\ k = i

Prompted == TypeOK /\ Asked /\ Unsent

USE ConvsAssumption, BoundAssumption

-----------------------------------------------------------------------------
(* Typing. *)

LEMMA Counts ==
  ASSUME TypeOK
  PROVE  /\ prompts \in Nat /\ prompts <= MaxPrompts
         /\ counter \in Nat /\ counter <= prompts
<1>1. prompts \in 0..MaxPrompts /\ counter \in 0..prompts
  BY DEF TypeOK
<1> QED BY <1>1

\* There is a serial left for every prompt that waits.
LEMMA Room ==
  ASSUME Prompted, NEW h \in 1..prompts, \A s \in 1..counter : asked[s] # h
  PROVE  counter < prompts
<1> DEFINE f == [i \in 1..(counter + 1) |-> IF i <= counter THEN asked[i] ELSE h]
<1>1. counter \in Nat /\ prompts \in Nat
  BY DEF Prompted, TypeOK
<1>2. f \in [1..(counter + 1) -> 1..prompts]
  BY <1>1 DEF Prompted, Asked
<1>3. \A i, k \in 1..(counter + 1) : f[i] = f[k] => i = k
  <2> SUFFICES ASSUME NEW i \in 1..(counter + 1), NEW k \in 1..(counter + 1), f[i] = f[k]
               PROVE  i = k
    OBVIOUS
  <2>1. CASE i <= counter /\ k <= counter
    BY <2>1, <1>1 DEF Prompted, Asked
  <2>2. CASE ~(i <= counter) /\ ~(k <= counter)
    BY <2>2, <1>1
  <2>3. CASE (i <= counter) # (k <= counter)
    BY <2>3, <1>1
  <2> QED BY <2>1, <2>2, <2>3
<1> HIDE DEF f
<1>4. f \in Injection(1..(counter + 1), 1..prompts)
  BY <1>2, <1>3 DEF Injection, IsInjective
<1>5. IsFiniteSet(1..prompts) /\ Cardinality(1..prompts) <= prompts
  BY <1>1, FS_Interval
<1>6. Cardinality(1..(counter + 1)) = counter + 1
  BY <1>1, FS_Interval
<1>7. counter + 1 <= Cardinality(1..prompts)
  BY <1>4, <1>5, <1>6, FS_Injection
<1>8. Cardinality(1..prompts) \in Nat
  BY <1>5, FS_CardinalityType
<1> QED BY <1>1, <1>5, <1>7, <1>8

LEMMA SayIsEntry ==
  ASSUME NEW s \in Turns, NEW kind \in {"user", "agent", "stopped", "error"}
  PROVE  Say(s, kind) \in Entry /\ <<Say(s, kind)>> \in Seq(Entry)
BY DEF Say, Entry

LEMMA EmitIsEvent ==
  ASSUME TypeOK, NEW s \in Turns, NEW kind \in {"session", "item", "done"},
         NEW how \in {"ok", "failed", "cancelled"}
  PROVE  Emit(s, kind, how) \in Event
BY DEF Emit, Event, TypeOK

LEMMA BeginTypes ==
  ASSUME TypeOK, NEW c \in Convs, NEW n \in 1..MaxPrompts, NEW records \in [Turns -> Status],
         NEW following \in Seq(Entry), counter < MaxPrompts,
         Begin(c, n, records, following)
  PROVE  /\ counter + 1 \in Turns
         /\ counter' = counter + 1
         /\ turn' \in [Convs -> 0..MaxPrompts]
         /\ stamp' \in [Convs -> 0..MaxPrompts]
         /\ record' \in [Turns -> Status]
         /\ transcript' \in [Convs -> Seq(Entry)]
         /\ home' \in [Turns -> Convs]
         /\ asked' \in [Turns -> 0..MaxPrompts]
         /\ worker' \in [Turns -> Stage]
         /\ broken' \subseteq Turns
<1>1. counter + 1 \in Turns
  BY DEF TypeOK, Turns
<1>2. <<Say(counter + 1, "user")>> \in Seq(Entry)
  BY <1>1, SayIsEntry
<1>3. (transcript[c] \o <<Say(counter + 1, "user")>>) \o following \in Seq(Entry)
  BY <1>2, ConcatProperties DEF TypeOK
<1>4. transcript' \in [Convs -> Seq(Entry)]
  BY <1>3 DEF Begin, TypeOK
<1>5. broken' \subseteq Turns
  BY <1>1 DEF Begin, Break, TypeOK
<1>6. /\ turn' \in [Convs -> 0..MaxPrompts]
      /\ stamp' \in [Convs -> 0..MaxPrompts]
  <2>1. counter + 1 \in 0..MaxPrompts
    BY <1>1 DEF Turns
  <2> QED BY <2>1 DEF Begin, TypeOK
<1>7. record' \in [Turns -> Status]
  BY DEF Begin, Status
<1>8. home' \in [Turns -> Convs]
  BY DEF Begin, TypeOK
<1>9. asked' \in [Turns -> 0..MaxPrompts]
  <2>1. n \in 0..MaxPrompts
    OBVIOUS
  <2> QED BY <2>1 DEF Begin, TypeOK
<1>10. worker' \in [Turns -> Stage]
  BY DEF Begin, TypeOK, Stage
<1> QED BY <1>1, <1>4, <1>5, <1>6, <1>7, <1>8, <1>9, <1>10 DEF Begin

LEMMA DeclineTypes ==
  ASSUME TypeOK, NEW c \in Convs, NEW records \in [Turns -> Status],
         NEW following \in Seq(Entry), Decline(c, records, following)
  PROVE  /\ turn' \in [Convs -> 0..MaxPrompts]
         /\ stamp' \in [Convs -> 0..MaxPrompts]
         /\ record' \in [Turns -> Status]
         /\ transcript' \in [Convs -> Seq(Entry)]
         /\ UNCHANGED <<counter, home, asked, worker, broken>>
<1>1. transcript \in [Convs -> Seq(Entry)]
  BY DEF TypeOK
<1>2. transcript[c] \o following \in Seq(Entry)
  BY <1>1, ConcatProperties
<1>3. transcript' \in [Convs -> Seq(Entry)]
  BY <1>1, <1>2 DEF Decline
<1>4. turn' \in [Convs -> 0..MaxPrompts] /\ stamp' \in [Convs -> 0..MaxPrompts]
  <2>1. /\ turn \in [Convs -> 0..MaxPrompts] /\ stamp \in [Convs -> 0..MaxPrompts]
        /\ 0 \in 0..MaxPrompts
    BY DEF TypeOK
  <2> QED BY <2>1 DEF Decline
<1> QED BY <1>3, <1>4 DEF Decline

LEMMA CancelTypes ==
  ASSUME TypeOK, NEW S, Cancel(S)
  PROVE  /\ cancelled' \in [Turns -> BOOLEAN]
         /\ proc' \in [Turns -> {"none", "alive", "dead"}]
BY DEF Cancel, TypeOK

\* The event at the head of the queue and what remains of it.
LEMMA HeadTyped ==
  ASSUME TypeOK, events # <<>>
  PROVE  /\ Head(events) \in Event
         /\ Head(events).conv \in Convs
         /\ Head(events).serial \in Turns
         /\ Head(events).kind \in {"session", "item", "done"}
         /\ Head(events).how \in {"ok", "failed", "cancelled"}
         /\ Tail(events) \in Seq(Event)
<1>1. Head(events) \in Event /\ Tail(events) \in Seq(Event)
  BY HeadTailProperties DEF TypeOK
<1> QED BY <1>1 DEF Event

LEMMA OutcomeTyped ==
  ASSUME NEW e \in Event
  PROVE  OutcomeOf(e) \in Seq(Entry) /\ <<>> \in Seq(Entry)
<1>1. e.serial \in Turns
  BY DEF Event
<1> QED BY <1>1, SayIsEntry, EmptySeq DEF OutcomeOf

LEMMA UserKeepsTypes ==
  ASSUME Prompted, NEW c \in Convs, UserStep(c)
  PROVE  TypeOK'
<1>0. TypeOK /\ shown' \in BOOLEAN
  BY DEF Prompted, UserStep
<1>1. CASE SendNow(c)
  <2>1. /\ counter < MaxPrompts /\ prompts + 1 \in 1..MaxPrompts
        /\ prompts' \in 0..MaxPrompts /\ counter \in 0..prompts'
    BY <1>0, <1>1 DEF SendNow, TypeOK
  <2>2. <<>> \in Seq(Entry) /\ record \in [Turns -> Status]
    BY <1>0, EmptySeq DEF TypeOK
  <2>3. /\ prompts' = prompts + 1
        /\ UNCHANGED <<open, waiting, session, wiped, proc, cancelled, lines, events>>
    BY <1>1 DEF SendNow
  <2>4. CASE Begin(c, prompts + 1, record, <<>>)
    <3>0. counter' \in 0..prompts'
      BY <1>0, <2>3, <2>4 DEF TypeOK, Begin
    <3>1. /\ turn' \in [Convs -> 0..MaxPrompts] /\ stamp' \in [Convs -> 0..MaxPrompts]
          /\ record' \in [Turns -> Status] /\ transcript' \in [Convs -> Seq(Entry)]
          /\ home' \in [Turns -> Convs] /\ asked' \in [Turns -> 0..MaxPrompts]
          /\ worker' \in [Turns -> Stage]
          /\ broken' \subseteq Turns
      BY <1>0, <2>1, <2>2, <2>3, <2>4, BeginTypes
    <3> QED BY <1>0, <2>1, <2>3, <3>0, <3>1 DEF TypeOK
  <2>5. CASE Decline(c, record, <<>>)
    <3>1. /\ turn' \in [Convs -> 0..MaxPrompts] /\ stamp' \in [Convs -> 0..MaxPrompts]
          /\ record' \in [Turns -> Status] /\ transcript' \in [Convs -> Seq(Entry)]
          /\ UNCHANGED <<counter, home, asked, worker, broken>>
      BY <1>0, <2>2, <2>5, DeclineTypes
    <3> QED BY <1>0, <2>1, <2>3, <3>1 DEF TypeOK
  <2> QED BY <1>1, <2>4, <2>5 DEF SendNow
<1>2. CASE Queue(c)
  <2>1. prompts + 1 \in Turns /\ prompts' \in 0..MaxPrompts /\ counter \in 0..prompts'
    BY <1>0, <1>2 DEF Queue, TypeOK, Turns
  <2>2. Append(waiting[c], prompts + 1) \in Seq(Turns)
    BY <1>0, <2>1, AppendProperties DEF TypeOK
  <2>3. waiting' \in [Convs -> Seq(Turns)]
    BY <1>0, <1>2, <2>2 DEF Queue, TypeOK
  <2>4. UNCHANGED <<open, turn, stamp, counter, record, transcript, session, home, asked,
                    wiped, broken, worker, proc, cancelled, lines, events>>
    BY <1>2 DEF Queue, workerVars
  <2> QED BY <1>0, <2>1, <2>3, <2>4 DEF TypeOK
<1>3. CASE Stop(c)
  <2>1. /\ cancelled' \in [Turns -> BOOLEAN]
        /\ proc' \in [Turns -> {"none", "alive", "dead"}]
    BY <1>0, <1>3, CancelTypes DEF Stop
  <2>2. UNCHANGED <<open, prompts, waiting, turn, stamp, counter, record, transcript,
                    session, home, asked, wiped, broken, worker, lines, events>>
    BY <1>3 DEF Stop, uiVars
  <2> QED BY <1>0, <2>1, <2>2 DEF TypeOK
<1>4. ASSUME Retire(c)
      PROVE  /\ cancelled' \in [Turns -> BOOLEAN]
             /\ proc' \in [Turns -> {"none", "alive", "dead"}]
             /\ turn' \in [Convs -> 0..MaxPrompts]
             /\ stamp' \in [Convs -> 0..MaxPrompts]
             /\ record' \in [Turns -> Status]
  <2>1. /\ cancelled' \in [Turns -> BOOLEAN]
        /\ proc' \in [Turns -> {"none", "alive", "dead"}]
    BY <1>0, <1>4, CancelTypes DEF Retire
  <2>2. record' \in [Turns -> Status]
    BY <1>0, <1>4 DEF Retire, TypeOK, Status
  <2>3. turn' \in [Convs -> 0..MaxPrompts] /\ stamp' \in [Convs -> 0..MaxPrompts]
    BY <1>0, <1>4 DEF Retire, TypeOK
  <2> QED BY <2>1, <2>2, <2>3
<1>5. ASSUME Clear(c)
      PROVE  /\ waiting' \in [Convs -> Seq(Turns)]
             /\ transcript' \in [Convs -> Seq(Entry)]
             /\ session' \in [Convs -> 0..MaxPrompts]
             /\ wiped' \in [Convs -> 0..MaxPrompts]
  <2>1. counter \in 0..MaxPrompts
    BY <1>0 DEF TypeOK
  <2>2. <<>> \in Seq(Turns) /\ <<>> \in Seq(Entry)
    BY EmptySeq
  <2>3. waiting' \in [Convs -> Seq(Turns)] /\ transcript' \in [Convs -> Seq(Entry)]
    BY <1>0, <1>5, <2>2 DEF Clear, TypeOK
  <2>4. session' \in [Convs -> 0..MaxPrompts] /\ wiped' \in [Convs -> 0..MaxPrompts]
    BY <1>0, <1>5, <2>1 DEF Clear, TypeOK
  <2> QED BY <2>3, <2>4
<1>6. CASE Reset(c) \/ Delete(c)
  <2>1. /\ Retire(c) /\ Clear(c)
        /\ open' \subseteq open
        /\ UNCHANGED <<prompts, counter, home, asked, broken, worker, lines, events>>
    BY <1>6 DEF Reset, Delete
  <2> QED BY <1>0, <1>4, <1>5, <2>1 DEF TypeOK
<1>7. CASE CutShort(c)
  <2>1. /\ Retire(c) /\ Break(turn[c]) /\ turn[c] # 0
        /\ waiting' = waiting \/ waiting' = [waiting EXCEPT ![c] = <<>>]
        /\ UNCHANGED <<open, prompts, counter, transcript, session, home, asked, wiped,
                       worker, lines, events>>
    BY <1>7 DEF CutShort
  <2>2. waiting' \in [Convs -> Seq(Turns)]
    <3>1. <<>> \in Seq(Turns) /\ waiting \in [Convs -> Seq(Turns)]
      BY <1>0, EmptySeq DEF TypeOK
    <3> QED BY <2>1, <3>1
  <2>3. turn[c] \in Turns
    BY <1>0, <2>1 DEF TypeOK, Turns
  <2>4. broken' \subseteq Turns
    BY <1>0, <2>1, <2>3 DEF Break, TypeOK
  <2> QED BY <1>0, <1>4, <2>1, <2>2, <2>4 DEF TypeOK
<1> QED BY <1>1, <1>2, <1>3, <1>6, <1>7 DEF UserStep

LEMMA PumpKeepsTypes ==
  ASSUME Prompted, Pump
  PROVE  TypeOK'
<1> DEFINE e == Head(events)
<1> HIDE DEF e
<1>0. /\ TypeOK
      /\ events # <<>> /\ events' = Tail(events)
      /\ UNCHANGED <<open, prompts, wiped, proc, cancelled, lines, shown>>
  BY DEF Prompted, Pump, DropStale, HandleSession, HandleItem, HandleDone, HandleDoneRaises,
         uiVars, workerVars
<1>1. /\ e \in Event /\ e.conv \in Convs /\ e.serial \in Turns
      /\ e.how \in {"ok", "failed", "cancelled"}
      /\ events' \in Seq(Event)
  BY <1>0, HeadTyped DEF e
<1>2. CASE DropStale
  <2>1. UNCHANGED <<waiting, turn, stamp, counter, record, transcript, session, home, asked,
                    broken, worker>>
    BY <1>2 DEF DropStale, uiVars, workerVars
  <2> QED BY <1>0, <1>1, <2>1 DEF TypeOK
<1>3. CASE HandleSession
  <2>1. /\ session' \in {session, [session EXCEPT ![e.conv] = e.serial]}
        /\ UNCHANGED <<waiting, turn, stamp, counter, record, transcript, home, asked,
                       broken, worker>>
    BY <1>3 DEF HandleSession, workerVars, e
  <2>2. e.serial \in 0..MaxPrompts /\ session \in [Convs -> 0..MaxPrompts]
    <3>1. e.serial \in 0..MaxPrompts
      BY <1>1 DEF Turns
    <3> QED BY <1>0, <3>1 DEF TypeOK
  <2>3. [session EXCEPT ![e.conv] = e.serial] \in [Convs -> 0..MaxPrompts]
    BY <1>1, <2>2
  <2>4. session' \in [Convs -> 0..MaxPrompts]
    BY <2>1, <2>2, <2>3
  <2> QED BY <1>0, <1>1, <2>1, <2>4 DEF TypeOK
<1>4. CASE HandleItem
  <2>1. /\ \E stored \in {<<>>, <<Say(e.serial, "agent")>>} :
             transcript' = [transcript EXCEPT ![e.conv] = @ \o stored]
        /\ UNCHANGED <<waiting, turn, stamp, counter, record, session, home, asked,
                       broken, worker>>
    BY <1>4 DEF HandleItem, workerVars, e
  <2>2. \A stored \in {<<>>, <<Say(e.serial, "agent")>>} : stored \in Seq(Entry)
    BY <1>1, SayIsEntry, EmptySeq
  <2>3. transcript \in [Convs -> Seq(Entry)]
    BY <1>0 DEF TypeOK
  <2>4. \A stored \in {<<>>, <<Say(e.serial, "agent")>>} :
          transcript[e.conv] \o stored \in Seq(Entry)
    BY <1>1, <2>2, <2>3, ConcatProperties
  <2>5. transcript' \in [Convs -> Seq(Entry)]
    BY <1>1, <2>1, <2>3, <2>4
  <2> QED BY <1>0, <1>1, <2>1, <2>5 DEF TypeOK
<1>5. CASE HandleDone
  <2> DEFINE c == e.conv
             records == [record EXCEPT ![e.serial] = e.how]
  <2> HIDE DEF c, records
  <2>1. PICK outcome \in {<<>>, OutcomeOf(e)} :
          \/ /\ waiting[c] = <<>>
             /\ Decline(c, records, outcome)
             /\ UNCHANGED waiting
          \/ /\ waiting[c] # <<>>
             /\ Dequeue(c)
             /\ \/ Begin(c, Head(waiting[c]), records, outcome)
                \/ Decline(c, records, outcome)
    BY <1>5 DEF HandleDone, e, c, records
  <2>2. outcome \in Seq(Entry) /\ c \in Convs /\ records \in [Turns -> Status]
    <3>1. outcome \in Seq(Entry)
      BY <1>1, OutcomeTyped
    <3>2. records \in [Turns -> Status]
      BY <1>0, <1>1 DEF TypeOK, Status, records
    <3> QED BY <1>1, <3>1, <3>2 DEF c
  <2>3. UNCHANGED session
    BY <1>5 DEF HandleDone
  <2>4. waiting' \in [Convs -> Seq(Turns)]
    <3>1. waiting \in [Convs -> Seq(Turns)]
      BY <1>0 DEF TypeOK
    <3>2. waiting[c] # <<>> => Tail(waiting[c]) \in Seq(Turns)
      BY <2>2, <3>1, HeadTailProperties
    <3> QED BY <2>1, <2>2, <3>1, <3>2 DEF Dequeue
  <2>5. CASE Decline(c, records, outcome)
    <3>1. /\ turn' \in [Convs -> 0..MaxPrompts] /\ stamp' \in [Convs -> 0..MaxPrompts]
          /\ record' \in [Turns -> Status] /\ transcript' \in [Convs -> Seq(Entry)]
          /\ UNCHANGED <<counter, home, asked, worker, broken>>
      BY <1>0, <2>2, <2>5, DeclineTypes
    <3> QED BY <1>0, <1>1, <2>3, <2>4, <3>1 DEF TypeOK
  <2>6. CASE waiting[c] # <<>> /\ Begin(c, Head(waiting[c]), records, outcome)
    <3>1. /\ Head(waiting[c]) \in 1..prompts
          /\ \A s \in 1..counter : asked[s] # Head(waiting[c])
      <4>1. waiting[c] \in Seq(Turns)
        BY <1>0, <2>2 DEF TypeOK
      <4>2. 1 \in 1..Len(waiting[c]) /\ Head(waiting[c]) = waiting[c][1]
        BY <2>6, <4>1
      <4> QED BY <2>2, <4>2 DEF Prompted, Unsent
    <3>2. counter < prompts
      BY <3>1, Room
    <3>3. counter < MaxPrompts /\ Head(waiting[c]) \in 1..MaxPrompts
      BY <1>0, <3>1, <3>2, Counts
    <3>4. /\ counter' = counter + 1
          /\ turn' \in [Convs -> 0..MaxPrompts] /\ stamp' \in [Convs -> 0..MaxPrompts]
          /\ record' \in [Turns -> Status] /\ transcript' \in [Convs -> Seq(Entry)]
          /\ home' \in [Turns -> Convs] /\ asked' \in [Turns -> 0..MaxPrompts]
          /\ worker' \in [Turns -> Stage]
          /\ broken' \subseteq Turns
      BY <1>0, <2>2, <2>6, <3>3, BeginTypes
    <3>5. counter' \in 0..prompts'
      BY <1>0, <3>2, <3>4 DEF TypeOK
    <3> QED BY <1>0, <1>1, <2>3, <2>4, <3>4, <3>5 DEF TypeOK
  <2> QED BY <2>1, <2>5, <2>6
<1>6. CASE HandleDoneRaises
  <2>1. /\ record' = [record EXCEPT ![e.serial] = e.how]
        /\ Break(e.serial)
        /\ UNCHANGED <<waiting, turn, stamp, counter, transcript, session, home, asked,
                       worker>>
    BY <1>6 DEF HandleDoneRaises, workerVars, e
  <2>2. record' \in [Turns -> Status]
    BY <1>0, <1>1, <2>1 DEF TypeOK, Status
  <2>3. broken' \subseteq Turns
    BY <1>0, <1>1, <2>1 DEF TypeOK, Break
  <2> QED BY <1>0, <1>1, <2>1, <2>2, <2>3 DEF TypeOK
<1> QED BY <1>2, <1>3, <1>4, <1>5, <1>6 DEF Pump

LEMMA WorkerKeepsTypes ==
  ASSUME TypeOK, NEW s \in Turns, WorkerStep(s) \/ WorkerEnds(s)
  PROVE  TypeOK'
<1>1. UNCHANGED <<open, prompts, waiting, turn, stamp, counter, record, transcript, session,
                  home, asked, wiped, cancelled, shown>>
  BY DEF WorkerStep, WorkerEnds, LaunchFails, Spawn, Adopt, ReadLine, Finish, Exit,
         WorkerDies, uiVars
<1>2. worker' \in [Turns -> Stage]
  <2>1. worker' = worker \/ \E p \in Stage : worker' = [worker EXCEPT ![s] = p]
    BY DEF WorkerStep, WorkerEnds, LaunchFails, Spawn, Adopt, ReadLine, Finish, Exit,
           WorkerDies, Stage
  <2> QED BY <2>1 DEF TypeOK
<1>3. proc' \in [Turns -> {"none", "alive", "dead"}]
  BY DEF TypeOK, WorkerStep, WorkerEnds, LaunchFails, Spawn, Adopt, ReadLine, Finish, Exit,
         WorkerDies
<1>4. lines' \in [Turns -> 0..MaxLines]
  <2>1. CASE ReadLine(s)
    <3>1. lines \in [Turns -> 0..MaxLines] /\ lines[s] \in 0..MaxLines
      BY DEF TypeOK
    <3>2. lines[s] > 0 /\ lines' = [lines EXCEPT ![s] = lines[s] - 1]
      BY <2>1 DEF ReadLine
    <3>3. lines[s] - 1 \in 0..MaxLines
      BY <3>1, <3>2
    <3> QED BY <3>1, <3>2, <3>3
  <2>2. CASE ~ReadLine(s)
    BY <2>2 DEF TypeOK, WorkerStep, WorkerEnds, LaunchFails, Spawn, Adopt, Finish, Exit,
                WorkerDies
  <2> QED BY <2>1, <2>2
<1>5. broken' \subseteq Turns
  BY DEF TypeOK, WorkerStep, WorkerEnds, LaunchFails, Spawn, Adopt, ReadLine, Finish, Exit,
         WorkerDies, Break, uiVars
<1>6. events' \in Seq(Event)
  <2>0. events \in Seq(Event)
    BY DEF TypeOK
  <2>1. CASE LaunchFails(s)
    <3>1. Emit(s, "item", "failed") \in Event /\ Emit(s, "done", "failed") \in Event
      BY EmitIsEvent
    <3>2. <<Emit(s, "item", "failed"), Emit(s, "done", "failed")>> \in Seq(Event)
      BY <3>1
    <3> QED BY <2>0, <2>1, <3>2, ConcatProperties DEF LaunchFails
  <2>2. CASE ReadLine(s)
    <3>1. \A kind \in {"session", "item"} : Emit(s, kind, "ok") \in Event
      BY EmitIsEvent
    <3> QED BY <2>0, <2>2, <3>1, AppendProperties DEF ReadLine
  <2>3. CASE Finish(s)
    <3>1. \A how \in {"ok", "failed", "cancelled"} : Emit(s, "done", how) \in Event
      BY EmitIsEvent
    <3> QED BY <2>0, <2>3, <3>1, AppendProperties DEF Finish
  <2>4. CASE Spawn(s) \/ Adopt(s) \/ WorkerEnds(s)
    BY <2>0, <2>4 DEF Spawn, Adopt, WorkerEnds, Exit, WorkerDies
  <2> QED BY <2>1, <2>2, <2>3, <2>4 DEF WorkerStep
<1> QED BY <1>1, <1>2, <1>3, <1>4, <1>5, <1>6 DEF TypeOK

LEMMA CloseKeepsTypes ==
  ASSUME TypeOK, CloseWindow \/ CloseRefused
  PROVE  TypeOK'
<1>1. /\ cancelled' \in [Turns -> BOOLEAN]
      /\ proc' \in [Turns -> {"none", "alive", "dead"}]
  BY CancelTypes DEF CloseWindow, CloseRefused, CancelAll
<1>2. /\ UNCHANGED <<open, prompts, counter, record, transcript, session, home, asked, wiped,
                     broken, worker, lines>>
      /\ shown' \in BOOLEAN
  BY DEF CloseWindow, CloseRefused, uiVars, TypeOK
<1>3. /\ waiting' \in [Convs -> Seq(Turns)] /\ events' \in Seq(Event)
      /\ turn' \in [Convs -> 0..MaxPrompts] /\ stamp' \in [Convs -> 0..MaxPrompts]
  <2>1. CASE CloseRefused
    BY <2>1 DEF CloseRefused, uiVars, TypeOK
  <2>2. CASE CloseWindow
    <3>1. <<>> \in Seq(Turns) /\ <<>> \in Seq(Event) /\ 0 \in 0..MaxPrompts
      BY EmptySeq
    <3> QED BY <2>2, <3>1 DEF CloseWindow
  <2> QED BY <2>1, <2>2
<1> QED BY <1>1, <1>2, <1>3 DEF TypeOK

LEMMA TypesKept == Prompted /\ [Next]_vars => TypeOK'
<1> SUFFICES ASSUME Prompted, [Next]_vars PROVE TypeOK'
  OBVIOUS
<1>0. TypeOK
  BY DEF Prompted
<1>1. CASE UNCHANGED vars
  BY <1>0, <1>1 DEF vars, uiVars, workerVars, TypeOK
<1>2. CASE Next
  BY <1>0, <1>2, UserKeepsTypes, PumpKeepsTypes, WorkerKeepsTypes, CloseKeepsTypes DEF Next
<1> QED BY <1>1, <1>2

-----------------------------------------------------------------------------
(* Prompts. *)

\* What a step can do to the prompts: lose those that wait in a place, enter one
\* that waits or is declined, or send one, entered now or taken from the queue.
Lose ==
  /\ waiting' \in [Convs -> Seq(Turns)]
  /\ \A c \in Convs : waiting'[c] \in {waiting[c], <<>>}
  /\ UNCHANGED <<prompts, counter, asked>>

EnterDeclined == prompts' = prompts + 1 /\ UNCHANGED <<waiting, counter, asked>>

EnterWaiting(c) ==
  /\ prompts' = prompts + 1
  /\ waiting' = [waiting EXCEPT ![c] = Append(@, prompts + 1)]
  /\ UNCHANGED <<counter, asked>>

SendPrompt(n) == counter' = counter + 1 /\ asked' = [asked EXCEPT ![counter + 1] = n]

EnterSent ==
  /\ prompts' = prompts + 1
  /\ SendPrompt(prompts + 1)
  /\ UNCHANGED waiting

TakeDeclined(c) ==
  /\ waiting[c] # <<>>
  /\ Dequeue(c)
  /\ UNCHANGED <<prompts, counter, asked>>

TakeSent(c) ==
  /\ waiting[c] # <<>>
  /\ Dequeue(c)
  /\ SendPrompt(Head(waiting[c]))
  /\ UNCHANGED prompts

LEMMA PromptSteps ==
  ASSUME TypeOK, [Next]_vars
  PROVE  \/ Lose \/ EnterDeclined \/ EnterSent
         \/ \E c \in Convs : EnterWaiting(c) \/ TakeDeclined(c) \/ TakeSent(c)
<1>0. waiting \in [Convs -> Seq(Turns)]
  BY DEF TypeOK
<1>1. ASSUME UNCHANGED <<waiting, prompts, counter, asked>> PROVE Lose
  BY <1>0, <1>1 DEF Lose
<1>2. CASE UNCHANGED vars
  BY <1>1, <1>2 DEF vars, uiVars
<1>3. ASSUME NEW c \in Convs, UserStep(c)
      PROVE  Lose \/ EnterDeclined \/ EnterSent \/ EnterWaiting(c)
  <2>1. CASE SendNow(c)
    BY <2>1 DEF SendNow, Begin, Decline, EnterSent, EnterDeclined, SendPrompt
  <2>2. CASE Queue(c)
    BY <2>2 DEF Queue, EnterWaiting
  <2>3. CASE Stop(c)
    BY <2>3, <1>1 DEF Stop, uiVars
  <2>4. CASE Reset(c) \/ Delete(c) \/ CutShort(c)
    <3>1. waiting' = waiting \/ waiting' = [waiting EXCEPT ![c] = <<>>]
      BY <2>4 DEF Reset, Delete, CutShort, Clear
    <3>2. UNCHANGED <<prompts, counter, asked>>
      BY <2>4 DEF Reset, Delete, CutShort
    <3>3. <<>> \in Seq(Turns)
      BY EmptySeq
    <3> QED BY <1>0, <3>1, <3>2, <3>3 DEF Lose
  <2> QED BY <1>3, <2>1, <2>2, <2>3, <2>4 DEF UserStep
<1>4. CASE Pump
  <2>1. CASE HandleDone
    <3>1. Head(events).conv \in Convs
      BY <2>1, HeadTyped DEF HandleDone
    <3> QED BY <1>1, <2>1, <3>1 DEF HandleDone, Begin, Decline, TakeSent, TakeDeclined, SendPrompt
  <2>2. CASE DropStale \/ HandleSession \/ HandleItem \/ HandleDoneRaises
    BY <1>1, <2>2 DEF DropStale, HandleSession, HandleItem, HandleDoneRaises, uiVars
  <2> QED BY <1>4, <2>1, <2>2 DEF Pump
<1>5. ASSUME NEW s \in Turns, WorkerStep(s) \/ WorkerEnds(s)
      PROVE  Lose
  BY <1>1, <1>5 DEF WorkerStep, WorkerEnds, LaunchFails, Spawn, Adopt, ReadLine, Finish, Exit,
                    WorkerDies, uiVars
<1>6. CASE CloseWindow
  <2>1. <<>> \in Seq(Turns)
    BY EmptySeq
  <2> QED BY <1>6, <2>1 DEF CloseWindow, Lose
<1>7. CASE CloseRefused
  BY <1>1, <1>7 DEF CloseRefused, uiVars
<1> QED BY <1>2, <1>3, <1>4, <1>5, <1>6, <1>7 DEF Next

\* Sending a prompt that was entered and never sent.
LEMMA SendingOnce ==
  ASSUME TypeOK, Asked, NEW n \in 1..prompts', prompts <= prompts', prompts' \in Nat,
         counter + 1 \in Turns, SendPrompt(n), \A s \in 1..counter : asked[s] # n
  PROVE  /\ Asked'
         /\ \A s \in 1..counter' : asked'[s] = n \/ (s \in 1..counter /\ asked'[s] = asked[s])
<1>1. counter \in Nat /\ prompts \in Nat /\ asked \in [Turns -> 0..MaxPrompts]
  BY DEF TypeOK
<1>2. /\ counter' = counter + 1
      /\ asked'[counter + 1] = n
      /\ \A s \in 1..counter : s \in 1..counter' /\ asked'[s] = asked[s] /\ s # counter + 1
  <2>1. 1..counter \subseteq Turns
    BY <1>1 DEF Turns
  <2> QED BY <1>1, <2>1 DEF SendPrompt
<1>3. \A s \in 1..counter' : s \in 1..counter \/ s = counter + 1
  BY <1>1, <1>2
<1>4. \A s \in 1..counter : asked'[s] \in 1..prompts' /\ asked'[s] # n
  BY <1>1, <1>2 DEF Asked
<1>5. \A r, s \in 1..counter : asked'[r] = asked'[s] => r = s
  BY <1>2 DEF Asked
<1>6. ASSUME NEW s \in 1..counter'
      PROVE  /\ asked'[s] \in 1..prompts'
             /\ \A r \in 1..counter' : asked'[r] = asked'[s] => r = s
  <2>1. CASE s = counter + 1
    BY <1>2, <1>3, <1>4, <2>1
  <2>2. CASE s \in 1..counter
    BY <1>2, <1>3, <1>4, <1>5, <2>2
  <2> QED BY <1>3, <1>6, <2>1, <2>2
<1>7. Asked'
  BY <1>6 DEF Asked
<1> QED BY <1>2, <1>3, <1>7

LEMMA PromptsKept == Prompted /\ [Next]_vars => Prompted'
<1> SUFFICES ASSUME Prompted, [Next]_vars PROVE Prompted'
  OBVIOUS
<1>0. TypeOK /\ TypeOK' /\ Asked /\ Unsent
  BY TypesKept DEF Prompted
<1>1. /\ counter \in Nat /\ prompts \in Nat /\ counter <= prompts /\ prompts <= MaxPrompts
      /\ waiting \in [Convs -> Seq(Turns)] /\ asked \in [Turns -> 0..MaxPrompts]
      /\ prompts' \in Nat /\ prompts' <= MaxPrompts
      /\ counter' \in Nat /\ counter' <= prompts'
  <2>1. waiting \in [Convs -> Seq(Turns)] /\ asked \in [Turns -> 0..MaxPrompts]
    BY <1>0 DEF TypeOK
  <2>2. /\ prompts' \in Nat /\ prompts' <= MaxPrompts
        /\ counter' \in Nat /\ counter' <= prompts'
    <3>1. prompts' \in 0..MaxPrompts /\ counter' \in 0..prompts'
      BY <1>0 DEF TypeOK
    <3> QED BY <3>1
  <2> QED BY <1>0, <2>1, <2>2, Counts
<1>2. \A c \in Convs : waiting[c] \in Seq(Turns) /\ Len(waiting[c]) \in Nat
  BY <1>1
<1>3. CASE Lose
  <2>1. Asked'
    BY <1>0, <1>3 DEF Asked, Lose
  <2>2. \A c \in Convs : \A i \in 1..Len(waiting'[c]) :
          i \in 1..Len(waiting[c]) /\ waiting'[c][i] = waiting[c][i]
    <3> SUFFICES ASSUME NEW c \in Convs, NEW i \in 1..Len(waiting'[c])
                 PROVE  i \in 1..Len(waiting[c]) /\ waiting'[c][i] = waiting[c][i]
      OBVIOUS
    <3>1. waiting'[c] # <<>>
      OBVIOUS
    <3> QED BY <1>3, <3>1 DEF Lose
  <2>3. Unsent'
    BY <1>0, <1>3, <2>2 DEF Unsent, Lose
  <2> QED BY <1>0, <2>1, <2>3 DEF Prompted
<1>4. CASE EnterDeclined
  BY <1>0, <1>1, <1>4 DEF EnterDeclined, Prompted, Asked, Unsent
<1>5. CASE EnterSent
  <2>1. /\ prompts' = prompts + 1 /\ SendPrompt(prompts + 1) /\ waiting' = waiting
    BY <1>5 DEF EnterSent
  <2>2. \A s \in 1..counter : asked[s] # prompts + 1
    BY <1>0, <1>1 DEF Asked
  <2>3. counter + 1 \in Turns /\ prompts + 1 \in 1..prompts'
    BY <1>1, <2>1 DEF Turns
  <2>4. /\ Asked'
        /\ \A s \in 1..counter' :
             asked'[s] = prompts + 1 \/ (s \in 1..counter /\ asked'[s] = asked[s])
    BY <1>0, <1>1, <2>1, <2>2, <2>3, SendingOnce
  <2>5. ASSUME NEW c \in Convs, NEW i \in 1..Len(waiting[c])
        PROVE  /\ waiting[c][i] \in 1..prompts'
               /\ waiting[c][i] # prompts + 1
               /\ \A s \in 1..counter : asked[s] # waiting[c][i]
    BY <1>0, <1>1, <2>1 DEF Unsent
  <2>6. ASSUME NEW c \in Convs, NEW i \in 1..Len(waiting[c])
        PROVE  /\ waiting[c][i] \in 1..prompts'
               /\ \A s \in 1..counter' : asked'[s] # waiting[c][i]
    BY <2>4, <2>5
  <2>7. Unsent'
    BY <1>0, <2>1, <2>6 DEF Unsent
  <2> QED BY <1>0, <2>4, <2>7 DEF Prompted
<1>6. ASSUME NEW c \in Convs, EnterWaiting(c) PROVE Prompted'
  <2> DEFINE m == Len(waiting[c]) + 1
  <2> HIDE DEF m
  <2>0. prompts + 1 \in Turns /\ prompts' = prompts + 1 /\ counter' = counter /\ asked' = asked
    BY <1>1, <1>6 DEF EnterWaiting, Turns
  <2>1. /\ waiting' = [waiting EXCEPT ![c] = Append(waiting[c], prompts + 1)]
        /\ \A d \in Convs \ {c} : waiting'[d] = waiting[d]
        /\ Len(waiting'[c]) = m
        /\ \A i \in 1..Len(waiting[c]) : waiting'[c][i] = waiting[c][i]
        /\ waiting'[c][m] = prompts + 1
    BY <1>1, <1>2, <1>6, <2>0, AppendProperties DEF EnterWaiting, m
  <2>2. Asked'
    BY <1>0, <1>1, <2>0 DEF Asked
  <2>3. \A d \in Convs : \A i \in 1..Len(waiting'[d]) :
          \/ i \in 1..Len(waiting[d]) /\ waiting'[d][i] = waiting[d][i]
          \/ d = c /\ i = m /\ waiting'[d][i] = prompts + 1
    BY <1>2, <2>1 DEF m
  <2>4. \A d \in Convs : \A i \in 1..Len(waiting[d]) :
          waiting[d][i] \in 1..prompts' /\ waiting[d][i] # prompts + 1
    BY <1>0, <1>1, <2>0 DEF Unsent
  <2>5. \A s \in 1..counter' : asked'[s] # prompts + 1
    BY <1>0, <1>1, <2>0 DEF Asked
  <2>6. \A d \in Convs : \A i \in 1..Len(waiting'[d]) :
          /\ waiting'[d][i] \in 1..prompts'
          /\ \A s \in 1..counter' : asked'[s] # waiting'[d][i]
    <3> SUFFICES ASSUME NEW d \in Convs, NEW i \in 1..Len(waiting'[d])
                 PROVE  /\ waiting'[d][i] \in 1..prompts'
                        /\ \A s \in 1..counter' : asked'[s] # waiting'[d][i]
      OBVIOUS
    <3>1. CASE i \in 1..Len(waiting[d]) /\ waiting'[d][i] = waiting[d][i]
      BY <1>0, <2>0, <2>4, <3>1 DEF Unsent
    <3>2. CASE waiting'[d][i] = prompts + 1
      BY <1>1, <2>0, <2>5, <3>2
    <3> QED BY <2>3, <3>1, <3>2
  <2>7. \A d, b \in Convs : \A i \in 1..Len(waiting'[d]), k \in 1..Len(waiting'[b]) :
          waiting'[b][k] = waiting'[d][i] => b = d /\ k = i
    <3> SUFFICES ASSUME NEW d \in Convs, NEW b \in Convs, NEW i \in 1..Len(waiting'[d]),
                        NEW k \in 1..Len(waiting'[b]), waiting'[b][k] = waiting'[d][i]
                 PROVE  b = d /\ k = i
      OBVIOUS
    <3>1. CASE /\ i \in 1..Len(waiting[d]) /\ waiting'[d][i] = waiting[d][i]
               /\ k \in 1..Len(waiting[b]) /\ waiting'[b][k] = waiting[b][k]
      BY <1>0, <3>1 DEF Unsent
    <3>2. CASE /\ d = c /\ i = m /\ waiting'[d][i] = prompts + 1
               /\ b = c /\ k = m /\ waiting'[b][k] = prompts + 1
      BY <3>2
    <3>3. ~(/\ waiting'[d][i] = prompts + 1
            /\ k \in 1..Len(waiting[b]) /\ waiting'[b][k] = waiting[b][k])
      BY <2>4
    <3>4. ~(/\ waiting'[b][k] = prompts + 1
            /\ i \in 1..Len(waiting[d]) /\ waiting'[d][i] = waiting[d][i])
      BY <2>4
    <3>5. /\ \/ i \in 1..Len(waiting[d]) /\ waiting'[d][i] = waiting[d][i]
             \/ d = c /\ i = m /\ waiting'[d][i] = prompts + 1
          /\ \/ k \in 1..Len(waiting[b]) /\ waiting'[b][k] = waiting[b][k]
             \/ b = c /\ k = m /\ waiting'[b][k] = prompts + 1
      BY <2>3
    <3> QED BY <3>1, <3>2, <3>3, <3>4, <3>5
  <2>8. Unsent'
    BY <2>6, <2>7 DEF Unsent
  <2> QED BY <1>0, <2>2, <2>8 DEF Prompted
<1>7. ASSUME NEW c \in Convs, waiting[c] # <<>>, Dequeue(c)
      PROVE  /\ Head(waiting[c]) = waiting[c][1] /\ 1 \in 1..Len(waiting[c])
             /\ \A d \in Convs : \A i \in 1..Len(waiting'[d]) :
                  IF d = c THEN i + 1 \in 1..Len(waiting[d]) /\ waiting'[d][i] = waiting[d][i + 1]
                  ELSE i \in 1..Len(waiting[d]) /\ waiting'[d][i] = waiting[d][i]
  <2>1. /\ Len(waiting[c]) # 0
        /\ Len(Tail(waiting[c])) = Len(waiting[c]) - 1
        /\ \A i \in 1..Len(Tail(waiting[c])) : Tail(waiting[c])[i] = waiting[c][i + 1]
    BY <1>2, <1>7, HeadTailProperties, EmptySeq
  <2>2. /\ waiting'[c] = Tail(waiting[c])
        /\ \A d \in Convs \ {c} : waiting'[d] = waiting[d]
    BY <1>1, <1>7 DEF Dequeue
  <2>3. Head(waiting[c]) = waiting[c][1] /\ 1 \in 1..Len(waiting[c])
    BY <1>2, <2>1
  <2>4. \A i \in 1..Len(waiting'[c]) :
          i + 1 \in 1..Len(waiting[c]) /\ waiting'[c][i] = waiting[c][i + 1]
    BY <1>2, <2>1, <2>2
  <2> QED BY <2>2, <2>3, <2>4
<1>8. ASSUME NEW c \in Convs, waiting[c] # <<>>, Dequeue(c), UNCHANGED prompts
      PROVE  /\ \A d \in Convs : \A i \in 1..Len(waiting'[d]) :
                  /\ waiting'[d][i] \in 1..prompts'
                  /\ waiting'[d][i] # Head(waiting[c])
                  /\ \A s \in 1..counter : asked[s] # waiting'[d][i]
             /\ \A d, b \in Convs : \A i \in 1..Len(waiting'[d]), k \in 1..Len(waiting'[b]) :
                  waiting'[b][k] = waiting'[d][i] => b = d /\ k = i
  <2>1. ASSUME NEW d \in Convs, NEW i \in 1..Len(waiting'[d])
        PROVE  /\ waiting'[d][i] \in 1..prompts'
               /\ waiting'[d][i] # Head(waiting[c])
               /\ \A s \in 1..counter : asked[s] # waiting'[d][i]
    <3>1. CASE d = c
      <4>1. /\ i + 1 \in 1..Len(waiting[d]) /\ waiting'[d][i] = waiting[d][i + 1]
            /\ Head(waiting[c]) = waiting[c][1] /\ 1 \in 1..Len(waiting[c])
        BY <1>7, <1>8, <2>1, <3>1
      <4>2. waiting[d][i + 1] # waiting[c][1]
        BY <1>0, <2>1, <3>1, <4>1 DEF Unsent
      <4> QED BY <1>0, <1>8, <4>1, <4>2 DEF Unsent
    <3>2. CASE d # c
      <4>1. /\ i \in 1..Len(waiting[d]) /\ waiting'[d][i] = waiting[d][i]
            /\ Head(waiting[c]) = waiting[c][1] /\ 1 \in 1..Len(waiting[c])
        BY <1>7, <1>8, <2>1, <3>2
      <4> QED BY <1>0, <1>8, <3>2, <4>1 DEF Unsent
    <3> QED BY <3>1, <3>2
  <2>2. ASSUME NEW d \in Convs, NEW i \in 1..Len(waiting'[d]),
               NEW b \in Convs, NEW k \in 1..Len(waiting'[b]), waiting'[b][k] = waiting'[d][i]
        PROVE  b = d /\ k = i
    <3>1. PICK i0 \in 1..Len(waiting[d]) :
            waiting'[d][i] = waiting[d][i0] /\ i0 = IF d = c THEN i + 1 ELSE i
      BY <1>7, <1>8, <2>2
    <3>2. PICK k0 \in 1..Len(waiting[b]) :
            waiting'[b][k] = waiting[b][k0] /\ k0 = IF b = c THEN k + 1 ELSE k
      BY <1>7, <1>8, <2>2
    <3>3. b = d /\ k0 = i0
      BY <1>0, <2>2, <3>1, <3>2 DEF Unsent
    <3> QED BY <2>2, <3>1, <3>2, <3>3
  <2> QED BY <2>1, <2>2
<1>9. ASSUME NEW c \in Convs, TakeDeclined(c) PROVE Prompted'
  <2>1. waiting[c] # <<>> /\ Dequeue(c) /\ UNCHANGED <<prompts, counter, asked>>
    BY <1>9 DEF TakeDeclined
  <2> QED BY <1>0, <1>8, <2>1 DEF Prompted, Asked, Unsent
<1>10. ASSUME NEW c \in Convs, TakeSent(c) PROVE Prompted'
  <2>1. /\ waiting[c] # <<>> /\ Dequeue(c) /\ UNCHANGED prompts
        /\ SendPrompt(Head(waiting[c]))
    BY <1>10 DEF TakeSent
  <2>2. /\ Head(waiting[c]) \in 1..prompts'
        /\ \A s \in 1..counter : asked[s] # Head(waiting[c])
    BY <1>0, <1>7, <2>1 DEF Unsent
  <2>3. counter + 1 \in Turns
    BY <1>1, <2>1 DEF SendPrompt, Turns
  <2>4. /\ Asked'
        /\ \A s \in 1..counter' :
             asked'[s] = Head(waiting[c]) \/ (s \in 1..counter /\ asked'[s] = asked[s])
    <3>1. prompts <= prompts'
      BY <1>1, <2>1
    <3> QED BY <1>0, <1>1, <2>1, <2>2, <2>3, <3>1, SendingOnce
  <2>5. Unsent'
    BY <1>8, <2>1, <2>4 DEF Unsent
  <2> QED BY <1>0, <2>4, <2>5 DEF Prompted
<1> QED BY <1>0, <1>3, <1>4, <1>5, <1>6, <1>9, <1>10, PromptSteps

-----------------------------------------------------------------------------
(* Turns. *)

\* A conversation shows a turn that was sent in it, and takes its events.
Stamped ==
  /\ stamp = turn
  /\ \A c \in Convs : turn[c] \in 0..counter /\ (turn[c] # 0 => home[turn[c]] = c)

\* Serials not given out yet have left no trace.
Untouched ==
  \A s \in Turns : s > counter => worker[s] = "none" /\ proc[s] = "none" /\ ~cancelled[s]

\* A process comes from a worker that launched it, and a turn without a worker
\* from a send() that raised.
Launched ==
  \A s \in Turns :
    /\ worker[s] \in {"none", "launching"} => proc[s] = "none"
    /\ worker[s] = "none" /\ s <= counter => s \in broken

\* An event is of the turn it names, and after "done" that turn does nothing.
TrueEvent(e, h, w, p) ==
  /\ e.conv = h[e.serial]
  /\ w[e.serial] # "none"
  /\ e.kind = "done" => w[e.serial] = "finished" /\ p[e.serial] # "alive"

EventsAreTrue == \A i \in 1..Len(events) : TrueEvent(events[i], home, worker, proc)

\* A turn that does something, or will, and was not told to stop is in reach.
Working(s) == worker[s] \in {"launching", "spawned", "reading"} \/ proc[s] = "alive"

InReach == \A s \in Turns : Working(s) /\ ~cancelled[s] => turn[home[s]] = s

Placed ==
  /\ Stamped /\ Untouched /\ Launched /\ EventsAreTrue /\ InReach
  /\ CancelReachesProcess

\* What was put in a queue is taken out in that order and nothing else appears.
Remain == \A i \in 1..Len(events') : \E k \in 1..Len(events) : events'[i] = events[k]

LEMMA RemainSteps ==
  ASSUME TypeOK, events' \in {events, <<>>} \/ (events # <<>> /\ events' = Tail(events))
  PROVE  Remain
<1>1. CASE events' = events
  BY <1>1 DEF Remain
<1>2. CASE events' = <<>>
  BY <1>2 DEF Remain
<1>3. CASE events # <<>> /\ events' = Tail(events)
  <2>1. events \in Seq(Event)
    BY DEF TypeOK
  <2>2. /\ Len(Tail(events)) = Len(events) - 1 /\ Len(events) \in Nat
        /\ \A i \in 1..Len(Tail(events)) : Tail(events)[i] = events[i + 1]
    BY <1>3, <2>1, HeadTailProperties, LenProperties
  <2>3. \A i \in 1..Len(Tail(events)) : i + 1 \in 1..Len(events)
    BY <2>2
  <2> QED BY <1>3, <2>2, <2>3 DEF Remain
<1> QED BY <1>1, <1>2, <1>3

\* Started turns go on as the ones they are.
Steady ==
  \A s \in Turns : worker[s] # "none" =>
    /\ home'[s] = home[s]
    /\ worker'[s] # "none"
    /\ worker[s] = "finished" => worker'[s] = "finished"
    /\ worker[s] = "finished" /\ proc[s] # "alive" => proc'[s] # "alive"

LEMMA EventsStayTrue ==
  ASSUME TypeOK, EventsAreTrue, Steady, NEW e, \E i \in 1..Len(events) : e = events[i]
  PROVE  TrueEvent(e, home', worker', proc')
<1>1. events \in Seq(Event)
  BY DEF TypeOK
<1>2. e \in Event /\ TrueEvent(e, home, worker, proc)
  BY <1>1, ElementOfSeq DEF EventsAreTrue
<1>3. e.serial \in Turns
  BY <1>2 DEF Event
<1> QED BY <1>2, <1>3 DEF TrueEvent, Steady

LEMMA RemainingStayTrue ==
  ASSUME TypeOK, EventsAreTrue, Steady, Remain
  PROVE  EventsAreTrue'
<1>1. \A i \in 1..Len(events') : TrueEvent(events'[i], home', worker', proc')
  BY EventsStayTrue DEF Remain
<1> QED BY <1>1 DEF EventsAreTrue

\* Steps that leave the turns alone.
LEMMA QuietSteps ==
  ASSUME TypeOK, Placed, Remain, broken \subseteq broken',
         UNCHANGED <<turn, stamp, counter, home, worker, proc, cancelled>>
  PROVE  Placed'
<1>1. Steady
  BY DEF Steady
<1>2. EventsAreTrue'
  BY <1>1, RemainingStayTrue DEF Placed
<1> QED BY <1>2 DEF Placed, Stamped, Untouched, Launched, InReach, Working,
                    CancelReachesProcess

\* Steps that cancel turns and let go of none but those.
LEMMA CancelSteps ==
  ASSUME TypeOK, Placed, Remain, broken \subseteq broken',
         NEW S \in SUBSET (0..counter), Cancel(S),
         \A c \in Convs : turn'[c] = turn[c] \/ (turn'[c] = 0 /\ turn[c] \in S),
         turn' \in [Convs -> 0..MaxPrompts], stamp' = turn',
         UNCHANGED <<counter, home, worker>>
  PROVE  Placed'
<1>1. /\ counter \in Nat /\ home \in [Turns -> Convs]
      /\ proc \in [Turns -> {"none", "alive", "dead"}]
  <2>1. home \in [Turns -> Convs] /\ proc \in [Turns -> {"none", "alive", "dead"}]
    BY DEF TypeOK
  <2> QED BY <2>1, Counts
<1>0. \A s \in Turns : s \in Nat /\ s # 0
  BY DEF Turns
<1>2. \A s \in Turns :
        /\ cancelled'[s] = (cancelled[s] \/ s \in S)
        /\ proc'[s] = IF s \in S /\ proc[s] = "alive" /\ worker[s] # "spawned"
                      THEN "dead" ELSE proc[s]
  BY DEF Cancel
<1>3. Steady
  BY <1>2 DEF Steady
<1>4. EventsAreTrue'
  BY <1>3, RemainingStayTrue DEF Placed
<1>5. Stamped'
  BY <1>1 DEF Placed, Stamped
<1>6. Untouched'
  <2>1. \A s \in Turns : s > counter => s \notin S
    BY <1>0, <1>1
  <2>2. ASSUME NEW s \in Turns, s > counter
        PROVE  worker[s] = "none" /\ proc'[s] = "none" /\ ~cancelled'[s]
    <3>1. worker[s] = "none" /\ proc[s] = "none" /\ ~cancelled[s] /\ s \notin S
      BY <2>1, <2>2 DEF Placed, Untouched
    <3> QED BY <1>2, <3>1
  <2> QED BY <2>2 DEF Untouched
<1>7. Launched'
  <2>1. ASSUME NEW s \in Turns
        PROVE  /\ worker[s] \in {"none", "launching"} => proc'[s] = "none"
               /\ worker[s] = "none" /\ s <= counter => s \in broken'
    BY <1>2 DEF Placed, Launched
  <2> QED BY <2>1 DEF Launched
<1>8. InReach'
  <2>1. ASSUME NEW s \in Turns, Working(s)', ~cancelled'[s]
        PROVE  turn'[home[s]] = s
    <3>1. Working(s) /\ ~cancelled[s] /\ s \notin S
      BY <1>2, <2>1 DEF Working
    <3>2. turn[home[s]] = s /\ home[s] \in Convs
      BY <1>1, <3>1 DEF Placed, InReach
    <3> QED BY <3>1, <3>2
  <2> QED BY <2>1 DEF InReach
<1>9. CancelReachesProcess'
  BY <1>1, <1>2 DEF Placed, CancelReachesProcess
<1> QED BY <1>4, <1>5, <1>6, <1>7, <1>8, <1>9 DEF Placed

\* The turn a conversation shows, if there is one, is over.
Over(c) == \A s \in Turns : Working(s) /\ ~cancelled[s] => home[s] # c

LEMMA OverWhenIdle ==
  ASSUME TypeOK, Placed, NEW c \in Convs, turn[c] = 0
  PROVE  Over(c)
<1>1. \A s \in Turns : s # 0
  BY DEF Turns
<1> QED BY <1>1 DEF Over, Placed, InReach

LEMMA OverWhenDone ==
  ASSUME TypeOK, Placed, events # <<>>, Head(events).kind = "done", Current(Head(events))
  PROVE  Over(Head(events).conv) /\ turn[Head(events).conv] = Head(events).serial
<1> DEFINE e == Head(events)
<1>1. e.conv \in Convs /\ e.serial \in Turns
  BY HeadTyped
<1>2. 1 \in 1..Len(events) /\ e = events[1]
  BY DEF TypeOK
<1>3. TrueEvent(e, home, worker, proc)
  BY <1>2 DEF Placed, EventsAreTrue
<1>4. turn[e.conv] = e.serial
  BY <1>1 DEF Placed, Stamped, Current
<1>5. ~Working(e.serial)
  BY <1>1, <1>3 DEF TrueEvent, Working
<1>6. \A s \in Turns : Working(s) /\ ~cancelled[s] /\ home[s] = e.conv => s = e.serial
  BY <1>4 DEF Placed, InReach
<1> QED BY <1>4, <1>5, <1>6 DEF Over

LEMMA BeginSteps ==
  ASSUME TypeOK, Placed, Remain, NEW c \in Convs, Over(c), counter + 1 \in Turns,
         NEW n, NEW records, NEW following, Begin(c, n, records, following),
         UNCHANGED <<proc, cancelled>>
  PROVE  Placed'
<1> DEFINE s == counter + 1
<1>0. counter \in Nat /\ s \in Nat /\ s > counter /\ s # 0 /\ s \in Turns
  BY DEF TypeOK
<1>1. /\ counter' = s
      /\ turn' = [turn EXCEPT ![c] = s] /\ stamp' = turn'
      /\ home' = [home EXCEPT ![s] = c]
      /\ broken \subseteq broken'
      /\ \/ worker' = [worker EXCEPT ![s] = "launching"]
         \/ worker' = worker /\ s \in broken'
  <2>1. stamp = turn
    BY DEF Placed, Stamped
  <2> QED BY <2>1 DEF Begin, Break
<1>2. /\ turn \in [Convs -> 0..MaxPrompts] /\ home \in [Turns -> Convs]
      /\ worker \in [Turns -> Stage]
  BY DEF TypeOK
<1>11. worker[s] = "none" /\ proc[s] = "none" /\ ~cancelled[s]
  BY <1>0 DEF Placed, Untouched
<1>12. \A r \in Turns : r \in Nat /\ (r <= counter' => r <= counter \/ r = s)
  BY <1>0, <1>1 DEF Turns
<1> HIDE DEF s
<1>3. /\ turn'[c] = s /\ \A d \in Convs \ {c} : turn'[d] = turn[d]
      /\ home'[s] = c /\ \A r \in Turns \ {s} : home'[r] = home[r]
      /\ \A r \in Turns \ {s} : worker'[r] = worker[r]
      /\ \/ worker'[s] = "launching"
         \/ worker'[s] = "none" /\ s \in broken'
  BY <1>0, <1>1, <1>2, <1>11
<1>4. Steady
  BY <1>11, <1>3 DEF Steady
<1>5. EventsAreTrue'
  BY <1>4, RemainingStayTrue DEF Placed
<1>6. Stamped'
  <2>1. ASSUME NEW d \in Convs
        PROVE  turn'[d] \in 0..counter' /\ (turn'[d] # 0 => home'[turn'[d]] = d)
    <3>1. CASE d = c
      BY <1>0, <1>1, <1>3, <3>1
    <3>2. CASE d # c
      <4>1. turn'[d] = turn[d] /\ turn[d] \in 0..counter /\ (turn[d] # 0 => home[turn[d]] = d)
        BY <1>3, <3>2 DEF Placed, Stamped
      <4>2. turn[d] \in 0..s /\ turn[d] # s
        BY <1>0, <4>1 DEF s
      <4>3. turn[d] # 0 => turn[d] \in Turns \ {s}
        BY <1>0, <4>2 DEF Turns
      <4> QED BY <1>1, <1>3, <4>1, <4>2, <4>3
    <3> QED BY <3>1, <3>2
  <2> QED BY <1>1, <2>1 DEF Stamped
<1>7. Untouched'
  <2>1. \A r \in Turns : r > s => r > counter /\ r # s
    BY <1>0, <1>12 DEF s
  <2> QED BY <1>1, <1>3, <2>1 DEF Placed, Untouched
<1>8. Launched'
  <2>1. ASSUME NEW r \in Turns
        PROVE  /\ worker'[r] \in {"none", "launching"} => proc[r] = "none"
               /\ worker'[r] = "none" /\ r <= counter' => r \in broken'
    <3>1. CASE r = s
      BY <1>11, <1>3, <3>1
    <3>2. CASE r # s
      <4>1. worker'[r] = worker[r] /\ (r <= counter' => r <= counter)
        BY <1>3, <1>12, <3>2
      <4> QED BY <1>1, <4>1 DEF Placed, Launched
    <3> QED BY <3>1, <3>2
  <2> QED BY <2>1 DEF Launched
<1>9. InReach'
  <2>1. ASSUME NEW r \in Turns, Working(r)', ~cancelled[r]
        PROVE  turn'[home'[r]] = r
    <3>1. CASE r = s
      BY <1>3, <3>1
    <3>2. CASE r # s
      <4>1. Working(r) /\ home'[r] = home[r] /\ home[r] \in Convs
        BY <1>2, <1>3, <2>1, <3>2 DEF Working
      <4>2. home[r] # c /\ turn[home[r]] = r
        BY <2>1, <4>1 DEF Over, Placed, InReach
      <4> QED BY <1>3, <4>1, <4>2
    <3> QED BY <3>1, <3>2
  <2> QED BY <2>1 DEF InReach
<1>10. CancelReachesProcess'
  BY <1>11, <1>3 DEF Placed, CancelReachesProcess
<1> QED BY <1>5, <1>6, <1>7, <1>8, <1>9, <1>10 DEF Placed

LEMMA DeclineSteps ==
  ASSUME TypeOK, Placed, Remain, NEW c \in Convs, Over(c),
         NEW records, NEW following, Decline(c, records, following),
         UNCHANGED <<proc, cancelled>>
  PROVE  Placed'
<1>1. /\ turn' = [turn EXCEPT ![c] = 0] /\ stamp' = turn'
      /\ UNCHANGED <<counter, home, worker, broken>>
      /\ counter \in Nat /\ home \in [Turns -> Convs] /\ turn \in [Convs -> 0..MaxPrompts]
  BY DEF Decline, Placed, Stamped, TypeOK
<1>2. Steady
  BY <1>1 DEF Steady
<1>3. EventsAreTrue'
  BY <1>2, RemainingStayTrue DEF Placed
<1>4. Stamped'
  BY <1>1 DEF Placed, Stamped
<1>5. InReach'
  BY <1>1 DEF Placed, InReach, Over, Working
<1> QED BY <1>1, <1>3, <1>4, <1>5 DEF Placed, Untouched, Launched, CancelReachesProcess

LEMMA UserKeepsPlaces ==
  ASSUME Prompted, Placed, NEW c \in Convs, UserStep(c)
  PROVE  Placed'
<1>0. TypeOK /\ TypeOK' /\ Remain
  <2>1. TypeOK' /\ TypeOK
    BY TypesKept DEF Prompted, Next
  <2>2. UNCHANGED events
    BY DEF UserStep, SendNow, Queue, Stop, Reset, Delete, CutShort
  <2> QED BY <2>1, <2>2, RemainSteps
<1>1. CASE SendNow(c)
  <2>1. turn[c] = 0 /\ UNCHANGED <<proc, cancelled>>
    BY <1>1 DEF SendNow
  <2>2. Over(c)
    BY <1>0, <2>1, OverWhenIdle
  <2>3. counter + 1 \in Turns
    BY <1>0, <1>1 DEF TypeOK, SendNow, Turns
  <2> QED BY <1>0, <1>1, <2>1, <2>2, <2>3, BeginSteps, DeclineSteps DEF SendNow
<1>2. CASE Queue(c)
  BY <1>0, <1>2, QuietSteps DEF Queue, workerVars
<1>3. turn[c] \in 0..counter /\ {turn[c]} \in SUBSET (0..counter) /\ stamp = turn
  BY DEF Placed, Stamped
<1>4. CASE Stop(c)
  <2>1. Cancel({turn[c]}) /\ UNCHANGED <<turn, stamp, broken, counter, home, worker>>
    BY <1>4 DEF Stop, uiVars
  <2>2. turn \in [Convs -> 0..MaxPrompts] /\ stamp' = turn'
    BY <1>0, <1>3, <2>1 DEF TypeOK
  <2> QED BY <1>0, <1>3, <2>1, <2>2, CancelSteps
<1>5. CASE Reset(c) \/ Delete(c) \/ CutShort(c)
  <2>1. Retire(c) /\ UNCHANGED <<counter, home, worker>> /\ broken \subseteq broken'
    BY <1>5 DEF Reset, Delete, CutShort, Break
  <2>2. /\ Cancel({turn[c]})
        /\ turn' = [turn EXCEPT ![c] = 0] /\ stamp' = turn'
    BY <1>3, <2>1 DEF Retire
  <2>3. turn' \in [Convs -> 0..MaxPrompts]
    BY <1>0 DEF TypeOK
  <2>4. \A d \in Convs : turn'[d] = turn[d] \/ (turn'[d] = 0 /\ turn[d] \in {turn[c]})
    <3>1. turn \in [Convs -> 0..MaxPrompts]
      BY <1>0 DEF TypeOK
    <3> QED BY <2>2, <3>1
  <2> QED BY <1>0, <1>3, <2>1, <2>2, <2>3, <2>4, CancelSteps
<1> QED BY <1>1, <1>2, <1>4, <1>5 DEF UserStep

LEMMA PumpKeepsPlaces ==
  ASSUME Prompted, Placed, Pump
  PROVE  Placed'
<1> DEFINE e == Head(events)
<1>0. TypeOK /\ TypeOK' /\ Remain /\ events # <<>>
  <2>1. TypeOK' /\ TypeOK
    BY TypesKept DEF Prompted, Next
  <2>2. events # <<>> /\ events' = Tail(events)
    BY DEF Pump, DropStale, HandleSession, HandleItem, HandleDone, HandleDoneRaises
  <2> QED BY <2>1, <2>2, RemainSteps
<1>1. CASE DropStale \/ HandleSession \/ HandleItem \/ HandleDoneRaises
  <2>1. /\ UNCHANGED <<turn, stamp, counter, home, worker, proc, cancelled>>
        /\ broken \subseteq broken'
    BY <1>1 DEF DropStale, HandleSession, HandleItem, HandleDoneRaises, Break, uiVars, workerVars
  <2> QED BY <1>0, <2>1, QuietSteps
<1>2. CASE HandleDone
  <2>1. e.kind = "done" /\ Current(e) /\ UNCHANGED <<proc, cancelled, prompts>>
    BY <1>2 DEF HandleDone
  <2>2. Over(e.conv) /\ e.conv \in Convs
    BY <1>0, <2>1, OverWhenDone, HeadTyped
  <2>3. PICK records, outcome :
          \/ /\ waiting[e.conv] = <<>>
             /\ Decline(e.conv, records, outcome)
          \/ /\ waiting[e.conv] # <<>>
             /\ \/ Begin(e.conv, Head(waiting[e.conv]), records, outcome)
                \/ Decline(e.conv, records, outcome)
    BY <1>2 DEF HandleDone
  <2>4. CASE Decline(e.conv, records, outcome)
    BY <1>0, <2>1, <2>2, <2>4, DeclineSteps
  <2>5. CASE Begin(e.conv, Head(waiting[e.conv]), records, outcome)
    <3>1. counter' = counter + 1
      BY <2>5 DEF Begin
    <3>2. counter + 1 \in Turns
      BY <1>0, <2>1, <3>1 DEF TypeOK, Turns
    <3> QED BY <1>0, <2>1, <2>2, <2>5, <3>2, BeginSteps
  <2> QED BY <2>3, <2>4, <2>5
<1> QED BY <1>1, <1>2 DEF Pump

LEMMA CloseKeepsPlaces ==
  ASSUME Prompted, Placed, CloseWindow \/ CloseRefused
  PROVE  Placed'
<1> DEFINE S == {turn[c] : c \in Convs}
<1>1. TypeOK /\ TypeOK'
  BY TypesKept DEF Prompted, Next
<1>2. S \in SUBSET (0..counter) /\ stamp = turn
  BY DEF Placed, Stamped
<1>3. /\ Cancel(S) /\ UNCHANGED <<counter, home, worker, broken>>
      /\ events' \in {events, <<>>}
      /\ \/ UNCHANGED <<turn, stamp>>
         \/ turn' = [c \in Convs |-> 0] /\ stamp' = turn'
  BY DEF CloseWindow, CloseRefused, CancelAll, uiVars
<1>4. Remain
  BY <1>1, <1>3, RemainSteps
<1>5. turn' \in [Convs -> 0..MaxPrompts] /\ stamp' = turn'
  BY <1>1, <1>2, <1>3 DEF TypeOK
<1>6. \A c \in Convs : turn'[c] = turn[c] \/ (turn'[c] = 0 /\ turn[c] \in S)
  BY <1>3
<1> HIDE DEF S
<1> QED BY <1>1, <1>2, <1>3, <1>4, <1>5, <1>6, CancelSteps

LEMMA WorkerKeepsPlaces ==
  ASSUME Prompted, Placed, NEW s \in Turns, WorkerStep(s) \/ WorkerEnds(s)
  PROVE  Placed'
<1>0. TypeOK /\ TypeOK' /\ UNCHANGED <<turn, stamp, counter, home, cancelled>>
  <2>1. TypeOK /\ TypeOK'
    BY TypesKept DEF Prompted, Next
  <2> QED BY <2>1 DEF WorkerStep, WorkerEnds, LaunchFails, Spawn, Adopt, ReadLine, Finish, Exit,
                      WorkerDies, uiVars
<1>1. /\ worker \in [Turns -> Stage] /\ proc \in [Turns -> {"none", "alive", "dead"}]
      /\ events \in Seq(Event) /\ counter \in Nat /\ s \in Nat
  <2>1. s \in Nat
    BY DEF Turns
  <2>2. counter \in Nat
    BY <1>0 DEF TypeOK
  <2>3. worker \in [Turns -> Stage] /\ proc \in [Turns -> {"none", "alive", "dead"}]
    BY <1>0 DEF TypeOK
  <2>4. events \in Seq(Event)
    BY <1>0 DEF TypeOK
  <2> QED BY <2>1, <2>2, <2>3, <2>4
<1>2. broken \subseteq broken'
  BY DEF WorkerStep, WorkerEnds, LaunchFails, Spawn, Adopt, ReadLine, Finish, Exit, WorkerDies,
         uiVars, Break
<1>3. /\ worker[s] # "none" /\ worker'[s] \notin {"none", "launching"}
      /\ \A r \in Turns \ {s} : worker'[r] = worker[r] /\ proc'[r] = proc[r]
      /\ worker[s] = "finished" => worker'[s] = "finished"
      /\ worker[s] = "finished" /\ proc[s] # "alive" => proc'[s] # "alive"
      /\ Working(s)' => Working(s)
      /\ cancelled[s] /\ worker'[s] # "spawned" => proc'[s] # "alive"
  <2>1. /\ worker[s] \in {"none", "launching"} => proc[s] = "none"
        /\ cancelled[s] /\ worker[s] # "spawned" => proc[s] # "alive"
    BY DEF Placed, Launched, CancelReachesProcess
  <2>2. CASE LaunchFails(s)
    BY <1>1, <2>1, <2>2 DEF LaunchFails, Working
  <2>3. CASE Spawn(s)
    BY <1>1, <2>1, <2>3 DEF Spawn, Working
  <2>4. CASE Adopt(s)
    BY <1>1, <2>1, <2>4 DEF Adopt, Working
  <2>5. CASE ReadLine(s)
    BY <1>1, <2>1, <2>5 DEF ReadLine, Working, uiVars
  <2>6. CASE Finish(s)
    BY <1>1, <2>1, <2>6 DEF Finish, Working
  <2>7. CASE Exit(s)
    BY <1>1, <2>1, <2>7 DEF Exit, Working
  <2>8. CASE WorkerDies(s)
    BY <1>1, <2>1, <2>8 DEF WorkerDies, Working
  <2> QED BY <2>2, <2>3, <2>4, <2>5, <2>6, <2>7, <2>8 DEF WorkerStep, WorkerEnds
<1>4. Steady
  BY <1>0, <1>3 DEF Steady
<1>5. \A i \in 1..Len(events') :
        \/ \E k \in 1..Len(events) : events'[i] = events[k]
        \/ \E kind \in {"session", "item", "done"}, how \in {"ok", "failed", "cancelled"} :
             /\ events'[i] = Emit(s, kind, how)
             /\ kind = "done" => worker'[s] = "finished" /\ proc'[s] # "alive"
  <2>1. CASE UNCHANGED events
    BY <2>1
  <2>2. ASSUME NEW kind \in {"session", "item", "done"},
                 NEW how \in {"ok", "failed", "cancelled"},
               kind = "done" => worker'[s] = "finished" /\ proc'[s] # "alive",
               events' = Append(events, Emit(s, kind, how)),
               NEW i \in 1..Len(events')
        PROVE  \/ \E k \in 1..Len(events) : events'[i] = events[k]
               \/ events'[i] = Emit(s, kind, how)
    <3>1. Emit(s, kind, how) \in Event
      BY <1>0, EmitIsEvent
    <3>2. /\ Len(events') = Len(events) + 1 /\ Len(events) \in Nat
          /\ \A k \in 1..Len(events) : events'[k] = events[k]
          /\ events'[Len(events) + 1] = Emit(s, kind, how)
      BY <1>1, <2>2, <3>1, AppendProperties, LenProperties
    <3>3. i \in 1..Len(events) \/ i = Len(events) + 1
      BY <3>2
    <3> QED BY <3>2, <3>3
  <2>3. CASE LaunchFails(s)
    <3> DEFINE two == <<Emit(s, "item", "failed"), Emit(s, "done", "failed")>>
    <3>1. Emit(s, "item", "failed") \in Event /\ Emit(s, "done", "failed") \in Event
      BY <1>0, EmitIsEvent
    <3>2. /\ two \in Seq(Event) /\ Len(two) = 2
          /\ two[1] = Emit(s, "item", "failed") /\ two[2] = Emit(s, "done", "failed")
      BY <3>1
    <3>3. events' = events \o two
      BY <2>3 DEF LaunchFails
    <3> HIDE DEF two
    <3>4. /\ Len(events') = Len(events) + 2 /\ Len(events) \in Nat
          /\ \A i \in 1..(Len(events) + 2) :
               events'[i] = IF i <= Len(events) THEN events[i] ELSE two[i - Len(events)]
      <4>1. events \in Seq(Event) /\ Len(events) \in Nat
        BY <1>1, LenProperties
      <4>2. /\ Len(events \o two) = Len(events) + Len(two)
            /\ \A i \in 1..(Len(events) + Len(two)) :
                 (events \o two)[i] = IF i <= Len(events) THEN events[i] ELSE two[i - Len(events)]
        BY <3>2, <4>1, ConcatProperties
      <4> QED BY <3>2, <3>3, <4>1, <4>2
    <3>5. worker'[s] = "finished" /\ proc'[s] # "alive"
      <4>1. worker[s] = "launching" /\ worker' = [worker EXCEPT ![s] = "finished"] /\ proc' = proc
        BY <2>3 DEF LaunchFails
      <4>2. proc[s] = "none"
        BY <4>1 DEF Placed, Launched
      <4> QED BY <1>1, <4>1, <4>2
    <3>6. ASSUME NEW i \in 1..Len(events')
          PROVE  \/ \E k \in 1..Len(events) : events'[i] = events[k]
                 \/ events'[i] = Emit(s, "item", "failed")
                 \/ events'[i] = Emit(s, "done", "failed")
      <4>1. i \in 1..Len(events) \/ i - Len(events) = 1 \/ i - Len(events) = 2
        BY <3>4, <3>6
      <4> QED BY <3>2, <3>4, <3>6, <4>1
    <3> QED BY <3>5, <3>6
  <2>4. CASE ReadLine(s)
    BY <2>2, <2>4 DEF ReadLine
  <2>5. CASE Finish(s)
    <3>1. worker'[s] = "finished" /\ proc'[s] # "alive"
      BY <1>1, <2>5 DEF Finish
    <3> QED BY <2>2, <2>5, <3>1 DEF Finish
  <2>6. CASE Spawn(s) \/ Adopt(s) \/ Exit(s) \/ WorkerDies(s)
    BY <2>1, <2>6 DEF Spawn, Adopt, Exit, WorkerDies
  <2> QED BY <2>3, <2>4, <2>5, <2>6 DEF WorkerStep, WorkerEnds
<1>6. EventsAreTrue'
  <2>1. ASSUME NEW i \in 1..Len(events')
        PROVE  TrueEvent(events'[i], home', worker', proc')
    <3>1. CASE \E k \in 1..Len(events) : events'[i] = events[k]
      BY <1>0, <1>4, <3>1, EventsStayTrue DEF Placed
    <3>2. ASSUME NEW kind \in {"session", "item", "done"},
                 NEW how \in {"ok", "failed", "cancelled"},
                 events'[i] = Emit(s, kind, how),
                 kind = "done" => worker'[s] = "finished" /\ proc'[s] # "alive"
          PROVE  TrueEvent(events'[i], home', worker', proc')
      BY <1>0, <1>3, <3>2 DEF TrueEvent, Emit
    <3> QED BY <1>5, <3>1, <3>2
  <2> QED BY <2>1 DEF EventsAreTrue
<1>7. Untouched'
  <2>1. ~(s > counter)
    BY <1>1, <1>3 DEF Placed, Untouched
  <2> QED BY <1>0, <1>3, <2>1 DEF Placed, Untouched
<1>8. Launched'
  BY <1>0, <1>2, <1>3 DEF Placed, Launched
<1>9. InReach'
  <2>1. \A r \in Turns : Working(r)' => Working(r)
    BY <1>3 DEF Working
  <2> QED BY <1>0, <2>1 DEF Placed, InReach
<1>10. CancelReachesProcess'
  BY <1>0, <1>3 DEF Placed, CancelReachesProcess
<1> QED BY <1>0, <1>6, <1>7, <1>8, <1>9, <1>10 DEF Placed, Stamped

LEMMA PlacesKept == Prompted /\ Placed /\ [Next]_vars => Placed'
<1> SUFFICES ASSUME Prompted, Placed, [Next]_vars PROVE Placed'
  OBVIOUS
<1>1. CASE UNCHANGED vars
  <2>1. /\ UNCHANGED <<turn, stamp, counter, home, worker, proc, cancelled>>
        /\ broken \subseteq broken' /\ UNCHANGED events
    BY <1>1 DEF vars, uiVars, workerVars
  <2> QED BY <2>1, QuietSteps, RemainSteps DEF Prompted
<1>2. CASE Next
  BY <1>2, UserKeepsPlaces, PumpKeepsPlaces, CloseKeepsPlaces, WorkerKeepsPlaces DEF Next
<1> QED BY <1>1, <1>2

-----------------------------------------------------------------------------
(* Records. *)

\* Steps that leave turns and records alone, or close the window.
LEMMA QuietRecords ==
  ASSUME RecordsSettle, broken \subseteq broken',
         shown' => shown /\ UNCHANGED <<turn, home, record>>
  PROVE  RecordsSettle'
BY DEF RecordsSettle

\* Records after a "done" event or a retired turn.
Settled(c, records) ==
  /\ \A s \in Turns : records[s] \in {record[s], "ok", "failed", "cancelled"}
  /\ \A s \in Turns : records[s] = "running" /\ s = turn[c] => s \in broken

LEMMA BeginRecords ==
  ASSUME TypeOK, RecordsSettle, shown, NEW c \in Convs, NEW n, NEW following,
         NEW records \in [Turns -> Status], Settled(c, records),
         counter + 1 \in Turns, Begin(c, n, records, following)
  PROVE  RecordsSettle'
<1> DEFINE s == counter + 1
<1>1. /\ s \in Turns
      /\ turn' = [turn EXCEPT ![c] = s] /\ home' = [home EXCEPT ![s] = c]
      /\ record' = [records EXCEPT ![s] = "running"]
      /\ broken \subseteq broken'
  BY DEF Begin, Break
<1>2. turn \in [Convs -> 0..MaxPrompts] /\ home \in [Turns -> Convs]
  BY DEF TypeOK
<1> HIDE DEF s
<1>3. ASSUME NEW r \in Turns, r \notin broken', record'[r] = "running"
      PROVE  turn'[home'[r]] = r
  <2>1. CASE r = s
    BY <1>1, <1>2, <2>1
  <2>2. CASE r # s
    <3>1. records[r] = "running" /\ home'[r] = home[r] /\ home[r] \in Convs /\ r \notin broken
      BY <1>1, <1>2, <1>3, <2>2
    <3>2. record[r] = "running" /\ r # turn[c]
      BY <3>1 DEF Settled
    <3>3. turn[home[r]] = r
      BY <3>1, <3>2 DEF RecordsSettle
    <3> QED BY <1>1, <1>2, <3>1, <3>2, <3>3
  <2> QED BY <2>1, <2>2
<1> QED BY <1>3 DEF RecordsSettle

LEMMA LeaveRecords ==
  ASSUME TypeOK, RecordsSettle, shown, NEW c \in Convs, Settled(c, record'),
         turn' = [turn EXCEPT ![c] = 0], UNCHANGED home, broken \subseteq broken'
  PROVE  RecordsSettle'
<1>1. turn \in [Convs -> 0..MaxPrompts] /\ home \in [Turns -> Convs]
  BY DEF TypeOK
<1>2. ASSUME NEW r \in Turns, r \notin broken', record'[r] = "running"
      PROVE  turn'[home[r]] = r
  <2>1. record[r] = "running" /\ r # turn[c] /\ r \notin broken
    BY <1>2 DEF Settled
  <2>2. turn[home[r]] = r
    BY <2>1 DEF RecordsSettle
  <2> QED BY <1>1, <2>1, <2>2
<1> QED BY <1>2 DEF RecordsSettle

LEMMA UserKeepsRecords ==
  ASSUME Prompted, Placed, RecordsSettle, NEW c \in Convs, UserStep(c)
  PROVE  RecordsSettle'
<1>0. TypeOK /\ shown /\ turn[c] \in 0..counter
  BY DEF Prompted, UserStep, Placed, Stamped
<1>1. CASE SendNow(c)
  <2>1. Settled(c, record) /\ counter + 1 \in Turns /\ record \in [Turns -> Status]
    <3>1. \A s \in Turns : s # 0
      BY DEF Turns
    <3>2. counter + 1 \in Turns
      BY <1>0, <1>1 DEF TypeOK, SendNow, Turns
    <3> QED BY <1>0, <1>1, <3>1, <3>2 DEF SendNow, Settled, TypeOK
  <2>2. CASE Decline(c, record, <<>>)
    <3>1. record' = record /\ turn' = [turn EXCEPT ![c] = 0] /\ UNCHANGED <<home, broken>>
      BY <2>2 DEF Decline
    <3> QED BY <1>0, <2>1, <3>1, LeaveRecords
  <2> QED BY <1>0, <1>1, <2>1, <2>2, BeginRecords DEF SendNow
<1>2. CASE Queue(c) \/ Stop(c)
  BY <1>2, QuietRecords DEF Queue, Stop, uiVars, UserStep
<1>3. CASE Reset(c) \/ Delete(c) \/ CutShort(c)
  <2>1. Retire(c) /\ UNCHANGED home /\ broken \subseteq broken'
    BY <1>3 DEF Reset, Delete, CutShort, Break
  <2>2. /\ turn' = [turn EXCEPT ![c] = 0]
        /\ record' = [s \in Turns |->
                        IF s = turn[c] /\ HasRecord(s) THEN "cancelled" ELSE record[s]]
    BY <2>1 DEF Retire
  <2>3. ASSUME NEW s \in Turns, record'[s] = "running", s = turn[c]
        PROVE  s \in broken
    BY <1>0, <2>2, <2>3 DEF HasRecord, Placed, Launched, TypeOK
  <2>4. Settled(c, record')
    BY <2>2, <2>3 DEF Settled
  <2> QED BY <1>0, <2>1, <2>2, <2>4, LeaveRecords
<1> QED BY <1>1, <1>2, <1>3 DEF UserStep

LEMMA PumpKeepsRecords ==
  ASSUME Prompted, Placed, RecordsSettle, Pump
  PROVE  RecordsSettle'
<1> DEFINE e == Head(events)
<1>0. TypeOK /\ TypeOK' /\ shown /\ shown' /\ events # <<>>
  <2>1. TypeOK /\ TypeOK'
    BY TypesKept DEF Prompted, Next
  <2> QED BY <2>1 DEF Pump, DropStale, HandleSession, HandleItem, HandleDone, HandleDoneRaises
<1>1. /\ e.conv \in Convs /\ e.serial \in Turns /\ e.how \in {"ok", "failed", "cancelled"}
      /\ record \in [Turns -> Status]
  BY <1>0, HeadTyped DEF TypeOK
<1>2. CASE DropStale \/ HandleSession \/ HandleItem
  BY <1>0, <1>2, QuietRecords DEF DropStale, HandleSession, HandleItem, uiVars
<1>3. CASE HandleDoneRaises
  <2>1. record' = [record EXCEPT ![e.serial] = e.how] /\ UNCHANGED <<turn, home>>
        /\ broken \subseteq broken'
    BY <1>3 DEF HandleDoneRaises, Break
  <2>2. \A s \in Turns : record'[s] = "running" => record[s] = "running"
    BY <1>1, <2>1
  <2> QED BY <1>0, <2>1, <2>2 DEF RecordsSettle
<1>4. CASE HandleDone
  <2> DEFINE records == [record EXCEPT ![e.serial] = e.how]
  <2>1. e.kind = "done" /\ Current(e) /\ UNCHANGED prompts
    BY <1>4 DEF HandleDone
  <2>2. turn[e.conv] = e.serial
    BY <1>0, <2>1, OverWhenDone
  <2>3. Settled(e.conv, records) /\ records \in [Turns -> Status]
    BY <1>1, <2>2 DEF Settled, Status
  <2>4. PICK outcome :
          \/ Decline(e.conv, records, outcome)
          \/ Begin(e.conv, Head(waiting[e.conv]), records, outcome)
    BY <1>4 DEF HandleDone
  <2> HIDE DEF records
  <2>5. CASE Decline(e.conv, records, outcome)
    <3>1. record' = records /\ turn' = [turn EXCEPT ![e.conv] = 0] /\ UNCHANGED <<home, broken>>
      BY <2>5 DEF Decline
    <3> QED BY <1>0, <1>1, <2>3, <3>1, LeaveRecords
  <2>6. CASE Begin(e.conv, Head(waiting[e.conv]), records, outcome)
    <3>1. counter' = counter + 1
      BY <2>6 DEF Begin
    <3>2. counter + 1 \in Turns
      BY <1>0, <2>1, <3>1 DEF TypeOK, Turns
    <3> QED BY <1>0, <1>1, <2>3, <2>6, <3>2, BeginRecords
  <2> QED BY <2>4, <2>5, <2>6
<1> QED BY <1>2, <1>3, <1>4 DEF Pump

LEMMA RecordsKept == Prompted /\ Placed /\ RecordsSettle /\ [Next]_vars => RecordsSettle'
<1> SUFFICES ASSUME Prompted, Placed, RecordsSettle, [Next]_vars PROVE RecordsSettle'
  OBVIOUS
<1>1. CASE UNCHANGED vars \/ CloseWindow \/ CloseRefused
  BY <1>1, QuietRecords DEF vars, uiVars, workerVars, CloseWindow, CloseRefused
<1>2. ASSUME NEW s \in Turns, WorkerStep(s) \/ WorkerEnds(s)
      PROVE  RecordsSettle'
  <2>1. UNCHANGED <<turn, home, record, shown>> /\ broken \subseteq broken'
    BY <1>2 DEF WorkerStep, WorkerEnds, LaunchFails, Spawn, Adopt, ReadLine, Finish, Exit,
                WorkerDies, uiVars, Break
  <2> QED BY <2>1, QuietRecords
<1> QED BY <1>1, <1>2, UserKeepsRecords, PumpKeepsRecords DEF Next

-----------------------------------------------------------------------------
(* Transcripts. *)

\* An entry was said by a turn of its conversation, sent after it was last reset
\* and not after the one it shows.
Said(e, c, n, w, h, current) ==
  /\ e.by <= n
  /\ e.by > w
  /\ h[e.by] = c
  /\ current # 0 => e.by <= current

Told ==
  \A c \in Convs : \A i \in 1..Len(transcript[c]) :
    Said(transcript[c][i], c, counter, wiped[c], home, turn[c])

Sessions ==
  \A c \in Convs : session[c] # 0 =>
    session[c] <= counter /\ session[c] > wiped[c] /\ home[session[c]] = c

Wiped == \A c \in Convs : wiped[c] <= counter /\ (turn[c] # 0 => turn[c] > wiped[c])

Kept == Told /\ Sessions /\ Wiped /\ AnswersFollowPrompts

\* Steps that say nothing; a conversation may have let go of its turn.
LEMMA QuietTranscripts ==
  ASSUME Kept, UNCHANGED <<transcript, session, wiped, counter, home>>,
         \A c \in Convs : turn'[c] \in {turn[c], 0}
  PROVE  Kept'
<1>1. ASSUME NEW c \in Convs, NEW i \in 1..Len(transcript[c])
      PROVE  Said(transcript[c][i], c, counter, wiped[c], home, turn'[c])
  BY DEF Kept, Told, Said
<1>2. Told'
  BY <1>1 DEF Told
<1>3. Wiped'
  BY DEF Kept, Wiped
<1> QED BY <1>2, <1>3 DEF Kept, Sessions, AnswersFollowPrompts

\* Steps after which one conversation says more than before.
LEMMA SayMore ==
  ASSUME TypeOK, Kept, NEW c \in Convs, NEW new \in Seq(Entry),
         transcript' = [transcript EXCEPT ![c] = transcript[c] \o new],
         UNCHANGED <<session, wiped>>,
         counter' \in Nat, counter <= counter',
         \A s \in 1..counter : home'[s] = home[s],
         \A d \in Convs \ {c} : turn'[d] = turn[d],
         turn'[c] \in {turn[c], 0} \/ (turn'[c] = counter' /\ counter < counter'),
         \A i \in 1..Len(new) : Said(new[i], c, counter', wiped[c], home', turn'[c]),
         \A k \in 1..Len(new) : new[k].kind \in {"user", "agent"} =>
           /\ \A i \in 1..Len(transcript[c]) : transcript[c][i].by <= new[k].by
           /\ \A i \in 1..(k - 1) : new[i].by <= new[k].by
  PROVE  Kept'
<1> DEFINE old == transcript[c]
<1>0. /\ transcript \in [Convs -> Seq(Entry)] /\ counter \in Nat
      /\ wiped \in [Convs -> 0..MaxPrompts] /\ session \in [Convs -> 0..MaxPrompts]
      /\ turn \in [Convs -> 0..MaxPrompts]
  <2>1. counter \in Nat
    BY Counts
  <2> QED BY <2>1 DEF TypeOK
<1>1. \A d \in Convs : transcript[d] \in Seq(Entry) /\ Len(transcript[d]) \in Nat
                       /\ \A i \in 1..Len(transcript[d]) :
                            transcript[d][i] \in Entry /\ transcript[d][i].by \in Nat \ {0}
  <2> SUFFICES ASSUME NEW d \in Convs
               PROVE  /\ transcript[d] \in Seq(Entry) /\ Len(transcript[d]) \in Nat
                      /\ \A i \in 1..Len(transcript[d]) :
                           transcript[d][i] \in Entry /\ transcript[d][i].by \in Nat \ {0}
    OBVIOUS
  <2>1. transcript[d] \in Seq(Entry) /\ Len(transcript[d]) \in Nat
    BY <1>0, LenProperties
  <2>2. \A e \in Entry : e.by \in Nat \ {0}
    BY DEF Entry, Turns
  <2> QED BY <2>1, <2>2, ElementOfSeq
<1>2. /\ \A d \in Convs \ {c} : transcript'[d] = transcript[d]
      /\ Len(transcript'[c]) = Len(old) + Len(new) /\ Len(new) \in Nat
      /\ \A i \in 1..(Len(old) + Len(new)) :
           transcript'[c][i] = IF i <= Len(old) THEN old[i] ELSE new[i - Len(old)]
  BY <1>0, <1>1, ConcatProperties, LenProperties
<1>3. \A i \in 1..Len(transcript'[c]) :
        \/ i \in 1..Len(old) /\ transcript'[c][i] = old[i]
        \/ i - Len(old) \in 1..Len(new) /\ transcript'[c][i] = new[i - Len(old)]
  BY <1>1, <1>2
<1>4. ASSUME NEW d \in Convs, NEW i \in 1..Len(transcript[d])
      PROVE  Said(transcript[d][i], d, counter', wiped[d], home', turn'[d])
  <2> DEFINE b == transcript[d][i].by
  <2>1. /\ b \in Nat \ {0} /\ b <= counter /\ b > wiped[d]
        /\ home[b] = d /\ (turn[d] # 0 => b <= turn[d])
    BY <1>1 DEF Kept, Told, Said
  <2> HIDE DEF b
  <2>2. b <= counter' /\ b \in 1..counter
    BY <1>0, <2>1
  <2>3. home'[b] = d
    BY <2>1, <2>2
  <2>4. turn'[d] # 0 => b <= turn'[d]
    BY <2>1, <2>2
  <2> QED BY <2>1, <2>2, <2>3, <2>4 DEF Said, b
<1>5. Told'
  <2>1. ASSUME NEW d \in Convs, NEW i \in 1..Len(transcript'[d])
        PROVE  Said(transcript'[d][i], d, counter', wiped'[d], home', turn'[d])
    <3>1. CASE d = c
      BY <1>3, <1>4, <2>1, <3>1
    <3>2. CASE d # c
      BY <1>2, <1>4, <2>1, <3>2
    <3> QED BY <3>1, <3>2
  <2> QED BY <2>1 DEF Told
<1>6. Sessions'
  <2>0. \A b \in Nat : b # 0 /\ b <= counter => b \in 1..counter /\ b <= counter'
    BY <1>0
  <2>1. ASSUME NEW d \in Convs, session[d] # 0
        PROVE  session[d] <= counter' /\ session[d] > wiped[d] /\ home'[session[d]] = d
    <3>1. session[d] <= counter /\ session[d] > wiped[d] /\ home[session[d]] = d
      BY <2>1 DEF Kept, Sessions
    <3>2. session[d] \in Nat
      BY <1>0
    <3>3. session[d] \in 1..counter /\ session[d] <= counter'
      BY <2>0, <2>1, <3>1, <3>2
    <3> QED BY <3>1, <3>3
  <2> QED BY <2>1 DEF Sessions
<1>7. Wiped'
  <2>1. ASSUME NEW d \in Convs
        PROVE  wiped[d] <= counter' /\ (turn'[d] # 0 => turn'[d] > wiped[d])
    <3>1. wiped[d] <= counter /\ (turn[d] # 0 => turn[d] > wiped[d])
      BY DEF Kept, Wiped
    <3>2. wiped[d] \in Nat
      BY <1>0
    <3>3. wiped[d] <= counter' /\ (counter < counter' => counter' > wiped[d])
      <4>1. \A b \in Nat : b <= counter => b <= counter' /\ (counter < counter' => counter' > b)
        BY <1>0
      <4> QED BY <3>1, <3>2, <4>1
    <3>4. turn'[d] = turn[d] \/ turn'[d] = 0 \/ (turn'[d] = counter' /\ counter < counter')
      OBVIOUS
    <3> QED BY <3>1, <3>3, <3>4
  <2> QED BY <2>1 DEF Wiped
<1>8. AnswersFollowPrompts'
  <2>1. ASSUME NEW d \in Convs, NEW i \in 1..Len(transcript'[d]), NEW k \in 1..Len(transcript'[d]),
               i < k, transcript'[d][k].kind \in {"user", "agent"}
        PROVE  transcript'[d][i].by <= transcript'[d][k].by
    <3>1. CASE d # c
      BY <1>2, <2>1, <3>1 DEF Kept, AnswersFollowPrompts
    <3>2. CASE d = c /\ k \in 1..Len(old) /\ transcript'[c][k] = old[k]
      <4>1. i \in 1..Len(old)
        BY <1>1, <2>1, <3>2
      <4>2. transcript'[c][i] = old[i]
        BY <1>1, <1>3, <3>2, <4>1, <2>1
      <4> QED BY <2>1, <3>2, <4>1, <4>2 DEF Kept, AnswersFollowPrompts
    <3>3. CASE d = c /\ k - Len(old) \in 1..Len(new) /\ transcript'[c][k] = new[k - Len(old)]
      <4>1. CASE i \in 1..Len(old) /\ transcript'[c][i] = old[i]
        BY <2>1, <3>3, <4>1
      <4>2. CASE i - Len(old) \in 1..Len(new) /\ transcript'[c][i] = new[i - Len(old)]
        <5>1. i - Len(old) \in 1..((k - Len(old)) - 1)
          BY <1>1, <2>1, <3>3, <4>2
        <5> QED BY <2>1, <3>3, <4>2, <5>1
      <4> QED BY <1>3, <2>1, <3>3, <4>1, <4>2
    <3> QED BY <1>3, <2>1, <3>1, <3>2, <3>3
  <2> QED BY <2>1 DEF AnswersFollowPrompts
<1> QED BY <1>5, <1>6, <1>7, <1>8 DEF Kept

\* What a handler adds about the turn the conversation shows when it ends.
Closing(c, following) ==
  \/ following = <<>>
  \/ \E x \in Entry : /\ following = <<x>>
                      /\ x.kind \notin {"user", "agent"}
                      /\ x.by = turn[c] /\ turn[c] # 0

LEMMA ShownIsSaid ==
  ASSUME TypeOK, Placed, Kept, NEW c \in Convs, turn[c] # 0
  PROVE  /\ turn[c] \in Nat /\ turn[c] <= counter /\ turn[c] > wiped[c]
         /\ home[turn[c]] = c
         /\ \A i \in 1..Len(transcript[c]) : transcript[c][i].by <= turn[c]
<1>1. turn[c] \in Nat /\ turn[c] <= counter /\ home[turn[c]] = c
  BY DEF TypeOK, Placed, Stamped
<1> QED BY <1>1 DEF Kept, Wiped, Told, Said

LEMMA DeclineTells ==
  ASSUME TypeOK, Placed, Kept, NEW c \in Convs, NEW records, NEW following,
         Closing(c, following), Decline(c, records, following), UNCHANGED <<session, wiped>>
  PROVE  Kept'
<1>1. /\ turn' = [turn EXCEPT ![c] = 0] /\ UNCHANGED <<counter, home>>
      /\ transcript' = [transcript EXCEPT ![c] = transcript[c] \o following]
  BY DEF Decline
<1>2. counter \in Nat /\ turn \in [Convs -> 0..MaxPrompts]
  BY DEF TypeOK
<1>5. /\ counter' \in Nat /\ counter <= counter' /\ \A s \in 1..counter : home'[s] = home[s]
      /\ \A d \in Convs \ {c} : turn'[d] = turn[d]
      /\ turn'[c] = 0
  BY <1>1, <1>2
<1>3. CASE following = <<>>
  <2>1. following \in Seq(Entry) /\ Len(following) = 0
    BY <1>3, EmptySeq
  <2>2. \A i \in 1..Len(following) : FALSE
    BY <2>1
  <2> QED BY <1>1, <1>5, <2>1, <2>2, SayMore
<1>4. ASSUME NEW x \in Entry, following = <<x>>, x.kind \notin {"user", "agent"},
             x.by = turn[c], turn[c] # 0
      PROVE  Kept'
  <2>1. following \in Seq(Entry) /\ Len(following) = 1 /\ following[1] = x
    BY <1>4
  <2>2. Said(x, c, counter, wiped[c], home, 0)
    BY <1>4, ShownIsSaid DEF Said
  <2>3. /\ \A i \in 1..Len(following) : Said(following[i], c, counter', wiped[c], home', turn'[c])
        /\ \A i \in 1..Len(following) : following[i].kind \notin {"user", "agent"}
    <3>1. \A i \in 1..Len(following) : following[i] = x
      BY <2>1
    <3> QED BY <1>1, <1>4, <1>5, <2>2, <3>1
  <2> QED BY <1>1, <1>5, <2>1, <2>3, SayMore
<1> QED BY <1>3, <1>4 DEF Closing

LEMMA BeginTells ==
  ASSUME TypeOK, Placed, Kept, NEW c \in Convs, NEW n, NEW records, NEW following,
         Closing(c, following), counter + 1 \in Turns, Begin(c, n, records, following),
         UNCHANGED <<session, wiped>>
  PROVE  Kept'
<1> DEFINE s == counter + 1
           u == Say(s, "user")
           new == <<u>> \o following
<1>0. /\ counter \in Nat /\ turn \in [Convs -> 0..MaxPrompts] /\ home \in [Turns -> Convs]
      /\ transcript \in [Convs -> Seq(Entry)] /\ wiped \in [Convs -> 0..MaxPrompts]
  <2>1. counter \in Nat
    BY Counts
  <2> QED BY <2>1 DEF TypeOK
<1>1. /\ counter' = s
      /\ turn' = [turn EXCEPT ![c] = s] /\ home' = [home EXCEPT ![s] = c]
      /\ transcript' = [transcript EXCEPT ![c] = (transcript[c] \o <<u>>) \o following]
  BY DEF Begin
<1>2. u \in Entry /\ u.by = s /\ u.kind = "user"
  BY SayIsEntry DEF Say
<1>3. s \in Nat /\ counter < s /\ s \in Turns /\ \A r \in 1..counter : r # s /\ r \in Turns
  BY <1>0 DEF Turns
<1>4. wiped[c] \in Nat /\ wiped[c] <= counter
  BY <1>0 DEF Kept, Wiped
<1> HIDE DEF s, u
<1>5. /\ turn'[c] = s /\ \A d \in Convs \ {c} : turn'[d] = turn[d]
      /\ home'[s] = c /\ \A r \in 1..counter : home'[r] = home[r]
  BY <1>0, <1>1, <1>3
<1>6. Said(u, c, s, wiped[c], home', s)
  <2>1. s > wiped[c] /\ s <= s
    BY <1>0, <1>3, <1>4
  <2> QED BY <1>2, <1>5, <2>1 DEF Said
<1>7. \A i \in 1..Len(transcript[c]) : transcript[c][i].by <= s
  <2>1. \A i \in 1..Len(transcript[c]) : transcript[c][i].by <= counter
    BY DEF Kept, Told, Said
  <2>2. \A i \in 1..Len(transcript[c]) : transcript[c][i].by \in Nat
    <3>1. \A e \in Entry : e.by \in Nat
      BY DEF Entry, Turns
    <3> QED BY <1>0, <3>1, ElementOfSeq
  <2>3. \A b \in Nat : b <= counter => b <= s
    BY <1>0, <1>3
  <2> QED BY <2>1, <2>2, <2>3
<1>8. following \in Seq(Entry)
  <2>1. \A x \in Entry : <<x>> \in Seq(Entry)
    OBVIOUS
  <2>2. <<>> \in Seq(Entry)
    BY EmptySeq
  <2> QED BY <2>1, <2>2 DEF Closing
<1>9. /\ new \in Seq(Entry)
      /\ transcript' = [transcript EXCEPT ![c] = transcript[c] \o new]
  <2>1. <<u>> \in Seq(Entry) /\ transcript[c] \in Seq(Entry)
    BY <1>0, <1>2
  <2>2. new \in Seq(Entry)
    BY <1>8, <2>1, ConcatProperties
  <2>3. (transcript[c] \o <<u>>) \o following = transcript[c] \o new
    <3>1. \A s1, s2, s3 \in Seq(Entry) : (s1 \o s2) \o s3 = s1 \o (s2 \o s3)
      BY ConcatAssociative
    <3> QED BY <1>8, <2>1, <3>1
  <2> QED BY <1>1, <2>2, <2>3
<1>12. /\ counter' \in Nat /\ counter <= counter' /\ \A r \in 1..counter : home'[r] = home[r]
       /\ \A d \in Convs \ {c} : turn'[d] = turn[d]
       /\ turn'[c] = counter' /\ counter < counter'
  BY <1>0, <1>1, <1>3, <1>5
<1>13. /\ Len(<<u>>) = 1 /\ <<u>>[1] = u /\ <<u>> \in Seq(Entry)
  BY <1>2
<1>14. /\ Len(new) = 1 + Len(following)
       /\ \A i \in 1..(1 + Len(following)) :
            new[i] = IF i <= 1 THEN <<u>>[i] ELSE following[i - 1]
  BY <1>8, <1>13, ConcatProperties
<1> HIDE DEF new
<1>10. CASE following = <<>>
  <2>1. Len(following) = 0
    BY <1>10, EmptySeq
  <2>2. Len(new) = 1 /\ new[1] = u
    BY <1>13, <1>14, <2>1
  <2>3. \A i \in 1..Len(new) : i = 1 /\ new[i] = u
    BY <2>2
  <2>4. /\ \A i \in 1..Len(new) : Said(new[i], c, counter', wiped[c], home', turn'[c])
        /\ \A k \in 1..Len(new) :
             /\ \A i \in 1..Len(transcript[c]) : transcript[c][i].by <= new[k].by
             /\ \A i \in 1..(k - 1) : new[i].by <= new[k].by
    <3>1. \A k \in 1..Len(new) : \A i \in 1..(k - 1) : FALSE
      BY <2>3
    <3> QED BY <1>1, <1>2, <1>5, <1>6, <1>7, <2>3, <3>1
  <2> QED BY <1>9, <1>12, <2>4, SayMore
<1>11. ASSUME NEW x \in Entry, following = <<x>>, x.kind \notin {"user", "agent"},
              x.by = turn[c], turn[c] # 0
       PROVE  Kept'
  <2>1. Len(following) = 1 /\ following[1] = x
    BY <1>11
  <2>2. Len(new) = 2 /\ new[1] = u /\ new[2] = x
    BY <1>13, <1>14, <2>1
  <2>3. Said(x, c, s, wiped[c], home', s)
    <3>1. /\ turn[c] \in Nat /\ turn[c] <= counter /\ turn[c] > wiped[c] /\ home[turn[c]] = c
      BY <1>11, ShownIsSaid
    <3>2. \A b \in Nat : b <= counter => b <= s /\ (b # 0 => b \in 1..counter)
      BY <1>0, <1>3
    <3>3. turn[c] <= s /\ turn[c] \in 1..counter
      BY <1>11, <3>1, <3>2
    <3> QED BY <1>5, <1>11, <3>1, <3>3 DEF Said
  <2>4. \A i \in 1..Len(new) : (i = 1 /\ new[i] = u) \/ (i = 2 /\ new[i] = x)
    BY <2>2
  <2>5. \A i \in 1..Len(new) : Said(new[i], c, counter', wiped[c], home', turn'[c])
    BY <1>1, <1>5, <1>6, <2>3, <2>4
  <2>6. ASSUME NEW k \in 1..Len(new), new[k].kind \in {"user", "agent"}
        PROVE  /\ \A i \in 1..Len(transcript[c]) : transcript[c][i].by <= new[k].by
               /\ \A i \in 1..(k - 1) : new[i].by <= new[k].by
    <3>1. k = 1 /\ new[k] = u
      BY <1>11, <2>4, <2>6
    <3>2. \A i \in 1..(k - 1) : FALSE
      BY <3>1
    <3> QED BY <1>2, <1>7, <3>1, <3>2
  <2> QED BY <1>9, <1>12, <2>5, <2>6, SayMore
<1> QED BY <1>10, <1>11 DEF Closing

LEMMA UserKeepsTold ==
  ASSUME Prompted, Placed, Kept, NEW c \in Convs, UserStep(c)
  PROVE  Kept'
<1>0. /\ TypeOK /\ turn \in [Convs -> 0..MaxPrompts] /\ counter \in Nat
      /\ wiped \in [Convs -> 0..MaxPrompts] /\ transcript \in [Convs -> Seq(Entry)]
      /\ session \in [Convs -> 0..MaxPrompts]
  <2>1. TypeOK
    BY DEF Prompted
  <2>2. counter \in Nat
    BY <2>1 DEF TypeOK
  <2> QED BY <2>1, <2>2 DEF TypeOK
<1>1. CASE SendNow(c)
  <2>1. Closing(c, <<>>) /\ UNCHANGED <<session, wiped>>
    BY <1>1 DEF Closing, SendNow
  <2>2. counter + 1 \in Turns
    BY <1>0, <1>1 DEF TypeOK, SendNow, Turns
  <2> QED BY <1>0, <1>1, <2>1, <2>2, BeginTells, DeclineTells DEF SendNow
<1>2. CASE Queue(c) \/ Stop(c)
  <2>1. UNCHANGED <<transcript, session, wiped, counter, home, turn>>
    BY <1>2 DEF Queue, Stop, uiVars
  <2> QED BY <2>1, QuietTranscripts
<1>3. CASE CutShort(c)
  <2>1. /\ UNCHANGED <<transcript, session, wiped, counter, home>>
        /\ turn' = [turn EXCEPT ![c] = 0]
    BY <1>3 DEF CutShort, Retire
  <2>2. \A d \in Convs : turn'[d] \in {turn[d], 0}
    BY <1>0, <2>1
  <2> QED BY <2>1, <2>2, QuietTranscripts
<1>4. CASE Reset(c) \/ Delete(c)
  <2>1. /\ UNCHANGED <<counter, home>>
        /\ turn' = [turn EXCEPT ![c] = 0]
        /\ transcript' = [transcript EXCEPT ![c] = <<>>]
        /\ session' = [session EXCEPT ![c] = 0]
        /\ wiped' = [wiped EXCEPT ![c] = counter]
    BY <1>4 DEF Reset, Delete, Retire, Clear
  <2>2. /\ turn'[c] = 0 /\ Len(transcript'[c]) = 0 /\ session'[c] = 0 /\ wiped'[c] = counter
        /\ \A d \in Convs \ {c} : /\ turn'[d] = turn[d] /\ transcript'[d] = transcript[d]
                                  /\ session'[d] = session[d] /\ wiped'[d] = wiped[d]
    BY <1>0, <2>1
  <2>3. Told'
    BY <2>1, <2>2 DEF Kept, Told
  <2>4. Sessions'
    BY <2>1, <2>2 DEF Kept, Sessions
  <2>5. Wiped'
    BY <1>0, <2>1, <2>2 DEF Kept, Wiped
  <2>6. AnswersFollowPrompts'
    BY <2>2 DEF Kept, AnswersFollowPrompts
  <2> QED BY <2>3, <2>4, <2>5, <2>6 DEF Kept
<1> QED BY <1>1, <1>2, <1>3, <1>4 DEF UserStep

LEMMA PumpKeepsTold ==
  ASSUME Prompted, Placed, Kept, Pump
  PROVE  Kept'
<1> DEFINE e == Head(events)
           c == e.conv
<1>0. TypeOK /\ TypeOK' /\ events # <<>>
  <2>1. TypeOK /\ TypeOK'
    BY TypesKept DEF Prompted, Next
  <2> QED BY <2>1 DEF Pump, DropStale, HandleSession, HandleItem, HandleDone, HandleDoneRaises
<1>1. /\ e \in Event /\ c \in Convs /\ e.serial \in Turns /\ e.serial # 0
      /\ e.how \in {"ok", "failed", "cancelled"}
  <2>1. \A s \in Turns : s # 0
    BY DEF Turns
  <2> QED BY <1>0, <2>1, HeadTyped
<1>2. /\ turn \in [Convs -> 0..MaxPrompts] /\ counter \in Nat
      /\ transcript \in [Convs -> Seq(Entry)] /\ session \in [Convs -> 0..MaxPrompts]
  <2>1. counter \in Nat
    BY <1>0 DEF TypeOK
  <2> QED BY <1>0, <2>1 DEF TypeOK
<1>3. ASSUME Current(e) PROVE turn[c] = e.serial
  BY <1>3 DEF Current, Placed, Stamped
<1> HIDE DEF c
<1>4. CASE DropStale \/ HandleDoneRaises
  <2>1. UNCHANGED <<transcript, session, wiped, counter, home, turn>>
    BY <1>4 DEF DropStale, HandleDoneRaises, uiVars
  <2> QED BY <2>1, QuietTranscripts
<1>5. CASE HandleSession
  <2>1. /\ Current(e) /\ UNCHANGED <<transcript, wiped, counter, home, turn>>
        /\ session' \in {session, [session EXCEPT ![c] = e.serial]}
    BY <1>5 DEF HandleSession, c
  <2>2. /\ e.serial <= counter /\ e.serial > wiped[c] /\ home[e.serial] = c
    BY <1>0, <1>1, <1>3, <2>1, ShownIsSaid DEF c
  <2>3. Sessions'
    BY <1>1, <1>2, <2>1, <2>2 DEF Kept, Sessions
  <2> QED BY <2>1, <2>3 DEF Kept, Told, Wiped, AnswersFollowPrompts
<1>6. CASE HandleItem
  <2>1. /\ Current(e) /\ UNCHANGED <<session, wiped, counter, home, turn>>
        /\ \/ transcript' = transcript
           \/ transcript' = [transcript EXCEPT ![c] = transcript[c] \o <<Say(e.serial, "agent")>>]
    <3>1. /\ transcript[c] \o <<>> = transcript[c]
          /\ transcript = [transcript EXCEPT ![c] = transcript[c]]
      BY <1>1, <1>2, ConcatEmptySeq DEF c
    <3> QED BY <1>6, <3>1 DEF HandleItem, c
  <2>2. CASE transcript' = transcript
    BY <2>1, <2>2, QuietTranscripts
  <2>3. CASE transcript' = [transcript EXCEPT ![c] = transcript[c] \o <<Say(e.serial, "agent")>>]
    <3> DEFINE a == Say(e.serial, "agent")
               new == <<a>>
    <3>1. a \in Entry /\ a.by = e.serial
      BY <1>1, SayIsEntry DEF Say
    <3>2. new \in Seq(Entry) /\ Len(new) = 1 /\ new[1] = a
      BY <3>1
    <3>3. /\ Said(a, c, counter, wiped[c], home, turn[c])
          /\ \A i \in 1..Len(transcript[c]) : transcript[c][i].by <= a.by
      <4>1. turn[c] = e.serial /\ turn[c] # 0 /\ c \in Convs
        BY <1>1, <1>3, <2>1 DEF c
      <4>2. /\ turn[c] \in Nat /\ turn[c] <= counter /\ turn[c] > wiped[c] /\ home[turn[c]] = c
            /\ \A i \in 1..Len(transcript[c]) : transcript[c][i].by <= turn[c]
        BY <1>0, <4>1, ShownIsSaid
      <4>3. a.by = turn[c] /\ turn[c] <= turn[c]
        BY <3>1, <4>1, <4>2
      <4> HIDE DEF a
      <4> QED BY <4>2, <4>3 DEF Said
    <3>4. transcript' = [transcript EXCEPT ![c] = transcript[c] \o new]
      BY <2>3
    <3> HIDE DEF a, new
    <3>5. /\ counter' \in Nat /\ counter <= counter' /\ \A s \in 1..counter : home'[s] = home[s]
          /\ \A d \in Convs \ {c} : turn'[d] = turn[d]
          /\ turn'[c] \in {turn[c], 0} /\ c \in Convs
      BY <1>1, <1>2, <2>1 DEF c
    <3>6. \A k \in 1..Len(new) : k = 1 /\ new[k] = a
      BY <3>2
    <3>7. /\ \A i \in 1..Len(new) : Said(new[i], c, counter', wiped[c], home', turn'[c])
          /\ \A k \in 1..Len(new) :
               /\ \A i \in 1..Len(transcript[c]) : transcript[c][i].by <= new[k].by
               /\ \A i \in 1..(k - 1) : new[i].by <= new[k].by
      <4>1. \A k \in 1..Len(new) : \A i \in 1..(k - 1) : FALSE
        BY <3>6
      <4> QED BY <2>1, <3>3, <3>6, <4>1
    <3> QED BY <1>0, <2>1, <3>2, <3>4, <3>5, <3>7, SayMore
  <2> QED BY <2>1, <2>2, <2>3
<1>7. CASE HandleDone
  <2>1. /\ e.kind = "done" /\ Current(e) /\ UNCHANGED <<prompts, session, wiped>>
    BY <1>7 DEF HandleDone
  <2> DEFINE records == [record EXCEPT ![e.serial] = e.how]
  <2>2. PICK outcome \in {<<>>, OutcomeOf(e)} :
          \/ Decline(c, records, outcome)
          \/ Begin(c, Head(waiting[c]), records, outcome)
    BY <1>7 DEF HandleDone, c
  <2>3. Closing(c, outcome)
    <3>1. \A kind \in {"stopped", "error"} : /\ Say(e.serial, kind) \in Entry
                                             /\ Say(e.serial, kind).kind = kind
                                             /\ Say(e.serial, kind).by = e.serial
      BY <1>1, SayIsEntry DEF Say
    <3>2. turn[c] = e.serial /\ turn[c] # 0
      BY <1>1, <1>3, <2>1
    <3> QED BY <2>2, <3>1, <3>2 DEF Closing, OutcomeOf
  <2>4. CASE Decline(c, records, outcome)
    BY <1>0, <1>1, <2>1, <2>3, <2>4, DeclineTells DEF c
  <2>5. CASE Begin(c, Head(waiting[c]), records, outcome)
    <3>1. counter' = counter + 1
      BY <2>5 DEF Begin
    <3>2. counter + 1 \in Turns
      BY <1>0, <2>1, <3>1 DEF TypeOK, Turns
    <3> QED BY <1>0, <1>1, <2>1, <2>3, <2>5, <3>2, BeginTells DEF c
  <2> QED BY <2>2, <2>4, <2>5
<1> QED BY <1>4, <1>5, <1>6, <1>7 DEF Pump

LEMMA ToldKept == Prompted /\ Placed /\ Kept /\ [Next]_vars => Kept'
<1> SUFFICES ASSUME Prompted, Placed, Kept, [Next]_vars PROVE Kept'
  OBVIOUS
<1>1. CASE UNCHANGED vars \/ CloseWindow \/ CloseRefused
  <2>1. /\ UNCHANGED <<transcript, session, wiped, counter, home>>
        /\ UNCHANGED turn \/ turn' = [c \in Convs |-> 0]
    BY <1>1 DEF vars, uiVars, CloseWindow, CloseRefused
  <2> QED BY <2>1, QuietTranscripts
<1>2. ASSUME NEW s \in Turns, WorkerStep(s) \/ WorkerEnds(s)
      PROVE  Kept'
  <2>1. UNCHANGED <<transcript, session, wiped, counter, home, turn>>
    BY <1>2 DEF WorkerStep, WorkerEnds, LaunchFails, Spawn, Adopt, ReadLine, Finish, Exit,
                WorkerDies, uiVars
  <2> QED BY <2>1, QuietTranscripts
<1> QED BY <1>1, <1>2, UserKeepsTold, PumpKeepsTold DEF Next

-----------------------------------------------------------------------------
(* Theorems. *)

TurnsInv == Prompted /\ Placed /\ RecordsSettle /\ Kept

LEMMA TurnsInvInit == Init => TurnsInv
<1> SUFFICES ASSUME Init PROVE TurnsInv
  OBVIOUS
<1>1. \A c \in Convs : /\ waiting[c] = <<>> /\ transcript[c] = <<>> /\ turn[c] = 0
                       /\ session[c] = 0 /\ wiped[c] = 0
  BY DEF Init
<1>2. TypeOK
  <2>1. <<>> \in Seq(Turns) /\ <<>> \in Seq(Entry) /\ <<>> \in Seq(Event)
    BY EmptySeq
  <2>2. home \in [Turns -> Convs]
    BY DEF Init
  <2>3. /\ waiting \in [Convs -> Seq(Turns)] /\ transcript \in [Convs -> Seq(Entry)]
        /\ events \in Seq(Event)
    BY <2>1 DEF Init
  <2>4. /\ turn \in [Convs -> 0..MaxPrompts] /\ stamp \in [Convs -> 0..MaxPrompts]
        /\ session \in [Convs -> 0..MaxPrompts] /\ wiped \in [Convs -> 0..MaxPrompts]
        /\ asked \in [Turns -> 0..MaxPrompts] /\ lines \in [Turns -> 0..MaxLines]
        /\ prompts \in 0..MaxPrompts /\ counter \in 0..prompts
    BY DEF Init
  <2>5. /\ record \in [Turns -> Status] /\ worker \in [Turns -> Stage]
        /\ proc \in [Turns -> {"none", "alive", "dead"}]
    BY DEF Init, Status, Stage
  <2>6. /\ cancelled \in [Turns -> BOOLEAN] /\ open \subseteq Convs /\ broken \subseteq Turns
        /\ shown \in BOOLEAN
    BY DEF Init
  <2> QED BY <2>2, <2>3, <2>4, <2>5, <2>6 DEF TypeOK
<1>3. Asked /\ Unsent
  BY <1>1 DEF Init, Asked, Unsent
<1>4. Placed
  <2>1. \A s \in Turns : /\ worker[s] = "none" /\ proc[s] = "none" /\ ~cancelled[s]
                         /\ s \in Nat /\ s > 0
    BY DEF Init, Turns
  <2>2. stamp = turn /\ counter = 0 /\ Len(events) = 0
    BY DEF Init
  <2> QED BY <1>1, <2>1, <2>2 DEF Placed, Stamped, Untouched, Launched, EventsAreTrue, InReach,
                                   Working, CancelReachesProcess
<1>5. RecordsSettle
  BY DEF Init, RecordsSettle
<1>6. Kept
  BY <1>1 DEF Init, Kept, Told, Sessions, Wiped, AnswersFollowPrompts
<1> QED BY <1>2, <1>3, <1>4, <1>5, <1>6 DEF TurnsInv, Prompted

LEMMA TurnsInvInvariant == Spec => []TurnsInv
<1>1. TurnsInv /\ [Next]_vars => TurnsInv'
  BY PromptsKept, PlacesKept, RecordsKept, ToldKept DEF TurnsInv
<1> QED BY <1>1, TurnsInvInit, PTL DEF Spec

\* The UI thread and the workers keep every table and queue well-formed; a serial is
\* left for each prompt that waits.
THEOREM TurnsAreTyped == Spec => []TypeOK
<1>1. TurnsInv => TypeOK
  BY DEF TurnsInv, Prompted
<1> QED BY <1>1, TurnsInvInvariant, PTL

\* However sends, queues and failures interleave, a prompt never goes out twice and
\* is not both sent and waiting.
THEOREM PromptsAreSentOnce == Spec => []SentOnce
<1>1. TurnsInv => SentOnce
  BY DEF TurnsInv, Prompted, Asked, Unsent, SentOnce
<1> QED BY <1>1, TurnsInvInvariant, PTL

\* An agent process that was not told to stop is the one its conversation shows,
\* whatever was stopped, reset, deleted or closed in whatever order.
THEOREM AgentsStayInReach == Spec => []NoRunawayAgent
<1>1. TurnsInv => NoRunawayAgent
  BY DEF TurnsInv, Placed, InReach, Working, NoRunawayAgent
<1> QED BY <1>1, TurnsInvInvariant, PTL

\* cancel() and the launch of the process race; whichever is second kills it.
THEOREM CancelsReachProcesses == Spec => []CancelReachesProcess
<1>1. TurnsInv => CancelReachesProcess
  BY DEF TurnsInv, Placed
<1> QED BY <1>1, TurnsInvInvariant, PTL

\* While the window is shown, a record says "running" only of the turn its
\* conversation shows, unless a save failed or the worker died.
THEOREM RecordsSayTheEnd == Spec => []RecordsSettle
<1>1. TurnsInv => RecordsSettle
  BY DEF TurnsInv
<1> QED BY <1>1, TurnsInvInvariant, PTL

\* Late events never bring back what a reset or a deletion has cleared, nor reach
\* another conversation.
THEOREM NothingComesBack == Spec => []NoGhosts
<1>1. TurnsInv => NoGhosts
  BY DEF TurnsInv, Kept, Told, Said, Sessions, NoGhosts
<1> QED BY <1>1, TurnsInvInvariant, PTL

\* No answer stands ahead of its prompt or behind the next one.
THEOREM AnswersAreInOrder == Spec => []AnswersFollowPrompts
<1>1. TurnsInv => AnswersFollowPrompts
  BY DEF TurnsInv, Kept
<1> QED BY <1>1, TurnsInvInvariant, PTL

=============================================================================
