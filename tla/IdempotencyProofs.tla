------------------------- MODULE IdempotencyProofs -------------------------
(***************************************************************************)
(* Proofs about Idempotency, for every number of deliveries and keys and   *)
(* every TTL.  The argument: a delivery at work is named by the row of its *)
(* key, and the row of a key with a recent effect outlasts the window.     *)
(***************************************************************************)
EXTENDS Idempotency, TLAPS

\* Every delivery at work holds the row of its key, which has not expired.
HoldsRow ==
  \A r \in Requests : InFlight(r) =>
    /\ KeyOf[r] \in DOMAIN table
    /\ table[KeyOf[r]].status = "running"
    /\ table[KeyOf[r]].by = r
    /\ age[r] < TTL
    /\ table[KeyOf[r]].left = TTL - age[r]

\* What a row says of the delivery that wrote it.
RowsAreTrue ==
  \A k \in DOMAIN table :
    LET row == table[k] IN
    /\ KeyOf[row.by] = k
    /\ PrintOf[row.by] = row.print
    /\ row.status # "running" => pc[row.by] = "done"

\* A key with an effect in the window keeps its row until the window closes.
WindowIsGuarded ==
  \A k \in Keys : quiet[k] < TTL =>
    /\ k \in DOMAIN table
    /\ table[k].left >= TTL - quiet[k]

\* Work that has no effect yet is under way only where the window has closed.
WorkersFindNoEffect ==
  \A r \in Requests : pc[r] \in {"running", "refused", "failed"} => quiet[KeyOf[r]] = TTL

IdemInv ==
  /\ TypeOK
  /\ HoldsRow
  /\ RowsAreTrue
  /\ WindowIsGuarded
  /\ WorkersFindNoEffect
  /\ ReplayIsOfTheSameRequest

\* SingleRunner is what HoldsRow says of two deliveries with one key.
LEMMA HoldersAreAlone == IdemInv => SingleRunner
BY DEF IdemInv, HoldsRow, SingleRunner

LEMMA InitIdemInv == Init => IdemInv
<1> SUFFICES ASSUME Init PROVE IdemInv
  OBVIOUS
<1> USE RequestAssumption, TTLAssumption DEF Init
<1>1. DOMAIN table = {}
  OBVIOUS
<1>2. TypeOK
  BY <1>1 DEF TypeOK, Rows, Kinds
<1>3. HoldsRow
  BY <1>1 DEF HoldsRow, InFlight
<1>4. RowsAreTrue
  BY <1>1 DEF RowsAreTrue
<1>5. WindowIsGuarded
  BY <1>1 DEF WindowIsGuarded
<1>6. WorkersFindNoEffect
  BY <1>1 DEF WorkersFindNoEffect
<1>7. ReplayIsOfTheSameRequest
  BY <1>1 DEF ReplayIsOfTheSameRequest
<1> QED
  BY <1>2, <1>3, <1>4, <1>5, <1>6, <1>7 DEF IdemInv

\* A delivery that is answered without touching its row keeps IdemInv: the row
\* of another delivery is not its business, and its own may stay behind.
LEMMA AnswerKeepsInv ==
  ASSUME IdemInv, NEW r \in Requests, NEW kind, NEW of \in Requests,
         Answer(r, kind, of), kind \in {"mismatch", "in_progress", "error"},
         UNCHANGED <<table, effects, age, quiet>>
  PROVE  IdemInv'
<1> USE RequestAssumption, TTLAssumption DEF IdemInv
<1>1. TypeOK'
    BY DEF Answer, TypeOK, Rows, Kinds
<1>2. HoldsRow'
    BY DEF Answer, TypeOK, Rows, Kinds, HoldsRow, InFlight
<1>3. RowsAreTrue'
    BY DEF Answer, TypeOK, Rows, Kinds, RowsAreTrue
<1>4. WindowIsGuarded'
    BY DEF Answer, TypeOK, Rows, Kinds, WindowIsGuarded
<1>5. WorkersFindNoEffect'
    BY DEF Answer, TypeOK, Rows, Kinds, WorkersFindNoEffect
<1>6. ReplayIsOfTheSameRequest'
    BY DEF Answer, TypeOK, Rows, Kinds, ReplayIsOfTheSameRequest
<1> QED
    BY <1>1, <1>2, <1>3, <1>4, <1>5, <1>6 DEF IdemInv

\* Every step preserves IdemInv.
LEMMA StepIdemInv == IdemInv /\ [Next]_vars => IdemInv'
<1> SUFFICES ASSUME IdemInv, [Next]_vars PROVE IdemInv'
  OBVIOUS
<1> USE RequestAssumption, TTLAssumption DEF IdemInv
<1>1. ASSUME NEW r \in Requests, TurnAway(r) PROVE IdemInv'
  <2>1. CASE Replay(r)
    <3>1. TypeOK'
      BY <1>1, <2>1
      DEF TurnAway, Replay, Answer, Hit, TypeOK, Rows, Kinds
    <3>2. HoldsRow'
      BY <1>1, <2>1
      DEF TurnAway, Replay, Answer, Hit, TypeOK, Rows, Kinds, HoldsRow, InFlight
    <3>3. RowsAreTrue'
      BY <1>1, <2>1
      DEF TurnAway, Replay, Answer, Hit, TypeOK, Rows, Kinds, RowsAreTrue
    <3>4. WindowIsGuarded'
      BY <1>1, <2>1
      DEF TurnAway, Replay, Answer, Hit, TypeOK, Rows, Kinds, WindowIsGuarded
    <3>5. WorkersFindNoEffect'
      BY <1>1, <2>1
      DEF TurnAway, Replay, Answer, Hit, TypeOK, Rows, Kinds, WorkersFindNoEffect
    <3>6. ReplayIsOfTheSameRequest'
      BY <1>1, <2>1
      DEF TurnAway, Replay, Answer, Hit, TypeOK, Rows, Kinds, RowsAreTrue,
          ReplayIsOfTheSameRequest
    <3> QED
      BY <3>1, <3>2, <3>3, <3>4, <3>5, <3>6 DEF IdemInv
  <2>2. CASE Mismatch(r) \/ InProgress(r)
    BY <1>1, <2>2, AnswerKeepsInv DEF TurnAway, Mismatch, InProgress
  <2> QED
    BY <1>1, <2>1, <2>2 DEF TurnAway
<1>2. ASSUME NEW r \in Requests, Reserve(r) PROVE IdemInv'
  <2>1. TypeOK'
    BY <1>2
    DEF Reserve, Hit, Remember, Row, TypeOK, Rows, Kinds
  <2>2. HoldsRow'
    BY <1>2
    DEF Reserve, Hit, Remember, Row, TypeOK, Rows, Kinds, HoldsRow, InFlight, WindowIsGuarded
  <2>3. RowsAreTrue'
    BY <1>2
    DEF Reserve, Hit, Remember, Row, TypeOK, Rows, Kinds, RowsAreTrue, HoldsRow, InFlight
  <2>4. WindowIsGuarded'
    BY <1>2
    DEF Reserve, Hit, Remember, Row, TypeOK, Rows, Kinds, WindowIsGuarded
  <2>5. WorkersFindNoEffect'
    <3>1. quiet[KeyOf[r]] = TTL
      <4>1. KeyOf[r] \in Keys /\ quiet[KeyOf[r]] \in 0..TTL
        BY DEF TypeOK
      <4>2. KeyOf[r] \in DOMAIN table => table[KeyOf[r]].left = 0
        BY <1>2 DEF Reserve, Hit, TypeOK, Rows
      <4> QED
        BY <4>1, <4>2 DEF WindowIsGuarded
    <3> QED
      BY <1>2, <3>1 DEF Reserve, TypeOK, WorkersFindNoEffect
  <2>6. ReplayIsOfTheSameRequest'
    BY <1>2
    DEF Reserve, Hit, Remember, Row, TypeOK, Rows, Kinds, ReplayIsOfTheSameRequest
  <2> QED
    BY <2>1, <2>2, <2>3, <2>4, <2>5, <2>6 DEF IdemInv
<1>3. ASSUME NEW r \in Requests, ReserveFails(r) PROVE IdemInv'
  BY <1>3, AnswerKeepsInv DEF ReserveFails
<1>4. ASSUME NEW r \in Requests, Produce(r) PROVE IdemInv'
  <2>1. TypeOK'
    BY <1>4
    DEF Produce, TypeOK, Rows, Kinds
  <2>2. HoldsRow'
    BY <1>4
    DEF Produce, TypeOK, Rows, Kinds, HoldsRow, InFlight
  <2>3. RowsAreTrue'
    BY <1>4
    DEF Produce, TypeOK, Rows, Kinds, RowsAreTrue
  <2>4. WindowIsGuarded'
    BY <1>4
    DEF Produce, TypeOK, Rows, Kinds, WindowIsGuarded, HoldsRow, InFlight
  <2>5. WorkersFindNoEffect'
    BY <1>4
    DEF Produce, TypeOK, Rows, Kinds, WorkersFindNoEffect, HoldsRow, InFlight
  <2>6. ReplayIsOfTheSameRequest'
    BY <1>4
    DEF Produce, TypeOK, Rows, Kinds, ReplayIsOfTheSameRequest
  <2> QED
    BY <2>1, <2>2, <2>3, <2>4, <2>5, <2>6 DEF IdemInv
<1>5. ASSUME NEW r \in Requests, ProduceRaises(r) PROVE IdemInv'
  <2>1. TypeOK'
    BY <1>5
    DEF ProduceRaises, TypeOK, Rows, Kinds
  <2>2. HoldsRow'
    BY <1>5
    DEF ProduceRaises, TypeOK, Rows, Kinds, HoldsRow, InFlight
  <2>3. RowsAreTrue'
    BY <1>5
    DEF ProduceRaises, TypeOK, Rows, Kinds, RowsAreTrue
  <2>4. WindowIsGuarded'
    BY <1>5
    DEF ProduceRaises, TypeOK, Rows, Kinds, WindowIsGuarded
  <2>5. WorkersFindNoEffect'
    BY <1>5
    DEF ProduceRaises, TypeOK, Rows, Kinds, WorkersFindNoEffect
  <2>6. ReplayIsOfTheSameRequest'
    BY <1>5
    DEF ProduceRaises, TypeOK, Rows, Kinds, ReplayIsOfTheSameRequest
  <2> QED
    BY <2>1, <2>2, <2>3, <2>4, <2>5, <2>6 DEF IdemInv
<1>6. ASSUME NEW r \in Requests, Store(r) PROVE IdemInv'
  <2>1. TypeOK'
    <3>1. \A status \in {"ok", "rejected"} : Row(r, status) \in Rows
      BY DEF Row, Rows
    <3>2. /\ DOMAIN table' = DOMAIN table \cup {KeyOf[r]}
          /\ \A k \in DOMAIN table' : table'[k] \in Rows
      BY <1>6, <3>1 DEF Store, Remember, TypeOK
    <3>3. answer' \in [Requests -> [kind : Kinds, of : Requests]]
      BY <1>6 DEF Store, Answer, TypeOK, Kinds
    <3> QED
      BY <1>6, <3>2, <3>3 DEF Store, Answer, TypeOK
  <2>2. HoldsRow'
    BY <1>6
    DEF Store, Answer, Remember, Row, TypeOK, Rows, Kinds, HoldsRow, InFlight
  <2>3. RowsAreTrue'
    BY <1>6
    DEF Store, Answer, Remember, Row, TypeOK, Rows, Kinds, RowsAreTrue, HoldsRow, InFlight
  <2>4. WindowIsGuarded'
    <3>1. /\ table'[KeyOf[r]].left = TTL
          /\ \A k \in DOMAIN table : k # KeyOf[r] => table'[k] = table[k]
          /\ DOMAIN table' = DOMAIN table \cup {KeyOf[r]}
      BY <1>6 DEF Store, Remember, Row
    <3> QED
      BY <1>6, <3>1 DEF Store, TypeOK, Rows, WindowIsGuarded
  <2>5. WorkersFindNoEffect'
    BY <1>6
    DEF Store, Answer, Remember, Row, TypeOK, Rows, Kinds, WorkersFindNoEffect
  <2>6. ReplayIsOfTheSameRequest'
    BY <1>6
    DEF Store, Answer, Remember, Row, TypeOK, Rows, Kinds, ReplayIsOfTheSameRequest
  <2> QED
    BY <2>1, <2>2, <2>3, <2>4, <2>5, <2>6 DEF IdemInv
<1>7. ASSUME NEW r \in Requests, StoreFails(r) PROVE IdemInv'
  BY <1>7, AnswerKeepsInv DEF StoreFails
<1>8. ASSUME NEW r \in Requests, Release(r) PROVE IdemInv'
  <2>1. TypeOK'
    BY <1>8
    DEF Release, Answer, Without, TypeOK, Rows, Kinds
  <2>2. HoldsRow'
    BY <1>8
    DEF Release, Answer, Without, TypeOK, Rows, Kinds, HoldsRow, InFlight
  <2>3. RowsAreTrue'
    BY <1>8
    DEF Release, Answer, Without, TypeOK, Rows, Kinds, RowsAreTrue, HoldsRow, InFlight
  <2>4. WindowIsGuarded'
    BY <1>8
    DEF Release, Answer, Without, TypeOK, Rows, Kinds, WindowIsGuarded, HoldsRow, InFlight, WorkersFindNoEffect
  <2>5. WorkersFindNoEffect'
    BY <1>8
    DEF Release, Answer, Without, TypeOK, Rows, Kinds, WorkersFindNoEffect
  <2>6. ReplayIsOfTheSameRequest'
    BY <1>8
    DEF Release, Answer, Without, TypeOK, Rows, Kinds, ReplayIsOfTheSameRequest
  <2> QED
    BY <2>1, <2>2, <2>3, <2>4, <2>5, <2>6 DEF IdemInv
<1>9. ASSUME NEW r \in Requests, ReleaseFails(r) PROVE IdemInv'
  BY <1>9, AnswerKeepsInv DEF ReleaseFails
<1>10. CASE Crash
  <2>1. TypeOK'
    BY <1>10
    DEF Crash, InFlight, TypeOK, Rows, Kinds
  <2>2. HoldsRow'
    BY <1>10
    DEF Crash, InFlight, TypeOK, Rows, Kinds, HoldsRow, InFlight
  <2>3. RowsAreTrue'
    BY <1>10
    DEF Crash, InFlight, TypeOK, Rows, Kinds, RowsAreTrue
  <2>4. WindowIsGuarded'
    BY <1>10
    DEF Crash, InFlight, TypeOK, Rows, Kinds, WindowIsGuarded
  <2>5. WorkersFindNoEffect'
    BY <1>10
    DEF Crash, InFlight, TypeOK, Rows, Kinds, WorkersFindNoEffect
  <2>6. ReplayIsOfTheSameRequest'
    BY <1>10
    DEF Crash, InFlight, TypeOK, Rows, Kinds, ReplayIsOfTheSameRequest
  <2> QED
    BY <2>1, <2>2, <2>3, <2>4, <2>5, <2>6 DEF IdemInv
<1>11. CASE Tick
  <2>1. TypeOK'
    BY <1>11
    DEF Tick, Older, TypeOK, Rows, Kinds
  <2>2. HoldsRow'
    BY <1>11
    DEF Tick, Older, TypeOK, Rows, Kinds, HoldsRow, InFlight
  <2>3. RowsAreTrue'
    BY <1>11
    DEF Tick, Older, TypeOK, Rows, Kinds, RowsAreTrue
  <2>4. WindowIsGuarded'
    BY <1>11
    DEF Tick, Older, TypeOK, Rows, Kinds, WindowIsGuarded
  <2>5. WorkersFindNoEffect'
    BY <1>11
    DEF Tick, Older, TypeOK, Rows, Kinds, WorkersFindNoEffect
  <2>6. ReplayIsOfTheSameRequest'
    BY <1>11
    DEF Tick, Older, TypeOK, Rows, Kinds, ReplayIsOfTheSameRequest
  <2> QED
    BY <2>1, <2>2, <2>3, <2>4, <2>5, <2>6 DEF IdemInv
<1>12. CASE PurgeExpired
  <2>1. TypeOK'
    BY <1>12
    DEF PurgeExpired, Without, TypeOK, Rows, Kinds
  <2>2. HoldsRow'
    BY <1>12
    DEF PurgeExpired, Without, TypeOK, Rows, Kinds, HoldsRow, InFlight
  <2>3. RowsAreTrue'
    BY <1>12
    DEF PurgeExpired, Without, TypeOK, Rows, Kinds, RowsAreTrue
  <2>4. WindowIsGuarded'
    BY <1>12
    DEF PurgeExpired, Without, TypeOK, Rows, Kinds, WindowIsGuarded
  <2>5. WorkersFindNoEffect'
    BY <1>12
    DEF PurgeExpired, Without, TypeOK, Rows, Kinds, WorkersFindNoEffect
  <2>6. ReplayIsOfTheSameRequest'
    BY <1>12
    DEF PurgeExpired, Without, TypeOK, Rows, Kinds, ReplayIsOfTheSameRequest
  <2> QED
    BY <2>1, <2>2, <2>3, <2>4, <2>5, <2>6 DEF IdemInv
<1>13. CASE UNCHANGED vars
  <2>1. TypeOK'
    BY <1>13
    DEF vars, TypeOK, Rows, Kinds
  <2>2. HoldsRow'
    BY <1>13
    DEF vars, TypeOK, Rows, Kinds, HoldsRow, InFlight
  <2>3. RowsAreTrue'
    BY <1>13
    DEF vars, TypeOK, Rows, Kinds, RowsAreTrue
  <2>4. WindowIsGuarded'
    BY <1>13
    DEF vars, TypeOK, Rows, Kinds, WindowIsGuarded
  <2>5. WorkersFindNoEffect'
    BY <1>13
    DEF vars, TypeOK, Rows, Kinds, WorkersFindNoEffect
  <2>6. ReplayIsOfTheSameRequest'
    BY <1>13
    DEF vars, TypeOK, Rows, Kinds, ReplayIsOfTheSameRequest
  <2> QED
    BY <2>1, <2>2, <2>3, <2>4, <2>5, <2>6 DEF IdemInv
<1> QED
  BY <1>1, <1>2, <1>3, <1>4, <1>5, <1>6, <1>7, <1>8, <1>9, <1>10, <1>11, <1>12, <1>13
  DEF Next, Handle

\* The inductive invariant of the replay table.
THEOREM IdempotencyInvariant == Spec => []IdemInv
BY InitIdemInv, StepIdemInv, PTL DEF Spec

\* TypeOK: the table never holds a row past its TTL.
THEOREM IdempotencyTypeCorrect == Spec => []TypeOK
BY IdempotencyInvariant, PTL DEF IdemInv

\* SingleRunner: a second delivery never starts while the first is at work,
\* although _release() deletes a reservation without asking whose it is.
THEOREM NeverTwoAtWork == Spec => []SingleRunner
BY IdempotencyInvariant, HoldersAreAlone, PTL

\* ReplayIsOfTheSameRequest: a replayed response is one the client asked for.
THEOREM ReplaysMatch == Spec => []ReplayIsOfTheSameRequest
BY IdempotencyInvariant, PTL DEF IdemInv

\* OneEffectPerWindow: through crashes, failed stores, releases and sweeps, a
\* key has one effect per TTL.
THEOREM RetriesDoNotRepeat == Spec => OneEffectPerWindow
<1>1. IdemInv /\ [Next]_vars =>
        [\A r \in Requests : r \in effects' \ effects => quiet[KeyOf[r]] = TTL]_vars
  <2> SUFFICES ASSUME IdemInv, [Next]_vars,
                      NEW r \in Requests, r \in effects' \ effects
               PROVE  quiet[KeyOf[r]] = TTL
    OBVIOUS
  <2>1. pc[r] = "running"
    BY DEF Next, Handle, vars, TurnAway, Reserve, ReserveFails, Produce, ProduceRaises,
           Store, StoreFails, Release, ReleaseFails, Crash, Tick, PurgeExpired
  <2> QED
    BY <2>1 DEF IdemInv, WorkersFindNoEffect
<1> QED
  BY <1>1, IdempotencyInvariant, PTL DEF Spec, OneEffectPerWindow

=============================================================================
