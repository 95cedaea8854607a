---------------------------- MODULE Idempotency ----------------------------
(***************************************************************************)
(* Replay protection of the write endpoints (services/idempotency.py over  *)
(* repositories/idempotency.py).  A request that carries a key reserves it *)
(* in one transaction, does its work in others, and stores or releases the *)
(* key in a last one.  Between any two of them other requests run, the     *)
(* process may die, and time passes.                                       *)
(*                                                                         *)
(* A key here is the pair (user_id, request_key).  Time is counted in      *)
(* ticks and kept as what is left of each row, so that no clock grows.     *)
(***************************************************************************)
EXTENDS Naturals

CONSTANTS
  Requests,      \* deliveries of a request, a retry being another delivery
  Keys,          \* (user_id, request_key)
  KeyOf,         \* the key each delivery carries
  Prints,        \* request fingerprints
  PrintOf,       \* the fingerprint of each delivery
  TTL            \* DEFAULT_TTL_MS, in ticks

ASSUME RequestAssumption ==
  /\ KeyOf \in [Requests -> Keys]
  /\ PrintOf \in [Requests -> Prints]
ASSUME TTLAssumption == TTL \in Nat \ {0}

VARIABLES
  table,      \* idempotency_keys: the row of every key that has one
  pc,         \* where run() stands for each delivery
  effects,    \* history: the deliveries whose work was committed
  answer,     \* what each delivery was answered
  age,        \* history: ticks since a delivery reserved its key
  quiet       \* history: ticks since the reservation of the key's last effect

vars == <<table, pc, effects, answer, age, quiet>>

Rows ==
  [status : {"running", "ok", "rejected"}, print : Prints, by : Requests, left : 0..TTL]
Kinds == {"none", "result", "rejected", "mismatch", "in_progress", "error"}

TypeOK ==
  /\ DOMAIN table \subseteq Keys
  /\ \A k \in DOMAIN table : table[k] \in Rows
  /\ pc \in [Requests -> {"idle", "running", "made", "refused", "failed", "done", "lost"}]
  /\ effects \subseteq Requests
  /\ answer \in [Requests -> [kind : Kinds, of : Requests]]
  /\ age \in [Requests -> 0..TTL]
  /\ quiet \in [Keys -> 0..TTL]

InFlight(r) == pc[r] \in {"running", "made", "refused", "failed"}

Older(n) == IF n < TTL THEN n + 1 ELSE TTL

-----------------------------------------------------------------------------
(* repositories/idempotency.py *)

\* Faulty variant of lookup(): a row never expires.
NeverExpires(k) == k \in DOMAIN table

\* lookup(): the key has a row that has not expired.
Hit(k) == k \in DOMAIN table /\ table[k].left > 0

Row(r, status) == [status |-> status, print |-> PrintOf[r], by |-> r, left |-> TTL]

\* remember(): insert the row, or overwrite the one of the same key.
Remember(r, status) ==
  [k \in DOMAIN table \cup {KeyOf[r]} |-> IF k = KeyOf[r] THEN Row(r, status) ELSE table[k]]

Without(K) == [k \in DOMAIN table \ K |-> table[k]]

-----------------------------------------------------------------------------
(* IdempotencyService.run(), one delivery. *)

Answer(r, kind, of) ==
  /\ pc' = [pc EXCEPT ![r] = "done"]
  /\ answer' = [answer EXCEPT ![r] = [kind |-> kind, of |-> of]]

\* Faulty variant: the fingerprint is not compared, nor the status.
ReplayAny(r) == Answer(r, "result", table[KeyOf[r]].by)

\* run() returns the stored body whatever its status: to the client that is a
\* success.
Replay(r) ==
  /\ table[KeyOf[r]].print = PrintOf[r]
  /\ table[KeyOf[r]].status # "running"
  /\ Answer(r, "result", table[KeyOf[r]].by)

Mismatch(r) ==
  /\ table[KeyOf[r]].print # PrintOf[r]
  /\ Answer(r, "mismatch", r)

InProgress(r) ==
  /\ table[KeyOf[r]].print = PrintOf[r]
  /\ table[KeyOf[r]].status = "running"
  /\ Answer(r, "in_progress", r)

\* _reserve() found a row.
TurnAway(r) ==
  /\ pc[r] = "idle"
  /\ Hit(KeyOf[r])
  /\ Replay(r) \/ Mismatch(r) \/ InProgress(r)
  /\ UNCHANGED <<table, effects, age, quiet>>

\* _reserve() found none.
Reserve(r) ==
  /\ pc[r] = "idle"
  /\ ~Hit(KeyOf[r])
  /\ table' = Remember(r, "running")
  /\ pc' = [pc EXCEPT ![r] = "running"]
  /\ age' = [age EXCEPT ![r] = 0]
  /\ UNCHANGED <<effects, answer, quiet>>

ReserveFails(r) ==
  /\ pc[r] = "idle"
  /\ Answer(r, "error", r)
  /\ UNCHANGED <<table, effects, age, quiet>>

\* produce() committed its work and returned.
Produce(r) ==
  /\ pc[r] = "running"
  /\ pc' = [pc EXCEPT ![r] = "made"]
  /\ effects' = effects \cup {r}
  /\ quiet' = [quiet EXCEPT ![KeyOf[r]] = age[r]]
  /\ UNCHANGED <<table, answer, age>>

\* produce() raised: a 4xx is to be stored, anything else gives the key back.
ProduceRaises(r) ==
  /\ pc[r] = "running"
  /\ \E how \in {"refused", "failed"} : pc' = [pc EXCEPT ![r] = how]
  /\ UNCHANGED <<table, effects, answer, age, quiet>>

Store(r) ==
  /\ \/ pc[r] = "made" /\ table' = Remember(r, "ok") /\ Answer(r, "result", r)
     \/ pc[r] = "refused" /\ table' = Remember(r, "rejected") /\ Answer(r, "rejected", r)
  /\ UNCHANGED <<effects, age, quiet>>

\* Faulty variant: an unfinished store gives the key back.
StoreFailsAndReleases(r) ==
  /\ pc[r] \in {"made", "refused"}
  /\ table' = Without({KeyOf[r]})
  /\ Answer(r, "error", r)
  /\ UNCHANGED <<effects, age, quiet>>

\* The last transaction failed: the exception reaches the caller, and the
\* reservation stays behind.
StoreFails(r) ==
  /\ pc[r] \in {"made", "refused"}
  /\ Answer(r, "error", r)
  /\ UNCHANGED <<table, effects, age, quiet>>

\* _release() deletes a reservation of the key, whoever made it.
Release(r) ==
  /\ pc[r] = "failed"
  /\ table' = Without({k \in DOMAIN table : k = KeyOf[r] /\ table[k].status = "running"})
  /\ Answer(r, "error", r)
  /\ UNCHANGED <<effects, age, quiet>>

ReleaseFails(r) ==
  /\ pc[r] = "failed"
  /\ Answer(r, "error", r)
  /\ UNCHANGED <<table, effects, age, quiet>>

-----------------------------------------------------------------------------
\* The process dies and is started again: the table is on disk.
Crash ==
  /\ pc' = [r \in Requests |-> IF InFlight(r) THEN "lost" ELSE pc[r]]
  /\ UNCHANGED <<table, effects, answer, age, quiet>>

\* Time passes.  No request runs for as long as a row lives (a day).
Tick ==
  /\ \A r \in Requests : InFlight(r) => age[r] + 1 < TTL
  /\ table' = [k \in DOMAIN table |-> [table[k] EXCEPT !.left = IF @ > 0 THEN @ - 1 ELSE 0]]
  /\ age' = [r \in Requests |-> IF InFlight(r) THEN Older(age[r]) ELSE 0]
  /\ quiet' = [k \in Keys |-> Older(quiet[k])]
  /\ UNCHANGED <<pc, effects, answer>>

\* Faulty variant: reservations are swept whatever their age.
PurgeReservations ==
  /\ table' = Without({k \in DOMAIN table : table[k].left = 0 \/ table[k].status = "running"})
  /\ UNCHANGED <<pc, effects, answer, age, quiet>>

\* purge_expired(), run by the sweeper and at every start.
PurgeExpired ==
  /\ table' = Without({k \in DOMAIN table : table[k].left = 0})
  /\ UNCHANGED <<pc, effects, answer, age, quiet>>

Init ==
  /\ table = <<>>
  /\ answer = [r \in Requests |-> [kind |-> "none", of |-> r]]
  /\ pc = [r \in Requests |-> "idle"]
  /\ effects = {}
  /\ age = [r \in Requests |-> 0]
  /\ quiet = [k \in Keys |-> TTL]

Handle(r) ==
  \/ Produce(r) \/ ProduceRaises(r)
  \/ Store(r) \/ StoreFails(r)
  \/ Release(r) \/ ReleaseFails(r)

Next ==
  \/ \E r \in Requests : TurnAway(r) \/ Reserve(r) \/ ReserveFails(r) \/ Handle(r)
  \/ Crash
  \/ Tick
  \/ PurgeExpired

Spec == Init /\ [][Next]_vars

\* A handler that started goes on; time passes.  Nobody has to send a request,
\* and the sweeper need not run.
FairSpec == Spec /\ WF_vars(Tick) /\ \A r \in Requests : WF_vars(Handle(r))

-----------------------------------------------------------------------------
(* Properties. *)

\* Two deliveries with one key are never both at work, although the row that
\* keeps them apart expires, is swept, and is deleted by whoever fails.
SingleRunner ==
  \A r, s \in Requests :
    InFlight(r) /\ InFlight(s) /\ KeyOf[r] = KeyOf[s] => r = s

\* A retry never repeats work: two effects under one key were reserved at least
\* a TTL apart, whatever was lost, failed, or crashed in between.
OneEffectPerWindow ==
  [][\A r \in Requests : r \in effects' \ effects => quiet[KeyOf[r]] = TTL]_vars

\* A result handed out is that of a delivery with the same key and the same
\* fingerprint, which is no longer at work.
ReplayIsOfTheSameRequest ==
  \A r \in Requests : answer[r].kind = "result" =>
    LET of == answer[r].of IN
    /\ KeyOf[of] = KeyOf[r]
    /\ PrintOf[of] = PrintOf[r]
    /\ pc[of] = "done"

\* A reservation nobody will store or release (a crash, a failed store) does
\* not block its key for ever.
ReservationEnds ==
  \A k \in Keys : (Hit(k) /\ table[k].status = "running")
                    ~> ~(Hit(k) /\ table[k].status = "running")

=============================================================================
