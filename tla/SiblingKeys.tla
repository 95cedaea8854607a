---------------------------- MODULE SiblingKeys -----------------------------
(***************************************************************************)
(* The order of one level of the shared tree: ids.py computes sort keys,   *)
(* place() in services/tree.py finds one for a position or renumbers the   *)
(* level, and TreeService creates, forks, moves, deletes and restores.     *)
(* The level is the conversations of a project or the projects under one   *)
(* parent.  Every operation is one transaction of the writer.              *)
(*                                                                         *)
(* A key is a sequence of digits in base BASE: the code has 62 of them,    *)
(* keys of 4 and at most 48, which no level exhausts in a bounded check.   *)
(* A restored row may come back with the key of another.  place() reads    *)
(* such rows in the order of their row numbers, in which the index on      *)
(* sort_key ends; who looks at the tree sees them in the order of their    *)
(* names.                                                                  *)
(***************************************************************************)
EXTENDS Integers, Sequences, FiniteSets, SequencesExt

CONSTANTS
  MaxRows,          \* bound: rows ever created
  MaxGone,          \* bound: deleted rows at a time
  RowId,            \* RowId[n]: the number SQLite gave the row
  Name,             \* Name[n]: where its name comes among the names of the level
  Threads,          \* Codex sessions
  None,             \* SQL's NULL
  BASE,             \* digits
  RANK_WIDTH,       \* digits of a fresh key
  MAX_RANK_LENGTH   \* beyond it a level is renumbered

ASSUME RowsAssumption == MaxRows \in Nat /\ None \notin 1..MaxRows \cup Threads
ASSUME TieAssumption ==
  \A tie \in {RowId, Name} :
    /\ tie \in [1..MaxRows -> Nat]
    /\ \A m, n \in 1..MaxRows : tie[m] = tie[n] => m = n
ASSUME WidthAssumption ==
  /\ BASE \in 2..62 /\ RANK_WIDTH \in Nat \ {0, 1}
  /\ MAX_RANK_LENGTH \in Nat /\ MAX_RANK_LENGTH >= RANK_WIDTH

VARIABLES
  key,      \* sort_key of the live rows of the level
  removed,  \* sort_key of its deleted rows
  from,     \* forked_from_conversation_id
  via,      \* forked_from_external_session_id, if it is a Codex session
  thread,   \* codex_thread_id
  created   \* the number of rows

origin == <<from, via, thread>>

levelVars == <<key, removed, origin, created>>

Rows == 1..MaxRows
Key == UNION {[1..n -> 0..BASE - 1] : n \in 1..MAX_RANK_LENGTH + MaxRows}

LevelTypeOK ==
  /\ created \in 0..MaxRows
  /\ DOMAIN key \cup DOMAIN removed \subseteq 1..created
  /\ \A n \in DOMAIN key : key[n] \in Key /\ key[n][Len(key[n])] # 0
  /\ \A n \in DOMAIN removed : removed[n] \in Key
  /\ from \in [Rows -> Rows \cup {None}]
  /\ via \in [Rows -> Threads \cup {None}] /\ thread \in [Rows -> Threads \cup {None}]

-----------------------------------------------------------------------------
(* ids.py.  The empty key stands for RankExhausted, and for an open end. *)

Exhausted == <<>>
MID == BASE \div 2
Least(S) == CHOOSE i \in S : \A j \in S : i <= j
Greatest(S) == CHOOSE i \in S : \A j \in S : i >= j

\* The order of strings.
Less(a, b) ==
  \E i \in 1..Len(b) :
    /\ i <= Len(a) => a[i] < b[i]
    /\ \A j \in 1..i - 1 : j <= Len(a) /\ a[j] = b[j]

FirstRank ==
  [i \in 1..RANK_WIDTH |-> IF i = 1 THEN MID ELSE IF i = RANK_WIDTH THEN 1 ELSE 0]

\* rank_after(): count up, or widen when every digit is at the top.
RankAfter(last) ==
  LET up == {i \in DOMAIN last : last[i] + 1 < BASE}
      at == Greatest(up)
  IN  IF last = <<>> THEN FirstRank
      ELSE IF up # {} THEN
        [i \in DOMAIN last |->
          IF i < at THEN last[i] ELSE IF i = at THEN last[i] + 1
          ELSE IF i = Len(last) THEN 1 ELSE 0]
      ELSE IF Len(last) >= MAX_RANK_LENGTH THEN Exhausted ELSE Append(last, 1)

\* rank_before(): count down; the last digit never becomes zero.
RankBefore(first) ==
  LET down == {i \in DOMAIN first : first[i] > (IF i = Len(first) THEN 1 ELSE 0)}
      at == Greatest(down)
  IN  IF first = <<>> THEN FirstRank
      ELSE IF down = {} THEN Exhausted
      ELSE [i \in DOMAIN first |->
             IF i < at THEN first[i] ELSE IF i = at THEN first[i] - 1 ELSE BASE - 1]

\* rank_between(): the middle of the first position with room.
RankBetween(before, after) ==
  LET Low(i) == IF i <= Len(before) THEN before[i] ELSE -1
      High(i) == IF i <= Len(after) THEN after[i] ELSE BASE
      room == {i \in 1..MAX_RANK_LENGTH : Low(i) + 1 < High(i)}
      at == Least(room)
      digit == (Low(at) + 1 + High(at)) \div 2
      found == [i \in 1..at - 1 |-> IF Low(i) >= 0 THEN Low(i) ELSE 0]
                 \o (IF digit = 0 THEN <<0, MID>> ELSE <<digit>>)
  IN  IF before = <<>> THEN RankBefore(after)
      ELSE IF after = <<>> THEN RankAfter(before)
      ELSE IF ~Less(before, after) \/ room = {} THEN Exhausted
      ELSE IF Less(before, found) /\ Less(found, after) THEN found ELSE Exhausted

\* resequence(): `count` evenly spread keys.
Power[n \in Nat] == IF n = 0 THEN 1 ELSE BASE * Power[n - 1]

Width(count) ==
  Least({w \in RANK_WIDTH..RANK_WIDTH + count : Power[w] >= (count + 1) * 4})

Digits[width \in Nat] == [value \in Nat |->
  IF width = 0 THEN <<>> ELSE Append(Digits[width - 1][value \div BASE], value % BASE)]

Resequenced(count) ==
  LET width == Width(count)
      step == Power[width] \div (count + 1)
  IN  [i \in 1..count |->
        LET digits == Digits[width][i * step]
        IN  IF digits[width] = 0 THEN [digits EXCEPT ![width] = 1] ELSE digits]

-----------------------------------------------------------------------------
(* services/tree.py *)

\* ORDER BY sort_key and then whatever `tie` says.
InOrder(keys, tie) ==
  LET Rank(n) == Cardinality({m \in DOMAIN keys :
                   (keys[m] = keys[n] /\ tie[m] <= tie[n]) \/ Less(keys[m], keys[n])})
  IN  [i \in 1..Cardinality(DOMAIN keys) |-> CHOOSE n \in DOMAIN keys : Rank(n) = i]

\* _project_siblings() and _conversation_siblings()
Siblings == InOrder(key, RowId)

\* _sort_tree() and list_live()
Shown == InOrder(key, Name)

SlotOf(siblings, n) == CHOOSE i \in DOMAIN siblings : siblings[i] = n

\* Faulty variant: a renumbered level keeps no slot free for the new row.
PlaceInTheWay(siblings, index, n) ==
  LET before == IF index > 1 THEN key[siblings[index - 1]] ELSE <<>>
      after == IF index <= Len(siblings) THEN key[siblings[index]] ELSE <<>>
      found == RankBetween(before, after)
      count == Len(siblings) + 1
  IN  IF found # Exhausted
        THEN [m \in Range(siblings) \cup {n} |-> IF m = n THEN found ELSE key[m]]
        ELSE [m \in Range(siblings) \cup {n} |->
               IF m = n THEN Resequenced(count)[index]
               ELSE Resequenced(count)[SlotOf(siblings, m)]]

\* place() and _apply_sort_updates(): the level's keys with row n at `index` of
\* the other siblings, all of them renumbered if no key is left there.  (A missing
\* index, or one past the end, is the end.)
Place(siblings, index, n) ==
  LET before == IF index > 1 THEN key[siblings[index - 1]] ELSE <<>>
      after == IF index <= Len(siblings) THEN key[siblings[index]] ELSE <<>>
      found == RankBetween(before, after)
      fresh == InsertAt(siblings, index, n)
      spread == Resequenced(Len(fresh))
  IN  IF found # Exhausted
        THEN [m \in Range(fresh) |-> IF m = n THEN found ELSE key[m]]
        ELSE [m \in Range(fresh) |->
               spread[SlotOf(fresh, m)]]

Without(n) == LET siblings == Siblings IN RemoveAt(siblings, SlotOf(siblings, n))

\* create_project() and create_conversation(), without an index at the end; a row
\* that moves in from another level is placed likewise, and taken for a new one.
Create(index) ==
  /\ created < MaxRows
  /\ created' = created + 1
  /\ key' = Place(Siblings, index, created')
  /\ from' = [from EXCEPT ![created'] = None]
  /\ via' = [via EXCEPT ![created'] = None]
  /\ thread' = [thread EXCEPT ![created'] = None]
  /\ UNCHANGED removed

\* What _fork_position() takes for a fork of the source.
IsFork(source, m) ==
  from[m] = source \/ (thread[source] # None /\ via[m] = thread[source])

\* _fork_position()
ForkPosition(source) ==
  LET siblings == Siblings
      others == {i \in SlotOf(siblings, source) + 1 .. Len(siblings) :
                   ~IsFork(source, siblings[i])}
  IN  IF others = {} THEN Len(siblings) + 1 ELSE Least(others)

Fork(source) ==
  /\ source \in DOMAIN key /\ created < MaxRows
  /\ created' = created + 1
  /\ key' = Place(Siblings, ForkPosition(source), created')
  /\ from' = [from EXCEPT ![created'] = source]
  /\ via' = [via EXCEPT ![created'] = thread[source]]
  /\ thread' = [thread EXCEPT ![created'] = None]
  /\ UNCHANGED removed

\* move_project() and move_conversation() within the level: the index counts the
\* other siblings.
Move(n, index) ==
  /\ n \in DOMAIN key
  /\ UNCHANGED <<removed, origin, created>>
  /\ key' = Place(Without(n), index, n)

\* No session and no source, from the sources `sources` on.
Forget(n, sources) ==
  /\ from' = [sources EXCEPT ![n] = None]
  /\ via' = [via EXCEPT ![n] = None]
  /\ thread' = [thread EXCEPT ![n] = None]

\* The same to another level, where it is not followed.
Leave(n) ==
  /\ n \in DOMAIN key
  /\ key' = [m \in DOMAIN key \ {n} |-> key[m]]
  /\ Forget(n, from)
  /\ UNCHANGED <<removed, created>>

\* A deleted row keeps its key, and no renumbering touches it.
Delete(n) ==
  /\ n \in DOMAIN key /\ Cardinality(DOMAIN removed) < MaxGone
  /\ key' = [m \in DOMAIN key \ {n} |-> key[m]]
  /\ removed' = [m \in DOMAIN removed \cup {n} |-> IF m = n THEN key[n] ELSE removed[m]]
  /\ UNCHANGED <<origin, created>>

\* restore_project() and restore_conversation() put it back as it was.
RestoreRow(n) ==
  /\ n \in DOMAIN removed
  /\ key' = [m \in DOMAIN key \cup {n} |-> IF m = n THEN removed[n] ELSE key[m]]
  /\ removed' = [m \in DOMAIN removed \ {n} |-> removed[m]]
  /\ UNCHANGED <<origin, created>>

\* purge_deleted().  What is left of the source, where there was no session, is
\* its id, which is no session either.
Purge(n) ==
  /\ n \in DOMAIN removed
  /\ removed' = [m \in DOMAIN removed \ {n} |-> removed[m]]
  /\ Forget(n, [m \in Rows |-> IF from[m] = n THEN None ELSE from[m]])
  /\ UNCHANGED <<key, created>>

\* set_runner_state(): a session belongs to one conversation.
SetThread(n, t) ==
  /\ n \in DOMAIN key /\ \A m \in Rows : t \notin {thread[m], via[m]}
  /\ thread' = [thread EXCEPT ![n] = t]
  /\ UNCHANGED <<key, removed, from, via, created>>

\* reset_conversation() forgets the session and the source.
Reset(n) ==
  /\ n \in DOMAIN key
  /\ Forget(n, from)
  /\ UNCHANGED <<key, removed, created>>

LevelInit ==
  /\ key = [n \in {} |-> <<>>] /\ removed = key
  /\ from = [n \in Rows |-> None] /\ via = from /\ thread = from /\ created = 0

LevelNext ==
  \/ \E index \in 1..Len(Siblings) + 1 : Create(index)
  \/ \E n \in Rows :
       \/ Fork(n) \/ Leave(n) \/ Delete(n) \/ RestoreRow(n) \/ Purge(n) \/ Reset(n)
       \/ \E index \in DOMAIN Siblings : Move(n, index)
       \/ \E t \in Threads : SetThread(n, t)

LevelSpec == LevelInit /\ [][LevelNext]_levelVars

-----------------------------------------------------------------------------
(* Properties *)

Lists == INSTANCE SiblingLists WITH list <- Shown, fork_of <- via, Nodes <- Rows

\* No restored row has come back with the key of another.
KeysDiffer == \A m, n \in DOMAIN key : key[m] = key[n] => m = n

\* The desktop goes by the thread alone: it does not know the forks that were made
\* before a source had one, or of the one it had before it was reset.
SameForks(source) ==
  thread[source] # None /\ \A m \in DOMAIN key : IsFork(source, m) <=> via[m] = thread[source]

\* Nothing but its forks comes between the source and the new one.
LandsBelow(source) ==
  \E place \in SlotOf(Shown, source) + 1 .. Len(Shown) + 1 :
    /\ Lists!Enter(created', place)
    /\ \A i \in SlotOf(Shown, source) + 1 .. place - 1 : IsFork(source, Shown[i])

\* Each operation of the service is one of the list's.
StepsLikeList ==
  /\ \A place \in 1..Len(Shown) + 1 : Create(place) =>
       IF place = Len(Shown) + 1 THEN Lists!Add(created') ELSE Lists!Enter(created', place)
  /\ \A n \in Rows :
       /\ Fork(n) => LandsBelow(n) /\ (SameForks(n) => Lists!Fork(n, created'))
       /\ \A place \in DOMAIN Shown : Move(n, place) => Lists!MoveTo(n, place)
       /\ Delete(n) \/ Leave(n) => Lists!Delete(n)
       /\ RestoreRow(n) => \E place \in 1..Len(Shown) + 1 : Lists!Enter(n, place)
       /\ \A t \in Threads : SetThread(n, t) => Lists!SetThread(n, t)
       /\ Reset(n) => Lists!Reset(n)
       /\ Purge(n) => UNCHANGED Shown /\ Lists!OthersStay(n)

\* Two rows with different keys do not change places, unless one of them is moved.
RowsKeepTheirOrder ==
  \A m, n \in DOMAIN key \cap DOMAIN key' :
    Less(key[m], key[n]) =>
      \/ Less(key'[m], key'[n])
      \/ \E place \in DOMAIN Siblings : Move(m, place) \/ Move(n, place)

\* What a reader sees of a level does what a list does: every node lands exactly
\* where it was put and no other node changes its place, also when the keys between
\* two nodes run out and the whole level is renumbered.  Each operation is the
\* list's own, with the same arguments; a restored row may stand anywhere.  Once it
\* has come back with the key of another row, those two may change places, as the
\* reader and place() tell them apart in different ways, but no others.
ImplementsLists ==
  Lists!Empty /\ [][(KeysDiffer => StepsLikeList) /\ RowsKeepTheirOrder]_levelVars

=============================================================================
