----------------------------- MODULE Transcript -----------------------------
(***************************************************************************)
(* Messages of shared conversations and their search index:                *)
(* services/messages.py over repositories/messages.py, the parts of        *)
(* services/tree.py, repositories/conversations.py, repositories/search.py *)
(* and services/maintenance.py that carry messages along, and the paging   *)
(* client of client_api.py.  Each operation is one transaction; a client   *)
(* that reads a transcript needs one for every page.                       *)
(*                                                                         *)
(* A text is a number, 0 being the blank one and the next what it becomes  *)
(* when it grows.  The stamp of a deletion is a name no other deletion in  *)
(* the tables has: the clock moves between deletions.  A message that has  *)
(* ended is completed, or "late" when it was cancelled instead or its text *)
(* changed afterwards: to the code they are the same.  Tool calls and      *)
(* names are left out, and so is who may read and write, ProjectTree's     *)
(* subject.                                                                *)
(***************************************************************************)
EXTENDS Naturals, FiniteSets, FiniteSetsExt

CONSTANTS
  Conversations,  \* rows of conversations
  Projects,       \* where a conversation may stand
  Messages,       \* rows of messages
  Indexed,        \* those among them whose role is in INDEXED_ROLES
  Stamps,         \* values of deleted_at_ms
  None,           \* SQL's NULL
  PageSize,       \* the limit of a page
  MaxText,        \* bound: texts
  MaxNo           \* bound: numbers of one conversation

ASSUME IndexedAssumption == Indexed \subseteq Messages
ASSUME NoneAssumption == None \notin Stamps
ASSUME BoundsAssumption == {PageSize, MaxText, MaxNo} \subseteq Nat \ {0}

VARIABLES
  conv,    \* conversations: project, deletion, and what that deletion took
  rows,    \* messages
  index,   \* message_fts
  walk     \* the client that reads a transcript page by page: its cursor

vars == <<conv, rows, index, walk>>

Idle == [at |-> "idle"]
ConvRows == [project : Projects, deleted : Stamps \cup {None}, took : SUBSET Messages]
Rows == [conv : Conversations, no : 1..MaxNo, text : 0..MaxText,
         closed : {"open", "completed", "late"}, deleted : Stamps \cup {None}]

TypeOK ==
  /\ DOMAIN conv \subseteq Conversations /\ \A c \in DOMAIN conv : conv[c] \in ConvRows
  /\ DOMAIN rows \subseteq Messages /\ \A m \in DOMAIN rows : rows[m] \in Rows
  /\ index \subseteq [message : Messages, conv : Conversations, project : Projects,
                      text : 1..MaxText]
  /\ walk.at \in {"idle", "reading", "short"}

LiveConv(c) == c \in DOMAIN conv /\ conv[c].deleted = None
Live(m) == m \in DOMAIN rows /\ rows[m].deleted = None
LiveRows(c) == {m \in DOMAIN rows : rows[m].conv = c /\ Live(m)}
RowsOf(c) == {m \in DOMAIN rows : rows[m].conv = c}

-----------------------------------------------------------------------------
(* repositories/messages.py and repositories/search.py *)

Put(m, row) == [n \in DOMAIN rows \cup {m} |-> IF n = m THEN row ELSE rows[n]]

\* next_sequence_no(): deleted messages keep theirs.
NextNo(c) == 1 + Max({0} \cup {rows[m].no : m \in RowsOf(c)})

\* insert(), with what append(), cancel_turn() and fork_conversation() give it.
NewRow(c, text, closed) ==
  [conv |-> c, no |-> NextNo(c), text |-> text, closed |-> closed,
   deleted |-> None]

\* An id the tables and the reading client do not know.
NewMessage(m) ==
  m \notin DOMAIN rows /\ (walk.at = "reading" => m \notin walk.due)

NewStamp(s) ==
  (\A c \in DOMAIN conv : conv[c].deleted # s) /\ \A m \in DOMAIN rows : rows[m].deleted # s

\* drop_messages()
Drop(M) == {e \in index : e.message \notin M}

\* index_message(): a blank text has no entry.
Entry(m, c, p, text) ==
  IF text = 0 THEN {} ELSE {[message |-> m, conv |-> c, project |-> p, text |-> text]}

\* Faulty variant: only the conversation's own entry is renewed.
ReindexNameOnly(c, p, table) == index

\* reindex_conversation() over the rows of `table`, whatever their roles.
Reindex(c, p, table) ==
  LET live == {m \in DOMAIN table : table[m].conv = c /\ table[m].deleted = None}
  IN  Drop(live) \cup UNION {Entry(m, c, p, table[m].text) : m \in live}

\* History: `due` is what the reading client is still owed, of the messages that
\* have been live since it began.
Owe(table) ==
  walk' = IF walk.at = "reading"
            THEN [walk EXCEPT !.due = {m \in @ : m \in DOMAIN table /\ table[m].deleted = None}]
            ELSE walk

-----------------------------------------------------------------------------
(* MessageService *)

\* append().  A retried event finds its message and changes nothing.
AppendMessage(c, m, text, closed) ==
  /\ LiveConv(c) /\ NewMessage(m) /\ NextNo(c) <= MaxNo
  /\ rows' = Put(m, NewRow(c, text, closed))
  /\ index' = index \cup (IF m \in Indexed THEN Entry(m, c, conv[c].project, text) ELSE {})
  /\ UNCHANGED <<conv, walk>>

\* append_delta() grows the text and leaves the index alone.
AppendDelta(m) ==
  /\ Live(m) /\ LiveConv(rows[m].conv) /\ rows[m].text < MaxText
  /\ rows' = [rows EXCEPT ![m].text = @ + 1,
                          ![m].closed = IF @ = "open" THEN @ ELSE "late"]
  /\ UNCHANGED <<conv, index, walk>>

\* complete(), also of a message that was cancelled or completed before, with the
\* text it had so far or another in its place.
Complete(m, text) ==
  /\ Live(m) /\ LiveConv(rows[m].conv)
  /\ rows' = [rows EXCEPT ![m].closed = "completed", ![m].text = text]
  /\ index' = IF m \in Indexed
       THEN Drop({m}) \cup Entry(m, rows[m].conv, conv[rows[m].conv].project, text)
       ELSE index
  /\ UNCHANGED <<conv, walk>>

\* cancel_turn() closes what is open, and adds a note.
CancelTurn(c, m) ==
  /\ LiveConv(c) /\ NewMessage(m) /\ m \in Indexed /\ NextNo(c) <= MaxNo
  /\ rows' = [n \in DOMAIN rows \cup {m} |->
       IF n = m THEN NewRow(c, 1, "completed")
       ELSE IF n \in LiveRows(c) /\ rows[n].closed = "open"
         THEN [rows[n] EXCEPT !.closed = "late"] ELSE rows[n]]
  /\ index' = index \cup Entry(m, c, conv[c].project, 1)
  /\ UNCHANGED <<conv, walk>>

SoftDelete(M, s) ==
  [m \in DOMAIN rows |-> IF m \in M THEN [rows[m] EXCEPT !.deleted = s] ELSE rows[m]]

\* Both delete_message() and reset_conversation() end here.
Remove(M, s) ==
  /\ NewStamp(s)
  /\ rows' = SoftDelete(M, s)
  /\ index' = Drop(M)
  /\ Owe(rows')
  /\ UNCHANGED conv

DeleteMessage(m, s) == Live(m) /\ LiveConv(rows[m].conv) /\ Remove({m}, s)

ResetConversation(c, s) == LiveConv(c) /\ LiveRows(c) # {} /\ Remove(LiveRows(c), s)

-----------------------------------------------------------------------------
(* TreeService, as far as it carries messages along. *)

CreateConversation(c, p) ==
  /\ c \notin DOMAIN conv
  /\ conv' = [d \in DOMAIN conv \cup {c} |->
       IF d = c THEN [project |-> p, deleted |-> None, took |-> {}] ELSE conv[d]]
  /\ UNCHANGED <<rows, index, walk>>

MoveConversation(c, p) ==
  /\ LiveConv(c) /\ p # conv[c].project
  /\ conv' = [conv EXCEPT ![c].project = p]
  /\ index' = Reindex(c, p, rows)
  /\ UNCHANGED <<rows, walk>>

\* Every way to copy the messages M to new ids that keep their roles.
Copies(M) ==
  {f \in [M -> {m \in Messages : NewMessage(m)}] :
     \A m, n \in M : (f[m] = f[n] => m = n) /\ (m \in Indexed <=> f[m] \in Indexed)}

\* fork_conversation() with _copy_transcript(): live messages only, numbered from
\* 1, and a note after them.
ForkConversation(c, d, note) ==
  LET source == LiveRows(c)
      Place(m) == Cardinality({n \in source : rows[n].no <= rows[m].no})
      p == conv[c].project
  IN
  /\ LiveConv(c) /\ d \notin DOMAIN conv /\ NewMessage(note) /\ note \in Indexed
  /\ Cardinality(source) < MaxNo
  /\ \E f \in Copies(source) :
       LET copy == {f[m] : m \in source}
           From(n) == CHOOSE m \in source : f[m] = n
       IN
       /\ note \notin copy
       /\ rows' = [n \in DOMAIN rows \cup copy \cup {note} |->
            IF n \in DOMAIN rows THEN rows[n]
            ELSE IF n \in copy
              THEN [rows[From(n)] EXCEPT !.conv = d, !.no = Place(From(n)),
                     !.closed = IF @ = "open" THEN @ ELSE "completed"]
              ELSE [NewRow(d, 1, "open") EXCEPT !.no = Cardinality(source) + 1]]
  /\ conv' = [e \in DOMAIN conv \cup {d} |->
       IF e = d THEN [project |-> p, deleted |-> None, took |-> {}] ELSE conv[e]]
  /\ index' = Reindex(d, p, rows')
  /\ UNCHANGED walk

\* Faulty variant: the messages deleted before get the new stamp, too.
StampAll(c) == RowsOf(c)

\* What conversations.soft_delete() marks.
Stamped(c) == LiveRows(c)

DeleteConversation(c, s) ==
  /\ LiveConv(c) /\ NewStamp(s)
  /\ conv' = [conv EXCEPT ![c].deleted = s, ![c].took = LiveRows(c)]
  /\ rows' = SoftDelete(Stamped(c), s)
  /\ index' = Drop(LiveRows(c))
  /\ Owe(rows')

RestoreConversation(c) ==
  /\ c \in DOMAIN conv /\ ~LiveConv(c)
  /\ rows' = [m \in DOMAIN rows |->
       IF rows[m].conv = c /\ rows[m].deleted = conv[c].deleted
         THEN [rows[m] EXCEPT !.deleted = None] ELSE rows[m]]
  /\ conv' = [conv EXCEPT ![c].deleted = None, ![c].took = {}]
  /\ index' = Reindex(c, conv[c].project, rows')
  /\ UNCHANGED walk

\* purge_deleted(): whatever was deleted at the times in `old`.
Purge(old) ==
  LET gone == {c \in DOMAIN conv : conv[c].deleted \in old}
      dead == {m \in DOMAIN rows : rows[m].deleted \in old \/ rows[m].conv \in gone}
  IN
  /\ gone # {} \/ dead # {}
  /\ conv' = [c \in DOMAIN conv \ gone |-> conv[c]]
  /\ rows' = [m \in DOMAIN rows \ dead |-> rows[m]]
  /\ index' = Drop(dead)
  /\ UNCHANGED walk

-----------------------------------------------------------------------------
(* search(), list_messages() and iter_messages() *)

\* search_messages() over the projects P the caller may read: entries that match,
\* as long as the message and its conversation are live.
Found(P) ==
  {e \in index : e.project \in P /\ Live(e.message) /\ LiveConv(rows[e.message].conv)}

\* Faulty variant: deleted messages are left out after the limit.
PageThenFilter(c) ==
  LET rest == {m \in RowsOf(c) : rows[m].no > walk.after}
  IN  {m \in rest : Cardinality({n \in rest : rows[n].no < rows[m].no}) < PageSize} \cap LiveRows(c)

\* list_page(): the first live messages after the cursor.
Page(c) ==
  LET rest == {m \in LiveRows(c) : rows[m].no > walk.after}
  IN  {m \in rest : Cardinality({n \in rest : rows[n].no < rows[m].no}) < PageSize}

StartWalk(c) ==
  /\ walk.at = "idle" /\ LiveConv(c)
  /\ walk' = [at |-> "reading", conv |-> c, after |-> 0, due |-> LiveRows(c)]
  /\ UNCHANGED <<conv, rows, index>>

\* One page; a short one is the last.
ReadPage ==
  /\ walk.at = "reading" /\ LiveConv(walk.conv)
  /\ LET page == Page(walk.conv) IN
       walk' = IF Cardinality(page) = PageSize
         THEN [walk EXCEPT !.due = @ \ page, !.after = Max({rows[m].no : m \in page})]
         ELSE [at |-> IF walk.due \subseteq page THEN "idle" ELSE "short"]
  /\ UNCHANGED <<conv, rows, index>>

\* The conversation is not found any more, or the client stops.
StopWalk ==
  /\ walk.at = "reading"
  /\ walk' = Idle
  /\ UNCHANGED <<conv, rows, index>>

-----------------------------------------------------------------------------

\* The routes under /conversations/{id}/messages and /messages.
MessageRequest ==
  \/ \E c \in Conversations, m \in Messages :
       \/ \E text \in 0..MaxText, closed \in {"open", "completed"} :
            AppendMessage(c, m, text, closed)
       \/ CancelTurn(c, m)
  \/ \E m \in Messages :
       \/ AppendDelta(m)
       \/ \E text \in 0..MaxText : Complete(m, text)
       \/ \E s \in Stamps : DeleteMessage(m, s)

\* The routes under /conversations.
ConversationRequest ==
  \E c \in Conversations :
    \/ \E p \in Projects : CreateConversation(c, p) \/ MoveConversation(c, p)
    \/ \E d \in Conversations, m \in Messages : ForkConversation(c, d, m)
    \/ \E s \in Stamps : ResetConversation(c, s) \/ DeleteConversation(c, s)
    \/ RestoreConversation(c)

Init ==
  /\ conv = [c \in {} |-> Idle] /\ rows = [m \in {} |-> Idle]
  /\ index = {} /\ walk = Idle

Next ==
  \/ MessageRequest
  \/ ConversationRequest
  \/ \E old \in SUBSET Stamps : Purge(old)
  \/ (\E c \in Conversations : StartWalk(c)) \/ ReadPage \/ StopWalk

Spec == Init /\ [][Next]_vars

-----------------------------------------------------------------------------
(* Properties *)

\* The index holds nothing that is gone.  A search of the projects somebody may
\* read finds nothing outside of them, wherever its conversation has been moved,
\* and every message of an indexed role in them with the text it was completed
\* with, unless something was appended to it afterwards.  (A message whose turn was
\* cancelled keeps the entry it had.)
IndexIsTrue ==
  /\ index = Found(Projects)
  /\ \A P \in SUBSET Projects :
       /\ \A e \in Found(P) : e.conv = rows[e.message].conv /\ conv[e.conv].project \in P
       /\ \A m \in DOMAIN rows \cap Indexed :
            (Live(m) /\ LiveConv(rows[m].conv) /\ conv[rows[m].conv].project \in P
             /\ rows[m].closed = "completed")
              => {e.text : e \in {f \in Found(P) : f.message = m}} = {rows[m].text} \ {0}

\* What is written to a conversation indexes the indexed roles alone.  Tool output
\* does get into the index, but only where a conversation is moved, forked or
\* restored: reindex_conversation() does not look at the roles.
OtherRolesAreCarriedIn == \A e \in index' \ index : e.message \in Indexed \/ conv' # conv

\* Through appends, deltas, completions with and without a text, cancellations,
\* deletions, resets, forks, moves, restores and purges the index says what the
\* transcripts say, to those who may read them.
SearchFollowsTranscript == [][IndexIsTrue' /\ OtherRolesAreCarriedIn]_vars

\* A client that walks a transcript to its end was given every message that was
\* there all the time, whatever was appended, deleted, restored or purged between
\* its pages.
PagesMissNothing == walk.at # "short"

\* Restoring a conversation brings back the messages its deletion took, and no
\* message that was deleted or reset away before.
RestoreIsExact ==
  \A c \in DOMAIN conv : ~LiveConv(c) =>
    {m \in RowsOf(c) : rows[m].deleted = conv[c].deleted} = conv[c].took

=============================================================================
