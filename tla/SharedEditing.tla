---------------------------- MODULE SharedEditing ---------------------------
(***************************************************************************)
(* Several desktops edit one shared tree: RemoteWorkspace in client_api.py *)
(* keeps a copy of the tree with the revision of every node and sends the  *)
(* revision along with an edit, the routes of server/api.py hand it to     *)
(* services/tree.py, and the UPDATE of the repositories refuses the edit   *)
(* when the row has another one.                                           *)
(*                                                                         *)
(* A desktop makes one call at a time and waits for its answer, at most    *)
(* for its timeout: a request it has given up on may still be served, or   *)
(* be lost.  A node's name stands for whatever update_project() and        *)
(* update_conversation() change.  Permissions and names already taken are  *)
(* ProjectTree's subject: here a request may be refused for any such       *)
(* reason.  A deletion is named after the node it was asked for, as no two *)
(* deletions of a node are undone at once.  Messages, sort keys and tree   *)
(* expansion (no revision guards them) and what a desktop keeps on its own *)
(* computer are left out.                                                  *)
(***************************************************************************)
EXTENDS Naturals, FiniteSets

CONSTANTS
  Clients,   \* desktops
  Nodes,     \* ids of projects and conversations
  Folders,   \* those of them that are projects
  MaxDepth,  \* MAX_DEPTH
  Names,     \* names and options
  Sessions,  \* ids of agent sessions
  None,      \* no session, no parent, no deletion, the sender of a request given up on
  MaxRev,    \* bound: revisions of each node, of which a restoration may use one more
  MaxLate    \* bound: requests given up on and still under way

ASSUME NoneAssumption == None \notin Sessions \cup Clients \cup Nodes
ASSUME FoldersAssumption == Folders \subseteq Nodes
ASSUME BoundsAssumption == MaxRev \in [Nodes -> Nat] /\ {MaxDepth, MaxLate} \subseteq Nat

VARIABLES
  row,    \* projects and conversations of the server
  cache,  \* each desktop's copy of the live ones
  call,   \* what each desktop is waiting for
  wire    \* requests under way

sharedVars == <<row, cache, call, wire>>

Idle == [at |-> "idle"]
Facts == [name : Names, place : Folders \cup {None}, codex : Sessions \cup {None},
          claude : Sessions \cup {None}]
Rows == [rev : Nat \ {0}, deleted : Nodes \cup {None}, facts : Facts]
Copies == [rev : Nat \ {0}, facts : Facts, thread : Sessions \cup {None}]

SharedTypeOK ==
  /\ DOMAIN row \subseteq Nodes /\ \A n \in DOMAIN row : row[n] \in Rows
  /\ \A c \in Clients :
       /\ DOMAIN cache[c] \subseteq Nodes
       /\ \A n \in DOMAIN cache[c] : cache[c][n] \in Copies
  /\ \A c \in Clients : call[c].at \in {"idle", "waiting", "answered", "reading", "read"}
  /\ \A r \in wire : r.from \in Clients \cup {None} /\ r.node \in Nodes

With(f, n, value) == [m \in DOMAIN f \cup {n} |-> IF m = n THEN value ELSE f[m]]
LiveRow(n) == n \in DOMAIN row /\ row[n].deleted = None

\* What the server says of a node, and what a desktop has of it.
Version(x) == [rev |-> x.rev, facts |-> x.facts]
Tree == [n \in {m \in DOMAIN row : LiveRow(m)} |-> Version(row[n])]

\* The requests that send a revision.
Guarded == {"update", "move", "delete"}

-----------------------------------------------------------------------------
(* RemoteWorkspace and WorkspaceClient *)

\* _request().  `seen` is history: the copy the desktop had of the node.
Send(c, op, n, arg) ==
  LET request == [from |-> c, op |-> op, node |-> n, arg |-> arg,
                  seen |-> IF op \in Guarded THEN Version(cache[c][n]) ELSE None]
  IN
  /\ call[c].at = "idle"
  /\ call' = [call EXCEPT ![c] = [at |-> "waiting"]]
  /\ wire' = wire \cup {request}
  /\ UNCHANGED <<row, cache>>

\* rename(), and set_option() of what is shared.
Update(c, n, name) == n \in DOMAIN cache[c] /\ Send(c, "update", n, name)

\* A place a desktop can offer.
Offered(c, n, place) ==
  \/ place \in Folders \cap DOMAIN cache[c]
  \/ place = None /\ n \in Folders

Move(c, n, place) == n \in DOMAIN cache[c] /\ Offered(c, n, place) /\ Send(c, "move", n, place)

Delete(c, n) == n \in DOMAIN cache[c] /\ Send(c, "delete", n, None)

\* set_thread_id() sends the other session of the copy along.
SetThread(c, n, codex) ==
  /\ n \in DOMAIN cache[c] \ Folders
  /\ Send(c, "session", n, [codex |-> codex, claude |-> cache[c][n].facts.claude])

\* set_claude_session_id() sends the thread the conversation goes on with.
SetClaude(c, n, claude) ==
  /\ n \in DOMAIN cache[c] \ Folders
  /\ Send(c, "session", n, [codex |-> cache[c][n].thread, claude |-> claude])

\* clear_thread()
ClearThread(c, n) == n \in DOMAIN cache[c] \ Folders /\ Send(c, "reset", n, None)

\* add_project(), add_conversation() and fork_conversation(), under an id the
\* server will choose.
Add(c, n, name, place) ==
  /\ Offered(c, n, place) /\ n \notin DOMAIN row /\ \A r \in wire : r.node # n
  /\ \A d \in Clients : n \notin DOMAIN cache[d]
  /\ Send(c, "create", n, [name |-> name, place |-> place])

\* refresh(), at start-up, after the operations that end with it, and on demand.
Refresh(c) ==
  /\ call[c].at = "idle"
  /\ call' = [call EXCEPT ![c] = [at |-> "reading"]]
  /\ UNCHANGED <<row, cache, wire>>

\* _normalise_conversation(): a copy goes on with the thread of its row.
NormalisedRow(v) == [rev |-> v.rev, facts |-> v.facts, thread |-> v.facts.codex]

\* The transcripts are fetched before the tree is put in place.
Install(c) ==
  /\ call[c].at = "read"
  /\ cache' = [cache EXCEPT ![c] = [n \in DOMAIN call[c].tree |-> NormalisedRow(call[c].tree[n])]]
  /\ call' = [call EXCEPT ![c] = Idle]
  /\ UNCHANGED <<row, wire>>

\* node.update(): the fields of the returned row.  The thread the conversation goes
\* on with is none of them: it stays the one that was sent, or the one there was.
Merged(old, a) ==
  [rev |-> a.answer.rev, facts |-> a.answer.facts,
   thread |-> IF a.op = "session" THEN a.arg.codex ELSE old.thread]

\* The returned row of an update or a session is merged into the copy.
Finish(c) ==
  /\ call[c].at = "answered"
  /\ LET n == call[c].node IN
       cache' = [cache EXCEPT ![c] = With(@, n, Merged(@[n], call[c]))]
  /\ call' = [call EXCEPT ![c] = Idle]
  /\ UNCHANGED <<row, wire>>

\* The timeout, or the connection breaks: what was sent may still arrive.
GiveUp(c) ==
  /\ call[c].at # "idle"
  /\ LET mine == {r \in wire : r.from = c}
         late == {[r EXCEPT !.from = None] : r \in mine}
     IN  wire' \in {wire \ mine, (wire \ mine) \cup late}
  /\ Cardinality({r \in wire' : r.from = None}) <= MaxLate
  /\ call' = [call EXCEPT ![c] = Idle]
  /\ UNCHANGED <<row, cache>>

-----------------------------------------------------------------------------
(* The server *)

ServeTree(c) ==
  /\ call[c].at = "reading"
  /\ call' = [call EXCEPT ![c] = [at |-> "read", tree |-> Tree]]
  /\ UNCHANGED <<row, cache, wire>>

\* The answer reaches its sender, if that is still waiting: an error leaves the
\* copy as it is, and all but updates and sessions are followed by a refresh.
Answer(r, answer) ==
  /\ wire' = wire \ {r}
  /\ call' = IF r.from = None THEN call
       ELSE [call EXCEPT ![r.from] =
              IF answer = None THEN Idle
              ELSE IF r.op \in {"update", "session"}
                THEN [at |-> "answered", op |-> r.op, node |-> r.node, arg |-> r.arg,
                      answer |-> answer]
              ELSE [at |-> "reading"]]
  /\ UNCHANGED cache

\* Faulty variant: recording a session is no edit, and keeps the revision.
BumpEdits(r, facts) ==
  [row[r.node] EXCEPT !.rev = IF r.op = "session" THEN @ ELSE @ + 1, !.facts = facts]

\* The UPDATE of the repositories.
Bump(r, facts) == [row[r.node] EXCEPT !.rev = @ + 1, !.facts = facts]

Write(r, new) ==
  /\ new.rev <= MaxRev[r.node]
  /\ row' = With(row, r.node, new)
  /\ Answer(r, Version(new))

\* Faulty variant: a deletion needs no revision.
CurrentUnlessDeleted(r) == r.op = "delete" \/ r.seen.rev = row[r.node].rev

\* The revision clause: rowcount 0 otherwise, and _revision_conflict().
Current(r) == r.seen.rev = row[r.node].rev

\* The nodes of S in the subtree of n, n included: the projects MAX_DEPTH levels down
\* and the conversations in them (descendant_ids() and its callers).
Subtree(n, S) ==
  LET Sub[d \in 0..MaxDepth] ==
        IF d = 0 THEN {n}
        ELSE Sub[d - 1] \cup {p \in S \cap Folders : row[p].facts.place \in Sub[d - 1]}
  IN  {n} \cup {m \in S : (IF m \in Folders THEN m ELSE row[m].facts.place) \in Sub[MaxDepth]}

\* update_project() and update_conversation()
ServeUpdate(r) ==
  /\ r.op = "update" /\ LiveRow(r.node) /\ Current(r)
  /\ Write(r, Bump(r, [row[r.node].facts EXCEPT !.name = r.arg]))

\* move_project(), not to below itself, and move_conversation()
ServeMove(r) ==
  /\ r.op = "move" /\ LiveRow(r.node) /\ Current(r)
  /\ r.arg # None => LiveRow(r.arg) /\ r.arg \notin Subtree(r.node, DOMAIN row)
  /\ Write(r, Bump(r, [row[r.node].facts EXCEPT !.place = r.arg]))

\* The rows M get, or lose, the stamp of a deletion.
Stamp(M, s) ==
  row' = [m \in DOMAIN row |->
       IF m \in M THEN [row[m] EXCEPT !.rev = @ + 1, !.deleted = s] ELSE row[m]]

\* delete_conversation(), and delete_project(): what is live below goes along, its
\* revisions are not looked at.
ServeDelete(r) ==
  /\ r.op = "delete" /\ LiveRow(r.node) /\ Current(r)
  /\ LET taken == Subtree(r.node, {m \in DOMAIN row : LiveRow(m)}) IN
       /\ \A m \in taken : row[m].rev < MaxRev[m]
       /\ Stamp(taken, r.node)
  /\ Answer(r, Version(row[r.node]))

\* set_runner_state(), which no revision guards, takes what it is given.
ServeSession(r) ==
  LET facts == row[r.node].facts
      Given(id, old) == IF id = None THEN old ELSE id
  IN
  /\ r.op = "session" /\ LiveRow(r.node)
  /\ Write(r, Bump(r, [facts EXCEPT !.codex = Given(r.arg.codex, @),
                                    !.claude = Given(r.arg.claude, @)]))

\* reset_conversation()
ServeReset(r) ==
  /\ r.op = "reset" /\ LiveRow(r.node)
  /\ Write(r, Bump(r, [row[r.node].facts EXCEPT !.codex = None, !.claude = None]))

\* create_project(), create_conversation() and fork_conversation()
ServeCreate(r) ==
  /\ r.op = "create" /\ (r.arg.place # None => LiveRow(r.arg.place))
  /\ Write(r, [rev |-> 1, deleted |-> None,
               facts |-> [name |-> r.arg.name, place |-> r.arg.place,
                          codex |-> None, claude |-> None]])

\* A stale revision, a node that is gone, a name that is taken, a grant revoked.
Refuse(r) == Answer(r, None) /\ UNCHANGED row

\* restore_project() and restore_conversation(), by an administrator: what the
\* same deletion took comes back along.
Restore(n) ==
  /\ n \in DOMAIN row /\ ~LiveRow(n)
  /\ row[n].facts.place # None => LiveRow(row[n].facts.place)
  /\ LET taken == Subtree(n, {m \in DOMAIN row : row[m].deleted = row[n].deleted}) IN
       /\ \A m \in taken : row[m].rev <= MaxRev[m]
       /\ Stamp(taken, None)
  /\ UNCHANGED <<cache, call, wire>>

-----------------------------------------------------------------------------

ClientStep(c) ==
  \/ \E n \in Nodes :
       \/ \E name \in Names : Update(c, n, name)
       \/ \E name \in Names, place \in Folders \cup {None} : Add(c, n, name, place)
       \/ \E place \in Folders \cup {None} : Move(c, n, place)
       \/ \E s \in Sessions : SetThread(c, n, s) \/ SetClaude(c, n, s)
       \/ Delete(c, n) \/ ClearThread(c, n)
  \/ Refresh(c) \/ Install(c) \/ Finish(c) \/ GiveUp(c)

ServerStep ==
  \/ \E r \in wire :
       \/ ServeUpdate(r) \/ ServeMove(r) \/ ServeDelete(r)
       \/ ServeSession(r) \/ ServeReset(r) \/ ServeCreate(r) \/ Refuse(r)
  \/ \E c \in Clients : ServeTree(c)
  \/ \E n \in Nodes : Restore(n)

SharedInit ==
  /\ row = [n \in {} |-> Idle]
  /\ cache = [c \in Clients |-> [n \in {} |-> Idle]]
  /\ call = [c \in Clients |-> Idle]
  /\ wire = {}

SharedNext == (\E c \in Clients : ClientStep(c)) \/ ServerStep

SharedSpec == SharedInit /\ [][SharedNext]_sharedVars

-----------------------------------------------------------------------------
(* Properties *)

\* A desktop's copy of a node is the node as it once was, never ahead of the
\* server, and what it holds under the server's current revision is exactly what
\* the server holds: also after sessions recorded and conversations reset without
\* a revision, and after deletion and restoration.  The thread a conversation goes
\* on with is the one of the copy, or none: a session another desktop has recorded
\* arrives in the copy with a merge, but is gone on with only after a refresh.
CachesAreVersions ==
  \A c \in Clients : \A n \in DOMAIN cache[c] \cap DOMAIN row :
    /\ cache[c][n].rev <= row[n].rev
    /\ cache[c][n].rev = row[n].rev => cache[c][n].facts = row[n].facts
    /\ cache[c][n].thread \in {cache[c][n].facts.codex, None}

\* No edit is lost: an update, move or deletion replaces only what the desktop had
\* before it when the edit was sent, even when the request arrives after its
\* sender has given up on it, and anybody has edited since.  Only the deletion of
\* a project takes along what its author may not have seen, and that keeps what it
\* said, for a restoration.
EditsReplaceWhatWasSeen ==
  [][\A r \in wire \ wire' :
       r.op \in Guarded /\ row' # row =>
         /\ r.seen = Version(row[r.node])
         /\ \A m \in DOMAIN row \ {r.node} : row'[m] # row[m] =>
              /\ r.op = "delete" /\ r.node \in Folders /\ LiveRow(m)
              /\ row'[m].facts = row[m].facts /\ row'[m].deleted = r.node]_sharedVars

=============================================================================
