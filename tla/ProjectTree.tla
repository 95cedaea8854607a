---------------------------- MODULE ProjectTree ----------------------------
(***************************************************************************)
(* The shared tree of projects and conversations kept by the service:      *)
(* TreeService (services/tree.py), the permission rules it calls           *)
(* (services/access.py), the rows it writes (repositories/projects.py and  *)
(* conversations.py), the two search indexes it keeps beside them          *)
(* (repositories/search.py) and the permanent purge of old deleted rows    *)
(* (services/maintenance.py).                                              *)
(*                                                                         *)
(* Every operation runs as one job of the single writer, so every handler  *)
(* is one action: its checks are conjuncts, a refused call changes nothing *)
(* and is no step.  Sort keys, settings, revisions and messages live in    *)
(* other tables or columns and are left out; is_expanded is presentation.  *)
(***************************************************************************)
EXTENDS Integers, FiniteSets

CONSTANTS
  Projects,        \* project ids new_id() may hand out
  Conversations,   \* conversation ids new_id() may hand out
  Users,           \* accounts
  Role,            \* Role[u]: "admin", "member" or "viewer"
  Names,           \* display names
  PyFold,          \* PyFold[n]: the name as str.lower() folds it
  SqlFold,         \* SqlFold[n]: the name as COLLATE NOCASE folds it
  Root,            \* the NULL parent_id of a top-level project
  Grantable,       \* bound: the permissions users grant to each other
  MaxDepth,        \* projects.MAX_DEPTH, where the recursive queries and walks end
  ClockSteps,      \* how far the wall clock may move between two deletions
  MaxClock         \* bound on the clock

Nodes == Projects \cup Conversations

Permissions == {"none", "viewer", "editor", "owner"}

(***************************************************************************)
(* MAX_DEPTH is 200 in the code.  NOCASE folds ASCII only, so it never     *)
(* equates two names that lower() keeps apart.                             *)
(***************************************************************************)
ASSUME IdAssumption == Projects \cap Conversations = {} /\ Root \notin Nodes
ASSUME RoleAssumption == Role \in [Users -> {"admin", "member", "viewer"}]
ASSUME FoldAssumption ==
  Names # {} /\ \A m, n \in Names : SqlFold[m] = SqlFold[n] => PyFold[m] = PyFold[n]
ASSUME GrantAssumption == Grantable \subseteq Permissions
ASSUME DepthAssumption == MaxDepth \in Nat
ASSUME ClockAssumption == ClockSteps \subseteq Nat /\ MaxClock \in Nat

VARIABLES
  fresh,        \* ids not handed out yet
  rows,         \* ids with a row in the table, live or soft-deleted
  up,           \* parent_id of a project, project_id of a conversation
  label,        \* the name column
  deletedAt,    \* deleted_at_ms, 0 for NULL
  grants,       \* project_memberships: project -> user -> permission
  projectIndex,        \* project_fts: <<project, name>>
  conversationIndex,   \* conversation_fts: <<conversation, project, name>>
  clock,        \* the last timestamp ids.now_ms() gave a deletion
  cause         \* history: the node whose deletion removed this row

vars == <<fresh, rows, up, label, deletedAt, grants, projectIndex,
          conversationIndex, clock, cause>>

TypeOK ==
  /\ fresh \in SUBSET Nodes
  /\ rows \in SUBSET (Nodes \ fresh)
  /\ up \in [Nodes -> Projects \cup {Root}]
  /\ label \in [Nodes -> Names]
  /\ deletedAt \in [Nodes -> Nat]
  /\ grants \in [Projects -> [Users -> Permissions]]
  /\ projectIndex \in SUBSET (Projects \X Names)
  /\ conversationIndex \in SUBSET (Conversations \X Projects \X Names)
  /\ clock \in Nat
  /\ cause \in [Nodes -> Nodes \cup {Root}]

-----------------------------------------------------------------------------
(* Reading the tables. *)

Live(n) == n \in rows /\ deletedAt[n] = 0

LiveNodes == {n \in rows : deletedAt[n] = 0}

\* Faulty variant: a restore that takes any timestamp for the deletion's own.
AnyDeleted(t) == {n \in rows : deletedAt[n] # 0}

StampedAt(t) == {n \in rows : deletedAt[n] = t}

\* Faulty variant: the children only, not what is below them.
OneLevelBelow(p, Q) == {n \in Q \cup {p} : n = p \/ up[n] = p}

\* The recursive common table expression: p, the projects of Q whose parents it
\* found before, as many levels as it goes down; then the conversations of Q in
\* what was found.
Below(p, Q) ==
  LET found[d \in 0..MaxDepth] ==
        IF d = 0 THEN {p}
        ELSE found[d - 1] \cup {q \in Q \cap Projects : up[q] \in found[d - 1]}
  IN found[MaxDepth] \cup {c \in Q \cap Conversations : up[c] \in found[MaxDepth]}

\* Faulty variant: a check for new rows only, skipped by moves and restores.
NameTakenForNew(K, q, n, self) ==
  self \notin rows /\ \E m \in K : Live(m) /\ up[m] = q /\ SqlFold[label[m]] = SqlFold[n]

NameTaken(K, q, n, self) ==
  \E m \in K \ {self} : Live(m) /\ up[m] = q /\ SqlFold[label[m]] = SqlFold[n]

-----------------------------------------------------------------------------
(* Who may do what (services/access.py). *)

Cap(u, permission) ==
  IF Role[u] = "viewer" /\ permission # "none" THEN "viewer" ELSE permission

\* Faulty variant: a walk that never leaves the project itself.
OwnGrant(u, p) == grants[p][u]

\* The walk towards the root: the first membership this user has, through
\* deleted ancestors too.
NearestGrant(u, p) ==
  LET walk[d \in 0..MaxDepth] ==
        [q \in Projects \cup {Root} |->
           IF d = 0 \/ q \notin rows THEN "none"
           ELSE IF grants[q][u] # "none" THEN grants[q][u]
           ELSE walk[d - 1][up[q]]]
  IN walk[MaxDepth][p]

PermissionFor(u, p) ==
  IF ~Live(p) THEN "none"
  ELSE IF Role[u] = "admin" THEN "owner" ELSE Cap(u, NearestGrant(u, p))

\* The pass from the root downwards over live rows, behind the tree listing
\* and every search filter.
VisibleProjects(u) ==
  LET level[d \in 0..MaxDepth] ==
        IF d = 0
        THEN [p \in {q \in Projects : Live(q) /\ up[q] = Root} |-> grants[p][u]]
        ELSE [p \in {q \in Projects : Live(q) /\ up[q] \in DOMAIN level[d - 1]} |->
                IF grants[p][u] # "none" THEN grants[p][u]
                ELSE level[d - 1][up[p]]]
  IN IF Role[u] = "admin" THEN [p \in Projects \cap LiveNodes |-> "owner"]
     ELSE [p \in UNION {DOMAIN level[d] : d \in 0..MaxDepth} |->
             Cap(u, level[CHOOSE d \in 0..MaxDepth : p \in DOMAIN level[d]][p])]

CanWrite(u, p) == PermissionFor(u, p) \in {"owner", "editor"}

\* Faulty variant: an admin is let through before the parent is looked up.
AdminPlacesAnywhere(u, q) == Role[u] = "admin" \/ CanWrite(u, q)

\* Write access to the place a project goes: only an admin writes at the top.
CanPlaceUnder(u, q) == IF q = Root THEN Role[u] = "admin" ELSE CanWrite(u, q)

-----------------------------------------------------------------------------
(* Keeping the indexes: delete the old entry, then insert the new one. *)

DropProjects(S) == {e \in projectIndex : e[1] \notin S}

\* Faulty variant: an insert into the index without deleting the old entry.
KeepConversations(S) == conversationIndex

DropConversations(S) == {e \in conversationIndex : e[1] \notin S}

-----------------------------------------------------------------------------
(* Projects. *)

CreateProject(u, p, q, n) ==
  /\ p \in fresh
  /\ CanPlaceUnder(u, q)
  /\ ~NameTaken(Projects, q, n, p)
  /\ fresh' = fresh \ {p}
  /\ rows' = rows \cup {p}
  /\ up' = [up EXCEPT ![p] = q]
  /\ label' = [label EXCEPT ![p] = n]
  /\ grants' = [grants EXCEPT ![p] = [@ EXCEPT ![u] = "owner"]]
  /\ projectIndex' = DropProjects({p}) \cup {<<p, n>>}
  /\ UNCHANGED <<deletedAt, conversationIndex, clock, cause>>

\* The sibling check is skipped when only the case of the name changes.
RenameProject(u, p, n) ==
  /\ CanWrite(u, p)
  /\ PyFold[n] # PyFold[label[p]] => ~NameTaken(Projects, up[p], n, Root)
  /\ label' = [label EXCEPT ![p] = n]
  /\ projectIndex' = DropProjects({p}) \cup {<<p, n>>}
  /\ UNCHANGED <<fresh, rows, up, deletedAt, grants, conversationIndex, clock, cause>>

MoveProject(u, p, q) ==
  /\ CanWrite(u, p)
  /\ CanPlaceUnder(u, q)
  /\ q \notin Below(p, rows \cap Projects)
  /\ ~NameTaken(Projects, q, label[p], p)
  /\ up' = [up EXCEPT ![p] = q]
  /\ UNCHANGED <<fresh, rows, label, deletedAt, grants, projectIndex,
                 conversationIndex, clock, cause>>

\* One timestamp for every row a deletion touches.
SoftDelete(S, n) ==
  \E s \in ClockSteps :
    /\ clock + s <= MaxClock
    /\ clock' = clock + s
    /\ deletedAt' = [m \in Nodes |-> IF m \in S THEN clock + s ELSE deletedAt[m]]
    /\ cause' = [m \in Nodes |-> IF m \in S THEN n ELSE cause[m]]
    /\ projectIndex' = DropProjects(S)
    /\ conversationIndex' = DropConversations(S)
    /\ UNCHANGED <<fresh, rows, up, label, grants>>

DeleteProject(u, p) ==
  /\ CanWrite(u, p)
  /\ SoftDelete(Below(p, LiveNodes), p)

\* Clear the timestamp of the rows in S and put them back into the indexes.
Restore(S) ==
  /\ deletedAt' = [m \in Nodes |-> IF m \in S THEN 0 ELSE deletedAt[m]]
  /\ cause' = [m \in Nodes |-> IF m \in S THEN Root ELSE cause[m]]
  /\ projectIndex' = DropProjects(S) \cup {<<p, label[p]>> : p \in S \cap Projects}
  /\ conversationIndex' =
       DropConversations(S) \cup {<<c, up[c], label[c]>> : c \in S \cap Conversations}
  /\ UNCHANGED <<fresh, rows, up, label, grants, clock>>

RestoreProject(u, p) ==
  /\ p \in rows
  /\ deletedAt[p] # 0
  /\ CanPlaceUnder(u, up[p])
  /\ ~NameTaken(Projects, up[p], label[p], p)
  /\ Restore(Below(p, StampedAt(deletedAt[p])))

-----------------------------------------------------------------------------
(* Memberships. *)

SetGrant(u, p, v, permission) ==
  /\ PermissionFor(u, p) = "owner"
  /\ grants' = [grants EXCEPT ![p] = [@ EXCEPT ![v] = permission]]
  /\ UNCHANGED <<fresh, rows, up, label, deletedAt, projectIndex,
                 conversationIndex, clock, cause>>

Grant(u, p, v, permission) == permission # "none" /\ SetGrant(u, p, v, permission)

Revoke(u, p, v) == SetGrant(u, p, v, "none")

-----------------------------------------------------------------------------
(* Conversations. *)

\* The row insert shared by a new conversation and by a fork.
InsertConversation(c, q, n) ==
  /\ c \in fresh
  /\ ~NameTaken(Conversations, q, n, c)
  /\ fresh' = fresh \ {c}
  /\ rows' = rows \cup {c}
  /\ up' = [up EXCEPT ![c] = q]
  /\ label' = [label EXCEPT ![c] = n]
  /\ conversationIndex' = DropConversations({c}) \cup {<<c, q, n>>}
  /\ UNCHANGED <<deletedAt, grants, projectIndex, clock, cause>>

\* A typed name that is taken is refused; a generated one is numbered until
\* it is free, so both end in some free name.
CreateConversation(u, c, q, n) == CanWrite(u, q) /\ InsertConversation(c, q, n)

\* The fork lands beside its source under a generated name.
ForkConversation(u, source, c, n) ==
  /\ Live(source)
  /\ CanWrite(u, up[source])
  /\ InsertConversation(c, up[source], n)

RenameConversation(u, c, n) ==
  /\ Live(c)
  /\ CanWrite(u, up[c])
  /\ PyFold[n] # PyFold[label[c]] => ~NameTaken(Conversations, up[c], n, c)
  /\ label' = [label EXCEPT ![c] = n]
  /\ conversationIndex' = DropConversations({c}) \cup {<<c, up[c], n>>}
  /\ UNCHANGED <<fresh, rows, up, deletedAt, grants, projectIndex, clock, cause>>

MoveConversation(u, c, q) ==
  /\ Live(c)
  /\ CanWrite(u, up[c])
  /\ CanWrite(u, q)
  /\ ~NameTaken(Conversations, q, label[c], c)
  /\ up' = [up EXCEPT ![c] = q]
  /\ conversationIndex' = DropConversations({c}) \cup {<<c, q, label[c]>>}
  /\ UNCHANGED <<fresh, rows, label, deletedAt, grants, projectIndex, clock, cause>>

DeleteConversation(u, c) ==
  /\ Live(c)
  /\ CanWrite(u, up[c])
  /\ SoftDelete({c}, c)

RestoreConversation(u, c) ==
  /\ c \in rows
  /\ deletedAt[c] # 0
  /\ CanWrite(u, up[c])
  /\ ~NameTaken(Conversations, up[c], label[c], c)
  /\ Restore({c})

-----------------------------------------------------------------------------
(* Permanent purge: rows deleted at or before the cutoff go for good. *)

PurgeDeleted(u, cutoff) ==
  /\ Role[u] = "admin"
  /\ LET gone == {n \in rows : deletedAt[n] \in 1..cutoff} IN
       /\ gone # {}
       /\ rows' = rows \ gone
       /\ grants' = [p \in Projects |->
                       IF p \in gone THEN [v \in Users |-> "none"] ELSE grants[p]]
       /\ projectIndex' = DropProjects(gone)
       /\ conversationIndex' = DropConversations(gone)
  /\ UNCHANGED <<fresh, up, label, deletedAt, clock, cause>>

-----------------------------------------------------------------------------
\* An empty workspace; columns of ids not handed out hold arbitrary values.
Init ==
  /\ fresh = Nodes
  /\ rows = {}
  /\ up = [n \in Nodes |-> Root]
  /\ label \in [Nodes -> {CHOOSE n \in Names : TRUE}]
  /\ deletedAt = [n \in Nodes |-> 0]
  /\ grants = [p \in Projects |-> [u \in Users |-> "none"]]
  /\ projectIndex = {}
  /\ conversationIndex = {}
  /\ clock = 1
  /\ cause = [n \in Nodes |-> Root]

ProjectStep(u) ==
  \E p \in Projects :
    \/ \E q \in Projects \cup {Root}, n \in Names : CreateProject(u, p, q, n)
    \/ \E n \in Names : RenameProject(u, p, n)
    \/ \E q \in Projects \cup {Root} : MoveProject(u, p, q)
    \/ DeleteProject(u, p)
    \/ RestoreProject(u, p)

MembershipStep(u) ==
  \E p \in Projects, v \in Users :
    \/ \E permission \in Grantable : Grant(u, p, v, permission)
    \/ Revoke(u, p, v)

ConversationStep(u) ==
  \E c \in Conversations :
    \/ \E q \in Projects, n \in Names : CreateConversation(u, c, q, n)
    \/ \E s \in Conversations, n \in Names : ForkConversation(u, s, c, n)
    \/ \E n \in Names : RenameConversation(u, c, n)
    \/ \E q \in Projects : MoveConversation(u, c, q)
    \/ DeleteConversation(u, c)
    \/ RestoreConversation(u, c)

Next ==
  \E u \in Users :
    \/ ProjectStep(u)
    \/ MembershipStep(u)
    \/ ConversationStep(u)
    \/ \E cutoff \in 1..clock : PurgeDeleted(u, cutoff)

Spec == Init /\ [][Next]_vars

-----------------------------------------------------------------------------
(* Properties. *)

\* Whatever sequence of creates, moves, deletions, restores and purges ran,
\* a live row hangs under a live project: otherwise the tree listing would
\* drop it and no permission walk could be trusted.
LiveUnderLive ==
  \A n \in LiveNodes : Live(up[n]) \/ (n \in Projects /\ up[n] = Root)

\* No set of rows is its own ancestry: from every project, deleted or not,
\* following parent_id leads out to the top level.
Acyclic ==
  \A S \in SUBSET (rows \cap Projects) : S # {} => \E p \in S : up[p] \notin S

\* parent_id and project_id always name a row, so the deepest-first purge
\* never trips over a foreign key.
ForeignKeysHold == \A n \in rows : up[n] \in rows \cup {Root}

\* The services' own checks keep live sibling names apart, so the unique
\* indexes uq_projects_live_sibling_name and uq_conversations_live_project_name
\* are never what stops a transaction (their IntegrityError has no handler).
SiblingNamesUnique ==
  \A K \in {Projects, Conversations} : \A m, n \in K \cap LiveNodes :
    m # n /\ up[m] = up[n] => SqlFold[label[m]] # SqlFold[label[n]]

\* Restoring the root of a deletion brings back exactly the rows that this
\* one deletion removed: a child deleted earlier on its own stays deleted.
RestoreUndoesOneDelete ==
  \A p \in Projects \cap rows :
    deletedAt[p] # 0 /\ cause[p] = p =>
      Below(p, StampedAt(deletedAt[p])) = {n \in rows : cause[n] = p}

\* The search indexes are a mirror of the live rows, with the project each
\* conversation belongs to now: search filters by that project id.
IndexMirrorsRows ==
  /\ projectIndex = {<<p, label[p]>> : p \in Projects \cap LiveNodes}
  /\ conversationIndex = {<<c, up[c], label[c]>> : c \in Conversations \cap LiveNodes}

\* The listing's downward pass and the upward walk that guards every handler
\* give every user the same permission on every live project.
ListingMatchesWalk ==
  \A u \in Users : \A p \in Projects \cap LiveNodes :
    PermissionFor(u, p) = IF p \in DOMAIN VisibleProjects(u)
                          THEN VisibleProjects(u)[p] ELSE "none"

=============================================================================
