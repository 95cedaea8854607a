--------------------------- MODULE SharedSettings ---------------------------
(***************************************************************************)
(* Which directory and which agent a desktop in shared mode runs with.     *)
(* Both are choices of one computer: RemoteWorkspace in client_api.py      *)
(* keeps them in desktop.json and lays them over its copy of the shared    *)
(* tree, where an import may have left the directories of the computer it  *)
(* came from and every conversation has an agent kept for older clients.   *)
(*                                                                         *)
(* One desktop is followed; others rename and move things behind its back. *)
(* `doubtful' are the projects whose copy no longer says what was chosen   *)
(* here: node.update(updated) puts the server's row, directory included,   *)
(* over the choice, and taking a choice back hides the server's, both      *)
(* until the next refresh.  Deletion, the other inherited options (the     *)
(* server resolves them alone) and a desktop.json that cannot be written   *)
(* are left out; so is a restart, which reads the choices back and then    *)
(* is a refresh.                                                           *)
(***************************************************************************)
EXTENDS Naturals, SequencesExt

CONSTANTS
  Projects, Conversations,
  Dirs,           \* directories of this computer
  SharedDir,      \* a directory an import has stored with a project
  ServerDefault,  \* the directory of the server's own defaults
  Codex, Claude,
  Root, Unset,
  Missing,        \* not created yet, and no entry in desktop.json
  MaxSteps        \* bound: steps other than refreshes

Agents == {Codex, Claude}

ASSUME DistinctValues ==
  /\ Codex # Claude /\ Root # Unset /\ Missing \notin {Root, Unset}
  /\ {Root, Unset, Missing} \cap (Projects \cup Agents \cup Dirs \cup {SharedDir}) = {}

VARIABLES
  parent, shared,  \* server: place and stored directory of each project
  home, agentId,   \* server: project and stored agent of each conversation
  prefs,           \* desktop.json, "execution"
  view,            \* the desktop's copy of the tree
  stale,           \* changed by others since the last refresh
  doubtful,
  steps

server == <<parent, shared, home, agentId>>
settingsVars == <<server, prefs, view, stale, doubtful, steps>>

Step == steps < MaxSteps /\ steps' = steps + 1
Created == {p \in Projects : parent[p] # Missing}
Copied == {p \in Projects : view.parent[p] # Missing}
Talks == {c \in Conversations : view.home[c] # Missing}

-----------------------------------------------------------------------------
(* The server: services/tree.py *)

Ancestors[p \in Created \cup {Root}] ==
  IF p = Root THEN <<>> ELSE <<p>> \o Ancestors[parent[p]]

ServerResolve(p) ==
  LET i == SelectInSeq(Ancestors[p], LAMBDA q : shared[q] # Unset)
  IN  IF i = 0 THEN ServerDefault ELSE shared[Ancestors[p][i]]

CanMove(p, q) ==
  /\ parent[p] # Missing
  /\ q # Root => parent[q] # Missing /\ p \notin ToSet(Ancestors[q])

-----------------------------------------------------------------------------
(* What RemoteWorkspace reads *)

CachedChain[p \in Copied \cup {Root}] ==
  IF p = Root THEN <<>> ELSE <<p>> \o CachedChain[view.parent[p]]

(* resolve(): the nearest directory in the copy, then this computer's, and *)
(* only then what the server says. *)
Resolve(p, q) ==
  LET i == SelectInSeq(CachedChain[p], LAMBDA r : view.cwd[r] # Unset)
  IN  IF i # 0 THEN view.cwd[CachedChain[p][i]]
      ELSE IF prefs.wsCwd # Unset THEN prefs.wsCwd ELSE ServerResolve(q)

DirectoryOf(p) == Resolve(p, p)
ConversationDirectory(c) == Resolve(view.home[c], home[c])

ProjectAgent(p) ==
  LET i == SelectInSeq(CachedChain[p], LAMBDA q : view.agent[q] \in Agents)
  IN  IF i # 0 THEN view.agent[CachedChain[p][i]]
      ELSE IF prefs.wsAgent \in Agents THEN prefs.wsAgent ELSE Codex

ConversationAgent(c) ==
  IF prefs.pinned[c] = Missing THEN view.agentId[c]
  ELSE IF prefs.pinned[c] \in Agents THEN prefs.pinned[c]
  ELSE ProjectAgent(view.home[c])

ConversationAgentSource(c) ==
  IF prefs.pinned[c] # Unset THEN "conversation"
  ELSE IF \E q \in ToSet(CachedChain[view.home[c]]) : view.agent[q] \in Agents THEN "project"
  ELSE IF prefs.wsAgent \in Agents THEN "workspace" ELSE "default"

-----------------------------------------------------------------------------
(* What it does *)

(* Faulty variant: the server's directory stays. *)
NormalisedFromServer(dirs, agents, rows) == [cwd |-> rows, agent |-> agents]

(* _normalise_project(): a directory chosen here over the server's, the    *)
(* project's agent from here alone. *)
Normalised(dirs, agents, rows) ==
  [cwd |-> [p \in Projects |-> IF dirs[p] # Unset THEN dirs[p] ELSE rows[p]], agent |-> agents]

(* refresh(), as the end of an action that has set server and choices *)
Refreshed ==
  /\ LET n == Normalised(prefs'.cwd, prefs'.agent, shared')
     IN  view' = [parent |-> parent', cwd |-> n.cwd, agent |-> n.agent,
                   home |-> home', agentId |-> agentId']
  /\ stale' = {} /\ doubtful' = {}

RefreshTree == UNCHANGED <<server, prefs, steps>> /\ Refreshed

(* rename(), and set_option() of what is shared: the answer is the row as  *)
(* the server keeps it. *)
Overwritten(p, copy) == [copy EXCEPT !.cwd[p] = shared[p]]

RenameProject(p) ==
  /\ Step /\ p \in Copied \ stale
  /\ view' = Overwritten(p, view) /\ doubtful' = doubtful \cup {p}
  /\ UNCHANGED <<server, prefs, stale>>

(* set_option() of a directory or an agent *)
Chosen(p, dir, a) == [prefs EXCEPT !.cwd[p] = dir, !.agent[p] = a]
Shown(p, dir, a) == [view EXCEPT !.cwd[p] = dir, !.agent[p] = a]

(* ProjectView.save(): the directory, the agent and then the shared        *)
(* options, the first of which is refused if the project was changed by    *)
(* others. *)
SaveProject(p, dir, a) ==
  /\ Step /\ p \in Copied
  /\ prefs' = Chosen(p, dir, a)
  /\ IF p \in stale
     THEN /\ view' = Shown(p, dir, a)
          /\ doubtful' = IF dir = Unset THEN doubtful \cup {p} ELSE doubtful \ {p}
     ELSE /\ view' = Overwritten(p, Shown(p, dir, a)) /\ doubtful' = doubtful \cup {p}
  /\ UNCHANGED <<server, stale>>

(* set_conversation_agent() *)
PinAgent(c, a) ==
  /\ Step /\ c \in Talks
  /\ prefs' = [prefs EXCEPT !.pinned[c] = a]
  /\ UNCHANGED <<server, view, stale, doubtful>>

(* DefaultsDialog._save(), with set_workspace_default() *)
SaveDefaults(dir, a) ==
  /\ Step /\ prefs' = [prefs EXCEPT !.wsCwd = dir, !.wsAgent = a]
  /\ UNCHANGED <<server, view, stale, doubtful>>

(* App.new_project(): created on the server, read back, and the directory  *)
(* it was asked for chosen here *)
NewProject(p, q, dir) ==
  /\ Step /\ parent[p] = Missing /\ q \in Copied \cup {Root}
  /\ parent' = [parent EXCEPT ![p] = q] /\ UNCHANGED <<shared, home, agentId>>
  /\ prefs' = Chosen(p, dir, Unset)
  /\ Refreshed

(* add_conversation(): the server is told the agent it would have, this    *)
(* computer that it has none of its own. *)
AddConversation(c, p) ==
  /\ Step /\ home[c] = Missing /\ p \in Copied
  /\ home' = [home EXCEPT ![c] = p] /\ agentId' = [agentId EXCEPT ![c] = ProjectAgent(p)]
  /\ prefs' = [prefs EXCEPT !.pinned[c] = Unset]
  /\ UNCHANGED <<parent, shared>> /\ Refreshed

(* App.fork_conversation(): the copy takes the agent the server has for the *)
(* source. *)
ForkConversation(c, source) ==
  /\ Step /\ home[c] = Missing
  /\ source \in Talks /\ ConversationAgent(source) = Codex
  /\ home' = [home EXCEPT ![c] = home[source]]
  /\ agentId' = [agentId EXCEPT ![c] = agentId[source]]
  /\ UNCHANGED <<parent, shared, prefs>> /\ Refreshed

(* move(), refused if others have changed the node *)
MoveProject(p, q) ==
  /\ Step /\ p \in Copied \ stale /\ q \in Copied \cup {Root} /\ CanMove(p, q)
  /\ parent' = [parent EXCEPT ![p] = q]
  /\ UNCHANGED <<shared, home, agentId, prefs>> /\ Refreshed

MoveConversation(c, p) ==
  /\ Step /\ c \in Talks \ stale /\ p \in Copied
  /\ home' = [home EXCEPT ![c] = p]
  /\ UNCHANGED <<parent, shared, agentId, prefs>> /\ Refreshed

(* Another desktop *)
OthersMove(p, q) ==
  /\ Step /\ CanMove(p, q)
  /\ parent' = [parent EXCEPT ![p] = q] /\ stale' = stale \cup {p}
  /\ UNCHANGED <<shared, home, agentId, prefs, view, doubtful>>

OthersAdd(c, p, a) ==
  /\ Step /\ home[c] = Missing /\ parent[p] # Missing
  /\ home' = [home EXCEPT ![c] = p] /\ agentId' = [agentId EXCEPT ![c] = a]
  /\ UNCHANGED <<parent, shared, prefs, view, stale, doubtful>>

SettingsInit ==
  /\ parent \in [Projects -> {Root, Missing}]
  /\ shared \in {f \in [Projects -> {SharedDir, Unset}] : \A p \in Projects : parent[p] = Missing => f[p] = Unset}
  /\ home = [c \in Conversations |-> Missing] /\ agentId = [c \in Conversations |-> Unset]
  /\ prefs = [cwd |-> [p \in Projects |-> Unset], agent |-> [p \in Projects |-> Unset],
              pinned |-> [c \in Conversations |-> Missing], wsCwd |-> Unset, wsAgent |-> Unset]
  /\ view = [parent |-> parent, cwd |-> shared, agent |-> prefs.agent, home |-> home, agentId |-> agentId]
  /\ stale = {} /\ doubtful = {} /\ steps = 0

SettingsNext ==
  \/ RefreshTree
  \/ \E p \in Projects :
       \/ RenameProject(p)
       \/ \E dir \in Dirs \cup {Unset}, a \in Agents \cup {Unset} : SaveProject(p, dir, a)
       \/ \E q \in Projects \cup {Root} :
            \/ MoveProject(p, q) \/ OthersMove(p, q)
            \/ \E dir \in Dirs : NewProject(p, q, dir)
  \/ \E dir \in Dirs, a \in Agents : SaveDefaults(dir, a)
  \/ \E c \in Conversations :
       \/ \E a \in Agents \cup {Unset} : PinAgent(c, a)
       \/ \E p \in Projects : AddConversation(c, p) \/ MoveConversation(c, p)
       \/ \E p \in Projects, a \in Agents : OthersAdd(c, p, a)
       \/ \E source \in Conversations : ForkConversation(c, source)

SettingsSpec == SettingsInit /\ [][SettingsNext]_settingsVars

-----------------------------------------------------------------------------
(* A Workspace of the server's tree and this computer's choices *)
Plain == INSTANCE WorkspaceSettings WITH
  projects <- Created, Default <- Codex, None <- Unset,
  cwd <- [p \in Projects |-> IF prefs.cwd[p] # Unset THEN prefs.cwd[p] ELSE shared[p]],
  agent <- prefs.agent,
  pinned <- [c \in Conversations |-> IF prefs.pinned[c] = Missing THEN agentId[c] ELSE prefs.pinned[c]],
  wsCwd <- IF prefs.wsCwd # Unset THEN prefs.wsCwd ELSE ServerDefault,
  wsAgent <- prefs.wsAgent

UpToDate(p) ==
  /\ CachedChain[p] = Ancestors[p]
  /\ ToSet(Ancestors[p]) \cap doubtful = {}

(* Wherever the copy shows the place a node has on the server, and no      *)
(* project above it is in doubt, the desktop runs with the directory and   *)
(* the agent a plain workspace of the same tree and the same choices would *)
(* use, and gives the same reason for the agent: _normalise_project(),     *)
(* resolve() and conversation_agent() of client_api.py agree with the      *)
(* rules of store.py, whatever others have moved and the server resolves.  *)
ChoicesAreEffective ==
  /\ \A p \in Copied : UpToDate(p) =>
       DirectoryOf(p) = Plain!Resolve(p) /\ ProjectAgent(p) = Plain!ProjectAgent(p)
  /\ \A c \in Talks : view.home[c] = home[c] /\ UpToDate(home[c]) =>
       /\ ConversationDirectory(c) = Plain!Resolve(home[c])
       /\ ConversationAgent(c) = Plain!ConversationAgent(c)
       /\ ConversationAgentSource(c) = Plain!ConversationAgentSource(c)

=============================================================================
