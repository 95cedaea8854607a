-------------------------- MODULE WorkspaceSettings -------------------------
(***************************************************************************)
(* What the settings of a document mean: the readers of store.Workspace,   *)
(* over any document that says which project is where, which directory and *)
(* agent a project has chosen for itself, which agent a conversation is    *)
(* pinned to, and what the workspace falls back on.  SharedSettings says   *)
(* what RemoteWorkspace, which only looks like a Workspace, makes of the   *)
(* same choices.                                                           *)
(***************************************************************************)
EXTENDS SequencesExt

CONSTANTS
  Agents,   \* CODEX_AGENT, CLAUDE_AGENT
  Default,  \* DEFAULT_AGENT
  Root,     \* above the top-level projects
  None      \* no choice

VARIABLES
  projects,
  parent,  \* of each project in the document
  cwd,     \* each project's own directory, or None
  agent,   \* each project's own agent, or None
  pinned,  \* each conversation's own agent, or None
  home,    \* each conversation's project
  wsCwd,   \* defaults["cwd"]
  wsAgent  \* defaults["agent_id"], or None

(* Nearest-first chain of projects, p itself first. *)
Chain[p \in projects \cup {Root}] ==
  IF p = Root THEN <<>> ELSE <<p>> \o Chain[parent[p]]

Resolve(p) ==
  LET i == SelectInSeq(Chain[p], LAMBDA q : cwd[q] # None)
  IN  IF i = 0 THEN wsCwd ELSE cwd[Chain[p][i]]

ProjectAgent(p) ==
  LET i == SelectInSeq(Chain[p], LAMBDA q : agent[q] \in Agents)
  IN  IF i # 0 THEN agent[Chain[p][i]] ELSE IF wsAgent \in Agents THEN wsAgent ELSE Default

ConversationAgent(c) ==
  IF pinned[c] \in Agents THEN pinned[c] ELSE ProjectAgent(home[c])

ConversationAgentSource(c) ==
  IF pinned[c] \in Agents THEN "conversation"
  ELSE IF \E q \in ToSet(Chain[home[c]]) : agent[q] \in Agents THEN "project"
  ELSE IF wsAgent \in Agents THEN "workspace" ELSE "default"

=============================================================================
