# Verification of Tree Agent

Tree Agent is a desktop program (Tkinter) that organises conversations with agent CLIs
(Codex CLI, Claude Code) in a tree of projects. It works on a workspace file of its own, or
against a shared server (FastAPI over SQLite) where several users share one tree. This
directory holds TLA+ specifications of the parts of it that are hard to get right and hard to
test, the TLC configurations that check them, and proofs for TLAPS. Paths below are relative
to `src/tree_agent/` unless they name a document.

Contents: [1 Inventory](#1-inventory-of-the-system) · [2 Modules](#2-modules-and-how-they-follow-the-code) ·
[3 Runs](#3-runs-what-is-checked-with-which-bounds) · [4 Fairness](#4-fairness) ·
[5 Proofs](#5-proofs) · [6 Disagreements](#6-disagreements-of-code-and-documentation) ·
[7 Assumptions and limits](#7-assumptions-and-what-is-not-modelled) · [8 Plan](#8-plan)

Use: `tlc -config <cfg> <MC module>` for a run, `tlapm <module>` for the proofs.

## 1. Inventory of the system

```
 desktop process                                  server process
 ------------------------------------------       --------------------------------------------
 App, ConversationView (app.py, UI thread)         api.py (request threads)
   |  send/stop/reset/delete        ^ events         |   idempotency.run(produce)
   v                                | (queue)        v
 Turn / ClaudeTurn (codex_runner.py, one thread    services/: tree, messages, attachments,
   per turn) -- stdout/kill --> agent CLI            access, search, maintenance, auth
   |                                                 |   every write is one job
   v                                                 v
 Workspace (store.py)  or  RemoteWorkspace ----->  WriterQueue (db.py): one thread, one
   workspace.json           (client_api.py, HTTP)    connection, BEGIN IMMEDIATE .. COMMIT
```

### Server

| component | state | operations | interacts with | hard behaviour | what makes it correct |
|---|---|---|---|---|---|
| shared tree (`server/services/tree.py`, `repositories/projects.py`, `conversations.py`) | tables projects, conversations, memberships; soft-deletion timestamps | create, rename, move, delete, restore, fork, grant, revoke, purge | access checks in every operation; search indexes kept by hand; one writer job each | deletions and restores of nested subtrees in any order; purge against foreign keys; two notions of equal names | live rows under live rows, no cycle, a restore undoes exactly one deletion, names apart, no dangling parent (in trees no deeper than its recursive queries go) |
| permissions (`services/access.py`) | none of its own | upward walk for one project, downward pass for listings, role caps | read by every service | two algorithms for one thing | both give the same answer |
| search (`repositories/search.py`, `services/search.py`) | three FTS tables beside the rows | index, drop, search | called by two dozen operations of tree and messages | forgetting one | the index mirrors the live rows |
| writer queue (`db.py`) | queue of jobs, one connection, closed flag | submit, serve with retries, close; read snapshots | all services; request threads wait on it | interleaving of callers, writer and close; SQLITE_BUSY at BEGIN and COMMIT; jobs that raise; a crash after COMMIT | each job at most once, in order, answers true, nobody forgotten |
| idempotency (`services/idempotency.py`) | table idempotency_keys | run: reserve, produce, store or release; expiry | three transactions around each request | retries concurrent with the first delivery; crashes and failures between the transactions; expiry | work is not repeated, keys come free, answers belong to the request |
| messages and tool calls (`services/messages.py`, `repositories/messages.py`) | messages with numbers per conversation, a text index | append, deltas, completion, cancellation, deletion, copies by forks, paging | tree, search, attachments | several writers and a reader that pages by the last number it saw; deletions of one message, of all, of the conversation, undone or not | pages leave nothing out, the index says what was completed, a restore brings back what its deletion took |
| attachments (`services/attachments.py`, `repositories/attachments.py`) | uploads, chunks, bytes by hash, links | initiate, chunk, commit, link, detach, stream, expire, purge | messages, retention, sweeper | expiry between steps, files that change while they are sent, bytes shared by hash, purges between the chunks of a download | no link without bytes, committed is what was hashed, what is shown for a linked attachment is whole unless the connection broke |
| accounts (`auth.py`, `repositories/users.py`, `mail_settings.py`) | users, login sessions, mailed codes | bootstrap, login, logout, change roles, disable, passwords, codes for recovery and addresses | API, mail | a request is authenticated, decides and writes in different transactions; mail that fails; attempts at their limit; one address wanted by two | an administrator remains, old sessions close, addresses are verified by their own codes |
| retention (`services/maintenance.py`) | none of its own | purge deleted rows, expired keys, uploads, sessions | tree, idempotency, messages, attachments, accounts | order of deletions | see those components |
| sort keys (`ids.py`, `place` in `services/tree.py`) | a rank string per sibling | rank between neighbours, renumbering; every operation that places a row | tree | running out of room; restored rows with the key of another, which reader and service tell apart differently | a level is the list the desktop's own document would be |
| HTTP interface, mail (`api.py`, `mailer.py`) | – | routes; sending a code | services | a request may be repeated, lost or served late; a mail may fail before or after it arrived | modelled with the services they reach |
| schema, legacy import (`migrations/`) | the tables | created once | – | – | – |

### Desktop

| component | state | operations | interacts with | hard behaviour | what makes it correct |
|---|---|---|---|---|---|
| agent turns (`app.py` `App.send` … `_handle_event`, `on_close`, `ConversationView.on_send`; `codex_runner.py`) | turns, serials, records, queued prompts; per turn a thread, a process, a cancelled flag; one event queue | send, queue, stop, reset, delete, close; pump; launch, read, end | workspace for messages and records | cancelling is asynchronous: events of killed turns, kill against launch, failing saves inside handlers, a window that closes or stays | no event of a dead turn takes effect, no process escapes, prompts are sent once and answered in order, stopping works |
| workspace file (`store.py`) | `workspace.json`, its temporary file, a byte-range lock; the document in each window | lock, load, edit, save, flush | closing of the window | crash at any step, also inside a character; rename refused on Windows; two windows; operations that save without marking | what was saved is never lost, nobody overwrites another window's work, what is marked is saved |
| document of the desktop (`store.py`, `Workspace`) | tree of nodes, inherited options | list operations, resolution of directory and agent | every view | – | what the shared mode is compared with |
| shared-mode client (`client_api.py`) | cache of the tree with revisions; `desktop.json` | the same interface as the workspace, over HTTP | server | stale revisions, requests that arrive after their sender gave up; deletions of what others have filled; two sources for one setting | no edit overwrites what its author never saw; a choice made here is what runs here |
| rendering, pasted images, PDF, preferences, transfer, git worktrees | – | – | – | presentation and input/output | – |

`PROJECT.json` lists every component with its status, and under `hazards` each hard behaviour
at its line.

## 2. Modules and how they follow the code

The `map` of `PROJECT.json` gives the source lines of every definition. Each module marks a
few operators as *faulty variants*: plausible bugs of one operation, in no next-state relation
of the program. Substituting one for the operator that follows it must break the property it
is listed with, which shows that the property has teeth.

Throughout, one action of a module about the server is one job of the writer queue and
therefore one transaction: its checks, its rows and its index entries change in one step. An
operation that needs several transactions is several actions, with everybody else's in between.

### ProjectTree — the shared tree, its permissions and its indexes

Projects and conversations are *nodes*: `rows` are the rows in the tables, `fresh` the ids not
handed out yet, `up` is `parent_id`/`project_id`, `deletedAt` the timestamp of the soft
deletion (0 for a live row), `label` the name, `grants` the memberships, `projectIndex` and
`conversationIndex` the search tables, `clock` the time in the units of `now_ms()`.
`cause[n]` is a history variable: the root of the deletion that took `n`.

`NearestGrant`/`PermissionFor` is the upward walk, `VisibleProjects` the downward pass.
`Below(p, S)` is the recursive query of `descendant_ids`, `soft_delete_subtree` and `restore_subtree` over the rows in
`S`: level by level, `MaxDepth` (`MAX_DEPTH`) levels down, and the conversations of the projects found, as a recursive function. Deeper rows it
does not find, as in the code. `SoftDelete` stamps every live row it finds and drops it from the indexes; `Restore` clears the rows below whose stamp
is *equal* to the root's, as the code does: whether this undoes one deletion is a property.
Names are values; `PyFold` (`str.lower`) and `SqlFold` (`COLLATE NOCASE`) are constants, assumed
only to satisfy "what NOCASE equates, `lower` equates".

### SiblingLists, SiblingKeys — the order of siblings

`SiblingLists` is the abstract specification, translated from the desktop's document, where a
level is a plain list: add at the end, fork below the source and the run of forks that name its thread (`fork_of`), move, delete, record a
thread, forget it (`clear_thread`).
`SiblingKeys` is the server: keys over digits in base `BASE` (`RankAfter`, `RankBefore`, `RankBetween`,
`Resequenced` of `ids.py`), `Place` with its renumbering of the level, and every operation of the tree
that places a row, with keys of deleted rows standing still while their level is renumbered. Rows that share a key have two orders:
`Siblings` is what `place()` reads (by row number), `Shown` what whoever lists the level sees (by name). Forks are told by their source
or by the session they name (`IsFork`), which a reset of either changes.
`ImplementsLists` says that each operation *is* the list's on what is shown, with the same arguments, as long as no two live rows share a
key (`KeysDiffer`); a restored row may stand anywhere, and a fork may pass forks of an earlier thread of its source, which the document does
not know any more (`LandsBelow`, `SameForks`). Whether keys are shared or not, rows with different keys never change places
unless one of them is moved (`RowsKeepTheirOrder`). The variables of the
level are named apart from those of `ProjectTree` (`removed`, `LevelSpec`), since one module holds the proofs about both.

### Transcript — messages and their index

`rows` are the messages with number, text, end and deletion, `conv` the conversations (`took` is
history: what a deletion took), `index` the text index. Every route that writes messages
is an action: append (a retried event finds its message), delta, completion with the text so far or another in its place (a blank one, too), cancellation, deletion of one or all,
and the operations of the tree that carry messages along (fork, move, delete, restore, purge). `walk` is the client that
reads page by page, one transaction each; its `due` is history: the messages it is owed.
`SearchFollowsTranscript` has a part about each state and one about each step: writing to a conversation indexes the indexed roles alone, and only where a conversation
is moved, forked or restored does `Reindex` carry the others in, tool output with them (section 6, 16).

### Attachments — chunked uploads, bytes shared by hash, downloads

`sender` is `upload_file()` with its passes over a file that may change between them, `uploads` the
rows that receive the chunks, `bytes` the deduplicated contents, `links` what messages refer to, `reader`
a file of an attachment cache and its download in many read transactions. What came before the connection broke (`BreakOff`) or before a purge cut
the stream short (`EndDownload`) stays there and is shown from then on: no hash is compared (section 6, 15). Expiry and the sweeper may come at any time, requests may be lost
before or after they took effect, messages are deleted, restored and purged around them.

### Accounts — users, sessions, codes

A request is several steps: it is authenticated in one (`Authenticate`), writes in another; a login checks the
password in one (`CheckPassword`), opens its session in another (`CreateSession`); a code is issued, mailed and, if the
mail fails, withdrawn in three. `call` holds what each client's request knows; `users`, `sessions`, `codes` are
the tables. `overtaken` (someone no longer an administrator changed an account), `clash` and the `since` of a session are history.

### SharedEditing — several desktops, one tree

`row` are the server's nodes, projects and the conversations in them, with their revisions, `cache` each desktop's copies, `call` what it waits for, `wire` the
requests on their way: a desktop gives up after its timeout, and what it sent may still be served, later than other edits
and even after the node was deleted and restored. `r.seen` is history: the copy the sender had. A deletion takes the subtree (`Subtree`, as deep as
the query goes) along, whatever its revisions are. A copy has, besides the fields of its row, the
`thread` its conversation goes on with: a refresh takes it from the row, the merge of an answer (`Merged`) does not.

### WorkspaceSettings, SharedSettings — which directory and agent a run gets

`WorkspaceSettings` is the abstract specification: how `store.Workspace` resolves directory, agent and the
reason for the agent. `SharedSettings` is `RemoteWorkspace`, which has two sources for them (the choices of this computer in
`desktop.json`, the server's rows) and a copy that others' moves make stale. `view` is that copy, `prefs` are the choices. `Plain` instantiates the former with the choices made here;
`ChoicesAreEffective` compares all readers. `doubtful` names the projects for which the code does not hold (section 6, 9).

### SerialStore, WriterQueue — the database writer

`SerialStore` is what a caller of `Database.write` is promised: a job takes effect at most once,
an effect precedes the answer of success, a failure has no effect, and only a crash leaves a
caller without an answer. `WriterQueue` is the code: callers between the closed check and the
wake-up, the `queue.Queue`, the writer thread with a step for each SQLite call (BEGIN, the job,
COMMIT, ROLLBACK), lock-outs with a bounded number of attempts, a job that raises, `close()` in
its three steps, a restart after a crash. `log` (jobs committed) and `accepted` (jobs in order of
`put`) are history. `ImplementsStore` states the refinement.

### Idempotency — retried requests

One delivery of a request is one process through `IdempotencyService.run`: reserve (transaction 1),
produce (transaction 2, another service's), then store or release (transaction 3), each of which
can fail, with crashes in between. `table` maps keys to rows whose lifetime `left` is counted down by
`Tick`; `quiet[k]` is how long ago a reservation for `k` was made, capped at `TTL`; `effects` are the deliveries
whose work was done.

### ConversationTurns — running an agent

The UI thread's dictionaries (`turn` is `self.turns`, `stamp` is `self.turn_serials`, `waiting` is
`ConversationView.queued`), its event queue, and for every turn the worker thread
(`launching → spawned → reading → finished`), the CLI process and the cancelled flag. UI
callbacks are atomic because Tk runs them one at a time; the worker's steps are the points
between which `cancel()` can strike: before `Popen`, between `Popen` and the lock, and later.
`Retire`, `Clear`, `Begin`, `Cancel` are the functions of those names, composed into handlers as the
code composes them. Handlers can fail where they save or call the service: the message or session
is lost and the pump goes on; a failure that leaves the turn half ended (`HandleDoneRaises`, `Begin` with
its record refused, `CutShort`) or a dead worker thread (`WorkerDies`) is a `Break`, at most `MaxBroken` of them.

`shown` is the window. `on_close()` cancels every turn and then saves: `CloseWindow` is the end of the program's
interest (daemon threads may still take steps or not, which is why no fairness is assumed of them any more), `CloseRefused`
the user who keeps the window because the save failed, with all turns already cancelled. `wiped` and `broken` are history.

### WorkspaceFile — the desktop's document on disk

`main` and `temp` are the two files, each absent, torn or whole with a document (the set of edits it
contains). A window stands at `closed`, `loading`, `idle`, or at one of the three places
inside `save()`: the temporary file open (`temp`), waiting to rename (`rename`), the file itself open
(`inplace`). `purpose` says what the save is for, since a failing save ends a window that comes up, leaves one at work
dirty, and asks the user of one that closes. A file is not whole from the `open(…, "w")` until it is closed: *torn* if what is left ends between two
characters, *cut* if it ends inside one, which `load()` does not survive (`LoadRaises`). `Edit` marks the document for `flush()`, `EditAndSave` is an operation
that saves at once and does not mark it.
`saved` (the last document a `save()` returned for) and `faults` (crashes and refusals since) are history.

### How they compose

- `WriterQueue` proves that jobs are atomic and happen in one order; the modules about services assume it.
  `Idempotency` assumes it of each of its three transactions, and nothing about them together.
- `SiblingKeys`, `Transcript`, `SharedEditing` and `SharedSettings` take one aspect of the nodes each (order, messages, revisions,
  local settings) where `ProjectTree` has the rows, their life and death, names and permissions. What one leaves out, it lets happen: a
  request of `SharedEditing` may be refused for any reason, a conversation of `Transcript` be deleted at any time.
- `Attachments` knows of a message only that it is live, deleted or gone, which is what `Transcript` and `ProjectTree` decide.
- `ConversationTurns` stores messages through a workspace whose saving `WorkspaceFile` models; between the two
  only "a save may fail" is shared: an outcome of the handlers and of closing in the one, `SaveRaises` in the other.
- Two modules are abstract specifications that another refines in earnest (`SerialStore`, `SiblingLists`), one is what another's
  readers are compared with (`WorkspaceSettings`).

## 3. Runs: what is checked, with which bounds

| run | properties | bounds | shows |
|---|---|---|---|
| `tree_structure` | LiveUnderLive, Acyclic, ForeignKeysHold, SiblingNamesUnique, RestoreUndoesOneDelete, IndexMirrorsRows | 3 projects, 2 conversations, 2 names, an administrator, who needs no grants (`Grantable` empty), 4 clock values | the tree's structure under every order of operations |
| `tree_access` | ListingMatchesWalk | 3 projects, an administrator and a member, all permissions, 2 clock values | the two permission algorithms agree |
| `siblings_order` | ImplementsLists | base 2, placed keys of 2 digits, 3 rows, 1 deleted at a time, 1 session, names the other way round than the rows | an order kept by keys is the order of a list |
| `transcript_pages` | SearchFollowsTranscript, PagesMissNothing, RestoreIsExact | 2 conversations, 2 projects, 3 messages (one of a role that is not indexed), 2 deletions, pages of 1, texts 0 (blank) and 1, 2 numbers | reading, searching and restoring while others write |
| `attachments_bytes` | LinkedBytesAreStored, CommittedMeansHashed, LinkedFilesAreWhole | files `x`, `xy`, `xx`, 2 messages, 2 ids, 1 upload at a time, 1 sender, 1 cached file | uploads and downloads against expiry, changes and purges |
| `accounts_access` | FreshActorsKeepAnAdmin, SessionsFollowAccounts, OpenCodesAreFew, AddressesDoNotClash, VerifiedByOwnCode | 2 accounts, 1 address, 2 clients, 2 sessions, 2 codes, 2 attempts | requests that were overtaken by others |
| `shared_edits` | CachesAreVersions, EditsReplaceWhatWasSeen | 2 desktops, 1 project, 1 conversation, 1 name, 1 session, 2 and 3 revisions (and one more by a restoration), 1 late request | no edit is lost |
| `shared_settings` | ChoicesAreEffective | 2 projects, 2 conversations, 1 directory besides the shared and the default one, 5 steps between refreshes that cost none | a choice made here is what runs here |
| `writer_serve` | NoTransactionLeftOpen, StrictFIFO, ImplementsStore, InLineIsAnswered | 3 calls, 2 attempts at the lock, a crash and restart at any step | the queue implements the serial store and forgets nobody |
| `idempotency_retries` | SingleRunner, ReplayIsOfTheSameRequest, OneEffectPerWindow, ReservationEnds | 3 deliveries under one key (one with another fingerprint), 1 under another; TTL 2 | retries do not repeat work |
| `turns_events` | NoGhosts, NoRunawayAgent, CancelReachesProcess, AnswersFollowPrompts, SentOnce, RecordsSettle, StopIsHonoured | 2 conversations, 2 prompts, 1 line per CLI, 1 break, a window that closes | late events, kills, failures, closing |
| `file_save` | OneFaultIsSurvived, OpenDocumentIsCurrent, EditIsKept | 2 windows, 3 edits | the file survives one fault |

Interchangeable ids are symmetric in the runs without liveness properties.

Why these are enough. A wrong restore needs a project, a child deleted on its own and a deletion of
the parent: 3 projects and 4 clock values (three deletions) leave room for that and for a third row that must not
move; a cycle needs 2 projects, seen through a deleted third. A permission disagreement needs a grant above and one below on a
chain of at most 3. With two digits and keys of at most two, a level of three rows runs out of keys before, between and after
its rows, and is renumbered around a deleted row whose key then equals a live one's; as the names come the other way round, reader and service
then disagree on these two. Pages of one message put every writer
between two pages; a third message tells the one deleted before from the two a deletion takes. Files of one and two
chunks differ in size or in content only, and two ids are needed for bytes that are stored twice by mistake. Two accounts can disable each other, ask
for one address, and be each other's last administrator; two codes are the newest and the one it replaces. With two desktops, the
late request meets an edit, or a deletion with a restoration, that its sender never saw, and the deletion of the project
a conversation that came into it or was edited since: two and three revisions. The five steps of the settings nest two projects, choose for one, and fork a conversation
that others have moved.
In the queue, three calls give one at work, one behind it and one that meets `close()`; two
attempts give a first and a last one, which is all the loop distinguishes. With TTL 2 a row can be
alive, about to expire, and expired while another delivery is at work. Two turns are the killed one and its
successor, in the same conversation or in the other; the single line is a session or a message, the only two kinds
of event that store something. Two windows and three edits give a saved edit, an unsaved one, and one of the other window.

Type invariants are stated in the modules; those of the modules with proofs are theorems (in `SharedSettings` they are part of the
inductive invariant), so no run spends its time on them.

`CHECK_DEADLOCK FALSE` stands where the model may stop: when the ids, stamps, revisions, numbers or clock values of the instance are used
up, and in `turns_events` when every prompt has been answered or the window is closed.

## 4. Fairness

Every assumption is weak fairness, but for one, and none is put on a user or on a failure.

- Writer: the thread's loop never waits but on the queue, so `WriterStep` is weakly fair; so are a caller
  past the closed check and `close()` once begun. SQLite calls and jobs are assumed to return.
- Idempotency: time passes (`Tick`); a handler at work goes on until it has stored or released. The
  sweeper is not assumed to run, nor a client to retry.
- Turns: `_pump` reschedules itself whatever a handler raises (`app.py:2245-2264`; of its `flush()` it catches `OSError`, which is what a refused save raises; an error of another kind there would stop it and is assumed away), and worker threads run, both as long as the window is shown:
  they end with the program at any moment after. A CLI need not exit, so the only exits a liveness property can rely on are kills.
- File: the flush of the pump repeats, and the disk does not refuse for ever: strong fairness of a write to the temporary file and of the rename
  or the in-place write, since each retry passes through states where the step is not enabled.

The other specifications are checked for safety only: their requests may be abandoned at any point, and nothing the code does on its own makes them end.

## 5. Proofs

TLC checks instances; the theorems hold for every value of the constants, from the assumptions
named in the modules (ids are distinct, folds relate as stated, limits are natural numbers). Each module's theorems rest on
inductive invariants, which contain more than the properties because a property does not say why it lasts.

| module | theorems | inductive invariant, and why it is needed |
|---|---|---|
| ProjectTreeProofs | TypeCorrect, NoLiveOrphans, TreeStaysAcyclic, PurgeLeavesNoDanglingParent, SearchIndexMirrorsTree | `Structure`. A restore makes rows live again, so that live rows stay under live rows needs `StampOrder`: a deleted row under a deleted parent was deleted no later than it, and by the same deletion if at the same time. Unused ids must be untouched (`FreshUntouched`) for an insertion to keep it. For the indexes: a move re-indexes what `Below` returns, which is everything only because live rows hang under live rows. All of it holds as long as the tree is `WithinReach`: no line of distinct projects, live or deleted, is longer than the recursive queries go down. Then `Below` is everything below (`BelowByLevels`, `NewAtTheEndOfALine`: what the last level found first would end a line that is too long; `BelowClosed`). In deeper trees the code does strand rows (section 6, 17). |
| | RestoreUndoesItsDeletion, SiblingsStayDistinct | `Provenance` ties every stamp to the deletion that set it, with stamps of two deletions distinct when the clock moves between them; `TogetherNamesUnique` keeps the names apart of rows that one deletion took together, since a restore checks only its root's name. |
| | ShallowTreesAgree, ListingAgreesWithWalk | None of its own: in any state of `Structure` in which every live project has a depth below `MaxDepth` (`ShallowTree`), by induction over the depth, a project is on the level of the listing that is its depth, with the grant the walk finds. With no more projects than `MaxDepth` an acyclic tree is shallow (by counting). |
| | LevelTypeCorrect, KeyBetween, ResequencedInOrder, KeysImplementLists | `LevelOK`: rows are numbered as they were created, a row is live or deleted, all keys end in a digit that is not zero (`GoodKeys`; without it there may be no key between two). Order is not part of it: keys and a tie-break always order a level (`HasOrder`), in one way only (`OneOrder`), whether the ties go by row number (`Siblings`) or by name (`Shown`), and the two are one where no key is shared (`NothingToTellApart`). So an operation is the list's as soon as *some* list of the expected shape is in order. `PlaceOrders`: a row with a key between its neighbours', or a level with new keys for all, is in the expected order, also around rows that share a key, and in the renumbered level no key is shared; the step of `resequence()` is at least 4 (`Width`), which leaves room for the correction of a last digit of zero. |
| WriterQueueProofs | QueueTypeCorrect, NeverCommittedTwice, TransactionsAreClosed, JobsAreServedInOrder, QueueImplementsStore | `QueueInv`: the job in hand, the jobs in the queue and those finished are disjoint (`HeldJob`, `QueuedJobs`), and the outcome held for a caller agrees with the log (`HonestAnswers`). For the order, `FifoInv`: what was accepted and not answered waits or is worked on (`NoneForgotten`), the queue is in the order of acceptance (`QueueInOrder`), and nothing behind such a job has been begun (`NoneOvertakes`). The refinement maps the COMMIT to `TakeEffect`, the wake-up to `Succeed` or `Fail`, a crash to `Lose`. |
| IdempotencyProofs | IdempotencyTypeCorrect, NeverTwoAtWork, ReplaysMatch, RetriesDoNotRepeat | `IdemInv`: a delivery at work holds its row and the row is as old as the delivery (`HoldsRow`), a finished row tells the truth about its delivery (`RowsAreTrue`), and an effect is followed by a guarded window (`WindowIsGuarded`). |
| WorkspaceProofs | WorkspaceTypeCorrect, OneFaultCostsNothing, DocumentsAreCurrent | `Kept`: besides the two properties, where each file stands while a window is inside `save()` (`FilesFollow`: the temporary file is whole while the other is written), and that without a fault the file on disk is whole and holds what was saved (`NoFaultOnDisk`). A file that ends inside a character costs nothing of what is on disk, since nobody gets past it to overwrite the copy, but the program does not open any more: that is the last disjunct of `OneFaultIsSurvived`, which the theorem claims no more than. That the window holding the lock is the only open one is part of `TypeOK`. |
| | CopiesStayVersions, SharedTypeCorrect, CachesStayVersions, NoEditIsLost | First the shapes (`Types`). Then `Versions`: every copy, in a cache, an answer, a tree being fetched or a request on its way, is a version its node has had: not newer, and equal if the revisions are; and the thread a conversation goes on with is the one of its copy or none, also once the answer on its way is merged. It lasts because rows only ever grow in revision (`RowGrows`); that an edit which passes the revision clause replaces what its author had seen is then immediate, however late it is. What else a deletion changes is live and hangs below a project, and is only stamped; that it is nothing when the node is a conversation takes the uniqueness of the recursion in `Subtree`. |
| | ChoicesStayEffective | `Settings`: the server's projects and the copy are two trees without loops (`ServerIsTree`, `CopyFollows`), the copy's agents are the chosen ones, its conversations have the agents of the server's rows, and its directories are the effective ones outside `doubtful`. A recursive chain of projects is only known to be what its definition says once a function that satisfies it exists and is the only one: `ChainsExist`, `OneChain`, from `NoLoops`. |
| AttachmentsProofs | PurgesLeaveLinksTheirBytes, UploadsBecomeWhatWasHashed, LinkedFilesStayWhole, FilesAreNeverMixed | `Stored`: links join messages to stored bytes, no two rows hold the same bytes, and the result of an upload is a row with the content its client announced; an upload's target comes from its client, whose own steps `SendersHaveShape` follows. A purge takes bytes in the transaction that finds them without links, which is why no link can be left behind. `ReadersHaveShape`: a cached file is a beginning of what its row held when the download started, ids are not used again, and a row's bytes are never replaced; it is short only if the connection broke or the row is gone for good (`ShortOnlyIfPurged`), which `Stored` excludes for what a message still holds. |
| AccountsProofs | TypeCorrect, SessionsFollow, CodesStayFew, AddressesStayFree, AdminsRemain, AddressesVerifiedByOwnCode | `Tables`: a session belongs to an account and none survived what outdated it; every open code is the only one of its account and purpose and has attempts left (`CodesAreFew`); whoever is known to be asking still has an account (`CallsKnowUsers`). The queries are recursions along the table of codes, which `AmongRecursion` and `AmongPicks` solve: what they return are rows of the table, each once, in their order. |
| TranscriptProofs | TypeCorrect, RestoresAreExact, WalksAreWhole, SearchIsCurrent | `IInv`, in three layers. `Tables`: numbers differ within a conversation, and what bears the stamp of a deleted conversation is what its deletion took. `WalkFollows`: a walk owes only live messages of its conversation with numbers after its cursor; a page shows those up to its last number because numbers are only ever appended (`NextIsGreater`), forks copy the order (`CountsAreApart`), and a short page has them all. `IndexFollows`: an entry is true of a live message in the present project of its conversation, with its text if that is of an indexed role and was completed (`EntryIsTrue`), and every such message with a text has one (`Expected`). |
| ConversationTurnsProofs | TurnsAreTyped, PromptsAreSentOnce, AgentsStayInReach, CancelsReachProcesses, RecordsSayTheEnd, NothingComesBack, AnswersAreInOrder | `TurnsInv`, in four layers of which each uses those before. `Prompted`: what was sent and what waits are distinct prompts; by counting (a pigeonhole argument over the serials) there is always a serial for the next turn. `Placed`: a turn shown by a conversation is stamped there (`Stamped`), one not begun is untouched, one working and not cancelled is the one its conversation shows (`InReach`), and every event in the queue is of a turn that was launched (`EventsAreTrue`). `RecordsSettle`. `Kept`: what transcripts and sessions hold is of turns after the last reset, in order, no later than the turn shown. |

With these, every safety property of every run is proved, for any number of conversations, messages, prompts,
callers, retries, requests, accounts, rows, keys, windows and desktops, those of the tree as far as its queries reach.

The theorems about the tree are of the form `Spec /\ []WithinReach => []Inv`, but for `ListingAgreesWithWalk`; with no more projects than `MaxDepth` every state is `WithinReach` (`FewProjectsAreWithinReach`),
which is the case in the runs. `RestoreUndoesItsDeletion` assumes `0 \notin ClockSteps`, `SiblingsStayDistinct` assumes that the two folds agree
on the names in use, `ListingAgreesWithWalk` that there are finitely many projects and no more than `MaxDepth`: without these the code does
not satisfy the properties (hazards, sections 6 and 7). `ShallowTreesAgree` speaks of the states that are shallow.

Induction enters as the existence of a minimal element: `WFMin` of the library, applied to a set of numbers (`Induction`, `LeastOne`, `Greatest`), or
`NoLoops` and `Acyclic`, which say of a tree that any set of its nodes has one whose parent is not in it. The theorems of the library that take an
operator as a parameter are not used; what has to be defined along an induction is written as a function whose existence is proved (`ChainsExist`; `Iteration` for the levels of `Below`; `Recursion` for the powers and digits of `resequence()`).

Only model-checked is every liveness property (`InLineIsAnswered`, `ReservationEnds`, `StopIsHonoured`, `EditIsKept`): TLAPS does not reach fairness or ENABLED.

## 6. Disagreements of code and documentation

Met while translating; where a property would run into one, it excepts it by name, as stated at the end of each item.

**Tree.**
1. "Sibling names are unique, and a clash is a 409" (`tests/test_server_core.py:60`). A rename that `str.lower` takes for a change of
   case is not checked (`services/tree.py:228`); the unique index, which folds ASCII only, refuses it as an unhandled `IntegrityError`. The
   instances fold names alike in both.
2. Dragging a conversation downwards among its siblings ends one place too low in shared mode: `app.py:1492` counts the target with the
   dragged node in place, as `store.move` expects, and the server counts without it. `SiblingKeys` starts from the service's argument.
   The 409 of a stale revision is not caught in that handler either.

**Writer and idempotency.**
3. "Blocks until it commits or fails" (`db.py:263`). A call between the closed check (`db.py:177`) and its `put` when `close()` runs lands behind the
   stop and waits for ever. `InLineIsAnswered` speaks of those ahead of the stop, and of a writer that could open its file.
4. The specification replays status and body (`docs/sqlite-storage-implementation-spec.md:331`). `run()` returns the body alone
   (`services/idempotency.py:61`), so a stored 4xx is replayed as a result.

**Turns.**
5. Queued prompts are sent when the current turn completes (`README.md:61`, `app.py:3961`). One is taken off the queue before it is known that it can be
   sent (`app.py:3911`); when `send()` declines it, the others wait with no turn ahead of them.
6. A stopped turn gets its own `done` (`README.md:553`). It does not, or it is not honoured, when a record cannot be saved (`app.py:2339`) or the worker
   thread dies on a line (`codex_runner.py:565`). `StopIsHonoured` and `RecordsSettle` except such turns (`broken`).
7. Closing over a running turn leaves its record "running" for good, as nothing settles it at the next start; and an agent whose process exists but
   is not known yet when the program ends is orphaned (`app.py:2397`). `RecordsSettle` speaks of an open window, `CancelReachesProcess` excepts `spawned`.

**Workspace file.**
8. An interrupted in-place save leaves the temporary copy (`store.py:253`). The next save truncates it first (`store.py:304`).
   `OneFaultIsSurvived` is about one fault since the last save that returned; this takes two.
   And "try that before giving up on the data" (`store.py:254`), "a crash mid-write cannot corrupt the workspace" (`:219`): a file that ends inside a character (`ensure_ascii=False`) raises `UnicodeDecodeError`,
   which `_read` does not catch (`:276`), so that the copy is not tried and the program does not open until someone moves the file away. The data are there: the last disjunct of the property.
   An operation that saves at once does not mark the document (`store.py:494-635`), and when that save is refused, `flush()` does not try again. `EditIsKept` speaks of marked documents.

**Shared mode.**
9. "Local runners must not inherit another computer's shared path or runner" (`tests/test_server_desktop.py:103`, `client_api.py:760`). An update merges the server's row,
   directory included, over the copy (`client_api.py:922`, `:961`), so that a project just renamed runs in the other computer's directory until the next refresh.
   `ChoicesAreEffective` excepts the projects in `doubtful`.
10. A fork takes the agent the server keeps (`services/tree.py:567`), not the one its source runs under here, and may then be unable to open the session it was forked from.
11. `RemoteWorkspace.inherited` of a top-level project returns the project's own value (`client_api.py:879`) where `store.py:485` returns the default, and
    `instructions_for(…, include_self=False)` is empty (`client_api.py:872`) where `store.py:471` returns the ancestors' instructions.
12. `set_thread_id` sends the cached id of the other runner's session along (`client_api.py:1096`), and may put back one that another desktop has reset.
    `EditsReplaceWhatWasSeen` leaves session ids out.
    A merged answer refreshes the columns of the row but not `thread_id` (`client_api.py:781`, `:922`, `:1101`, `:1109`), with which the conversation runs: a thread another desktop has recorded
    is in the copy but not used until the next refresh. `CachesAreVersions` says that it is never another than the copy's: the one or none.
    The deletion of a project compares the revision of the project alone (`services/tree.py:305`, `projects.py:223-251`) and takes along what others have added, moved or edited below it since.
    `EditsReplaceWhatWasSeen` excepts that, and says that it keeps what it said.
13. "the completed temporary file remains available if this final write is also interrupted" (`client_api.py:721`): nothing reads it; a torn `desktop.json` reads as `{}`.

**Messages and attachments.**
14. `cancel_turn` closes messages without indexing what was streamed into them; `SearchFollowsTranscript` speaks of completed messages. A retried event may be answered with a row that has been
    deleted since (`services/messages.py:165`). A tool call that was cancelled can be reopened by a late update.
15. Bytes detached from a message that stays are never candidates of a purge, and a commit whose answer was lost is refused when it is retried: neither loses
    anything, both leave something behind. "Stream an attachment to disk, verifying the hash the server sent" (`client_api.py:578`): `_stream` makes a plain
    dict of the headers (`:130`), the server sends their names in lower case, and the look-up of `X-Attachment-Sha256` (`:588`) finds nothing to compare. A stream that breaks or ends early
    leaves its part at the destination (`:584-587`), which counts as the attachment from then on (`:804`). `LinkedFilesAreWhole` excepts broken connections.
16. "Tool output is deliberately excluded" from the search index (`services/messages.py:36`; `docs/sqlite-storage-implementation-spec.md:305`; `tests/test_server_search.py:78`).
    `reindex_conversation` (`repositories/search.py:124`) does not look at roles, so a conversation that is moved, forked or restored brings its tool output into the index.
    `SearchFollowsTranscript` says that nothing else does.

**Deep trees, shared keys.**

17. A deletion takes the subtree, a move is checked not to lead below itself, and the purge has an order in which "no foreign key is ever left dangling" (`services/maintenance.py:91`).
    All three look only `MAX_DEPTH` levels below the row (`projects.py:126`, `:231`, `:271`): nothing bounds the depth of a
    tree, and from the 201st level below it on a deletion leaves live rows under deleted ones, a move may close a cycle, and a purge runs into rows that still name the project. The theorems are about trees within reach.
18. `place()` reads siblings with equal keys in the order of row numbers (`services/tree.py:779`), the tree is shown in the order of names (`:819`). A restored row may have another's key, and a renumbering then
    swaps the two for the reader. `RowsKeepTheirOrder` says that it swaps no others. Forks are recognised by their source or its thread (`services/tree.py:808-811`), on the desktop by the thread alone
    (`store.py:571-575`): after a reset the two put a new fork in different places.

## 7. Assumptions, and what is not modelled

- **Tree.** The clock moves between two deletions (`ClockSteps` without 0; stamps are distinct in `Transcript`). The cut-offs at `MAX_DEPTH` (200) are those of the code, but no run
  has more projects than its `MaxDepth`, and the theorems assume `WithinReach` (section 6, 17); the two walks for permissions stop at different
  levels. Of a node's options only directory and agent are modelled; model, sandbox, instructions, tags and usage are data without a protocol.
- **Sort keys.** Base 2 and short keys instead of 62 and 48: the arithmetic is the same, and the limits are met. The names of a level do not change.
  A row that comes from another level is a new row here: whose fork it is, if its source stands where it went, is not followed. Claude's sessions are left out.
- **Messages.** Tool calls (but not messages of the role `tool`), usage counts and the ranking of search results are left out.
- **Attachments.** A content stands for its own hash. The size limit and media types are left out. Of an attachment cache one file is followed.
- **Accounts.** Passwords, codes and the form of addresses are not spelt out.
- **Shared mode.** Failures of writing `desktop.json` are left out, as are deletions in `SharedSettings`; local records of runs are those of `ConversationTurns`.
- **Writer queue.** Read snapshots, migrations and damaged database files are left out.
- **Idempotency.** No request runs for a whole TTL (a day).
- **Turns.** A kill ends the CLI. UI callbacks do not interleave (nested event loops of message boxes are left out). Slash commands, reviews,
  usage and log events are left out, and so is a message stored before `send()` raises.
  Events are stored or lost; repeated breaks of one turn add nothing, hence `MaxBroken` 1.
- **File.** A second window's user does not go on without the lock, and the lock can be had. A good file that cannot be *read*
  counts as more than one fault, because the code does not survive it. Seeding a document whose list of projects is empty is left out.
- **Not modelled at all** (see `components`): the one-off import of old workspace files, which runs in one transaction before anything else; export and import of
  archives; rendering, pasted images, PDF, preferences; git worktrees; validation of request bodies, streaming frames, SMTP. They are conversions and
  input/output without a protocol of their own.

## 8. Plan

Done: ProjectTree, WriterQueue over SerialStore, Idempotency, ConversationTurns with closing, WorkspaceFile, SharedEditing, SharedSettings over
WorkspaceSettings, Attachments, Accounts, Transcript, SiblingKeys over SiblingLists, each with proofs of its safety properties.

Left, in order of importance:

1. Tool calls in Transcript: states that only advance, against late updates.
2. `desktop.json` in the manner of WorkspaceFile, with its in-place fallback that nothing recovers.
3. The legacy import as a function from documents to tables, checked against the readers of both.
