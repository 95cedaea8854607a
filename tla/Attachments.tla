---------------------------- MODULE Attachments ----------------------------
(***************************************************************************)
(* Chunked uploads, bytes shared by hash, chunked downloads and the purge: *)
(* services/attachments.py over repositories/attachments.py, the parts of  *)
(* services/maintenance.py and services/messages.py that touch attachments,*)
(* the sweeper of server/app.py, and upload_file() and                     *)
(* _cache_attachment() with download_attachment() of client_api.py.        *)
(*                                                                         *)
(* A content is the sequence of its chunks, and stands for its own hash;   *)
(* sizes are counted in chunks.  A message is live only together with its  *)
(* conversation.  Who may read or write a conversation is ProjectTree's    *)
(* subject.                                                                *)
(***************************************************************************)
EXTENDS Naturals, Sequences

CONSTANTS
  Contents,      \* what a file may hold: sequences of chunks, none empty
  Messages,      \* rows of messages
  Ids,           \* rows of attachments
  Uploads,       \* rows of attachment_uploads
  Senders,       \* clients that upload a file, which may change meanwhile
  Readers,       \* files of attachment caches, each of one attachment
  Nothing        \* absence

ASSUME ContentsAssumption ==
  \A f \in Contents : f # <<>> /\ f \in Seq({f[i] : i \in DOMAIN f})
ASSUME NothingAssumption == Nothing \notin Messages \cup Ids \cup Contents

VARIABLES
  message,    \* the state of each message
  bytes,      \* attachments and attachment_chunks: the content of each row
  links,      \* message_attachments
  uploads,    \* attachment_uploads and attachment_upload_chunks
  sender,     \* where upload_file() stands
  reader      \* each cached file, and where its download stands

vars == <<message, bytes, links, uploads, sender, reader>>

Idle == [at |-> "idle"]
Staged == UNION {[1..n -> UNION {{f[i] : i \in DOMAIN f} : f \in Contents}]
                   : n \in 0..3}

TypeOK ==
  /\ message \in [Messages -> {"none", "live", "deleted", "gone"}]
  /\ DOMAIN bytes \subseteq Ids /\ \A a \in DOMAIN bytes : bytes[a] \in Contents
  /\ links \subseteq Messages \X Ids
  /\ DOMAIN uploads \subseteq Uploads
  /\ \A u \in DOMAIN uploads :
       uploads[u] \in [status : {"uploading", "committed", "expired"}, late : BOOLEAN,
                       target : Messages \cup {Nothing}, want : Contents,
                       chunks : Staged, result : Ids \cup {Nothing}]
  /\ \A c \in Senders : sender[c].at \in {"idle", "hashed", "sending"}
  /\ \A r \in Readers : reader[r].at \in {"idle", "reading", "cached"}

Live(m) == m # Nothing /\ message[m] = "live"

-----------------------------------------------------------------------------
(* repositories/attachments.py *)

\* by_hash()
SameBytes(f) == {a \in DOMAIN bytes : bytes[a] = f}

\* readable_by_message()
Reachable(a) == a \in DOMAIN bytes /\ \E m \in Messages : <<m, a>> \in links /\ Live(m)

\* An id no row, no upload and no cached file knows.
NewId(a) ==
  /\ a \notin DOMAIN bytes
  /\ \A r \in Readers : reader[r].at # "idle" => reader[r].id # a
  /\ \A u \in DOMAIN uploads : uploads[u].result # a

\* _open_upload()
Open(u) == u \in DOMAIN uploads /\ uploads[u].status = "uploading" /\ ~uploads[u].late

-----------------------------------------------------------------------------
(* upload_file() and the service behind it.  Whatever is refused makes the   *)
(* client raise: it gives up, and the upload stays as it is.                 *)

Step(c, state) == sender' = [sender EXCEPT ![c] = state]

GiveUp(c) ==
  /\ sender[c].at # "idle"
  /\ Step(c, Idle)
  /\ UNCHANGED <<message, bytes, links, uploads, reader>>

\* The first pass over the file: its size and hash.
HashFile(c, f, m) ==
  /\ sender[c].at = "idle"
  /\ Step(c, [at |-> "hashed", want |-> f, target |-> m])
  /\ UNCHANGED <<message, bytes, links, uploads, reader>>

\* initiate()
Initiate(c, u) ==
  /\ sender[c].at = "hashed" /\ (sender[c].target = Nothing \/ Live(sender[c].target))
  /\ u \notin DOMAIN uploads
  /\ \A d \in Senders : sender[d].at = "sending" => sender[d].upload # u
  /\ uploads' = [v \in DOMAIN uploads \cup {u} |->
       IF v = u THEN [status |-> "uploading", late |-> FALSE, target |-> sender[c].target,
                      want |-> sender[c].want, chunks |-> <<>>, result |-> Nothing]
                ELSE uploads[v]]
  /\ Step(c, [at |-> "sending", upload |-> u, next |-> 1])
  /\ UNCHANGED <<message, bytes, links, reader>>

\* put_chunk(): the second pass, over what the file holds by now.
PutChunk(c, f) ==
  LET u == sender[c].upload
      n == sender[c].next IN
  /\ sender[c].at = "sending" /\ n \in DOMAIN f
  /\ Open(u) /\ n <= Len(uploads[u].want)
  /\ uploads' = [uploads EXCEPT ![u].chunks =
       [i \in 1..n |-> IF i = n THEN f[n] ELSE @[i]]]
  /\ Step(c, [sender[c] EXCEPT !.next = n + 1])
  /\ UNCHANGED <<message, bytes, links, reader>>

\* Faulty variant: the hash is taken on trust.
SizeMatches(u) == Len(uploads[u].chunks) = Len(uploads[u].want)

\* commit() compares numbering, size and hash with what was declared.
Verified(u) ==
  Len(uploads[u].chunks) = Len(uploads[u].want) /\ uploads[u].chunks = uploads[u].want

\* commit() finds the bytes by their hash, or makes the chunks an attachment.
Store(f, a) ==
  \/ a \in SameBytes(f) /\ UNCHANGED bytes
  \/ /\ SameBytes(f) = {} /\ NewId(a)
     /\ bytes' = [b \in DOMAIN bytes \cup {a} |-> IF b = a THEN f ELSE bytes[b]]

\* commit(), one transaction.  Its answer may be lost: the client gives up then
\* as it does after a success.
Commit(c, a) ==
  LET u == sender[c].upload IN
  /\ sender[c].at = "sending" /\ Open(u)
  /\ sender[c].next > Len(uploads[u].want) /\ Verified(u)
  /\ Store(uploads[u].chunks, a)
  /\ \/ uploads[u].target = Nothing /\ UNCHANGED links
     \/ Live(uploads[u].target) /\ links' = links \cup {<<uploads[u].target, a>>}
  /\ uploads' = [uploads EXCEPT ![u].status = "committed", ![u].chunks = <<>>, ![u].result = a]
  /\ Step(c, Idle)
  /\ UNCHANGED <<message, reader>>

-----------------------------------------------------------------------------
(* Messages, as far as they hold attachments. *)

\* MessageService.append(): a message may name what can be reached already.
AppendMessage(m, S) ==
  /\ message[m] = "none"
  /\ \A a \in S : Reachable(a)
  /\ message' = [message EXCEPT ![m] = "live"]
  /\ links' = links \cup ({m} \X S)
  /\ UNCHANGED <<bytes, uploads, sender, reader>>

\* The message is deleted, or its conversation is.
Delete(m) ==
  /\ message[m] = "live"
  /\ message' = [message EXCEPT ![m] = "deleted"]
  /\ UNCHANGED <<bytes, links, uploads, sender, reader>>

\* The conversation comes back with its messages.
Restore(m) ==
  /\ message[m] = "deleted"
  /\ message' = [message EXCEPT ![m] = "live"]
  /\ UNCHANGED <<bytes, links, uploads, sender, reader>>

\* detach(): the bytes stay put.
Detach(m, a) ==
  /\ Live(m)
  /\ links' = links \ {<<m, a>>}
  /\ UNCHANGED <<message, bytes, uploads, sender, reader>>

-----------------------------------------------------------------------------
(* MaintenanceService *)

\* _orphan_candidates()
Candidates(M) == {a \in Ids : \E m \in M : <<m, a>> \in links}

\* Faulty variant: every attachment of a purged message goes with it.
AllCandidates(M) == Candidates(M)

\* Those nothing refers to any more once the links of M are gone.
Orphans(M) == {a \in Candidates(M) : \A m \in Messages \ M : <<m, a>> \notin links}

\* purge_deleted() over the messages whose retention has run out.
PurgeDeleted(M) ==
  LET dead == Orphans(M) IN
  /\ M # {} /\ \A m \in M : message[m] = "deleted"
  /\ message' = [m \in Messages |-> IF m \in M THEN "gone" ELSE message[m]]
  /\ links' = {l \in links : l[1] \notin M}
  /\ bytes' = [a \in DOMAIN bytes \ dead |-> bytes[a]]
  /\ uploads' = [u \in DOMAIN uploads |->
       [uploads[u] EXCEPT !.target = IF @ \in M THEN Nothing ELSE @,
                          !.result = IF @ \in dead THEN Nothing ELSE @]]
  /\ UNCHANGED <<sender, reader>>

\* UPLOAD_TTL_MS has passed since the upload was opened.
RunLate(u) ==
  /\ Open(u)
  /\ uploads' = [uploads EXCEPT ![u].late = TRUE]
  /\ UNCHANGED <<message, bytes, links, sender, reader>>

\* expire_stale_uploads()
Stale(u) == uploads[u].status = "uploading" /\ uploads[u].late

\* sweep(), which also forgets the uploads that ended long ago.
Sweep ==
  /\ \E old \in SUBSET {u \in DOMAIN uploads : uploads[u].status # "uploading"} :
       /\ old # {} \/ \E u \in DOMAIN uploads : Stale(u)
       /\ uploads' = [u \in DOMAIN uploads \ old |->
            IF Stale(u) THEN [uploads[u] EXCEPT !.status = "expired", !.chunks = <<>>]
                        ELSE uploads[u]]
  /\ UNCHANGED <<message, bytes, links, sender, reader>>

-----------------------------------------------------------------------------
(* stream(), and download_attachment() for a file that is not in the cache.  *)

\* A file that is there is taken as it is, whatever it holds: isfile().
StartDownload(r, a) ==
  /\ reader[r].at = "idle" /\ Reachable(a)
  /\ reader' = [reader EXCEPT ![r] =
       [at |-> "reading", id |-> a, sum |-> bytes[a], got |-> <<>>, broke |-> FALSE]]
  /\ UNCHANGED <<message, bytes, links, uploads, sender>>

\* Faulty variant: the last chunk is left out.
OneChunkLess(d) == Len(d.sum) - 1

\* The chunks stream() goes through, as many as there were at its start.
ChunkCount(d) == Len(d.sum)

\* One chunk, in a read transaction of its own.
Fetch(r) ==
  LET d == reader[r] IN
  /\ d.at = "reading" /\ Len(d.got) < ChunkCount(d) /\ d.id \in DOMAIN bytes
  /\ reader' = [reader EXCEPT ![r].got = [i \in 1..Len(d.got) + 1 |->
       IF i <= Len(d.got) THEN d.got[i] ELSE bytes[d.id][i]]]
  /\ UNCHANGED <<message, bytes, links, uploads, sender>>

\* The stream ends: after the last chunk, or before one that is gone.  The
\* header with the hash arrives under a name in lower case, the plain dict it is
\* put into does not have it under the one it is asked for, and nothing is
\* compared: what came stays.
EndDownload(r) ==
  LET d == reader[r] IN
  /\ d.at = "reading"
  /\ Len(d.got) = ChunkCount(d) \/ d.id \notin DOMAIN bytes
  /\ reader' = [reader EXCEPT ![r].at = "cached"]
  /\ UNCHANGED <<message, bytes, links, uploads, sender>>

\* The connection is lost, a read runs into its timeout or the program ends:
\* what came so far stays where the whole file should be.
BreakOff(r) ==
  /\ reader[r].at = "reading"
  /\ reader' = [reader EXCEPT ![r].at = "cached", ![r].broke = TRUE]
  /\ UNCHANGED <<message, bytes, links, uploads, sender>>

-----------------------------------------------------------------------------

\* The routes under /attachments.
Upload(c) ==
  \/ \E f \in Contents : (\E m \in Messages \cup {Nothing} : HashFile(c, f, m)) \/ PutChunk(c, f)
  \/ \E u \in Uploads : Initiate(c, u)
  \/ \E a \in Ids : Commit(c, a)
  \/ GiveUp(c)

Download(r) ==
  (\E a \in Ids : StartDownload(r, a)) \/ Fetch(r) \/ EndDownload(r) \/ BreakOff(r)

MessageChange ==
  \E m \in Messages :
    \/ \E S \in SUBSET Ids : AppendMessage(m, S)
    \/ Delete(m) \/ Restore(m)
    \/ \E a \in Ids : Detach(m, a)

Init ==
  /\ message = [m \in Messages |-> "none"]
  /\ bytes = [a \in {} |-> <<>>] /\ links = {} /\ uploads = [u \in {} |-> Idle]
  /\ sender = [c \in Senders |-> Idle] /\ reader = [r \in Readers |-> Idle]

Next ==
  \/ \E c \in Senders : Upload(c)
  \/ \E r \in Readers : Download(r)
  \/ MessageChange
  \/ \E M \in SUBSET Messages : PurgeDeleted(M)
  \/ \E u \in Uploads : RunLate(u)
  \/ Sweep

Spec == Init /\ [][Next]_vars

-----------------------------------------------------------------------------
(* Properties *)

\* Every link leads to bytes that are stored, and no two rows hold the same bytes,
\* however commits, detachments and purges of shared attachments follow each other.
LinkedBytesAreStored ==
  /\ \A l \in links : l[2] \in DOMAIN bytes
  /\ \A a, b \in DOMAIN bytes : bytes[a] = bytes[b] => a = b

\* What an upload was turned into is what its client hashed before it sent a byte,
\* even if the file changed under it or another upload had stored the bytes first.
CommittedMeansHashed ==
  \A u \in DOMAIN uploads :
    uploads[u].result # Nothing => bytes[uploads[u].result] = uploads[u].want

\* What a desktop shows for an attachment that some message still holds is the
\* whole of it, although it came in many read transactions while messages that
\* shared its bytes were purged and files like it stored - unless the connection
\* broke off while it came, which nothing makes good.
LinkedFilesAreWhole ==
  \A r \in Readers :
    (reader[r].at = "cached" /\ \E m \in Messages : <<m, reader[r].id>> \in links)
      => reader[r].got = bytes[reader[r].id] \/ reader[r].broke

=============================================================================
