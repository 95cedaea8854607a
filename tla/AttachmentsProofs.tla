------------------------- MODULE AttachmentsProofs --------------------------
(***************************************************************************)
(* LinkedBytesAreStored, CommittedMeansHashed and LinkedFilesAreWhole for  *)
(* any number of messages, files, uploads, senders and cached files.       *)
(*                                                                         *)
(* A purge takes the bytes nothing links to once its messages are gone,    *)
(* which leaves every other link its bytes only because links are pairs of *)
(* a message and a row (LinksArePairs), and an upload's target is one the  *)
(* client was given (SendersHaveShape).  An upload's result must lose its  *)
(* bytes and its value in the same step, and a new row must take no id     *)
(* that holds bytes already (ResultsAreHashed, BytesAreDistinct).  Nor may *)
(* it take an id that a file was downloaded by: what the file holds is the *)
(* beginning of one content, and a link by that id leads to this content   *)
(* (ReadersHaveShape).                                                     *)
(***************************************************************************)
EXTENDS Attachments, TLAPS

LinksArePairs == links \subseteq Messages \X Ids

LinksAreStored == \A l \in links : l[2] \in DOMAIN bytes

BytesAreContents == \A a \in DOMAIN bytes : bytes[a] \in Contents

BytesAreDistinct == \A a, b \in DOMAIN bytes : bytes[a] = bytes[b] => a = b

UploadShape(v) ==
  v \in [status : {v.status}, late : {v.late}, target : Messages \cup {Nothing}, want : Contents,
         chunks : {v.chunks}, result : {v.result}]

UploadsHaveShape ==
  /\ uploads = [u \in DOMAIN uploads |-> uploads[u]]
  /\ \A u \in DOMAIN uploads : UploadShape(uploads[u])

Hashed(v) == v.result # Nothing => v.result \in DOMAIN bytes /\ bytes[v.result] = v.want

ResultsAreHashed == \A u \in DOMAIN uploads : Hashed(uploads[u])

SenderShape(s) ==
  \/ s = Idle
  \/ s \in [at : {"hashed"}, want : Contents, target : Messages \cup {Nothing}]
  \/ s \in [at : {"sending"}, upload : Uploads, next : Nat]

SendersHaveShape ==
  /\ sender = [c \in Senders |-> sender[c]]
  /\ \A c \in Senders : SenderShape(sender[c])

Stored ==
  /\ LinksArePairs /\ LinksAreStored /\ BytesAreContents /\ BytesAreDistinct
  /\ UploadsHaveShape /\ ResultsAreHashed

(* upload_file() goes from one of its places to another, with a message it *)
(* was given.                                                              *)
LEMMA SendersInit == Init => SendersHaveShape
BY DEF Init, SendersHaveShape, SenderShape

LEMMA SendersKeep == SendersHaveShape /\ [Next]_vars => SendersHaveShape'
<1> SUFFICES ASSUME SendersHaveShape, [Next]_vars PROVE SendersHaveShape'
  OBVIOUS
<1>1. ASSUME NEW c \in Senders, NEW new, Step(c, new), SenderShape(new) PROVE SendersHaveShape'
  BY <1>1 DEF Step, SendersHaveShape
<1>2. CASE \E c \in Senders : Upload(c)
  <2> SUFFICES ASSUME NEW c \in Senders, Upload(c) PROVE SendersHaveShape'
    BY <1>2
  <2>1. CASE \E f \in Contents, m \in Messages \cup {Nothing} : HashFile(c, f, m)
    <3>1. PICK f \in Contents, m \in Messages \cup {Nothing} : HashFile(c, f, m)
      BY <2>1
    <3>2. SenderShape([at |-> "hashed", want |-> f, target |-> m])
      BY DEF SenderShape
    <3> QED BY <3>1, <3>2, <1>1 DEF HashFile
  <2>2. CASE \E f \in Contents : PutChunk(c, f)
    <3>1. sender[c].at = "sending" /\ Step(c, [sender[c] EXCEPT !.next = sender[c].next + 1])
      BY <2>2 DEF PutChunk
    <3>2. sender[c] \in [at : {"sending"}, upload : Uploads, next : Nat]
      BY <3>1 DEF SendersHaveShape, SenderShape, Idle
    <3>3. SenderShape([sender[c] EXCEPT !.next = sender[c].next + 1])
      BY <3>2 DEF SenderShape
    <3> QED BY <3>1, <3>3, <1>1
  <2>3. CASE \E u \in Uploads : Initiate(c, u)
    <3>1. PICK u \in Uploads : Initiate(c, u)
      BY <2>3
    <3>2. SenderShape([at |-> "sending", upload |-> u, next |-> 1])
      BY DEF SenderShape
    <3> QED BY <3>1, <3>2, <1>1 DEF Initiate
  <2>4. CASE (\E a \in Ids : Commit(c, a)) \/ GiveUp(c)
    <3>1. Step(c, Idle) /\ SenderShape(Idle)
      BY <2>4 DEF Commit, GiveUp, SenderShape
    <3> QED BY <3>1, <1>1
  <2> QED BY <2>1, <2>2, <2>3, <2>4 DEF Upload
<1>3. CASE sender' = sender
  BY <1>3 DEF SendersHaveShape
<1>4. CASE ~ \E c \in Senders : Upload(c)
  <2>1. sender' = sender
    BY <1>4
       DEF Next, vars, Download, StartDownload, Fetch, EndDownload, BreakOff, MessageChange, AppendMessage,
                Delete, Restore, Detach, PurgeDeleted, RunLate, Sweep
  <2> QED BY <2>1, <1>3
<1> QED BY <1>2, <1>4

(* Initially there is nothing stored. *)
LEMMA StoredInit == Init => Stored
BY
   DEF Init, Stored, LinksArePairs, LinksAreStored, BytesAreContents, BytesAreDistinct, UploadsHaveShape,
       UploadShape, ResultsAreHashed, Hashed

(* initiate() opens an upload that has no result. *)
LEMMA InitiateKeeps ==
  ASSUME Stored, SendersHaveShape, NEW c \in Senders, NEW u \in Uploads, Initiate(c, u)
  PROVE  Stored'
<1> DEFINE new == [status |-> "uploading", late |-> FALSE, target |-> sender[c].target,
                   want |-> sender[c].want, chunks |-> <<>>, result |-> Nothing]
<1>1. /\ uploads' = [v \in DOMAIN uploads \cup {u} |-> IF v = u THEN new ELSE uploads[v]]
      /\ bytes' = bytes /\ links' = links
  BY DEF Initiate
<1>2. UploadShape(new) /\ Hashed(new)
  <2>1. sender[c].target \in Messages \cup {Nothing} /\ sender[c].want \in Contents
    BY DEF Initiate, SendersHaveShape, SenderShape, Idle
  <2> QED BY <2>1 DEF UploadShape, Hashed
<1>3. UploadsHaveShape'
  <2> HIDE DEF new
  <2> QED BY <1>1, <1>2 DEF Stored, UploadsHaveShape, UploadShape
<1>4. ResultsAreHashed'
  <2> HIDE DEF new
  <2> QED BY <1>1, <1>2 DEF Stored, ResultsAreHashed, Hashed
<1> QED BY <1>1, <1>3, <1>4
   DEF Stored, LinksArePairs, LinksAreStored, BytesAreContents, BytesAreDistinct

(* put_chunk() leaves what was hashed alone. *)
LEMMA PutChunkKeeps ==
  ASSUME Stored, NEW c \in Senders, NEW f \in Contents, PutChunk(c, f)
  PROVE  Stored'
<1> DEFINE u == sender[c].upload
<1> DEFINE put == [i \in 1..sender[c].next |->
                     IF i = sender[c].next THEN f[sender[c].next] ELSE uploads[u].chunks[i]]
<1>1. /\ u \in DOMAIN uploads /\ uploads' = [uploads EXCEPT ![u].chunks = put]
      /\ bytes' = bytes /\ links' = links
  BY DEF PutChunk, Open
<1> HIDE DEF put, u
<1>2. UploadsHaveShape'
  BY <1>1 DEF Stored, UploadsHaveShape, UploadShape
<1>3. ResultsAreHashed'
  BY <1>1 DEF Stored, UploadsHaveShape, UploadShape, ResultsAreHashed, Hashed
<1> QED BY <1>1, <1>2, <1>3
   DEF Stored, LinksArePairs, LinksAreStored, BytesAreContents, BytesAreDistinct

(* commit() finds or stores the bytes that were declared. *)
LEMMA CommitKeeps ==
  ASSUME Stored, NEW c \in Senders, NEW a \in Ids, Commit(c, a)
  PROVE  Stored'
<1> DEFINE u == sender[c].upload
<1> DEFINE f == uploads[u].chunks
<1>1. /\ u \in DOMAIN uploads /\ f = uploads[u].want /\ Store(f, a)
      /\ uploads' = [uploads EXCEPT ![u].status = "committed", ![u].chunks = <<>>,
                                    ![u].result = a]
      /\ links' = links \/ (Live(uploads[u].target)
                            /\ links' = links \cup {<<uploads[u].target, a>>})
  BY DEF Commit, Open, Verified
<1>2. /\ a \in DOMAIN bytes' /\ bytes'[a] = f
      /\ \A b \in DOMAIN bytes : b \in DOMAIN bytes' /\ bytes'[b] = bytes[b]
      /\ BytesAreDistinct' /\ BytesAreContents'
  <2>1. f \in Contents
    BY <1>1 DEF Stored, UploadsHaveShape, UploadShape
  <2> QED
    BY <1>1, <2>1 DEF Store, SameBytes, NewId, Stored, BytesAreContents, BytesAreDistinct
<1> DEFINE new == [uploads[u] EXCEPT !.status = "committed", !.chunks = <<>>, !.result = a]
<1>3. uploads' = [v \in DOMAIN uploads |-> IF v = u THEN new ELSE uploads[v]]
  <2>1. uploads = [v \in DOMAIN uploads |-> uploads[v]]
    BY DEF Stored, UploadsHaveShape
  <2> QED BY <1>1, <2>1
<1>4. UploadShape(new) /\ new.want = f /\ new.result = a
  <2>1. UploadShape(uploads[u]) /\ uploads[u].want = f
    BY <1>1 DEF Stored, UploadsHaveShape
  <2> QED BY <2>1 DEF UploadShape
<1>5. UploadsHaveShape'
  <2> HIDE DEF new, u, f
  <2> QED BY <1>3, <1>4 DEF Stored, UploadsHaveShape
<1>6. ResultsAreHashed'
  <2> HIDE DEF new, u, f
  <2>1. \A v \in DOMAIN uploads : Hashed(uploads[v])
    BY DEF Stored, ResultsAreHashed
  <2> QED BY <1>2, <1>3, <1>4, <2>1 DEF ResultsAreHashed, Hashed
<1>7. LinksAreStored'
  BY <1>1, <1>2 DEF Stored, LinksAreStored
<1>8. LinksArePairs'
  <2>1. Live(uploads[u].target) => uploads[u].target \in Messages
    BY <1>1 DEF Live, Stored, UploadsHaveShape, UploadShape
  <2> QED BY <1>1, <2>1 DEF Stored, LinksArePairs
<1> QED BY <1>2, <1>5, <1>6, <1>7, <1>8 DEF Stored

(* purge_deleted() removes bytes with the last link to them. *)
LEMMA PurgeKeeps ==
  ASSUME Stored, NEW M \in SUBSET Messages, PurgeDeleted(M)
  PROVE  Stored'
<1> DEFINE dead == Orphans(M)
<1> DEFINE left(v) == [v EXCEPT !.target = IF @ \in M THEN Nothing ELSE @,
                                !.result = IF @ \in dead THEN Nothing ELSE @]
<1>1. /\ links' = {l \in links : l[1] \notin M}
      /\ bytes' = [a \in DOMAIN bytes \ dead |-> bytes[a]]
      /\ uploads' = [u \in DOMAIN uploads |-> left(uploads[u])]
  BY DEF PurgeDeleted
<1>2. LinksArePairs' /\ BytesAreContents' /\ BytesAreDistinct'
  BY <1>1 DEF Stored, LinksArePairs, BytesAreContents, BytesAreDistinct
<1>3. LinksAreStored'
  <2> SUFFICES ASSUME NEW l \in links, l[1] \notin M PROVE l[2] \in DOMAIN bytes \ dead
    BY <1>1 DEF LinksAreStored
  <2>1. l = <<l[1], l[2]>> /\ l[1] \in Messages \ M /\ l[2] \in DOMAIN bytes
    BY DEF Stored, LinksArePairs, LinksAreStored
  <2>2. <<l[1], l[2]>> \in links
    BY <2>1
  <2> QED BY <2>1, <2>2 DEF Orphans
<1>4. \A v : UploadShape(v) /\ Hashed(v) =>
               UploadShape(left(v)) /\ left(v).want = v.want
               /\ left(v).result = IF v.result \in dead THEN Nothing ELSE v.result
  <2> HIDE DEF dead
  <2> DEFINE target(v) == IF v.target \in M THEN Nothing ELSE v.target
             result(v) == IF v.result \in dead THEN Nothing ELSE v.result
  <2> SUFFICES ASSUME NEW v, UploadShape(v)
               PROVE  left(v) \in [status : {v.status}, late : {v.late}, target : {target(v)},
                                   want : {v.want}, chunks : {v.chunks}, result : {result(v)}]
    BY DEF UploadShape
  <2> HIDE DEF target, result
  <2>1. left(v) = [v EXCEPT !.target = target(v), !.result = result(v)]
    BY DEF UploadShape, target, result
  <2> QED BY <2>1 DEF UploadShape
<1>5. UploadsHaveShape'
  <2> HIDE DEF left
  <2> QED BY <1>1, <1>4 DEF Stored, UploadsHaveShape, UploadShape, ResultsAreHashed
<1>6. ResultsAreHashed'
  <2> HIDE DEF left, dead
  <2> QED BY <1>1, <1>4 DEF Stored, UploadsHaveShape, ResultsAreHashed, Hashed
<1> QED BY <1>2, <1>3, <1>5, <1>6 DEF Stored

(* The clock and the sweeper leave results alone. *)
LEMMA TimeKeeps ==
  ASSUME Stored, (\E u \in Uploads : RunLate(u)) \/ Sweep
  PROVE  Stored'
<1>1. /\ bytes' = bytes /\ links' = links
      /\ DOMAIN uploads' \subseteq DOMAIN uploads
      /\ uploads' = [u \in DOMAIN uploads' |-> uploads'[u]]
      /\ \A u \in DOMAIN uploads' :
           /\ UploadShape(uploads'[u]) /\ uploads'[u].want = uploads[u].want
           /\ uploads'[u].result = uploads[u].result
  <2>1. CASE \E u \in Uploads : RunLate(u)
    <3>1. PICK u \in DOMAIN uploads :
            uploads' = [uploads EXCEPT ![u].late = TRUE] /\ bytes' = bytes /\ links' = links
      BY <2>1 DEF RunLate, Open
    <3> QED BY <3>1 DEF Stored, UploadsHaveShape, UploadShape
  <2>2. CASE Sweep
    <3>1. PICK old :
            /\ uploads' = [u \in DOMAIN uploads \ old |->
                 IF Stale(u) THEN [uploads[u] EXCEPT !.status = "expired", !.chunks = <<>>]
                             ELSE uploads[u]]
            /\ bytes' = bytes /\ links' = links
      BY <2>2 DEF Sweep
    <3>2. \A v : UploadShape(v) =>
            LET ended == [v EXCEPT !.status = "expired", !.chunks = <<>>] IN
            UploadShape(ended) /\ ended.want = v.want /\ ended.result = v.result
      BY DEF UploadShape
    <3> QED BY <3>1, <3>2 DEF Stored, UploadsHaveShape
  <2> QED BY <2>1, <2>2
<1> QED BY <1>1
   DEF Stored, LinksArePairs, LinksAreStored, BytesAreContents, BytesAreDistinct, UploadsHaveShape,
                    UploadShape, ResultsAreHashed, Hashed

(* Messages link what can be reached already. *)
LEMMA MessagesKeep == Stored /\ MessageChange => Stored'
BY DEF MessageChange, AppendMessage, Delete, Restore, Detach, Reachable, Stored, LinksArePairs,
       LinksAreStored, BytesAreContents, BytesAreDistinct, UploadsHaveShape, UploadShape, ResultsAreHashed, Hashed

LEMMA StoredNext == Stored /\ SendersHaveShape /\ [Next]_vars => Stored'
<1> SUFFICES ASSUME Stored, SendersHaveShape, [Next]_vars PROVE Stored'
  OBVIOUS
<1>1. ASSUME bytes' = bytes, links' = links, uploads' = uploads PROVE Stored'
  BY <1>1
     DEF Stored, LinksArePairs, LinksAreStored, BytesAreContents, BytesAreDistinct, UploadsHaveShape,
              UploadShape, ResultsAreHashed, Hashed
<1>2. CASE \E c \in Senders : Upload(c)
  <2> SUFFICES ASSUME NEW c \in Senders, Upload(c) PROVE Stored'
    BY <1>2
  <2>1. CASE \E f \in Contents, m \in Messages \cup {Nothing} : HashFile(c, f, m)
    BY <2>1, <1>1 DEF HashFile
  <2>2. CASE \E f \in Contents : PutChunk(c, f)
    BY <2>2, PutChunkKeeps
  <2>3. CASE \E u \in Uploads : Initiate(c, u)
    BY <2>3, InitiateKeeps
  <2>4. CASE \E a \in Ids : Commit(c, a)
    BY <2>4, CommitKeeps
  <2>5. CASE GiveUp(c)
    BY <2>5, <1>1 DEF GiveUp
  <2> QED BY <2>1, <2>2, <2>3, <2>4, <2>5 DEF Upload
<1>3. CASE \E r \in Readers : Download(r)
  BY <1>3, <1>1 DEF Download, StartDownload, Fetch, EndDownload, BreakOff
<1>4. CASE MessageChange
  BY <1>4, MessagesKeep
<1>5. CASE \E M \in SUBSET Messages : PurgeDeleted(M)
  BY <1>5, PurgeKeeps
<1>6. CASE (\E u \in Uploads : RunLate(u)) \/ Sweep
  BY <1>6, TimeKeeps
<1>7. CASE UNCHANGED vars
  BY <1>7, <1>1 DEF vars
<1> QED BY <1>2, <1>3, <1>4, <1>5, <1>6, <1>7 DEF Next

LEMMA AlwaysStored == Spec => []Stored
BY SendersInit, SendersKeep, StoredInit, StoredNext, PTL DEF Spec

(* No purge, commit or detachment leaves a message linked to bytes that are *)
(* gone, and the same bytes are never stored twice: Orphans, Store.         *)
THEOREM PurgesLeaveLinksTheirBytes == Spec => []LinkedBytesAreStored
<1>1. Stored => LinkedBytesAreStored
  BY DEF Stored, LinksAreStored, BytesAreContents, BytesAreDistinct, LinkedBytesAreStored
<1> QED BY <1>1, AlwaysStored, PTL

(* Whatever an upload became is what its client had hashed before: Verified, *)
(* Store.                                                                    *)
THEOREM UploadsBecomeWhatWasHashed == Spec => []CommittedMeansHashed
<1>1. Stored => CommittedMeansHashed
  BY DEF Stored, ResultsAreHashed, Hashed, CommittedMeansHashed
<1> QED BY <1>1, AlwaysStored, PTL

-----------------------------------------------------------------------------
(* Downloads. *)

\* A file that is not whole though its connection held was cut short by a purge.
ShortOnlyIfPurged(d) ==
  d.at = "cached" /\ ~d.broke => Len(d.got) = Len(d.sum) \/ d.id \notin DOMAIN bytes

\* What download_attachment() has written is the beginning of what it was
\* promised, and the row it reads still holds that, or is gone.
ReaderShape(d) ==
  \/ d = Idle
  \/ /\ d \in [at : {"reading", "cached"}, id : Ids, sum : Contents, got : {d.got},
               broke : BOOLEAN]
     /\ \E n \in 0..Len(d.sum) : d.got = [i \in 1..n |-> d.sum[i]]
     /\ d.id \in DOMAIN bytes => bytes[d.id] = d.sum
     /\ ShortOnlyIfPurged(d)

ReadersHaveShape ==
  /\ reader = [r \in Readers |-> reader[r]]
  /\ \A r \in Readers : ReaderShape(reader[r])

(* A list of the first n chunks is n long, and the whole when n is all. *)
LEMMA Beginnings ==
  ASSUME NEW f \in Contents
  PROVE  /\ Len(f) \in Nat \ {0}
         /\ \A n \in 0..Len(f) : Len([i \in 1..n |-> f[i]]) = n
         /\ f = [i \in 1..Len(f) |-> f[i]]
<1> DEFINE S == {f[i] : i \in DOMAIN f}
<1>1. f \in Seq(S) /\ f # <<>>
  BY ContentsAssumption
<1> HIDE DEF S
<1>2. Len(f) \in Nat /\ DOMAIN f = 1..Len(f) /\ f = [i \in 1..Len(f) |-> f[i]]
  BY <1>1
<1>3. Len(f) # 0
  BY <1>1
<1>4. ASSUME NEW n \in 0..Len(f) PROVE Len([i \in 1..n |-> f[i]]) = n
  <2>1. n \in Nat /\ \A i \in 1..n : f[i] \in S
    BY <1>1, <1>2
  <2> QED BY <2>1
<1> QED BY <1>2, <1>3, <1>4

(* Rows come with new ids and go as a whole, so a download never reads two *)
(* contents: NewId, PurgeDeleted.                                          *)
LEMMA RowsDoNotChange ==
  ASSUME Stored, SendersHaveShape, [Next]_vars, NEW d, ReaderShape(d),
         \E r \in Readers : reader[r] = d
  PROVE  ReaderShape(d)'
<1> SUFFICES ASSUME d # Idle, d.at # "idle",
                    d.id \in DOMAIN bytes => bytes[d.id] = d.sum
             PROVE  d.id \in DOMAIN bytes' => d.id \in DOMAIN bytes /\ bytes'[d.id] = d.sum
  <2>1. ASSUME NEW D, d.id \in D => d.id \in DOMAIN bytes, ShortOnlyIfPurged(d)
        PROVE  d.at = "cached" /\ ~d.broke => Len(d.got) = Len(d.sum) \/ d.id \notin D
    BY <2>1 DEF ShortOnlyIfPurged
  <2> QED BY <2>1 DEF ReaderShape, ShortOnlyIfPurged, Idle
<1>1. CASE bytes' = bytes
  BY <1>1
<1>2. CASE \E c \in Senders, a \in Ids : Commit(c, a)
  <2>1. PICK c \in Senders, a \in Ids : Commit(c, a)
    BY <1>2
  <2>2. bytes' # bytes =>
          NewId(a) /\ \E f : bytes' = [b \in DOMAIN bytes \cup {a} |-> IF b = a THEN f ELSE bytes[b]]
    BY <2>1 DEF Commit, Store
  <2> QED BY <2>2 DEF NewId
<1>3. CASE \E M \in SUBSET Messages : PurgeDeleted(M)
  BY <1>3 DEF PurgeDeleted
<1> QED
  BY <1>1, <1>2, <1>3
     DEF Next, vars, Upload, HashFile, PutChunk, Initiate, GiveUp, Download, StartDownload,
     Fetch, EndDownload, BreakOff, MessageChange, AppendMessage, Delete, Restore, Detach,
     RunLate, Sweep

LEMMA ReadersNext == Stored /\ SendersHaveShape /\ ReadersHaveShape /\ [Next]_vars => ReadersHaveShape'
<1> SUFFICES ASSUME Stored, SendersHaveShape, ReadersHaveShape, [Next]_vars PROVE ReadersHaveShape'
  OBVIOUS
<1>1. \A r \in Readers : ReaderShape(reader[r])
  BY DEF ReadersHaveShape
<1>2. ASSUME NEW r \in Readers, NEW new, reader' = [reader EXCEPT ![r] = new],
             bytes' = bytes, ReaderShape(new)
      PROVE  ReadersHaveShape'
  <2>1. reader' = [q \in Readers |-> IF q = r THEN new ELSE reader[q]]
    BY <1>2 DEF ReadersHaveShape
  <2>2. \A d : ReaderShape(d) => ReaderShape(d)'
    BY <1>2 DEF ReaderShape, ShortOnlyIfPurged
  <2>3. \A q \in Readers : ReaderShape(IF q = r THEN new ELSE reader[q])'
    BY <1>1, <1>2, <2>2
  <2> QED BY <2>1, <2>3 DEF ReadersHaveShape
<1>3. ASSUME NEW r \in Readers, NEW a \in Ids, StartDownload(r, a) PROVE ReadersHaveShape'
  <2> DEFINE new == [at |-> "reading", id |-> a, sum |-> bytes[a], got |-> <<>>,
                     broke |-> FALSE]
  <2>1. reader' = [reader EXCEPT ![r] = new] /\ bytes' = bytes /\ a \in DOMAIN bytes
    BY <1>3 DEF StartDownload, Reachable
  <2>2. bytes[a] \in Contents
    BY <2>1 DEF Stored, BytesAreContents
  <2>3. 0 \in 0..Len(bytes[a]) /\ <<>> = [i \in 1..0 |-> bytes[a][i]]
    BY <2>2, Beginnings
  <2>4. ReaderShape(new)
    BY <2>2, <2>3 DEF ReaderShape, ShortOnlyIfPurged
  <2> HIDE DEF new
  <2> QED BY <1>2, <2>1, <2>4
<1>4. ASSUME NEW r \in Readers, Fetch(r) PROVE ReadersHaveShape'
  <2> DEFINE d == reader[r]
             got == [i \in 1..Len(d.got) + 1 |-> IF i <= Len(d.got) THEN d.got[i] ELSE bytes[d.id][i]]
             new == [d EXCEPT !.got = got]
  <2>1. /\ reader' = [reader EXCEPT ![r] = new] /\ bytes' = bytes
        /\ d.at = "reading" /\ d.id \in DOMAIN bytes /\ Len(d.got) < Len(d.sum)
    BY <1>4 DEF Fetch, ChunkCount, ReadersHaveShape
  <2> HIDE DEF new
  <2>2. /\ d \in [at : {"reading"}, id : Ids, sum : Contents, got : {d.got}, broke : BOOLEAN]
        /\ \E n \in 0..Len(d.sum) : d.got = [i \in 1..n |-> d.sum[i]]
        /\ bytes[d.id] = d.sum
    BY <1>1, <2>1 DEF ReaderShape, Idle
  <2>3. PICK n \in 0..Len(d.sum) : d.got = [i \in 1..n |-> d.sum[i]]
    BY <2>2
  <2>4. d.sum \in Contents
    BY <2>2
  <2>5. Len(d.got) = n /\ n + 1 \in 0..Len(d.sum)
    BY <2>1, <2>3, <2>4, Beginnings
  <2>6. got = [i \in 1..n + 1 |-> d.sum[i]]
    BY <2>2, <2>3, <2>5
  <2>7. /\ new \in [at : {"reading"}, id : Ids, sum : Contents, got : {new.got}, broke : BOOLEAN]
        /\ new.got = got /\ new.sum = d.sum /\ new.id = d.id
    <3> HIDE DEF d, got
    <3> QED BY <2>2 DEF new
  <2>8. ReaderShape(new)
    <3> HIDE DEF got, d
    <3> QED BY <2>2, <2>5, <2>6, <2>7 DEF ReaderShape, ShortOnlyIfPurged
  <2> QED BY <1>2, <2>1, <2>8
<1>5. ASSUME NEW r \in Readers, EndDownload(r) \/ BreakOff(r) PROVE ReadersHaveShape'
  <2> DEFINE d == reader[r]
             over == [d EXCEPT !.at = "cached"]
             broken == [d EXCEPT !.at = "cached", !.broke = TRUE]
  <2>1. /\ reader' = [reader EXCEPT ![r] = over] \/ reader' = [reader EXCEPT ![r] = broken]
        /\ BreakOff(r) => reader' = [reader EXCEPT ![r] = broken]
        /\ d.at = "reading" /\ bytes' = bytes
    BY <1>5 DEF EndDownload, BreakOff, ReadersHaveShape
  <2>2. /\ d \in [at : {"reading"}, id : Ids, sum : Contents, got : {d.got}, broke : BOOLEAN]
        /\ \E n \in 0..Len(d.sum) : d.got = [i \in 1..n |-> d.sum[i]]
        /\ d.id \in DOMAIN bytes => bytes[d.id] = d.sum
    BY <1>1, <2>1 DEF ReaderShape, Idle
  <2>3. EndDownload(r) => Len(d.got) = Len(d.sum) \/ d.id \notin DOMAIN bytes
    BY DEF EndDownload, ChunkCount
  <2> HIDE DEF d
  <2>4. ReaderShape(broken)
    BY <2>2 DEF ReaderShape, ShortOnlyIfPurged
  <2>5. EndDownload(r) => ReaderShape(over)
    BY <2>2, <2>3 DEF ReaderShape, ShortOnlyIfPurged
  <2> HIDE DEF over, broken
  <2> QED BY <1>2, <1>5, <2>1, <2>4, <2>5
<1>6. CASE \E r \in Readers : Download(r)
  BY <1>3, <1>4, <1>5, <1>6 DEF Download
<1>7. CASE ~ \E r \in Readers : Download(r)
  <2>1. reader' = reader
    BY <1>7 DEF Next, vars, Upload, HashFile, PutChunk, Initiate, Commit, GiveUp, MessageChange,
                AppendMessage, Delete, Restore, Detach, PurgeDeleted, RunLate, Sweep
  <2>2. \A r \in Readers : ReaderShape(reader[r])'
    BY <1>1, <2>1, RowsDoNotChange
  <2> QED BY <2>1, <2>2 DEF ReadersHaveShape
<1> QED BY <1>6, <1>7

LEMMA AlwaysShaped == Spec => []ReadersHaveShape
<1>1. Init => ReadersHaveShape
  BY DEF Init, ReadersHaveShape, ReaderShape
<1> QED BY <1>1, SendersInit, SendersKeep, StoredInit, StoredNext, ReadersNext, PTL DEF Spec

\* What a cached file holds is a beginning of the attachment, all of it if nothing
\* cut the download short.
LEMMA FileIsBeginning ==
  ASSUME ReadersHaveShape, NEW r \in Readers, reader[r].at # "idle"
  PROVE  LET d == reader[r] IN
         /\ d.sum \in Contents /\ Len(d.got) \in 0..Len(d.sum)
         /\ \A i \in 1..Len(d.got) : d.got[i] = d.sum[i]
         /\ Len(d.got) = Len(d.sum) => d.got = d.sum
         /\ d.id \in DOMAIN bytes => bytes[d.id] = d.sum
         /\ ShortOnlyIfPurged(d)
<1> DEFINE d == reader[r]
<1>1. ReaderShape(d) /\ d # Idle
  BY DEF ReadersHaveShape, Idle
<1> HIDE DEF d
<1>2. /\ d.sum \in Contents /\ \E n \in 0..Len(d.sum) : d.got = [i \in 1..n |-> d.sum[i]]
      /\ d.id \in DOMAIN bytes => bytes[d.id] = d.sum
      /\ ShortOnlyIfPurged(d)
  BY <1>1 DEF ReaderShape
<1>3. PICK n \in 0..Len(d.sum) : d.got = [i \in 1..n |-> d.sum[i]]
  BY <1>2
<1>4. Len(d.got) = n /\ d.sum = [i \in 1..Len(d.sum) |-> d.sum[i]]
  BY <1>2, <1>3, Beginnings
<1>5. n = Len(d.sum) => d.got = d.sum
  BY <1>3, <1>4
<1>6. \A i \in 1..Len(d.got) : d.got[i] = d.sum[i]
  BY <1>3, <1>4
<1> QED BY <1>2, <1>3, <1>4, <1>5, <1>6 DEF d

\* As long as a message holds an attachment, the file a desktop has of it is
\* whole or its connection broke off: Fetch, Orphans, Store.
THEOREM LinkedFilesStayWhole == Spec => []LinkedFilesAreWhole
<1>1. ASSUME Stored, ReadersHaveShape, NEW r \in Readers, NEW m \in Messages,
             reader[r].at = "cached", <<m, reader[r].id>> \in links, ~reader[r].broke
      PROVE  reader[r].got = bytes[reader[r].id]
  <2>1. reader[r].id \in DOMAIN bytes
    BY <1>1 DEF Stored, LinksAreStored
  <2> QED BY <1>1, <2>1, FileIsBeginning DEF ShortOnlyIfPurged
<1>2. Stored /\ ReadersHaveShape => LinkedFilesAreWhole
  BY <1>1 DEF LinkedFilesAreWhole
<1> QED BY <1>2, AlwaysStored, AlwaysShaped, PTL

\* What a file holds is a beginning of one content, the one its row held and
\* holds as long as it is there; it is short only after a broken connection or a
\* purge of the row for good.
FilesAreBeginnings ==
  \A r \in Readers :
    LET d == reader[r] IN
    d.at # "idle" =>
      /\ d.sum \in Contents /\ Len(d.got) \in 0..Len(d.sum)
      /\ \A i \in 1..Len(d.got) : d.got[i] = d.sum[i]
      /\ d.id \in DOMAIN bytes => bytes[d.id] = d.sum
      /\ (d.at = "cached" /\ d.got # d.sum) => d.broke \/ d.id \notin DOMAIN bytes

\* No file mixes two contents, whatever was purged and stored between two chunks
\* (Store, NewId), and nothing else than these two cuts a download short.
THEOREM FilesAreNeverMixed == Spec => []FilesAreBeginnings
<1>1. ASSUME ReadersHaveShape, NEW r \in Readers, reader[r].at = "cached",
             reader[r].got # reader[r].sum
      PROVE  reader[r].broke \/ reader[r].id \notin DOMAIN bytes
  BY <1>1, FileIsBeginning DEF ShortOnlyIfPurged
<1>2. ReadersHaveShape => FilesAreBeginnings
  BY <1>1, FileIsBeginning DEF FilesAreBeginnings
<1> QED BY <1>2, AlwaysShaped, PTL

=============================================================================
