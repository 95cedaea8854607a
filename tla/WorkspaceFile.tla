--------------------------- MODULE WorkspaceFile ---------------------------
(***************************************************************************)
(* The workspace file of the desktop (store.py): a window guarded by       *)
(* WorkspaceLock holds the whole document in memory and saves it through a *)
(* temporary file.  A rename that stays refused falls back to writing in   *)
(* place, and load() falls back to the temporary file.  The process may    *)
(* die between any two steps, and the file system may refuse any of them.  *)
(*                                                                         *)
(* A document is the set of edits it holds; the seeded one holds none.  A  *)
(* file is not whole from the moment it is opened for writing until it is  *)
(* closed.  What is left of it if the writing gets no further is torn when *)
(* it ends between two characters (no JSON any more) and cut when it ends  *)
(* inside one (no UTF-8 any more); which of the two is chosen on opening.  *)
(***************************************************************************)
EXTENDS Naturals

CONSTANTS
  Windows,    \* processes that open the workspace
  Edits,      \* edits users make
  Nobody      \* no window holds the lock

ASSUME NobodyAssumption == Nobody \notin Windows

VARIABLES
  main,       \* workspace.json
  temp,       \* workspace.json.tmp
  holder,     \* who has the byte-range lock
  at,         \* where each window stands
  purpose,    \* what it saves for: coming up, work or leaving
  doc,        \* self.data
  dirty,      \* self._dirty
  saved,      \* history: the document of the last save() that returned
  faults      \* history: crashes and refusals since then, counted up to 2

vars == <<main, temp, holder, at, purpose, doc, dirty, saved, faults>>

File == [state : {"absent", "torn", "cut", "whole"}, doc : SUBSET Edits]

Absent == [state |-> "absent", doc |-> {}]
Torn == [state |-> "torn", doc |-> {}]
Cut == [state |-> "cut", doc |-> {}]
Begun == {Torn, Cut}                     \* a file that is being written
Whole(d) == [state |-> "whole", doc |-> d]

Holding == {"idle", "temp", "rename", "inplace"}    \* the document is loaded

TypeOK ==
  /\ main \in File
  /\ temp \in File
  /\ holder \in Windows \cup {Nobody}
  /\ at \in [Windows -> {"closed", "loading"} \cup Holding]
  /\ purpose \in [Windows -> {"open", "work", "leave"}]
  /\ doc \in [Windows -> SUBSET Edits]
  /\ dirty \in [Windows -> BOOLEAN]
  /\ saved \subseteq Edits
  /\ faults \in 0..2
  /\ \A w \in Windows : at[w] # "closed" => holder = w

Fault == faults' = IF faults < 2 THEN faults + 1 ELSE 2

Go(w, place) == at' = [at EXCEPT ![w] = place]

\* The window is gone, and its lock with it.
Leave(w) ==
  /\ Go(w, "closed")
  /\ holder' = IF holder = w THEN Nobody ELSE holder
  /\ purpose' = [purpose EXCEPT ![w] = "open"]
  /\ doc' = [doc EXCEPT ![w] = {}]
  /\ dirty' = [dirty EXCEPT ![w] = FALSE]

-----------------------------------------------------------------------------
(* Opening the workspace. *)

\* Faulty variant: the lock is not asked for.
StartUnlocked(w) ==
  /\ at[w] = "closed"
  /\ Go(w, "loading")
  /\ purpose' = [purpose EXCEPT ![w] = "open"]
  /\ UNCHANGED <<main, temp, holder, doc, dirty, saved, faults>>

\* WorkspaceLock.acquire(); a user who is told that another window has the
\* workspace open leaves it at that.
Start(w) ==
  /\ at[w] = "closed"
  /\ holder = Nobody
  /\ holder' = w
  /\ Go(w, "loading")
  /\ purpose' = [purpose EXCEPT ![w] = "open"]
  /\ UNCHANGED <<main, temp, doc, dirty, saved, faults>>

\* The document is in memory and nothing needs saving.
Opened(w, d) ==
  /\ Go(w, "idle")
  /\ purpose' = [purpose EXCEPT ![w] = "work"]
  /\ doc' = [doc EXCEPT ![w] = d]
  /\ UNCHANGED temp

\* _seed(), and the opening of the temporary file by save().
Seed(w) ==
  /\ Go(w, "temp")
  /\ doc' = [doc EXCEPT ![w] = {}]
  /\ temp' \in Begun
  /\ UNCHANGED purpose

LoadMain(w) ==
  /\ at[w] = "loading"
  /\ main.state = "whole"
  /\ Opened(w, main.doc)
  /\ UNCHANGED <<main, holder, dirty, saved, faults>>

\* There is no file: a new workspace, whatever the temporary file holds.
LoadNothing(w) ==
  /\ at[w] = "loading"
  /\ main.state = "absent"
  /\ Seed(w)
  /\ UNCHANGED <<main, holder, dirty, saved, faults>>

\* Faulty variant: a torn file is given up at once.
LoadSeeding(w) ==
  /\ at[w] = "loading"
  /\ main.state = "torn"
  /\ Seed(w)
  /\ main' = Absent
  /\ UNCHANGED <<holder, dirty, saved, faults>>

\* The file is torn: take the temporary one, and put the torn one aside, which
\* may be refused.
LoadTemp(w) ==
  /\ at[w] = "loading"
  /\ main.state = "torn"
  /\ temp.state # "cut"
  /\ IF temp.state = "whole" THEN Opened(w, temp.doc) ELSE Seed(w)
  /\ \/ main' = Absent /\ UNCHANGED faults
     \/ UNCHANGED main /\ Fault
  /\ UNCHANGED <<holder, dirty, saved>>

\* _read() does not catch UnicodeDecodeError, so load() ends before the
\* temporary file is tried, or before the torn file is put aside, and the
\* window does not come up.
LoadRaises(w) ==
  /\ at[w] = "loading"
  /\ \/ main.state = "cut"
     \/ main.state = "torn" /\ temp.state = "cut"
  /\ Leave(w)
  /\ UNCHANGED <<main, temp, saved, faults>>

\* Reading is refused: _read() says of a good file what it says of a torn one,
\* which no property below is asked to survive.
LoadRefused(w) ==
  /\ at[w] = "loading"
  /\ main.state # "absent"
  /\ \/ /\ (temp.state = "whole" /\ Opened(w, temp.doc)) \/ Seed(w)
        /\ main' \in {main, Absent}
        /\ UNCHANGED <<holder, dirty>>
     \/ temp.state = "cut" /\ Leave(w) /\ UNCHANGED <<main, temp>>
  /\ faults' = 2
  /\ UNCHANGED saved

-----------------------------------------------------------------------------
(* Editing and saving. *)

Mutate(w, e) ==
  /\ at[w] = "idle"
  /\ e \notin UNION {doc[v] : v \in Windows} \cup saved
  /\ doc' = [doc EXCEPT ![w] = @ \cup {e}]

\* Messages, records of tools and usage: touch(), and flush() saves later.
Edit(w, e) ==
  /\ Mutate(w, e)
  /\ dirty' = [dirty EXCEPT ![w] = TRUE]
  /\ UNCHANGED <<main, temp, holder, at, purpose, saved, faults>>

\* Structure, settings and session ids: save() at once, without a touch(), so
\* that a refused save leaves the mark as it was.
EditAndSave(w, e) ==
  /\ Mutate(w, e)
  /\ Go(w, "temp")
  /\ temp' \in Begun
  /\ UNCHANGED <<main, holder, purpose, dirty, saved, faults>>

\* Faulty variant: the mark is cleared before anything is written.
BeginSaveClean(w) ==
  /\ at[w] = "idle"
  /\ Go(w, "temp")
  /\ temp' \in Begun
  /\ purpose' \in {[purpose EXCEPT ![w] = p] : p \in {"work", "leave"}}
  /\ dirty' = [dirty EXCEPT ![w] = FALSE]
  /\ UNCHANGED <<main, holder, doc, saved, faults>>

\* save(): from flush(), from an operation that changes nothing else, or from
\* on_close(); the temporary file is opened, which truncates it.
BeginSave(w) ==
  /\ at[w] = "idle"
  /\ Go(w, "temp")
  /\ temp' \in Begun
  /\ purpose' \in {[purpose EXCEPT ![w] = p] : p \in {"work", "leave"}}
  /\ UNCHANGED <<main, holder, doc, dirty, saved, faults>>

WriteTemp(w) ==
  /\ at[w] = "temp"
  /\ Go(w, "rename")
  /\ temp' = Whole(doc[w])
  /\ UNCHANGED <<main, holder, purpose, doc, dirty, saved, faults>>

\* save() raised: a window coming up does not, one at work goes on, and a user
\* who wanted to leave chooses.
SaveRaises(w) ==
  /\ \/ purpose[w] \in {"open", "leave"} /\ Leave(w)
     \/ /\ purpose[w] \in {"work", "leave"}
        /\ Go(w, "idle")
        /\ purpose' = [purpose EXCEPT ![w] = "work"]
        /\ UNCHANGED <<holder, doc, dirty>>
  /\ Fault
  /\ UNCHANGED saved

TempFails(w) ==
  /\ at[w] = "temp"
  /\ SaveRaises(w)
  /\ UNCHANGED <<main, temp>>

\* save() returns, and on_close() goes on to leave.
Saved(w) ==
  /\ \/ purpose[w] = "leave" /\ Leave(w)
     \/ /\ purpose[w] # "leave"
        /\ Go(w, "idle")
        /\ purpose' = [purpose EXCEPT ![w] = "work"]
        /\ dirty' = [dirty EXCEPT ![w] = FALSE]
        /\ UNCHANGED <<holder, doc>>
  /\ saved' = doc[w]
  /\ faults' = 0

Rename(w) ==
  /\ at[w] = "rename"
  /\ main' = temp
  /\ temp' = Absent
  /\ Saved(w)

\* Eight attempts were refused: open the file itself, which truncates it.
OpenInPlace(w) ==
  /\ at[w] = "rename"
  /\ Go(w, "inplace")
  /\ main' \in Begun
  /\ UNCHANGED <<temp, holder, purpose, doc, dirty, saved, faults>>

OpenInPlaceFails(w) ==
  /\ at[w] = "rename"
  /\ SaveRaises(w)
  /\ UNCHANGED <<main, temp>>

WriteInPlace(w) ==
  /\ at[w] = "inplace"
  /\ main' = Whole(doc[w])
  /\ Saved(w)
  /\ UNCHANGED temp

WriteInPlaceFails(w) ==
  /\ at[w] = "inplace"
  /\ SaveRaises(w)
  /\ UNCHANGED <<main, temp>>

\* The process dies; the operating system drops its lock.
Crash(w) ==
  /\ at[w] # "closed"
  /\ Leave(w)
  /\ Fault
  /\ UNCHANGED <<main, temp, saved>>

-----------------------------------------------------------------------------
Init ==
  /\ main = Absent
  /\ temp = Absent
  /\ holder = Nobody
  /\ at = [w \in Windows |-> "closed"]
  /\ purpose = [w \in Windows |-> "open"]
  /\ doc = [w \in Windows |-> {}]
  /\ dirty = [w \in Windows |-> FALSE]
  /\ saved = {}
  /\ faults = 0

Load(w) ==
  \/ LoadMain(w) \/ LoadNothing(w) \/ LoadTemp(w)
  \/ LoadRaises(w) \/ LoadRefused(w)

SaveStep(w) ==
  \/ WriteTemp(w) \/ TempFails(w)
  \/ Rename(w) \/ OpenInPlace(w) \/ OpenInPlaceFails(w)
  \/ WriteInPlace(w) \/ WriteInPlaceFails(w)

Next ==
  \E w \in Windows :
    \/ Start(w) \/ Load(w)
    \/ \E e \in Edits : Edit(w, e) \/ EditAndSave(w, e)
    \/ BeginSave(w) \/ SaveStep(w)
    \/ Crash(w)

Spec == Init /\ [][Next]_vars

\* The pump flushes a dirty document again and again, and the disk does not
\* refuse every attempt for ever.
Fairness ==
  \A w \in Windows :
    /\ WF_vars(dirty[w] /\ BeginSave(w))
    /\ WF_vars(SaveStep(w))
    /\ SF_vars(WriteTemp(w))
    /\ SF_vars(Rename(w) \/ WriteInPlace(w))

FairSpec == Spec /\ Fairness

-----------------------------------------------------------------------------
(* Properties. *)

\* What the two files still hold, read in load()'s order.
OnDisk ==
  IF main.state = "whole" THEN main.doc
  ELSE IF main.state # "absent" /\ temp.state = "whole" THEN temp.doc
  ELSE {}

\* One crash or one refused write, at whichever step of saving or loading it
\* strikes, loses nothing a save() has kept: it is in the file the next load()
\* takes, in a window that is still up, or, when workspace.json ends inside a
\* character, in the temporary file beside it: load() then raises each time and
\* leaves both files as they are, for someone to put the second in place of the
\* first.
OneFaultIsSurvived ==
  faults <= 1 =>
    \/ saved \subseteq OnDisk
    \/ \E w \in Windows : at[w] \in Holding /\ saved \subseteq doc[w]

\* While a window is open its document holds everything a save() has kept, by
\* whichever window: no window overwrites what another one saved.
OpenDocumentIsCurrent ==
  \A w \in Windows : faults <= 1 /\ at[w] \in Holding => saved \subseteq doc[w]

\* What a document holds while it is marked is kept by a save() unless its
\* window goes away first: a refused save leaves the mark for the next flush().
\* It says nothing of a structural edit whose own save() is refused in an
\* unmarked document, which only a later save() keeps.
EditIsKept ==
  \A w \in Windows, e \in Edits :
    (dirty[w] /\ e \in doc[w]) ~> (e \in saved \/ at[w] = "closed")

=============================================================================
