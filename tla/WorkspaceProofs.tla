--------------------------- MODULE WorkspaceProofs ---------------------------
(***************************************************************************)
(* The desktop's workspace in both of its modes: as a file of its own, for *)
(* every number of windows and every set of edits, as its copy of what a   *)
(* server has, for every number of desktops, nodes, revisions and late     *)
(* requests, and with the choices of one computer laid over that copy, for *)
(* trees of any depth.                                                     *)
(***************************************************************************)
EXTENDS WorkspaceFile, SharedEditing, SharedSettings, WellFoundedInduction, TLAPS

-----------------------------------------------------------------------------
(* The file: one crash or one refused write is survived.  The invariants   *)
(* the runs check do not carry themselves: whether a crash is survived     *)
(* depends on where the window stands, so the argument keeps, beside them, *)
(* what the temporary file holds while the target is replaced              *)
(* (FilesFollow) and that without a fault only a window writing in place   *)
(* leaves the target torn or cut (NoFaultOnDisk).                          *)

\* From the end of WriteTemp to the end of the save the temporary file is the
\* document, and the target is not whole while it is written.
FilesFollow ==
  \A w \in Windows :
    /\ at[w] \in {"rename", "inplace"} => temp = Whole(doc[w])
    /\ at[w] = "inplace" => main.state \in {"torn", "cut"}

NoFaultOnDisk ==
  faults = 0 =>
    \/ saved = {}
    \/ main.state = "whole" /\ saved \subseteq main.doc
    \/ \E w \in Windows : at[w] = "inplace"

Kept == FilesFollow /\ NoFaultOnDisk /\ OneFaultIsSurvived /\ OpenDocumentIsCurrent

\* Only the holder of the lock is anywhere but closed.
LEMMA OnlyOneOpen ==
  ASSUME TypeOK, NEW v \in Windows, NEW w \in Windows, at[v] # "closed", at[w] # "closed"
  PROVE  v = w
  BY DEF TypeOK

\* The file is what it says it is, and one that is being written is not whole.
LEMMA FilesAreFiles ==
  /\ Absent \in File
  /\ Begun \subseteq File
  /\ \A d \in SUBSET Edits : Whole(d) \in File
  /\ \A f \in Begun : f.state \in {"torn", "cut"}
  BY DEF File, Absent, Begun, Torn, Cut, Whole

LEMMA LeaveKeepsTypes ==
  ASSUME TypeOK, NEW w \in Windows, Leave(w)
  PROVE  /\ holder' \in Windows \cup {Nobody}
         /\ at' \in [Windows -> {"closed", "loading"} \cup Holding]
         /\ purpose' \in [Windows -> {"open", "work", "leave"}]
         /\ doc' \in [Windows -> SUBSET Edits]
         /\ dirty' \in [Windows -> BOOLEAN]
         /\ \A v \in Windows : at'[v] # "closed" => holder' = v
  BY NobodyAssumption DEF TypeOK, Leave, Go, Holding

LEMMA StepKeepsTypes == TypeOK /\ [Next]_vars => TypeOK'
<1> SUFFICES ASSUME TypeOK, [Next]_vars PROVE TypeOK'
  OBVIOUS
<1> USE FilesAreFiles
<1>1. CASE UNCHANGED vars
  BY <1>1 DEF TypeOK, vars
<1>2. ASSUME NEW w \in Windows, Start(w) PROVE TypeOK'
  BY <1>2, NobodyAssumption DEF TypeOK, Start, Go
<1>3. ASSUME NEW w \in Windows, Load(w) PROVE TypeOK'
  <2>1. CASE LoadMain(w)
    BY <2>1 DEF TypeOK, LoadMain, Opened, Go, Holding, File
  <2>2. CASE LoadNothing(w)
    BY <2>2 DEF TypeOK, LoadNothing, Seed, Go, Holding
  <2>3. CASE LoadTemp(w)
    BY <2>3 DEF TypeOK, LoadTemp, Seed, Opened, Go, Holding, File, Fault
  <2>4. CASE LoadRefused(w)
    <3>1. CASE Leave(w) /\ UNCHANGED <<main, temp>>
      BY <2>4, <3>1, LeaveKeepsTypes DEF TypeOK, LoadRefused
    <3>2. CASE ~(Leave(w) /\ UNCHANGED <<main, temp>>)
      BY <2>4, <3>2 DEF TypeOK, LoadRefused, Seed, Opened, Go, Holding, File
    <3> QED
      BY <3>1, <3>2
  <2>5. CASE LoadRaises(w)
    BY <2>5, LeaveKeepsTypes DEF TypeOK, LoadRaises
  <2> QED
    BY <1>3, <2>1, <2>2, <2>3, <2>4, <2>5 DEF Load
<1>4. ASSUME NEW w \in Windows, NEW e \in Edits, Edit(w, e) PROVE TypeOK'
  BY <1>4 DEF TypeOK, Edit, Mutate
<1>10. ASSUME NEW w \in Windows, NEW e \in Edits, EditAndSave(w, e) PROVE TypeOK'
  BY <1>10 DEF TypeOK, EditAndSave, Mutate, Go, Holding
<1>5. ASSUME NEW w \in Windows, BeginSave(w) PROVE TypeOK'
  BY <1>5 DEF TypeOK, BeginSave, Go, Holding
<1>6. ASSUME NEW w \in Windows, SaveRaises(w), UNCHANGED temp,
             main' = main, at[w] # "closed"
      PROVE  TypeOK'
  <2>1. CASE Leave(w)
    BY <1>6, <2>1, LeaveKeepsTypes DEF TypeOK, SaveRaises, Fault
  <2>2. CASE ~Leave(w)
    BY <1>6, <2>2 DEF TypeOK, SaveRaises, Fault, Go, Holding
  <2> QED
    BY <2>1, <2>2
<1>7. ASSUME NEW w \in Windows, Saved(w), main' \in File, temp' \in File, at[w] # "closed"
      PROVE  TypeOK'
  <2>1. CASE Leave(w)
    <3>1. saved' \subseteq Edits /\ faults' \in 0..2
      BY <1>7 DEF Saved, TypeOK
    <3> QED
      BY <1>7, <2>1, <3>1, LeaveKeepsTypes DEF TypeOK
  <2>2. CASE ~Leave(w)
    <3>1. /\ at' = [at EXCEPT ![w] = "idle"]
          /\ purpose' = [purpose EXCEPT ![w] = "work"]
          /\ dirty' = [dirty EXCEPT ![w] = FALSE]
          /\ UNCHANGED <<holder, doc>>
          /\ saved' = doc[w]
          /\ faults' = 0
      BY <1>7, <2>2, Zenon DEF Saved, Go
    <3>2. saved' \subseteq Edits
      BY <3>1 DEF TypeOK
    <3>3. \A v \in Windows : at'[v] # "closed" => holder' = v
      BY <1>7, <3>1 DEF TypeOK
    <3> QED
      BY <1>7, <3>1, <3>2, <3>3 DEF TypeOK, Holding
  <2> QED
    BY <2>1, <2>2
<1>8. ASSUME NEW w \in Windows, SaveStep(w) PROVE TypeOK'
  <2>1. CASE WriteTemp(w)
    BY <2>1 DEF TypeOK, WriteTemp, Go, Holding
  <2>2. CASE TempFails(w)
    BY <2>2, <1>6 DEF TempFails
  <2>3. CASE Rename(w)
    BY <2>3, <1>7 DEF Rename, TypeOK
  <2>4. CASE OpenInPlace(w)
    BY <2>4 DEF TypeOK, OpenInPlace, Go, Holding
  <2>5. CASE OpenInPlaceFails(w)
    BY <2>5, <1>6 DEF OpenInPlaceFails
  <2>6. CASE WriteInPlace(w)
    <3>1. Whole(doc[w]) \in File
      BY DEF TypeOK
    <3> QED
      BY <2>6, <3>1, <1>7 DEF WriteInPlace, TypeOK
  <2>7. CASE WriteInPlaceFails(w)
    BY <2>7, <1>6 DEF WriteInPlaceFails
  <2> QED
    BY <1>8, <2>1, <2>2, <2>3, <2>4, <2>5, <2>6, <2>7 DEF SaveStep
<1>9. ASSUME NEW w \in Windows, Crash(w) PROVE TypeOK'
  BY <1>9, LeaveKeepsTypes DEF TypeOK, Crash, Fault
<1> QED
  BY <1>1, <1>2, <1>3, <1>4, <1>5, <1>8, <1>9, <1>10 DEF Next

\* The state of the workspace keeps its shape: one window at a time has it
\* open, and it holds the lock.
THEOREM WorkspaceTypeCorrect == Spec => []TypeOK
<1>1. Init => TypeOK
  BY FilesAreFiles DEF Init, TypeOK
<1> QED
  BY <1>1, StepKeepsTypes, PTL DEF Spec

-----------------------------------------------------------------------------
(* What a step does to what is kept. *)

LEMMA InitKept == Init => Kept
  BY DEF Init, Kept, FilesFollow, NoFaultOnDisk, OneFaultIsSurvived, OpenDocumentIsCurrent,
         Holding

\* A window that closes with a fault: before the fault everything was on the
\* disk, where load() finds it.
LEMMA CrashKeeps ==
  ASSUME TypeOK, Kept, NEW w \in Windows, at[w] # "closed", Leave(w), Fault,
         UNCHANGED <<main, temp, saved>>
  PROVE  Kept'
<1>1. \A v \in Windows : at'[v] = "closed"
  BY OnlyOneOpen DEF Leave, Go, TypeOK
<1>2. FilesFollow' /\ OpenDocumentIsCurrent'
  BY <1>1 DEF FilesFollow, OpenDocumentIsCurrent, Holding
<1>3. faults' # 0 /\ (faults' <= 1 => faults = 0)
  BY DEF Fault, TypeOK
<1>4. NoFaultOnDisk'
  BY <1>3 DEF NoFaultOnDisk
<1>5. CASE faults' <= 1
  <2>1. ASSUME NEW v \in Windows, at[v] = "inplace" PROVE saved \subseteq OnDisk
    <3>1. main.state \in {"torn", "cut"} /\ temp = Whole(doc[v])
      BY <2>1 DEF Kept, FilesFollow
    <3>2. saved \subseteq doc[v]
      BY <2>1, <1>3, <1>5 DEF Kept, OpenDocumentIsCurrent, Holding
    <3> QED
      BY <3>1, <3>2 DEF OnDisk, Whole
  <2>2. saved \subseteq OnDisk
    BY <1>3, <1>5, <2>1 DEF Kept, NoFaultOnDisk, OnDisk
  <2>3. OnDisk' = OnDisk /\ saved' = saved
    BY DEF OnDisk
  <2>4. OneFaultIsSurvived'
    BY <2>2, <2>3 DEF OneFaultIsSurvived
  <2> QED
    BY <1>2, <1>4, <2>4 DEF Kept
<1>6. CASE ~(faults' <= 1)
  BY <1>2, <1>4, <1>6 DEF Kept, OneFaultIsSurvived
<1> QED
  BY <1>5, <1>6

\* A save() that returns: what it was asked to keep is what the target holds.
LEMMA SavedKeeps ==
  ASSUME TypeOK, NEW w \in Windows, at[w] # "closed", Saved(w), main' = Whole(doc[w])
  PROVE  Kept'
<1>1. saved' = doc[w] /\ faults' = 0
  BY DEF Saved
<1>2. main'.state = "whole" /\ main'.doc = doc[w]
  BY DEF Whole
<1>3. \/ at' = [at EXCEPT ![w] = "idle"] /\ doc' = doc
      \/ at' = [at EXCEPT ![w] = "closed"]
  BY DEF Saved, Leave, Go
<1>4. \A v \in Windows :
        \/ at'[v] = "closed"
        \/ v = w /\ at'[v] = "idle" /\ doc' = doc
  BY <1>3, OnlyOneOpen DEF TypeOK
<1>5. FilesFollow' /\ OpenDocumentIsCurrent'
  BY <1>1, <1>4 DEF FilesFollow, OpenDocumentIsCurrent, Holding
<1>6. NoFaultOnDisk'
  BY <1>1, <1>2 DEF NoFaultOnDisk
<1>7. OneFaultIsSurvived'
  BY <1>1, <1>2 DEF OneFaultIsSurvived, OnDisk
<1> QED
  BY <1>5, <1>6, <1>7 DEF Kept

\* A save() that raises: the window closes, or it goes on with the document.
LEMMA RaiseKeeps ==
  ASSUME TypeOK, Kept, NEW w \in Windows, at[w] \in {"temp", "rename", "inplace"},
         SaveRaises(w), UNCHANGED <<main, temp>>
  PROVE  Kept'
<1>1. Fault /\ saved' = saved /\ at[w] # "closed"
  BY DEF SaveRaises
<1>2. CASE Leave(w)
  BY <1>1, <1>2, CrashKeeps
<1>3. CASE ~Leave(w)
  <2>1. at' = [at EXCEPT ![w] = "idle"] /\ doc' = doc
    BY <1>3 DEF SaveRaises, Go
  <2>2. \A v \in Windows : at'[v] = "closed" \/ (v = w /\ at'[v] = "idle")
    BY <2>1, <1>1, OnlyOneOpen DEF TypeOK
  <2>3. faults' # 0 /\ (faults' <= 1 => faults <= 1)
    BY <1>1 DEF Fault, TypeOK
  <2>4. faults <= 1 => saved \subseteq doc[w]
    BY DEF Kept, OpenDocumentIsCurrent, Holding
  <2>5. FilesFollow' /\ NoFaultOnDisk'
    BY <2>2, <2>3 DEF FilesFollow, NoFaultOnDisk
  <2>6. at'[w] = "idle"
    BY <2>1 DEF TypeOK
  <2>7. OpenDocumentIsCurrent'
    BY <1>1, <2>1, <2>2, <2>3, <2>4 DEF OpenDocumentIsCurrent, Holding
  <2>8. OneFaultIsSurvived'
    BY <1>1, <2>1, <2>3, <2>4, <2>6 DEF OneFaultIsSurvived, Holding
  <2> QED
    BY <2>5, <2>7, <2>8 DEF Kept
<1> QED
  BY <1>2, <1>3

LEMMA LoadKeeps ==
  ASSUME TypeOK, Kept, NEW w \in Windows, Load(w)
  PROVE  Kept'
<1>1. at[w] = "loading"
  BY DEF Load, LoadMain, LoadNothing, LoadTemp, LoadRaises, LoadRefused
<1>2. \A v \in Windows : v # w => at[v] = "closed"
  BY <1>1, OnlyOneOpen
<1>3. faults <= 1 => saved \subseteq OnDisk
  BY <1>1, <1>2 DEF Kept, OneFaultIsSurvived, Holding
<1>4. faults = 0 => \/ saved = {}
                    \/ main.state = "whole" /\ saved \subseteq main.doc
  BY <1>1, <1>2 DEF Kept, NoFaultOnDisk
<1>5. ASSUME NEW d, Opened(w, d), UNCHANGED saved,
             faults' <= 1 => saved \subseteq d,
             faults' = 0 => faults = 0 /\ (main' = main \/ main.state # "whole")
      PROVE  Kept'
  <2>1. /\ \A v \in Windows : v # w => at'[v] = "closed"
        /\ at'[w] = "idle"
        /\ doc'[w] = d
    BY <1>2, <1>5 DEF Opened, Go, TypeOK
  <2> QED
    BY <1>4, <1>5, <2>1
    DEF Kept, FilesFollow, NoFaultOnDisk, OneFaultIsSurvived, OpenDocumentIsCurrent, Holding
<1>6. ASSUME Seed(w), UNCHANGED saved, faults' <= 1 => saved = {}
      PROVE  Kept'
  <2>1. /\ \A v \in Windows : v # w => at'[v] = "closed"
        /\ at'[w] = "temp"
    BY <1>2, <1>6 DEF Seed, Go, TypeOK
  <2> QED
    BY <1>6, <2>1
    DEF Kept, FilesFollow, NoFaultOnDisk, OneFaultIsSurvived, OpenDocumentIsCurrent, Holding
<1>11. ASSUME Leave(w), UNCHANGED saved,
              faults' <= 1 => /\ saved \subseteq OnDisk'
                              /\ UNCHANGED <<main, faults>>
       PROVE  Kept'
  <2>1. \A v \in Windows : at'[v] = "closed"
    BY <1>2, <1>11 DEF Leave, Go, TypeOK
  <2> QED
    BY <1>4, <1>11, <2>1
    DEF Kept, FilesFollow, NoFaultOnDisk, OneFaultIsSurvived, OpenDocumentIsCurrent, Holding
<1>7. CASE LoadMain(w)
  BY <1>3, <1>5, <1>7 DEF LoadMain, OnDisk
<1>8. CASE LoadNothing(w)
  BY <1>3, <1>6, <1>8 DEF LoadNothing, OnDisk
<1>9. CASE LoadTemp(w)
  <2>1. saved' = saved /\ main.state = "torn" /\ (faults' <= 1 => faults <= 1)
    BY <1>9 DEF LoadTemp, Fault, TypeOK
  <2>2. CASE temp.state = "whole"
    <3>1. Opened(w, temp.doc)
      BY <1>9, <2>2 DEF LoadTemp
    <3>2. faults' = 0 => faults = 0
      BY <1>9 DEF LoadTemp, Fault, TypeOK
    <3> QED
      BY <1>3, <1>5, <2>1, <2>2, <3>1, <3>2 DEF OnDisk
  <2>3. CASE temp.state # "whole"
    <3>1. Seed(w)
      BY <1>9, <2>3 DEF LoadTemp
    <3> QED
      BY <1>3, <1>6, <2>1, <2>3, <3>1 DEF OnDisk
  <2> QED
    BY <2>2, <2>3
<1>10. CASE LoadRefused(w)
  <2>1. saved' = saved /\ faults' = 2
    BY <1>10 DEF LoadRefused
  <2>2. CASE Leave(w)
    BY <2>1, <2>2, <1>11
  <2>3. CASE ~Leave(w)
    BY <1>5, <1>6, <1>10, <2>1, <2>3 DEF LoadRefused
  <2> QED
    BY <2>2, <2>3
<1>12. CASE LoadRaises(w)
  <2>1. Leave(w) /\ UNCHANGED <<main, temp, saved, faults>>
    BY <1>12 DEF LoadRaises
  <2>2. OnDisk' = OnDisk
    BY <2>1 DEF OnDisk
  <2> QED
    BY <1>3, <1>11, <2>1, <2>2
<1> QED
  BY <1>7, <1>8, <1>9, <1>10, <1>12 DEF Load

\* The window that moves on is the only one that is open.
LEMMA MoverIsAlone ==
  ASSUME TypeOK, NEW w \in Windows, at[w] # "closed", NEW place, Go(w, place)
  PROVE  at'[w] = place /\ \A v \in Windows : v # w => at[v] = "closed" /\ at'[v] = "closed"
  BY OnlyOneOpen DEF Go, TypeOK

LEMMA SaveStepKeeps ==
  ASSUME TypeOK, Kept, NEW w \in Windows, SaveStep(w)
  PROVE  Kept'
<1>1. at[w] \in {"temp", "rename", "inplace"}
  BY DEF SaveStep, WriteTemp, TempFails, Rename, OpenInPlace, OpenInPlaceFails,
         WriteInPlace, WriteInPlaceFails
<1>2. CASE WriteTemp(w)
  <2>1. at'[w] = "rename" /\ \A v \in Windows : v # w => at[v] = "closed" /\ at'[v] = "closed"
    BY <1>1, <1>2, MoverIsAlone DEF WriteTemp
  <2>2. at[w] = "temp" /\ temp' = Whole(doc[w]) /\ UNCHANGED <<main, doc, saved, faults>>
    BY <1>2 DEF WriteTemp
  <2>3. faults <= 1 => saved \subseteq doc[w]
    BY <2>2 DEF Kept, OpenDocumentIsCurrent, Holding
  <2> QED
    BY <2>1, <2>2, <2>3
    DEF Kept, FilesFollow, NoFaultOnDisk, OneFaultIsSurvived, OpenDocumentIsCurrent, Holding
<1>3. CASE TempFails(w)
  BY <1>1, <1>3, RaiseKeeps DEF TempFails
<1>4. CASE Rename(w)
  BY <1>1, <1>4, SavedKeeps DEF Rename, Kept, FilesFollow
<1>5. CASE OpenInPlace(w)
  <2>1. at'[w] = "inplace" /\ \A v \in Windows : v # w => at[v] = "closed" /\ at'[v] = "closed"
    BY <1>1, <1>5, MoverIsAlone DEF OpenInPlace
  <2>2. at[w] = "rename" /\ main'.state \in {"torn", "cut"} /\ UNCHANGED <<temp, doc, saved, faults>>
    BY <1>5, FilesAreFiles DEF OpenInPlace
  <2>3. faults <= 1 => saved \subseteq doc[w]
    BY <2>2 DEF Kept, OpenDocumentIsCurrent, Holding
  <2> QED
    BY <2>1, <2>2, <2>3
    DEF Kept, FilesFollow, NoFaultOnDisk, OneFaultIsSurvived, OpenDocumentIsCurrent,
        Holding
<1>6. CASE OpenInPlaceFails(w)
  BY <1>1, <1>6, RaiseKeeps DEF OpenInPlaceFails
<1>7. CASE WriteInPlace(w)
  BY <1>1, <1>7, SavedKeeps DEF WriteInPlace
<1>8. CASE WriteInPlaceFails(w)
  BY <1>1, <1>8, RaiseKeeps DEF WriteInPlaceFails
<1> QED
  BY <1>2, <1>3, <1>4, <1>5, <1>6, <1>7, <1>8 DEF SaveStep

LEMMA StepKeeps == TypeOK /\ Kept /\ [Next]_vars => Kept'
<1> SUFFICES ASSUME TypeOK, Kept, [Next]_vars PROVE Kept'
  OBVIOUS
<1>1. CASE UNCHANGED vars
  BY <1>1 DEF vars, Kept, FilesFollow, NoFaultOnDisk, OneFaultIsSurvived,
              OpenDocumentIsCurrent, OnDisk
<1>2. ASSUME NEW w \in Windows, Start(w) PROVE Kept'
  <2>1. /\ \A v \in Windows : at[v] = "closed"
        /\ \A v \in Windows : at'[v] \in {"closed", "loading"}
    BY <1>2, NobodyAssumption DEF Start, Go, TypeOK
  <2> QED
    BY <1>2, <2>1
    DEF Start, Kept, FilesFollow, NoFaultOnDisk, OneFaultIsSurvived, OpenDocumentIsCurrent,
        OnDisk, Holding
<1>3. ASSUME NEW w \in Windows, Load(w) PROVE Kept'
  BY <1>3, LoadKeeps
<1>4. ASSUME NEW w \in Windows, NEW e \in Edits, Edit(w, e) PROVE Kept'
  <2>1. \A v \in Windows : doc[v] \subseteq doc'[v] /\ (v # w => doc'[v] = doc[v])
    BY <1>4 DEF Edit, Mutate, TypeOK
  <2>2. at[w] = "idle" /\ UNCHANGED <<main, temp, at, saved, faults>>
    BY <1>4 DEF Edit, Mutate
  <2> QED
    BY <2>1, <2>2
    DEF Kept, FilesFollow, NoFaultOnDisk, OneFaultIsSurvived, OpenDocumentIsCurrent, OnDisk
<1>5. ASSUME NEW w \in Windows, BeginSave(w) PROVE Kept'
  <2>1. at'[w] = "temp" /\ \A v \in Windows : v # w => at[v] = "closed" /\ at'[v] = "closed"
    BY <1>5, MoverIsAlone DEF BeginSave
  <2>2. at[w] = "idle" /\ UNCHANGED <<main, doc, saved, faults>>
    BY <1>5 DEF BeginSave
  <2>3. faults <= 1 => saved \subseteq doc[w]
    BY <2>2 DEF Kept, OpenDocumentIsCurrent, Holding
  <2> QED
    BY <2>1, <2>2, <2>3
    DEF Kept, FilesFollow, NoFaultOnDisk, OneFaultIsSurvived, OpenDocumentIsCurrent, Holding
<1>8. ASSUME NEW w \in Windows, NEW e \in Edits, EditAndSave(w, e) PROVE Kept'
  <2>1. at[w] = "idle" /\ UNCHANGED <<main, saved, faults>>
    BY <1>8 DEF EditAndSave, Mutate
  <2>2. at'[w] = "temp" /\ \A v \in Windows : v # w => at[v] = "closed" /\ at'[v] = "closed"
    BY <1>8, <2>1, MoverIsAlone DEF EditAndSave
  <2>3. doc[w] \subseteq doc'[w]
    BY <1>8 DEF EditAndSave, Mutate, TypeOK
  <2>4. faults <= 1 => saved \subseteq doc'[w]
    BY <2>1, <2>3 DEF Kept, OpenDocumentIsCurrent, Holding
  <2> QED
    BY <2>1, <2>2, <2>4
    DEF Kept, FilesFollow, NoFaultOnDisk, OneFaultIsSurvived, OpenDocumentIsCurrent, Holding
<1>6. ASSUME NEW w \in Windows, SaveStep(w) PROVE Kept'
  BY <1>6, SaveStepKeeps
<1>7. ASSUME NEW w \in Windows, Crash(w) PROVE Kept'
  BY <1>7, CrashKeeps DEF Crash
<1> QED
  BY <1>1, <1>2, <1>3, <1>4, <1>5, <1>6, <1>7, <1>8 DEF Next

LEMMA KeptAlways == Spec => []Kept
<1>1. Init => TypeOK
  BY FilesAreFiles DEF Init, TypeOK
<1> QED
  BY <1>1, InitKept, StepKeepsTypes, StepKeeps, PTL DEF Spec

\* Whichever step one crash or one refusal strikes, nothing a save() has kept
\* is lost.
THEOREM OneFaultCostsNothing == Spec => []OneFaultIsSurvived
<1>1. Kept => OneFaultIsSurvived
  BY DEF Kept
<1> QED
  BY <1>1, KeptAlways, PTL

\* The lock and the whole-document save together: an open window never works on
\* a document that another window's save has outrun.
THEOREM DocumentsAreCurrent == Spec => []OpenDocumentIsCurrent
<1>1. Kept => OpenDocumentIsCurrent
  BY DEF Kept
<1> QED
  BY <1>1, KeptAlways, PTL

-----------------------------------------------------------------------------
(* Numbers *)

\* A set of numbers has a least one.
LEMMA Smallest ==
  ASSUME NEW S \in SUBSET Nat, S # {}
  PROVE  \E n \in S : \A m \in S : n =< m
<1> DEFINE R == OpToRel(<, Nat)
<1>1. IsWellFoundedOn(R, Nat)
  BY NatLessThanWellFounded
<1>2. \A m, n \in Nat : m < n => <<m, n>> \in R
  BY DEF OpToRel
<1> HIDE DEF R
<1>3. PICK n \in S : \A m \in S : ~ (<<m, n>> \in R)
  BY <1>1, WFMin
<1>4. ASSUME NEW m \in S PROVE n =< m
  <2>1. m \in Nat /\ n \in Nat /\ ~(m < n)
    BY <1>2, <1>3
  <2> QED BY <2>1
<1> QED BY <1>4

-----------------------------------------------------------------------------
(* The shared mode: types first.  A desktop waits for one request, about a *)
(* node that it has. *)

Tables == cache = [c \in Clients |-> cache[c]] /\ call = [c \in Clients |-> call[c]]

Stated == [rev : Nat \ {0}, facts : Facts]

RowsFit == DOMAIN row \subseteq Nodes /\ \A n \in DOMAIN row : row[n] \in Rows

Fits(op, arg) ==
  /\ op = "update" => arg \in Names
  /\ op = "create" => arg \in [name : Names, place : Folders \cup {None}]
  /\ op = "move" => arg \in Folders \cup {None}
  /\ op = "session" => arg \in [codex : Sessions \cup {None}, claude : Sessions \cup {None}]

RequestsFit ==
  \A r \in wire :
    /\ r = [from |-> r.from, op |-> r.op, node |-> r.node, arg |-> r.arg, seen |-> r.seen]
    /\ r.from \in Clients \cup {None} /\ r.node \in Nodes /\ Fits(r.op, r.arg)

Waits ==
  \A r \in wire : r.from \in Clients =>
    /\ call[r.from].at = "waiting" /\ \A s \in wire : s.from = r.from => s = r
    /\ r.op # "create" => r.node \in DOMAIN cache[r.from]

CacheFits(c) == DOMAIN cache[c] \subseteq Nodes /\ \A n \in DOMAIN cache[c] : cache[c][n] \in Copies

CallFits(c) ==
  /\ call[c].at \in {"idle", "waiting", "answered", "reading", "read"}
  /\ call[c].at = "answered" =>
       /\ call[c].node \in DOMAIN cache[c] /\ call[c].answer \in Stated
       /\ call[c].op = "session" => call[c].arg.codex \in Sessions \cup {None}
  /\ call[c].at = "read" =>
       DOMAIN call[c].tree \subseteq Nodes /\ \A n \in DOMAIN call[c].tree : call[c].tree[n] \in Stated

Types ==
  /\ Tables /\ RowsFit /\ RequestsFit /\ Waits
  /\ \A c \in Clients : CacheFits(c) /\ CallFits(c)

(* A request is put on the wire. *)
LEMMA SendFits ==
  ASSUME Types, NEW c \in Clients, NEW n \in Nodes, NEW op, NEW arg, Send(c, op, n, arg),
         Fits(op, arg), op # "create" => n \in DOMAIN cache[c]
  PROVE  Types'
<1>1. PICK seen : wire' = wire \cup {[from |-> c, op |-> op, node |-> n, arg |-> arg, seen |-> seen]}
  BY DEF Send
<1>2. /\ call[c].at = "idle" /\ call' = [call EXCEPT ![c] = [at |-> "waiting"]]
      /\ row' = row /\ cache' = cache
  BY DEF Send
<1>3. Tables' /\ call'[c].at = "waiting" /\ \A d \in Clients : d # c => call'[d] = call[d]
  BY <1>2 DEF Types, Tables
<1>4. RowsFit' /\ RequestsFit'
  BY <1>1, <1>2 DEF Types, RowsFit, RequestsFit, Fits
<1>5. \A r \in wire : r.from # c
  BY <1>2 DEF Types, Waits
<1>6. Waits'
  BY <1>1, <1>2, <1>3, <1>5 DEF Types, Waits
<1>7. ASSUME NEW d \in Clients PROVE CacheFits(d)' /\ CallFits(d)'
  BY <1>2, <1>3 DEF Types, CacheFits, CallFits
<1> QED BY <1>3, <1>4, <1>6, <1>7 DEF Types

(* A request is taken off the wire; its sender, if still there, gets the answer. *)
LEMMA AnswerIs ==
  ASSUME Types, NEW r \in wire, NEW answer, Answer(r, answer)
  PROVE  /\ wire' = wire \ {r} /\ cache' = cache
         /\ \A c \in Clients :
              \/ call'[c] = call[c] /\ c # r.from
              \/ /\ c = r.from
                 /\ \/ call'[c] = Idle
                    \/ call'[c] = [at |-> "reading"]
                    \/ /\ answer # None /\ r.op \in {"update", "session"}
                       /\ call'[c] = [at |-> "answered", op |-> r.op, node |-> r.node,
                                      arg |-> r.arg, answer |-> answer]
BY NoneAssumption DEF Answer, Types, Tables

LEMMA AnswerFits ==
  ASSUME Types, RowsFit', NEW r \in wire, NEW answer, Answer(r, answer),
         answer = None \/ answer \in Stated
  PROVE  Types'
<1>1. /\ wire' = wire \ {r} /\ cache' = cache
      /\ \A c \in Clients :
           \/ call'[c] = call[c] /\ c # r.from
           \/ /\ c = r.from
              /\ \/ call'[c].at \in {"idle", "reading"}
                 \/ /\ answer \in Stated /\ r.op \in {"update", "session"}
                    /\ call'[c] = [at |-> "answered", op |-> r.op, node |-> r.node,
                                   arg |-> r.arg, answer |-> answer]
  BY AnswerIs DEF Idle
<1>2. Tables'
  BY <1>1 DEF Answer, Types, Tables
<1>3. RequestsFit' /\ Waits'
  BY <1>1 DEF Types, RequestsFit, Waits
<1>4. ASSUME NEW c \in Clients PROVE CacheFits(c)' /\ CallFits(c)'
  <2>1. CASE call'[c] = call[c]
    BY <1>1, <2>1 DEF Types, CacheFits, CallFits
  <2>2. CASE call'[c].at \in {"idle", "reading"}
    BY <1>1, <2>2 DEF Types, CacheFits, CallFits
  <2>3. CASE /\ c = r.from /\ answer \in Stated /\ r.op \in {"update", "session"}
             /\ call'[c] = [at |-> "answered", op |-> r.op, node |-> r.node,
                            arg |-> r.arg, answer |-> answer]
    <3>1. r.node \in DOMAIN cache[c] /\ (r.op = "session" => r.arg.codex \in Sessions \cup {None})
      BY <2>3 DEF Types, RequestsFit, Waits, Fits
    <3> QED BY <1>1, <2>3, <3>1 DEF Types, CacheFits, CallFits
  <2> QED BY <1>1, <2>1, <2>2, <2>3
<1> QED BY <1>2, <1>3, <1>4 DEF Types

(* A row is written with the facts of a request, and answered with. *)
LEMMA WriteFits ==
  ASSUME Types, NEW r \in wire, NEW new \in Rows, Write(r, new)
  PROVE  Types'
<1>1. row' = With(row, r.node, new) /\ Answer(r, Version(new)) /\ r.node \in Nodes
  BY DEF Write, Types, RequestsFit
<1>2. RowsFit'
  BY <1>1 DEF Types, RowsFit, With
<1>3. Version(new) \in Stated
  BY DEF Version, Rows, Stated
<1> QED BY <1>1, <1>2, <1>3, AnswerFits

(* What a deletion and a restoration do to the rows. *)
LEMMA StampFits ==
  ASSUME RowsFit, NEW M, NEW s \in Nodes \cup {None}, Stamp(M, s)
  PROVE  /\ RowsFit' /\ DOMAIN row' = DOMAIN row
         /\ \A m \in DOMAIN row : m \notin M => row'[m] = row[m]
         /\ \A m \in DOMAIN row \cap M :
              row'[m].rev = row[m].rev + 1 /\ row'[m].facts = row[m].facts /\ row'[m].deleted = s
<1> DEFINE next(m) == [row[m] EXCEPT !.rev = @ + 1, !.deleted = s]
<1>1. row' = [m \in DOMAIN row |-> IF m \in M THEN next(m) ELSE row[m]]
  BY DEF Stamp
<1>2. ASSUME NEW m \in DOMAIN row
      PROVE  /\ next(m) \in Rows /\ next(m).rev = row[m].rev + 1 /\ next(m).facts = row[m].facts
             /\ next(m).deleted = s
  <2> DEFINE old == row[m]
             k == row[m].rev + 1
             f == row[m].facts
  <2>1. old \in [rev : Nat, deleted : {old.deleted}, facts : {f}] /\ f \in Facts /\ k \in Nat \ {0}
    BY DEF RowsFit, Rows
  <2>2. next(m) = [old EXCEPT !.rev = k, !.deleted = s]
    OBVIOUS
  <2> HIDE DEF next, old, k, f
  <2>3. [old EXCEPT !.rev = k, !.deleted = s] \in [rev : {k}, deleted : {s}, facts : {f}]
    BY <2>1
  <2>4. next(m) \in Rows /\ next(m).rev = k /\ next(m).facts = f /\ next(m).deleted = s
    BY <2>1, <2>2, <2>3 DEF Rows
  <2> QED BY <2>4 DEF k, f
<1> HIDE DEF next
<1>3. DOMAIN row' = DOMAIN row /\ \A m \in DOMAIN row : row'[m] = IF m \in M THEN next(m) ELSE row[m]
  BY <1>1
<1> QED BY <1>2, <1>3 DEF RowsFit

(* The row the UPDATE of the repositories leaves. *)
LEMMA BumpIs ==
  ASSUME RowsFit, NEW r, r.node \in DOMAIN row, NEW facts \in Facts
  PROVE  /\ Bump(r, facts) \in Rows
         /\ Bump(r, facts).rev = row[r.node].rev + 1 /\ Bump(r, facts).facts = facts
<1> DEFINE k == row[r.node].rev + 1
           old == row[r.node]
<1>1. /\ old \in [rev : Nat, deleted : {old.deleted}, facts : {old.facts}]
      /\ old.deleted \in Nodes \cup {None} /\ k \in Nat \ {0}
  BY DEF RowsFit, Rows
<1>2. Bump(r, facts) = [old EXCEPT !.rev = k, !.facts = facts]
  BY DEF Bump
<1> HIDE DEF k, old
<1>3. [old EXCEPT !.rev = k, !.facts = facts] \in
        [rev : {k}, deleted : {old.deleted}, facts : {facts}]
  BY <1>1
<1>4. Bump(r, facts) \in Rows /\ Bump(r, facts).rev = k /\ Bump(r, facts).facts = facts
  BY <1>1, <1>2, <1>3 DEF Rows
<1> QED BY <1>4 DEF k

(* What the requests that write one row write. *)
LEMMA WritesAre ==
  ASSUME Types, NEW r \in wire,
         ServeUpdate(r) \/ ServeMove(r) \/ ServeSession(r) \/ ServeReset(r)
  PROVE  /\ r.node \in DOMAIN row
         /\ \E f \in Facts :
              /\ Write(r, Bump(r, f))
              /\ r.op = "update" => f.codex = row[r.node].facts.codex
              /\ r.op = "session" => r.arg.codex \in {f.codex, None}
<1> DEFINE facts == row[r.node].facts
<1>1. r.node \in DOMAIN row /\ Fits(r.op, r.arg)
  BY DEF ServeUpdate, ServeMove, ServeSession, ServeReset, LiveRow, Types, RequestsFit
<1>2. facts \in Facts
  BY <1>1 DEF Types, RowsFit, Rows
<1>3. CASE ServeUpdate(r)
  <2> DEFINE f == [facts EXCEPT !.name = r.arg]
  <2>1. f \in Facts /\ f.codex = facts.codex
    BY <1>1, <1>2, <1>3 DEF ServeUpdate, Fits, Facts
  <2>2. r.op = "update" /\ Write(r, Bump(r, f))
    BY <1>3 DEF ServeUpdate
  <2> HIDE DEF f
  <2> QED BY <1>1, <2>1, <2>2
<1>4. CASE ServeMove(r)
  <2> DEFINE f == [facts EXCEPT !.place = r.arg]
  <2>1. f \in Facts
    BY <1>1, <1>2, <1>4 DEF ServeMove, Fits, Facts
  <2>2. r.op = "move" /\ Write(r, Bump(r, f))
    BY <1>4 DEF ServeMove
  <2> HIDE DEF f
  <2> QED BY <1>1, <2>1, <2>2
<1>5. CASE ServeReset(r)
  <2> DEFINE f == [facts EXCEPT !.codex = None, !.claude = None]
  <2>1. f \in Facts
    BY <1>2 DEF Facts
  <2>2. r.op = "reset" /\ Write(r, Bump(r, f))
    BY <1>5 DEF ServeReset
  <2> HIDE DEF f
  <2> QED BY <1>1, <2>1, <2>2
<1>6. CASE ServeSession(r)
  <2>1. r.op = "session" /\ r.arg \in [codex : Sessions \cup {None}, claude : Sessions \cup {None}]
    BY <1>1, <1>6 DEF ServeSession, Fits
  <2>2. PICK a, b : /\ a \in {r.arg.codex, facts.codex} /\ b \in {r.arg.claude, facts.claude}
                    /\ r.arg.codex \in {a, None}
                    /\ Write(r, Bump(r, [facts EXCEPT !.codex = a, !.claude = b]))
    BY <1>6 DEF ServeSession
  <2> DEFINE f == [facts EXCEPT !.codex = a, !.claude = b]
  <2>3. f \in Facts /\ f.codex = a
    BY <1>2, <2>1, <2>2 DEF Facts
  <2>4. Write(r, Bump(r, f))
    BY <2>2
  <2> HIDE DEF f
  <2> QED BY <1>1, <2>1, <2>2, <2>3, <2>4
<1> QED BY <1>3, <1>4, <1>5, <1>6

LEMMA ServeFits ==
  ASSUME Types, NEW r \in wire,
         \/ ServeUpdate(r) \/ ServeMove(r) \/ ServeDelete(r)
         \/ ServeSession(r) \/ ServeReset(r) \/ ServeCreate(r) \/ Refuse(r)
  PROVE  Types'
<1>1. RowsFit /\ Fits(r.op, r.arg) /\ r.node \in Nodes
  BY DEF Types, RequestsFit
<1>2. CASE ServeUpdate(r) \/ ServeMove(r) \/ ServeSession(r) \/ ServeReset(r)
  <2>1. r.node \in DOMAIN row
    BY <1>2, WritesAre
  <2>2. PICK f \in Facts : Write(r, Bump(r, f))
    BY <1>2, WritesAre
  <2>3. Bump(r, f) \in Rows
    BY <1>1, <2>1, BumpIs
  <2> QED BY <2>2, <2>3, WriteFits
<1>3. CASE ServeDelete(r)
  <2>1. PICK M : Stamp(M, r.node) /\ Answer(r, Version(row[r.node])) /\ r.node \in DOMAIN row
    BY <1>3 DEF ServeDelete, LiveRow
  <2>2. RowsFit'
    BY <1>1, <2>1, StampFits
  <2>3. Version(row[r.node]) \in Stated
    BY <1>1, <2>1 DEF RowsFit, Rows, Version, Stated
  <2> QED BY <2>1, <2>2, <2>3, AnswerFits
<1>4. CASE ServeCreate(r)
  <2> DEFINE new == [rev |-> 1, deleted |-> None,
                     facts |-> [name |-> r.arg.name, place |-> r.arg.place,
                                codex |-> None, claude |-> None]]
  <2>1. Write(r, new) /\ r.arg \in [name : Names, place : Folders \cup {None}]
    BY <1>1, <1>4 DEF ServeCreate, Fits
  <2>2. new \in Rows
    BY <2>1 DEF Rows, Facts
  <2> HIDE DEF new
  <2> QED BY <2>1, <2>2, WriteFits
<1>5. CASE Refuse(r)
  <2>1. Answer(r, None) /\ row' = row
    BY <1>5 DEF Refuse
  <2>2. RowsFit'
    BY <1>1, <2>1 DEF RowsFit
  <2> QED BY <2>1, <2>2, AnswerFits
<1> QED BY <1>2, <1>3, <1>4, <1>5

(* What a desktop puts on the wire, and what else it does. *)
LEMMA ClientSteps ==
  ASSUME Types, NEW c \in Clients, ClientStep(c)
  PROVE  \/ \E n \in Nodes : \E op, arg :
              /\ Send(c, op, n, arg) /\ Fits(op, arg)
              /\ IF op = "create" THEN n \notin DOMAIN row /\ \A r \in wire : r.node # n
                                  ELSE n \in DOMAIN cache[c]
         \/ Refresh(c) \/ Install(c) \/ Finish(c) \/ GiveUp(c)
<1> DEFINE Sent == \E n \in Nodes : \E op, arg :
              /\ Send(c, op, n, arg) /\ Fits(op, arg)
              /\ IF op = "create" THEN n \notin DOMAIN row /\ \A r \in wire : r.node # n
                                  ELSE n \in DOMAIN cache[c]
<1>1. ASSUME NEW n \in Nodes, NEW name \in Names, Update(c, n, name) PROVE Sent
  <2>1. Send(c, "update", n, name) /\ n \in DOMAIN cache[c] /\ Fits("update", name)
    BY <1>1 DEF Update, Fits
  <2> QED BY <2>1
<1>2. ASSUME NEW n \in Nodes, NEW name \in Names, NEW place \in Folders \cup {None},
             Add(c, n, name, place)
      PROVE  Sent
  <2> DEFINE arg == [name |-> name, place |-> place]
  <2>1. /\ Send(c, "create", n, arg) /\ Fits("create", arg)
        /\ n \notin DOMAIN row /\ \A r \in wire : r.node # n
    BY <1>2 DEF Add, Fits
  <2> HIDE DEF arg
  <2> QED BY <2>1
<1>3. ASSUME NEW n \in Nodes, NEW place \in Folders \cup {None}, Move(c, n, place) PROVE Sent
  <2>1. Send(c, "move", n, place) /\ n \in DOMAIN cache[c] /\ Fits("move", place)
    BY <1>3 DEF Move, Fits
  <2> QED BY <2>1
<1>4. ASSUME NEW n \in Nodes, NEW s \in Sessions, SetThread(c, n, s) \/ SetClaude(c, n, s)
      PROVE  Sent
  <2>1. n \in DOMAIN cache[c] /\ cache[c][n] \in Copies
    BY <1>4 DEF SetThread, SetClaude, Types, CacheFits
  <2>2. cache[c][n].facts.claude \in Sessions \cup {None} /\ cache[c][n].thread \in Sessions \cup {None}
    BY <2>1 DEF Copies, Facts
  <2>3. PICK arg \in [codex : Sessions \cup {None}, claude : Sessions \cup {None}] :
          Send(c, "session", n, arg)
    <3>1. CASE SetThread(c, n, s)
      <4> DEFINE arg == [codex |-> s, claude |-> cache[c][n].facts.claude]
      <4>1. arg \in [codex : Sessions \cup {None}, claude : Sessions \cup {None}]
        BY <2>2
      <4>2. Send(c, "session", n, arg)
        BY <3>1 DEF SetThread
      <4> HIDE DEF arg
      <4> QED BY <4>1, <4>2
    <3>2. CASE SetClaude(c, n, s)
      <4> DEFINE arg == [codex |-> cache[c][n].thread, claude |-> s]
      <4>1. arg \in [codex : Sessions \cup {None}, claude : Sessions \cup {None}]
        BY <2>2
      <4>2. Send(c, "session", n, arg)
        BY <3>2 DEF SetClaude
      <4> HIDE DEF arg
      <4> QED BY <4>1, <4>2
    <3> QED BY <1>4, <3>1, <3>2
  <2>4. Fits("session", arg)
    BY DEF Fits
  <2> QED BY <2>1, <2>3, <2>4
<1>5. ASSUME NEW n \in Nodes, Delete(c, n) \/ ClearThread(c, n) PROVE Sent
  <2>1. PICK op \in {"delete", "reset"} : Send(c, op, n, None)
    BY <1>5 DEF Delete, ClearThread
  <2>2. n \in DOMAIN cache[c] /\ Fits(op, None)
    BY <1>5, <2>1 DEF Delete, ClearThread, Fits
  <2> QED BY <2>1, <2>2
<1> HIDE DEF Sent
<1>6. Sent \/ Refresh(c) \/ Install(c) \/ Finish(c) \/ GiveUp(c)
  BY <1>1, <1>2, <1>3, <1>4, <1>5 DEF ClientStep
<1> QED BY <1>6 DEF Sent

(* The copy a merge leaves. *)
LEMMA MergedIs ==
  ASSUME Types, NEW c \in Clients, Finish(c)
  PROVE  LET n == call[c].node
             new == Merged(cache[c][n], call[c])
         IN
         /\ n \in DOMAIN cache[c] /\ new \in Copies
         /\ cache'[c] = With(cache[c], n, new)
         /\ \A d \in Clients : d # c => cache'[d] = cache[d]
<1> DEFINE n == call[c].node
           new == Merged(cache[c][n], call[c])
<1>1. /\ n \in DOMAIN cache[c] /\ cache[c][n] \in Copies /\ call[c].answer \in Stated
      /\ call[c].op = "session" => call[c].arg.codex \in Sessions \cup {None}
  BY DEF Finish, Types, CallFits, CacheFits
<1>2. new \in Copies
  BY <1>1 DEF Merged, Copies, Stated
<1>3. cache' = [cache EXCEPT ![c] = With(cache[c], n, new)]
  BY DEF Finish
<1> HIDE DEF n, new
<1>4. cache'[c] = With(cache[c], n, new) /\ \A d \in Clients : d # c => cache'[d] = cache[d]
  BY <1>3 DEF Types, Tables
<1> QED BY <1>1, <1>2, <1>4 DEF n, new

(* The cache a refresh leaves. *)
LEMMA InstalledIs ==
  ASSUME Types, NEW c \in Clients, Install(c)
  PROVE  /\ DOMAIN cache'[c] = DOMAIN call[c].tree
         /\ \A n \in DOMAIN call[c].tree :
              cache'[c][n] = NormalisedRow(call[c].tree[n]) /\ cache'[c][n] \in Copies
         /\ \A d \in Clients : d # c => cache'[d] = cache[d]
<1> DEFINE tree == call[c].tree
           new == [n \in DOMAIN tree |-> NormalisedRow(tree[n])]
<1>1. cache' = [cache EXCEPT ![c] = new]
  BY DEF Install
<1>2. \A n \in DOMAIN tree : new[n] = NormalisedRow(tree[n]) /\ tree[n] \in Stated
  BY DEF Install, Types, CallFits
<1>3. DOMAIN new = DOMAIN tree
  OBVIOUS
<1> HIDE DEF new
<1>4. cache'[c] = new /\ \A d \in Clients : d # c => cache'[d] = cache[d]
  BY <1>1 DEF Types, Tables
<1>5. ASSUME NEW n \in DOMAIN tree PROVE NormalisedRow(tree[n]) \in Copies
  <2>1. tree[n] \in Stated
    BY <1>2
  <2> QED BY <2>1 DEF NormalisedRow, Copies, Stated, Facts
<1> QED BY <1>2, <1>3, <1>4, <1>5

LEMMA InstallAndFinishFit ==
  ASSUME Types, NEW c \in Clients, Install(c) \/ Finish(c)
  PROVE  Types'
<1>1. /\ row' = row /\ wire' = wire /\ call' = [call EXCEPT ![c] = Idle]
      /\ call[c].at \in {"read", "answered"}
  BY DEF Install, Finish
<1>2. call'[c].at = "idle" /\ \A d \in Clients : d # c => call'[d] = call[d]
  BY <1>1 DEF Types, Tables, Idle
<1>3. /\ \A d \in Clients : d # c => cache'[d] = cache[d]
      /\ CacheFits(c)'
  <2>1. CASE Install(c)
    BY <2>1, InstalledIs DEF CacheFits, Types, CallFits, Install
  <2>2. CASE Finish(c)
    <3> DEFINE n == call[c].node
               new == Merged(cache[c][n], call[c])
    <3>1. /\ n \in DOMAIN cache[c] /\ new \in Copies /\ cache'[c] = With(cache[c], n, new)
          /\ \A d \in Clients : d # c => cache'[d] = cache[d]
      BY <2>2, MergedIs
    <3> HIDE DEF n, new
    <3> QED BY <3>1 DEF With, CacheFits, Types
  <2> QED BY <2>1, <2>2
<1>4. Tables'
  BY DEF Install, Finish, Types, Tables
<1>5. RowsFit' /\ RequestsFit'
  BY <1>1 DEF Types, RowsFit, RequestsFit
<1>6. Waits'
  <2>1. \A r \in wire : r.from # c
    BY <1>1 DEF Types, Waits
  <2> QED BY <1>1, <1>2, <1>3, <2>1 DEF Types, Waits
<1>7. ASSUME NEW d \in Clients PROVE CacheFits(d)' /\ CallFits(d)'
  BY <1>2, <1>3 DEF Types, CacheFits, CallFits
<1> QED BY <1>4, <1>5, <1>6, <1>7 DEF Types

(* A request given up on is the same request from nobody, or none. *)
LEMMA GivenUp ==
  ASSUME Types, NEW c \in Clients, GiveUp(c)
  PROVE  /\ row' = row /\ cache' = cache /\ Tables' /\ call'[c].at = "idle"
         /\ \A d \in Clients : d # c => call'[d] = call[d]
         /\ \A q \in wire' :
              \/ q \in wire /\ q.from # c
              \/ \E r \in wire :
                   /\ r.from = c /\ q.from = None
                   /\ q.op = r.op /\ q.node = r.node /\ q.arg = r.arg /\ q.seen = r.seen
                   /\ q = [from |-> None, op |-> r.op, node |-> r.node, arg |-> r.arg, seen |-> r.seen]
<1> DEFINE Late(r) == [r EXCEPT !.from = None]
<1>1. /\ row' = row /\ cache' = cache /\ call' = [call EXCEPT ![c] = Idle]
      /\ \A q \in wire' : \/ q \in wire /\ q.from # c
                          \/ \E r \in wire : r.from = c /\ q = Late(r)
  BY DEF GiveUp
<1>2. \A r \in wire : Late(r) = [from |-> None, op |-> r.op, node |-> r.node,
                                 arg |-> r.arg, seen |-> r.seen]
  BY DEF Types, RequestsFit
<1> HIDE DEF Late
<1>3. ASSUME NEW q \in wire', NEW r \in wire, r.from = c, q = Late(r)
      PROVE  /\ q.from = None /\ q.op = r.op /\ q.node = r.node /\ q.arg = r.arg /\ q.seen = r.seen
             /\ q = [from |-> None, op |-> r.op, node |-> r.node, arg |-> r.arg, seen |-> r.seen]
  <2>1. q = [from |-> None, op |-> r.op, node |-> r.node, arg |-> r.arg, seen |-> r.seen]
    BY <1>2, <1>3
  <2> QED BY <2>1
<1>4. Tables' /\ call'[c].at = "idle" /\ \A d \in Clients : d # c => call'[d] = call[d]
  BY <1>1 DEF Types, Tables, Idle
<1> QED BY <1>1, <1>3, <1>4

LEMMA GiveUpFits ==
  ASSUME Types, NEW c \in Clients, GiveUp(c)
  PROVE  Types'
<1>1. /\ row' = row /\ cache' = cache /\ Tables' /\ call'[c].at = "idle"
      /\ \A d \in Clients : d # c => call'[d] = call[d]
      /\ \A q \in wire' :
           \/ q \in wire /\ q.from # c
           \/ \E r \in wire :
                /\ r.from = c /\ q.from = None
                /\ q.op = r.op /\ q.node = r.node /\ q.arg = r.arg /\ q.seen = r.seen
                /\ q = [from |-> None, op |-> r.op, node |-> r.node, arg |-> r.arg, seen |-> r.seen]
  BY GivenUp
<1>2. RowsFit'
  BY <1>1 DEF Types, RowsFit
<1>3. RequestsFit'
  BY <1>1 DEF Types, RequestsFit
<1>4. Waits'
  <2>1. \A q \in wire' : q.from \in Clients => q \in wire /\ q.from # c
    BY <1>1, NoneAssumption
  <2> QED BY <1>1, <2>1 DEF Types, Waits
<1>5. ASSUME NEW d \in Clients PROVE CacheFits(d)' /\ CallFits(d)'
  BY <1>1 DEF Types, CacheFits, CallFits
<1> QED BY <1>1, <1>2, <1>3, <1>4, <1>5 DEF Types

(* Rows, copies, calls and requests keep their types, whoever edits, gives *)
(* up, deletes and restores; revisions start at 1. *)
LEMMA TypesStep == Types /\ [SharedNext]_sharedVars => Types'
<1> SUFFICES ASSUME Types, [SharedNext]_sharedVars PROVE Types'
  OBVIOUS
<1>1. ASSUME NEW c \in Clients, ClientStep(c) PROVE Types'
  <2>1. ASSUME Refresh(c) PROVE Types'
    <3>1. /\ row' = row /\ cache' = cache /\ wire' = wire /\ call[c].at = "idle"
          /\ call' = [call EXCEPT ![c] = [at |-> "reading"]]
      BY <2>1 DEF Refresh
    <3>2. call'[c].at = "reading" /\ \A d \in Clients : d # c => call'[d] = call[d]
      BY <3>1 DEF Types, Tables
    <3>3. Tables' /\ RowsFit' /\ RequestsFit'
      BY <3>1 DEF Types, Tables, RowsFit, RequestsFit
    <3>4. Waits'
      BY <3>1, <3>2 DEF Types, Waits
    <3>5. ASSUME NEW d \in Clients PROVE CacheFits(d)' /\ CallFits(d)'
      BY <3>1, <3>2 DEF Types, CacheFits, CallFits
    <3> QED BY <3>3, <3>4, <3>5 DEF Types
  <2> QED BY <1>1, <2>1, ClientSteps, SendFits, InstallAndFinishFit, GiveUpFits
<1>2. ASSUME NEW c \in Clients, ServeTree(c) PROVE Types'
  <2>1. /\ row' = row /\ cache' = cache /\ wire' = wire /\ call[c].at = "reading"
        /\ call' = [call EXCEPT ![c] = [at |-> "read", tree |-> Tree]]
    BY <1>2 DEF ServeTree
  <2>2. call'[c] = [at |-> "read", tree |-> Tree] /\ \A d \in Clients : d # c => call'[d] = call[d]
    BY <2>1 DEF Types, Tables
  <2>3. DOMAIN Tree \subseteq Nodes /\ \A n \in DOMAIN Tree : Tree[n] \in Stated
    BY DEF Types, RowsFit, Tree, Version, Rows, Stated
  <2>4. Tables' /\ RowsFit' /\ RequestsFit'
    BY <2>1 DEF Types, Tables, RowsFit, RequestsFit
  <2>5. Waits'
    BY <2>1, <2>2 DEF Types, Waits
  <2>6. ASSUME NEW d \in Clients PROVE CacheFits(d)' /\ CallFits(d)'
    BY <2>1, <2>2, <2>3 DEF Types, CacheFits, CallFits
  <2> QED BY <2>4, <2>5, <2>6 DEF Types
<1>3. ASSUME NEW n \in Nodes, Restore(n) PROVE Types'
  <2>1. PICK M : Stamp(M, None) /\ cache' = cache /\ call' = call /\ wire' = wire
    BY <1>3 DEF Restore
  <2>2. RowsFit'
    BY <2>1, StampFits DEF Types
  <2> QED BY <2>1, <2>2 DEF Types, Tables, RequestsFit, Waits, CacheFits, CallFits
<1>4. CASE UNCHANGED sharedVars
  BY <1>4 DEF sharedVars, Types, Tables, RowsFit, RequestsFit, Waits, CacheFits, CallFits
<1> QED BY <1>1, <1>2, <1>3, <1>4, ServeFits DEF SharedNext, ServerStep

LEMMA TypesAlways == SharedSpec => []Types
<1>1. SharedInit => Types
  BY DEF SharedInit, Types, Tables, RowsFit, RequestsFit, Waits, CacheFits, CallFits, Idle
<1> QED BY <1>1, TypesStep, PTL DEF SharedSpec

THEOREM SharedTypeCorrect == SharedSpec => []SharedTypeOK
<1>1. Types => SharedTypeOK
  BY DEF Types, RowsFit, RequestsFit, CacheFits, CallFits, SharedTypeOK
<1> QED BY <1>1, TypesAlways, PTL

(* A revision says which facts a copy has only as long as it belongs to    *)
(* one of them.  Copies are everywhere: in the caches, in the trees and    *)
(* answers on their way, and, as what the sender had seen, in the requests *)
(* on the wire.  The invariant says the same of each of them; it lasts     *)
(* because every change of a row raises its revision (RowGrows) and an id  *)
(* is created once (CreatesAreFresh).  The copy of a desktop that waits    *)
(* does not change, so an update that is served still meets the thread it  *)
(* was sent with. *)

IsVersion(v, n) ==
  /\ v.rev \in Nat /\ n \in DOMAIN row /\ v.rev <= row[n].rev
  /\ v.rev = row[n].rev => v.facts = row[n].facts

CopiesAreVersions ==
  \A c \in Clients : \A n \in DOMAIN cache[c] :
    IsVersion(cache[c][n], n) /\ cache[c][n].thread \in {cache[c][n].facts.codex, None}

AnswersAreVersions ==
  \A c \in Clients : call[c].at = "answered" =>
    /\ IsVersion(call[c].answer, call[c].node)
    /\ Merged(cache[c][call[c].node], call[c]).thread \in {call[c].answer.facts.codex, None}

TreesAreVersions ==
  \A c \in Clients :
    call[c].at = "read" => \A n \in DOMAIN call[c].tree : IsVersion(call[c].tree[n], n)

SeenAreVersions ==
  \A r \in wire : r.op \in Guarded =>
    /\ IsVersion(r.seen, r.node) /\ r.seen = Version(r.seen)
    /\ r.from \in Clients => r.seen = Version(cache[r.from][r.node])

CreatesAreFresh ==
  \A r \in wire : r.op = "create" =>
    r.node \notin DOMAIN row /\ \A s \in wire : s.node = r.node => s = r

Versions ==
  /\ CopiesAreVersions /\ AnswersAreVersions /\ TreesAreVersions /\ SeenAreVersions
  /\ CreatesAreFresh

(* What every step does to the rows. *)
RowGrows ==
  \A n \in DOMAIN row :
    n \in DOMAIN row' /\ (row'[n] = row[n] \/ row'[n].rev = row[n].rev + 1)

(* A copy stays a version of its row when rows only grow. *)
LEMMA VersionsLast ==
  ASSUME RowsFit, RowGrows, NEW v, NEW n, IsVersion(v, n)
  PROVE  IsVersion(v, n)'
BY DEF RowsFit, Rows, RowGrows, IsVersion

(* A request is put on the wire with the copy its sender has. *)
LEMMA SendKeeps ==
  ASSUME Types, Versions, NEW c \in Clients, NEW n \in Nodes, NEW op, NEW arg, Send(c, op, n, arg),
         IF op = "create" THEN n \notin DOMAIN row /\ \A r \in wire : r.node # n
                          ELSE n \in DOMAIN cache[c]
  PROVE  Versions'
<1>1. PICK seen : /\ wire' = wire \cup {[from |-> c, op |-> op, node |-> n, arg |-> arg, seen |-> seen]}
                  /\ op \in Guarded => seen = Version(cache[c][n])
  BY DEF Send
<1>2. /\ call[c].at = "idle" /\ call' = [call EXCEPT ![c] = [at |-> "waiting"]]
      /\ row' = row /\ cache' = cache
  BY DEF Send
<1>3. call'[c].at = "waiting" /\ \A d \in Clients : d # c => call'[d] = call[d]
  BY <1>2 DEF Types, Tables
<1>4. CopiesAreVersions'
  BY <1>2 DEF Versions, CopiesAreVersions, IsVersion
<1>5. AnswersAreVersions'
  BY <1>2, <1>3 DEF Versions, AnswersAreVersions, IsVersion, Merged
<1>6. TreesAreVersions'
  BY <1>2, <1>3 DEF Versions, TreesAreVersions, IsVersion
<1>7. op \in Guarded =>
        IsVersion(seen, n)' /\ seen = Version(seen) /\ seen = Version(cache[c][n])
  <2>1. op \in Guarded => n \in DOMAIN cache[c] /\ IsVersion(cache[c][n], n)
    BY DEF Guarded, Versions, CopiesAreVersions
  <2> QED BY <1>1, <1>2, <2>1 DEF IsVersion, Version
<1>8. SeenAreVersions'
  BY <1>1, <1>2, <1>7 DEF Versions, SeenAreVersions, IsVersion
<1>9. op # "create" => n \in DOMAIN row
  BY DEF Versions, CopiesAreVersions, IsVersion
<1>10. CreatesAreFresh'
  BY <1>1, <1>2, <1>9 DEF Versions, CreatesAreFresh
<1> QED BY <1>4, <1>5, <1>6, <1>8, <1>10 DEF Versions

(* A request is taken off the wire, its answer a version of its row, and   *)
(* the thread it will be gone on with the answer's or none. *)
LEMMA AnswerKeeps ==
  ASSUME Types, Versions, RowGrows, NEW r \in wire, NEW answer, Answer(r, answer),
         answer # None /\ r.op \in {"update", "session"} =>
           /\ IsVersion(answer, r.node)'
           /\ r.op = "session" => r.arg.codex \in {answer.facts.codex, None}
           /\ r.op = "update" /\ r.from \in Clients =>
                cache[r.from][r.node].thread \in {answer.facts.codex, None},
         \A s \in wire : s.op = "create" /\ s # r => s.node \notin DOMAIN row'
  PROVE  Versions'
<1>1. /\ wire' = wire \ {r} /\ cache' = cache
      /\ \A c \in Clients :
           \/ call'[c] = call[c]
           \/ call'[c].at \in {"idle", "reading"}
           \/ /\ c = r.from /\ answer # None /\ r.op \in {"update", "session"}
              /\ call'[c] = [at |-> "answered", op |-> r.op, node |-> r.node,
                             arg |-> r.arg, answer |-> answer]
  BY AnswerIs DEF Idle
<1>2. \A v, n : IsVersion(v, n) => IsVersion(v, n)'
  BY VersionsLast DEF Types
<1>3. CopiesAreVersions' /\ SeenAreVersions'
  BY <1>1, <1>2 DEF Versions, CopiesAreVersions, SeenAreVersions
<1>4. ASSUME NEW c \in Clients, NEW a, a = call'[c], a.at = "answered"
      PROVE  /\ IsVersion(a.answer, a.node)'
             /\ Merged(cache[c][a.node], a).thread \in {a.answer.facts.codex, None}
  <2>1. CASE a = call[c]
    BY <1>2, <1>4, <2>1 DEF Versions, AnswersAreVersions
  <2>2. CASE /\ c = r.from /\ answer # None /\ r.op \in {"update", "session"}
             /\ a = [at |-> "answered", op |-> r.op, node |-> r.node,
                     arg |-> r.arg, answer |-> answer]
    BY <2>2 DEF Merged
  <2> QED BY <1>1, <1>4, <2>1, <2>2
<1>5. AnswersAreVersions'
  <2> SUFFICES ASSUME NEW c \in Clients, call'[c].at = "answered"
               PROVE  /\ IsVersion(call[c].answer, call[c].node)'
                      /\ Merged(cache[c][call[c].node], call[c])'.thread \in
                           {call'[c].answer.facts.codex, None}
    BY DEF AnswersAreVersions
  <2> QED BY <1>1, <1>4 DEF IsVersion, Merged
<1>6. TreesAreVersions'
  BY <1>1, <1>2 DEF Versions, TreesAreVersions
<1>7. CreatesAreFresh'
  BY <1>1 DEF Versions, CreatesAreFresh
<1> QED BY <1>3, <1>5, <1>6, <1>7 DEF Versions

(* A row that is new, or has a higher revision than before, is written and *)
(* answered with. *)
LEMMA WriteKeeps ==
  ASSUME Types, Versions, NEW r \in wire, NEW new \in Rows, Write(r, new),
         r.op = "create" \/ (r.node \in DOMAIN row /\ new.rev = row[r.node].rev + 1),
         r.op = "session" => r.arg.codex \in {new.facts.codex, None},
         r.op = "update" /\ r.from \in Clients =>
           cache[r.from][r.node].thread \in {new.facts.codex, None}
  PROVE  Versions'
<1> DEFINE answer == Version(new)
<1>1. row' = With(row, r.node, new) /\ Answer(r, answer)
  BY DEF Write
<1>2. /\ DOMAIN row' = DOMAIN row \cup {r.node} /\ row'[r.node] = new
      /\ \A n \in DOMAIN row : n # r.node => row'[n] = row[n]
  BY <1>1 DEF With
<1>3. RowGrows
  BY <1>2 DEF RowGrows, Versions, CreatesAreFresh
<1>4. answer.facts = new.facts /\ IsVersion(answer, r.node)'
  BY <1>2 DEF IsVersion, Version, Rows
<1>5. \A s \in wire : s.op = "create" /\ s # r => s.node \notin DOMAIN row'
  BY <1>2 DEF Versions, CreatesAreFresh
<1> HIDE DEF answer
<1> QED BY <1>1, <1>3, <1>4, <1>5, AnswerKeeps

(* Edits, deletions, sessions, resets, creations and refusals, one after   *)
(* the other. *)
LEMMA ServeKeeps ==
  ASSUME Types, Versions, NEW r \in wire,
         \/ ServeUpdate(r) \/ ServeMove(r) \/ ServeDelete(r)
         \/ ServeSession(r) \/ ServeReset(r) \/ ServeCreate(r) \/ Refuse(r)
  PROVE  Versions'
<1>1. RowsFit /\ Fits(r.op, r.arg) /\ r.node \in Nodes
  BY DEF Types, RequestsFit
<1>2. CASE ServeUpdate(r) \/ ServeMove(r) \/ ServeSession(r) \/ ServeReset(r)
  <2>1. /\ r.node \in DOMAIN row /\ r.op # "create"
        /\ r.op = "update" => Current(r)
    BY <1>2 DEF ServeUpdate, ServeMove, ServeSession, ServeReset, LiveRow
  <2>2. PICK f \in Facts :
          /\ Write(r, Bump(r, f))
          /\ r.op = "update" => f.codex = row[r.node].facts.codex
          /\ r.op = "session" => r.arg.codex \in {f.codex, None}
    BY <1>2, WritesAre
  <2>3. PICK new \in Rows : new = Bump(r, f) /\ new.rev = row[r.node].rev + 1 /\ new.facts = f
    BY <1>1, <2>1, BumpIs
  <2>4. ASSUME r.op = "update", r.from \in Clients
        PROVE  cache[r.from][r.node].thread \in {new.facts.codex, None}
    <3>1. r.seen = Version(cache[r.from][r.node]) /\ r.seen.facts = row[r.node].facts
      BY <2>1, <2>4 DEF Guarded, Current, Versions, SeenAreVersions, IsVersion
    <3>2. /\ r.node \in DOMAIN cache[r.from]
          /\ cache[r.from][r.node].thread \in {cache[r.from][r.node].facts.codex, None}
      BY <2>4 DEF Types, Waits, Versions, CopiesAreVersions
    <3>3. cache[r.from][r.node].facts = row[r.node].facts
      BY <3>1 DEF Version
    <3> QED BY <2>2, <2>3, <2>4, <3>2, <3>3
  <2>5. Write(r, new)
    BY <2>2, <2>3
  <2>6. r.op = "session" => r.arg.codex \in {new.facts.codex, None}
    BY <2>2, <2>3
  <2> QED BY <2>1, <2>3, <2>4, <2>5, <2>6, WriteKeeps
<1>3. CASE ServeDelete(r)
  <2>1. PICK M, answer :
          Stamp(M, r.node) /\ Answer(r, answer) /\ r.op = "delete"
    BY <1>3 DEF ServeDelete
  <2>2. RowGrows /\ DOMAIN row' = DOMAIN row
    BY <1>1, <2>1, StampFits DEF RowGrows
  <2>3. \A s \in wire : s.op = "create" /\ s # r => s.node \notin DOMAIN row'
    BY <2>2 DEF Versions, CreatesAreFresh
  <2> QED BY <2>1, <2>2, <2>3, AnswerKeeps
<1>4. CASE ServeCreate(r)
  <2>1. PICK new : /\ r.op = "create" /\ Write(r, new)
                   /\ new = [rev |-> 1, deleted |-> None,
                             facts |-> [name |-> r.arg.name, place |-> r.arg.place,
                                        codex |-> None, claude |-> None]]
    BY <1>4 DEF ServeCreate
  <2>2. new \in Rows
    BY <1>1, <2>1 DEF Fits, Rows, Facts
  <2> QED BY <2>1, <2>2, WriteKeeps
<1>5. CASE Refuse(r)
  <2>1. Answer(r, None) /\ row' = row
    BY <1>5 DEF Refuse
  <2>2. RowGrows /\ \A s \in wire : s.op = "create" /\ s # r => s.node \notin DOMAIN row'
    BY <2>1 DEF RowGrows, Versions, CreatesAreFresh
  <2> QED BY <2>1, <2>2, AnswerKeeps
<1> QED BY <1>2, <1>3, <1>4, <1>5

(* A copy is exchanged for the tree that was read or the row that was      *)
(* answered with: its desktop waits for nothing then. *)
LEMMA InstallAndFinishKeep ==
  ASSUME Types, Versions, NEW c \in Clients, Install(c) \/ Finish(c)
  PROVE  Versions'
<1>1. /\ row' = row /\ wire' = wire /\ call' = [call EXCEPT ![c] = Idle]
      /\ call[c].at \in {"read", "answered"}
  BY DEF Install, Finish
<1>2. call'[c].at = "idle" /\ \A d \in Clients : d # c => call'[d] = call[d]
  BY <1>1 DEF Types, Tables, Idle
<1>3. \A v, n : IsVersion(v, n) => IsVersion(v, n)'
  BY <1>1 DEF IsVersion
<1>4. /\ \A d \in Clients : d # c => cache'[d] = cache[d]
      /\ \A n \in DOMAIN cache'[c] :
           /\ IsVersion(cache'[c][n], n)
           /\ cache'[c][n].thread \in {cache'[c][n].facts.codex, None}
  <2>1. CASE Install(c)
    <3>1. \A n \in DOMAIN call[c].tree : IsVersion(call[c].tree[n], n)
      BY <2>1 DEF Install, Versions, TreesAreVersions
    <3>2. /\ DOMAIN cache'[c] = DOMAIN call[c].tree
          /\ \A n \in DOMAIN call[c].tree : cache'[c][n] = NormalisedRow(call[c].tree[n])
          /\ \A d \in Clients : d # c => cache'[d] = cache[d]
      BY <2>1, InstalledIs
    <3>3. ASSUME NEW v, NEW n, IsVersion(v, n)
          PROVE  IsVersion(NormalisedRow(v), n) /\ NormalisedRow(v).thread = NormalisedRow(v).facts.codex
      BY <3>3 DEF NormalisedRow, IsVersion
    <3> QED BY <3>1, <3>2, <3>3
  <2>2. CASE Finish(c)
    <3> DEFINE n == call[c].node
               new == Merged(cache[c][n], call[c])
    <3>1. /\ n \in DOMAIN cache[c] /\ cache'[c] = With(cache[c], n, new)
          /\ \A d \in Clients : d # c => cache'[d] = cache[d]
      BY <2>2, MergedIs
    <3>2. /\ IsVersion(call[c].answer, n) /\ new.thread \in {call[c].answer.facts.codex, None}
          /\ new.rev = call[c].answer.rev /\ new.facts = call[c].answer.facts
      BY <2>2 DEF Finish, Versions, AnswersAreVersions, Merged
    <3>3. IsVersion(new, n)
      BY <3>2 DEF IsVersion
    <3> HIDE DEF n, new
    <3>4. \A m \in DOMAIN cache'[c] : IF m = n THEN cache'[c][m] = new
                                      ELSE m \in DOMAIN cache[c] /\ cache'[c][m] = cache[c][m]
      BY <3>1 DEF With
    <3> QED BY <3>1, <3>2, <3>3, <3>4 DEF Versions, CopiesAreVersions
  <2> QED BY <2>1, <2>2
<1>5. CopiesAreVersions'
  BY <1>3, <1>4 DEF Versions, CopiesAreVersions
<1>6. AnswersAreVersions'
  BY <1>2, <1>3, <1>4 DEF Versions, AnswersAreVersions
<1>7. TreesAreVersions'
  BY <1>2, <1>3 DEF Versions, TreesAreVersions
<1>8. \A r \in wire : r.from # c
  BY <1>1 DEF Types, Waits
<1>9. SeenAreVersions'
  BY <1>1, <1>3, <1>4, <1>8 DEF Versions, SeenAreVersions
<1>10. CreatesAreFresh'
  BY <1>1 DEF Versions, CreatesAreFresh
<1> QED BY <1>5, <1>6, <1>7, <1>9, <1>10 DEF Versions

LEMMA GiveUpKeeps ==
  ASSUME Types, Versions, NEW c \in Clients, GiveUp(c)
  PROVE  Versions'
<1>1. /\ row' = row /\ cache' = cache /\ call'[c].at = "idle"
      /\ \A d \in Clients : d # c => call'[d] = call[d]
      /\ \A q \in wire' :
           \/ q \in wire /\ q.from # c
           \/ \E r \in wire :
                /\ r.from = c /\ q.from = None
                /\ q.op = r.op /\ q.node = r.node /\ q.arg = r.arg /\ q.seen = r.seen
                /\ q = [from |-> None, op |-> r.op, node |-> r.node, arg |-> r.arg, seen |-> r.seen]
  BY GivenUp
<1>2. \A v, n : IsVersion(v, n) => IsVersion(v, n)'
  BY <1>1 DEF IsVersion
<1>3. CopiesAreVersions'
  BY <1>1, <1>2 DEF Versions, CopiesAreVersions
<1>4. AnswersAreVersions'
  BY <1>1, <1>2 DEF Versions, AnswersAreVersions
<1>5. TreesAreVersions'
  BY <1>1, <1>2 DEF Versions, TreesAreVersions
<1>6. SeenAreVersions'
  BY <1>1, <1>2, NoneAssumption DEF Versions, SeenAreVersions
<1>7. CreatesAreFresh'
  BY <1>1 DEF Versions, CreatesAreFresh
<1> QED BY <1>3, <1>4, <1>5, <1>6, <1>7 DEF Versions

(* Reading the tree, and an administrator who restores. *)
LEMMA ReadAndRestoreKeep ==
  ASSUME Types, Versions,
         \/ \E c \in Clients : Refresh(c) \/ ServeTree(c)
         \/ \E n \in Nodes : Restore(n)
  PROVE  Versions'
<1>1. CASE \E c \in Clients : Refresh(c) \/ ServeTree(c)
  <2>1. PICK c \in Clients : Refresh(c) \/ ServeTree(c)
    BY <1>1
  <2>2. /\ row' = row /\ cache' = cache /\ wire' = wire
        /\ \A d \in Clients :
             \/ call'[d] = call[d] \/ call'[d].at = "reading"
             \/ call'[d] = [at |-> "read", tree |-> Tree]
    BY <2>1 DEF Refresh, ServeTree, Types, Tables
  <2>3. \A v, n : IsVersion(v, n) => IsVersion(v, n)'
    BY <2>2 DEF IsVersion
  <2>4. CopiesAreVersions' /\ SeenAreVersions' /\ CreatesAreFresh'
    BY <2>2, <2>3 DEF Versions, CopiesAreVersions, SeenAreVersions, CreatesAreFresh
  <2>5. AnswersAreVersions'
    BY <2>2, <2>3 DEF Versions, AnswersAreVersions
  <2>6. \A n \in DOMAIN Tree : IsVersion(Tree[n], n)
    BY DEF Tree, Version, IsVersion, Types, RowsFit, Rows
  <2>7. TreesAreVersions'
    BY <2>2, <2>3, <2>6 DEF Versions, TreesAreVersions
  <2> QED BY <2>4, <2>5, <2>7 DEF Versions
<1>2. CASE \E n \in Nodes : Restore(n)
  <2>1. PICK M : Stamp(M, None) /\ cache' = cache /\ call' = call /\ wire' = wire
    BY <1>2 DEF Restore
  <2>2. RowGrows /\ DOMAIN row' = DOMAIN row
    BY <2>1, StampFits DEF RowGrows, Types
  <2>3. \A v, n : IsVersion(v, n) => IsVersion(v, n)'
    BY <2>2, VersionsLast DEF Types
  <2>4. CopiesAreVersions' /\ AnswersAreVersions' /\ TreesAreVersions' /\ SeenAreVersions'
    BY <2>1, <2>3 DEF Versions, CopiesAreVersions, AnswersAreVersions, TreesAreVersions,
                      SeenAreVersions
  <2>5. CreatesAreFresh'
    BY <2>1, <2>2 DEF Versions, CreatesAreFresh
  <2> QED BY <2>4, <2>5 DEF Versions
<1> QED BY <1>1, <1>2

(* Every copy, wherever it is, is a version of its node. *)
THEOREM CopiesStayVersions == SharedSpec => []Versions
<1>1. SharedInit => Versions
  BY DEF SharedInit, Versions, CopiesAreVersions, AnswersAreVersions, TreesAreVersions,
         SeenAreVersions, CreatesAreFresh, Idle
<1>2. ASSUME Types, Versions, [SharedNext]_sharedVars PROVE Versions'
  <2>1. ASSUME NEW c \in Clients, ClientStep(c) PROVE Versions'
    BY <1>2, <2>1, ClientSteps, SendKeeps, InstallAndFinishKeep, GiveUpKeeps, ReadAndRestoreKeep
  <2>2. CASE ServerStep
    BY <1>2, <2>2, ServeKeeps, ReadAndRestoreKeep DEF ServerStep
  <2>3. CASE UNCHANGED sharedVars
    <3>1. \A v, n : IsVersion(v, n) => IsVersion(v, n)'
      BY <2>3 DEF IsVersion, sharedVars
    <3> QED BY <1>2, <2>3, <3>1
            DEF sharedVars, Versions, CopiesAreVersions, AnswersAreVersions, TreesAreVersions,
                SeenAreVersions, CreatesAreFresh
  <2> QED BY <1>2, <2>1, <2>2, <2>3 DEF SharedNext
<1>3. Types /\ Versions /\ [SharedNext]_sharedVars => Versions'
  BY <1>2
<1> QED BY <1>1, <1>3, TypesAlways, PTL DEF SharedSpec

(* RemoteWorkspace's cache never runs ahead of the server; what it holds   *)
(* under the current revision of a node is what the server holds, and it   *)
(* goes on with no thread but the one its row names. *)
THEOREM CachesStayVersions == SharedSpec => []CachesAreVersions
<1>1. Versions => CachesAreVersions
  BY DEF Versions, CopiesAreVersions, IsVersion, CachesAreVersions
<1> QED BY <1>1, CopiesStayVersions, PTL

(* What a deletion takes is live, and no more than the node itself unless  *)
(* that is a project: nothing lies in a conversation, at no depth. *)
LEMMA TakenIs ==
  ASSUME RowsFit, NEW n \in DOMAIN row, LiveRow(n)
  PROVE  /\ \A m \in Subtree(n, {k \in DOMAIN row : LiveRow(k)}) : LiveRow(m)
         /\ n \notin Folders => Subtree(n, {k \in DOMAIN row : LiveRow(k)}) = {n}
<1> DEFINE S == {k \in DOMAIN row : LiveRow(k)}
           Next1(f, d) == IF d = 0 THEN {n}
                          ELSE f[d - 1] \cup {p \in S \cap Folders : row[p].facts.place \in f[d - 1]}
           Is(f) == f = [d \in 0..MaxDepth |-> Next1(f, d)]
           Sub == CHOOSE f : Is(f)
<1>1. Subtree(n, S) = {n} \cup {m \in S : (IF m \in Folders THEN m ELSE row[m].facts.place)
                                             \in Sub[MaxDepth]}
  BY DEF Subtree
<1>2. \A m \in Subtree(n, S) : LiveRow(m)
  BY <1>1
<1>3. ASSUME n \notin Folders PROVE Subtree(n, S) = {n}
  <2>1. \A p \in S : row[p].facts.place # n
    BY <1>3, NoneAssumption DEF RowsFit, Rows, Facts
  <2>2. \E f : Is(f)
    <3> DEFINE g == [d \in 0..MaxDepth |-> {n}]
    <3>1. MaxDepth \in Nat
      BY BoundsAssumption
    <3>2. ASSUME NEW d \in 0..MaxDepth PROVE Next1(g, d) = {n}
      <4>1. d # 0 => g[d - 1] = {n}
        BY <3>1
      <4> HIDE DEF g
      <4> QED BY <2>1, <4>1
    <3>3. Is(g)
      BY <3>2
    <3> HIDE DEF g, Is
    <3> QED BY <3>3
  <2>3. Is(Sub)
    <3> HIDE DEF Is
    <3> QED BY <2>2
  <2> HIDE DEF Sub
  <2>4. \A d \in 0..MaxDepth : Sub[d] = Next1(Sub, d)
    BY <2>3
  <2> DEFINE T == {d \in 0..MaxDepth : Sub[d] # {n}}
  <2>5. ASSUME T # {} PROVE FALSE
    <3>1. T \in SUBSET Nat
      OBVIOUS
    <3>2. PICK d \in T : \A e \in T : d =< e
      <4> HIDE DEF T
      <4> QED BY <2>5, <3>1, Smallest
    <3>3. d # 0
      BY <2>4
    <3>4. d - 1 \in 0..MaxDepth /\ ~(d =< d - 1)
      BY <3>3, BoundsAssumption
    <3>5. d - 1 \notin T
      BY <3>2, <3>4
    <3>6. Sub[d - 1] = {n}
      BY <3>4, <3>5
    <3> QED BY <2>1, <2>4, <3>3, <3>6
  <2>6. Sub[MaxDepth] = {n}
    BY <2>5, BoundsAssumption
  <2>7. \A m \in S : (IF m \in Folders THEN m ELSE row[m].facts.place) = n => m = n
    BY <2>1
  <2> HIDE DEF S, Next1, Is
  <2> QED BY <1>1, <2>6, <2>7
<1> QED BY <1>2, <1>3

(* The revision clause of the UPDATEs loses no edit: what is replaced is   *)
(* what its author had before it, however late the request is served. *)
THEOREM NoEditIsLost == SharedSpec => EditsReplaceWhatWasSeen
<1> DEFINE Safe ==
      \A r \in wire \ wire' :
        r.op \in Guarded /\ row' # row =>
          /\ r.seen = Version(row[r.node])
          /\ \A m \in DOMAIN row \ {r.node} : row'[m] # row[m] =>
               /\ r.op = "delete" /\ r.node \in Folders /\ LiveRow(m)
               /\ row'[m].facts = row[m].facts /\ row'[m].deleted = r.node
<1>1. Types /\ Versions /\ [SharedNext]_sharedVars => [Safe]_sharedVars
  <2> SUFFICES ASSUME Types, Versions, SharedNext, NEW r \in wire \ wire', row' # row,
                      r.op \in Guarded
               PROVE  /\ r.seen = Version(row[r.node])
                      /\ \A m \in DOMAIN row \ {r.node} : row'[m] # row[m] =>
                           /\ r.op = "delete" /\ r.node \in Folders /\ LiveRow(m)
                           /\ row'[m].facts = row[m].facts /\ row'[m].deleted = r.node
    BY DEF sharedVars
  <2>1. \A c \in Clients : ~ClientStep(c)
    BY ClientSteps, GivenUp DEF Refresh, Install, Finish, Send
  <2>2. ~\E c \in Clients : ServeTree(c)
    BY DEF ServeTree
  <2>3. ~\E n \in Nodes : Restore(n)
    BY DEF Restore
  <2>4. PICK q \in wire :
          \/ ServeUpdate(q) \/ ServeMove(q) \/ ServeDelete(q)
          \/ ServeSession(q) \/ ServeReset(q) \/ ServeCreate(q) \/ Refuse(q)
    BY <2>1, <2>2, <2>3 DEF SharedNext, ServerStep
  <2>5. wire' = wire \ {q}
    BY <2>4 DEF ServeUpdate, ServeMove, ServeDelete, ServeSession, ServeReset, ServeCreate,
                Refuse, Write, Answer
  <2>6. r = q
    BY <2>5
  <2>7. ServeUpdate(r) \/ ServeMove(r) \/ ServeDelete(r)
    BY <2>4, <2>6 DEF ServeSession, ServeReset, ServeCreate, Refuse, Guarded
  <2>8. r.seen = Version(row[r.node])
    <3>1. IsVersion(r.seen, r.node) /\ r.seen = Version(r.seen) /\ r.seen.rev = row[r.node].rev
      BY <2>7 DEF ServeUpdate, ServeMove, ServeDelete, Current, Versions, SeenAreVersions
    <3> QED BY <3>1 DEF IsVersion, Version
  <2>9. ASSUME NEW m \in DOMAIN row \ {r.node}, row'[m] # row[m]
        PROVE  /\ r.op = "delete" /\ r.node \in Folders /\ LiveRow(m)
               /\ row'[m].facts = row[m].facts /\ row'[m].deleted = r.node
    <3>1. CASE ServeUpdate(r) \/ ServeMove(r)
      <4>1. PICK new : row' = With(row, r.node, new)
        BY <3>1 DEF ServeUpdate, ServeMove, Write
      <4> QED BY <2>9, <4>1 DEF With
    <3>2. CASE ServeDelete(r)
      <4> DEFINE taken == Subtree(r.node, {k \in DOMAIN row : LiveRow(k)})
      <4>1. r.op = "delete" /\ LiveRow(r.node) /\ r.node \in DOMAIN row /\ Stamp(taken, r.node)
        BY <3>2 DEF ServeDelete, LiveRow
      <4>2. RowsFit /\ r.node \in Nodes
        BY DEF Types, RequestsFit
      <4>3. /\ \A k \in taken : LiveRow(k)
            /\ r.node \notin Folders => taken = {r.node}
        BY <4>1, <4>2, TakenIs
      <4> HIDE DEF taken
      <4>4. m \in taken
        BY <2>9, <4>1, <4>2, StampFits
      <4> QED BY <2>9, <4>1, <4>2, <4>3, <4>4, StampFits
    <3> QED BY <2>7, <3>1, <3>2
  <2> QED BY <2>8, <2>9
<1>2. SharedSpec => []Types /\ []Versions
  BY TypesAlways, CopiesStayVersions, PTL
<1> QED BY <1>1, <1>2, PTL DEF SharedSpec, EditsReplaceWhatWasSeen

-----------------------------------------------------------------------------
(* The choices: chains of projects.  Ancestors, CachedChain and the chain  *)
(* of the plain workspace are recursive functions; that they are functions *)
(* at all, and the same one, follows from the tree having no loops.        *)

\* What a chain of projects is, from the project p upwards.
Chained(up, D, f) == f = [p \in D \cup {Root} |-> IF p = Root THEN <<>> ELSE <<p>> \o f[up[p]]]

\* No project lies within itself: of any projects, one lies in none of them.
NoLoops(up, D) ==
  /\ Root \notin D
  /\ \A p \in D : up[p] \in D \cup {Root}
  /\ \A S \in SUBSET D : S # {} => \E p \in S : up[p] \notin S

\* Then every project has a chain.
LEMMA ChainsExist ==
  ASSUME NEW up, NEW D, NoLoops(up, D)
  PROVE  \E f : Chained(up, D, f)
<1> DEFINE E == D \cup {Root}
           Link(f, p) == IF p = Root THEN <<>> ELSE <<p>> \o f[up[p]]
           Partial(g) ==
             /\ Root \in DOMAIN g /\ DOMAIN g \subseteq E
             /\ \A p \in DOMAIN g : g[p] = Link(g, p) /\ (p # Root => up[p] \in DOMAIN g)
<1>1. /\ Root \notin D
      /\ \A p \in D : up[p] \in E
      /\ \A S \in SUBSET D : S # {} => \E p \in S : up[p] \notin S
  BY DEF NoLoops
<1>2. ASSUME NEW g, Partial(g), NEW h, Partial(h), NEW q \in DOMAIN g \cap DOMAIN h
      PROVE  g[q] = h[q]
  <2> DEFINE S == {p \in D : p \in DOMAIN g \cap DOMAIN h /\ g[p] # h[p]}
  <2>1. g[Root] = h[Root]
    BY <1>2
  <2>2. CASE S = {}
    BY <1>2, <2>1, <2>2
  <2>3. CASE S # {}
    <3>1. PICK x \in S : up[x] \notin S
      BY <1>1, <2>3
    <3>2. x \in D /\ x # Root /\ up[x] \in E /\ up[x] \in DOMAIN g \cap DOMAIN h
      BY <1>1, <1>2
    <3>3. g[up[x]] = h[up[x]]
      BY <2>1, <3>1, <3>2
    <3>4. g[x] = <<x>> \o g[up[x]] /\ h[x] = <<x>> \o h[up[x]]
      BY <1>2, <3>2
    <3> QED BY <3>3, <3>4
  <2> QED BY <2>2, <2>3
<1>3. ASSUME NEW q \in E PROVE \E g : Partial(g) /\ q \in DOMAIN g
  <2> DEFINE S == {p \in D : ~\E g : Partial(g) /\ p \in DOMAIN g}
             start == [p \in {Root} |-> <<>>]
  <2>1. Partial(start) /\ Root \in DOMAIN start
    BY <1>1
  <2>2. ASSUME NEW x \in S, up[x] \notin S PROVE FALSE
    <3>1. PICK g : Partial(g) /\ up[x] \in DOMAIN g
      <4>1. up[x] \in E
        BY <1>1
      <4> HIDE DEF Partial, start
      <4> QED BY <2>1, <2>2, <4>1
    <3>2. x \in D /\ x \notin DOMAIN g /\ x # Root
      BY <1>1, <3>1
    <3> DEFINE h == [p \in DOMAIN g \cup {x} |-> IF p = x THEN <<x>> \o g[up[x]] ELSE g[p]]
    <3>3. DOMAIN h = DOMAIN g \cup {x} /\ h[x] = <<x>> \o g[up[x]] /\ \A p \in DOMAIN g : h[p] = g[p]
      BY <3>2
    <3> HIDE DEF h
    <3>4. h[x] = Link(h, x) /\ up[x] \in DOMAIN h
      BY <3>1, <3>2, <3>3
    <3>5. ASSUME NEW p \in DOMAIN g PROVE h[p] = Link(h, p) /\ (p # Root => up[p] \in DOMAIN h)
      BY <3>1, <3>3
    <3>6. Partial(h) /\ x \in DOMAIN h
      BY <3>1, <3>2, <3>3, <3>4, <3>5
    <3> HIDE DEF Partial
    <3> QED BY <3>6
  <2>3. S = {}
    <3> HIDE DEF S
    <3>1. S \subseteq D
      BY DEF S
    <3> QED BY <1>1, <2>2, <3>1
  <2> HIDE DEF Partial, start
  <2> QED BY <2>1, <2>3
<1> DEFINE G(p) == CHOOSE g : Partial(g) /\ p \in DOMAIN g
           f == [p \in E |-> G(p)[p]]
<1>4. \A p \in E : Partial(G(p)) /\ p \in DOMAIN G(p)
  <2> HIDE DEF Partial
  <2> QED BY <1>3
<1>5. ASSUME NEW p \in E PROVE f[p] = Link(f, p)
  <2>1. CASE p = Root
    <3> HIDE DEF G
    <3> QED BY <1>4, <2>1
  <2>2. CASE p # Root
    <3>1. G(p)[p] = <<p>> \o G(p)[up[p]] /\ up[p] \in DOMAIN G(p) /\ up[p] \in E
      <4> HIDE DEF G
      <4> QED BY <1>1, <1>4, <2>2
    <3>2. G(up[p])[up[p]] = G(p)[up[p]]
      <4>1. Partial(G(p)) /\ Partial(G(up[p])) /\ up[p] \in DOMAIN G(p) \cap DOMAIN G(up[p])
        BY <1>4, <3>1
      <4> HIDE DEF G, Partial
      <4> QED BY <1>2, <4>1
    <3>3. f[p] = G(p)[p] /\ f[up[p]] = G(up[p])[up[p]]
      BY <3>1
    <3> HIDE DEF f, G
    <3> QED BY <2>2, <3>1, <3>2, <3>3
  <2> QED BY <2>1, <2>2
<1>6. DOMAIN f = E /\ f = [p \in E |-> f[p]]
  OBVIOUS
<1> HIDE DEF f
<1>7. f = [p \in E |-> Link(f, p)]
  BY <1>5, <1>6
<1>8. Chained(up, D, f)
  BY <1>7 DEF Chained
<1> QED BY <1>8

\* There is only one, and it is a sequence of projects that leads from p to the top.
LEMMA ChainsLead ==
  ASSUME NEW up, NEW D, NoLoops(up, D), NEW f, Chained(up, D, f)
  PROVE  /\ \A p \in D \cup {Root} :
              f[p] \in Seq(D) /\ \A x \in ToSet(f[p]) : up[x] = Root \/ up[x] \in ToSet(f[p])
         /\ \A p \in D : p \in ToSet(f[p])
<1> DEFINE Leads(p) ==
      /\ f[p] \in Seq(D)
      /\ \A x \in ToSet(f[p]) : up[x] = Root \/ up[x] \in ToSet(f[p])
      /\ p # Root => p \in ToSet(f[p])
<1>1. /\ Root \notin D
      /\ \A p \in D : up[p] \in D \cup {Root}
      /\ \A S \in SUBSET D : S # {} => \E p \in S : up[p] \notin S
  BY DEF NoLoops
<1>2. f[Root] = <<>> /\ \A p \in D : f[p] = <<p>> \o f[up[p]]
  BY <1>1 DEF Chained
<1>3. Leads(Root)
  BY <1>2 DEF ToSet
<1>4. ASSUME NEW p \in D, Leads(up[p]) PROVE Leads(p)
  <2> DEFINE s == f[up[p]]
  <2>1. s \in Seq(D) /\ f[p] = <<p>> \o s
    BY <1>2, <1>4
  <2> HIDE DEF s
  <2>2. f[p] \in Seq(D)
    BY <2>1
  <2>3. ToSet(f[p]) = {p} \cup ToSet(s)
    <3>1. /\ DOMAIN f[p] = 1..(Len(s) + 1) /\ f[p][1] = p
          /\ \A i \in 1..Len(s) : f[p][i + 1] = s[i]
          /\ DOMAIN s = 1..Len(s) /\ Len(s) \in Nat
      BY <2>1
    <3>2. \A i \in DOMAIN f[p] : f[p][i] \in {p} \cup ToSet(s)
      <4>1. ASSUME NEW i \in 2..(Len(s) + 1) PROVE f[p][i] \in ToSet(s)
        <5>1. i - 1 \in 1..Len(s) /\ (i - 1) + 1 = i
          BY <3>1
        <5> QED BY <3>1, <5>1 DEF ToSet
      <4> QED BY <3>1, <4>1
    <3>3. p \in ToSet(f[p])
      <4>1. 1 \in DOMAIN f[p]
        BY <3>1
      <4> QED BY <3>1, <4>1 DEF ToSet
    <3>4. \A i \in DOMAIN s : s[i] \in ToSet(f[p])
      <4>1. \A i \in 1..Len(s) : i + 1 \in DOMAIN f[p]
        BY <3>1
      <4> QED BY <3>1, <4>1 DEF ToSet
    <3> QED BY <3>2, <3>3, <3>4 DEF ToSet
  <2>4. \A x \in ToSet(s) : up[x] = Root \/ up[x] \in ToSet(s)
    BY <1>4 DEF s
  <2>5. up[p] = Root \/ up[p] \in ToSet(s)
    BY <1>4 DEF s
  <2> QED BY <2>2, <2>3, <2>4, <2>5
<1> DEFINE S == {p \in D : ~Leads(p)}
<1>5. S = {}
  <2> HIDE DEF Leads
  <2>1. ASSUME NEW p \in S, up[p] \notin S PROVE FALSE
    BY <1>1, <1>3, <1>4, <2>1
  <2> QED BY <1>1, <2>1
<1> HIDE DEF Leads
<1>6. \A p \in D \cup {Root} : Leads(p)
  BY <1>3, <1>5
<1> USE DEF Leads
<1> QED BY <1>1, <1>6

LEMMA OneChain ==
  ASSUME NEW up, NEW D, NoLoops(up, D), NEW f, Chained(up, D, f), NEW g, Chained(up, D, g)
  PROVE  f = g
<1> DEFINE S == {p \in D : f[p] # g[p]}
<1>1. /\ Root \notin D
      /\ \A p \in D : up[p] \in D \cup {Root}
      /\ \A T \in SUBSET D : T # {} => \E p \in T : up[p] \notin T
  BY DEF NoLoops
<1>2. /\ f[Root] = <<>> /\ \A p \in D : f[p] = <<p>> \o f[up[p]]
      /\ g[Root] = <<>> /\ \A p \in D : g[p] = <<p>> \o g[up[p]]
  BY <1>1 DEF Chained
<1>3. S = {}
  <2>1. ASSUME NEW p \in S, up[p] \notin S PROVE FALSE
    <3>1. f[up[p]] = g[up[p]]
      BY <1>1, <1>2, <2>1
    <3>2. p \in D /\ f[p] # g[p]
      OBVIOUS
    <3> QED BY <1>2, <3>1, <3>2
  <2> QED BY <1>1, <2>1
<1>4. \A p \in D \cup {Root} : f[p] = g[p]
  BY <1>2, <1>3
<1> QED BY <1>4 DEF Chained

\* Putting a project, an old or a new one, where its chain does not lead back to it.
LEMMA MovesMakeNoLoops ==
  ASSUME NEW up, NEW D, NoLoops(up, D), NEW f, Chained(up, D, f),
         NEW p, p # Root, NEW q \in D \cup {Root}, p \notin ToSet(f[q]), q # p,
         NEW next, next[p] = q, \A r \in D : r # p => next[r] = up[r]
  PROVE  NoLoops(next, D \cup {p})
<1>1. /\ Root \notin D
      /\ \A r \in D : up[r] \in D \cup {Root}
      /\ \A S \in SUBSET D : S # {} => \E r \in S : up[r] \notin S
  BY DEF NoLoops
<1>2. /\ \A x \in ToSet(f[q]) : up[x] = Root \/ up[x] \in ToSet(f[q])
      /\ q # Root => q \in ToSet(f[q])
  BY ChainsLead
<1>3. ASSUME NEW S \in SUBSET (D \cup {p}), S # {} PROVE \E r \in S : next[r] \notin S
  <2> DEFINE T == (S \cap ToSet(f[q])) \ {p}
  <2>1. CASE p \notin S
    <3>1. PICK r \in S : up[r] \notin S
      BY <1>1, <1>3, <2>1
    <3> QED BY <2>1, <3>1
  <2>2. CASE p \in S /\ q \notin S
    BY <2>2
  <2>3. CASE p \in S /\ q \in S
    <3>1. q # Root /\ q \in T /\ T \subseteq D
      BY <1>1, <1>2, <2>3
    <3>2. PICK r \in T : up[r] \notin T
      BY <1>1, <3>1
    <3>3. r \in S /\ r # p /\ r \in D /\ next[r] = up[r] /\ r \in ToSet(f[q])
      BY <3>1, <3>2
    <3>4. up[r] \notin S
      BY <1>1, <1>2, <3>2, <3>3
    <3> QED BY <3>3, <3>4
  <2> QED BY <2>1, <2>2, <2>3
<1>4. \A r \in D \cup {p} : next[r] \in (D \cup {p}) \cup {Root}
  BY <1>1
<1> QED BY <1>1, <1>3, <1>4 DEF NoLoops


LEMMA LeastOne ==
  ASSUME NEW S \in SUBSET Nat, S # {}
  PROVE  Min(S) \in S
<1>1. \E x \in S : \A y \in S : x =< y
  BY Smallest
<1> QED BY <1>1 DEF Min

-----------------------------------------------------------------------------
(* The tables, the choices and the copy *)

\* The projects of the server are a tree, and every conversation lies in one.
ServerIsTree ==
  /\ parent \in [Projects -> Projects \cup {Root, Missing}]
  /\ NoLoops(parent, Created)
  /\ shared \in [Projects -> {SharedDir, Unset}]
  /\ home \in [Conversations -> Created \cup {Missing}]
  /\ agentId \in [Conversations -> Agents \cup {Unset}]
  /\ \A c \in Conversations : home[c] # Missing => agentId[c] \in Agents

ChoicesAreKept ==
  prefs \in [cwd : [Projects -> Dirs \cup {Unset}], agent : [Projects -> Agents \cup {Unset}],
             pinned : [Conversations -> Agents \cup {Unset, Missing}],
             wsCwd : Dirs \cup {Unset}, wsAgent : Agents \cup {Unset}]

\* The directory a project has: the one chosen here, or else the server's.
Effective(p) == IF prefs.cwd[p] # Unset THEN prefs.cwd[p] ELSE shared[p]

\* The copy is a tree of its own, of what is there; its agents are the chosen ones, and its
\* directories the effective ones wherever it is not in doubt.
CopyFollows ==
  /\ view \in [parent : [Projects -> Projects \cup {Root, Missing}],
               cwd : [Projects -> Dirs \cup {SharedDir, Unset}],
               agent : [Projects -> Agents \cup {Unset}],
               home : [Conversations -> Projects \cup {Missing}],
               agentId : [Conversations -> Agents \cup {Unset}]]
  /\ NoLoops(view.parent, Copied) /\ Copied \subseteq Created
  /\ view.agent = prefs.agent
  /\ \A c \in Talks : view.home[c] \in Copied /\ home[c] # Missing /\ view.agentId[c] = agentId[c]
  /\ \A p \in Projects \ doubtful : view.cwd[p] = Effective(p)

Settings == ServerIsTree /\ ChoicesAreKept /\ CopyFollows

LEMMA AncestorsLead ==
  ASSUME ServerIsTree
  PROVE  Chained(parent, Created, Ancestors)
<1>1. \E f : Chained(parent, Created, f)
  BY ChainsExist DEF ServerIsTree
<1> QED BY <1>1 DEF Chained, Ancestors

LEMMA CachedChainLeads ==
  ASSUME CopyFollows
  PROVE  Chained(view.parent, Copied, CachedChain)
<1>1. \E f : Chained(view.parent, Copied, f)
  BY ChainsExist DEF CopyFollows
<1> QED BY <1>1 DEF Chained, CachedChain

LEMMA PlainChain ==
  ASSUME ServerIsTree
  PROVE  Plain!Chain = Ancestors
<1>1. \E f : Chained(parent, Created, f)
  BY ChainsExist DEF ServerIsTree
<1>2. Chained(parent, Created, Plain!Chain)
  BY <1>1 DEF Chained, Plain!Chain
<1> QED BY <1>2, AncestorsLead, OneChain DEF ServerIsTree

\* An agent is always one.
LEMMA ProjectAgentIsAgent ==
  ASSUME CopyFollows, ChoicesAreKept, NEW p \in Copied
  PROVE  ProjectAgent(p) \in Agents
<1> DEFINE L == CachedChain[p]
           I == {i \in 1..Len(L) : view.agent[L[i]] \in Agents}
           n == IF I # {} THEN Min(I) ELSE 0
<1>1. L \in Seq(Copied)
  BY CachedChainLeads, ChainsLead DEF CopyFollows
<1>2. I \subseteq Nat /\ 0 \notin I
  BY <1>1
<1>3. ProjectAgent(p) = IF n # 0 THEN view.agent[L[n]] ELSE IF prefs.wsAgent \in Agents THEN prefs.wsAgent ELSE Codex
  BY DEF ProjectAgent, SelectInSeq
<1>4. n # 0 => n \in I
  BY <1>2, LeastOne
<1>5. n # 0 => view.agent[L[n]] \in Agents
  BY <1>4
<1> HIDE DEF n
<1> QED BY <1>3, <1>5 DEF Agents


\* A project that is put somewhere else, or created.
LEMMA TreeMoves ==
  ASSUME ServerIsTree, NEW p \in Projects, NEW q \in Created \cup {Root},
         p \notin Created \/ CanMove(p, q), parent' = [parent EXCEPT ![p] = q]
  PROVE  /\ parent' \in [Projects -> Projects \cup {Root, Missing}]
         /\ NoLoops(parent', Created') /\ Created' = Created \cup {p}
<1>1. /\ parent \in [Projects -> Projects \cup {Root, Missing}] /\ NoLoops(parent, Created)
      /\ Created \subseteq Projects /\ p # Root /\ q # Missing /\ Root \notin Projects
  BY DistinctValues DEF ServerIsTree, Created
<1>2. /\ Chained(parent, Created, Ancestors) /\ Ancestors[Root] = <<>>
      /\ Ancestors[q] \in Seq(Created) /\ (p \in Created => p \in ToSet(Ancestors[p]))
  BY <1>1, AncestorsLead, ChainsLead DEF Chained
<1>3. p \notin ToSet(Ancestors[q]) /\ q # p
  <2>1. CASE p \notin Created
    <3>1. ToSet(Ancestors[q]) \subseteq Created
      BY <1>2 DEF ToSet
    <3> QED BY <1>1, <2>1, <3>1
  <2>2. CASE q = Root
    BY <1>1, <1>2, <2>2 DEF ToSet
  <2>3. CASE p \in Created /\ q # Root
    BY <1>2, <2>3 DEF CanMove
  <2> QED BY <2>1, <2>2, <2>3
<1>4. /\ parent' \in [Projects -> Projects \cup {Root, Missing}]
      /\ parent'[p] = q /\ \A r \in Projects : r # p => parent'[r] = parent[r]
  BY <1>1
<1>5. Created' = Created \cup {p}
  BY <1>1, <1>4 DEF Created
<1>6. ASSUME NEW next, next = parent' PROVE NoLoops(next, Created \cup {p})
  BY <1>1, <1>2, <1>3, <1>4, <1>6, MovesMakeNoLoops
<1> QED BY <1>4, <1>5, <1>6

\* A refresh makes the copy what the server has and this computer has chosen.
LEMMA RefreshedFollows ==
  ASSUME ServerIsTree', ChoicesAreKept', Refreshed
  PROVE  CopyFollows'
<1> DEFINE dirs == [p \in Projects |-> IF prefs'.cwd[p] # Unset THEN prefs'.cwd[p] ELSE shared'[p]]
<1>1. /\ view' = [parent |-> parent', cwd |-> dirs, agent |-> prefs'.agent,
                  home |-> home', agentId |-> agentId']
      /\ doubtful' = {}
  BY DEF Refreshed, Normalised
<1>2. /\ shared' \in [Projects -> {SharedDir, Unset}]
      /\ prefs'.cwd \in [Projects -> Dirs \cup {Unset}]
      /\ prefs'.agent \in [Projects -> Agents \cup {Unset}]
  BY DEF ServerIsTree, ChoicesAreKept
<1>3. dirs \in [Projects -> Dirs \cup {SharedDir, Unset}]
  BY <1>2
<1>4. \A p \in Projects : dirs[p] = Effective(p)'
  BY DEF Effective
<1> HIDE DEF dirs
<1>5. /\ view'.parent = parent' /\ view'.cwd = dirs /\ view'.agent = prefs'.agent
      /\ view'.home = home' /\ view'.agentId = agentId'
  BY <1>1
<1>6. Created' = {p \in Projects : parent'[p] # Missing} /\ Created' \subseteq Projects
  BY DEF Created
<1>7. Copied' = Created' /\ \A c : c \in Talks' <=> c \in Conversations /\ home'[c] # Missing
  BY <1>5, <1>6 DEF Copied, Talks
<1>8. /\ parent' \in [Projects -> Projects \cup {Root, Missing}] /\ NoLoops(parent', Created')
      /\ home' \in [Conversations -> Created' \cup {Missing}]
      /\ agentId' \in [Conversations -> Agents \cup {Unset}]
  BY DEF ServerIsTree
<1>9. home' \in [Conversations -> Projects \cup {Missing}]
  BY <1>6, <1>8
<1>10. view' \in [parent : [Projects -> Projects \cup {Root, Missing}],
                  cwd : [Projects -> Dirs \cup {SharedDir, Unset}],
                  agent : [Projects -> Agents \cup {Unset}],
                  home : [Conversations -> Projects \cup {Missing}],
                  agentId : [Conversations -> Agents \cup {Unset}]]
  BY <1>1, <1>2, <1>3, <1>8, <1>9
<1>11. NoLoops(view'.parent, Copied')
  BY <1>5, <1>7, <1>8
<1>12. \A c \in Talks' : view'.home[c] \in Copied' /\ home'[c] # Missing /\ view'.agentId[c] = agentId'[c]
  BY <1>5, <1>7, <1>8
<1>13. \A p \in Projects \ doubtful' : view'.cwd[p] = Effective(p)'
  BY <1>4, <1>5
<1> QED BY <1>5, <1>7, <1>10, <1>11, <1>12, <1>13 DEF CopyFollows

\* The steps, one by one.
LEMMA SettingsSteps ==
  ASSUME [SettingsNext]_settingsVars
  PROVE  \/ RefreshTree \/ UNCHANGED settingsVars
         \/ \E p \in Projects : RenameProject(p)
         \/ \E p \in Projects, dir \in Dirs \cup {Unset}, a \in Agents \cup {Unset} : SaveProject(p, dir, a)
         \/ \E p \in Projects, q \in Projects \cup {Root} :
              \/ MoveProject(p, q) \/ OthersMove(p, q)
              \/ \E dir \in Dirs : NewProject(p, q, dir)
         \/ \E dir \in Dirs, a \in Agents : SaveDefaults(dir, a)
         \/ \E c \in Conversations, a \in Agents \cup {Unset} : PinAgent(c, a)
         \/ \E c \in Conversations, p \in Projects : AddConversation(c, p) \/ MoveConversation(c, p)
         \/ \E c \in Conversations, p \in Projects, a \in Agents : OthersAdd(c, p, a)
         \/ \E c \in Conversations, source \in Conversations : ForkConversation(c, source)
BY DEF SettingsNext

\* The server's part of what this desktop and others do.
ServerGoesOn ==
  /\ ServerIsTree' /\ Created \subseteq Created'
  /\ \A c \in Conversations : home[c] # Missing => home'[c] # Missing /\ agentId'[c] = agentId[c]

LEMMA ServerKeeps ==
  ASSUME ServerIsTree, ChoicesAreKept, CopyFollows, [SettingsNext]_settingsVars
  PROVE  ServerGoesOn
<1>1. CASE UNCHANGED server
  BY <1>1 DEF server, ServerIsTree, Created, ServerGoesOn
<1>2. ASSUME NEW p \in Projects, NEW q \in Created \cup {Root}, p \notin Created \/ CanMove(p, q),
             UNCHANGED <<shared, home, agentId>>, parent' = [parent EXCEPT ![p] = q]
      PROVE  ServerGoesOn
  <2>3. /\ parent' \in [Projects -> Projects \cup {Root, Missing}]
        /\ NoLoops(parent', Created') /\ Created' = Created \cup {p}
    BY <1>2, TreeMoves
  <2>4. home \in [Conversations -> Created' \cup {Missing}]
    BY <2>3 DEF ServerIsTree
  <2> QED BY <1>2, <2>3, <2>4 DEF ServerIsTree, ServerGoesOn
<1>3. ASSUME UNCHANGED <<parent, shared>>, NEW c \in Conversations, home[c] = Missing,
             NEW p \in Created, NEW a \in Agents,
             home' = [home EXCEPT ![c] = p], agentId' = [agentId EXCEPT ![c] = a]
      PROVE  ServerGoesOn
  <2>1. Created' = Created /\ p # Missing
    BY <1>3, DistinctValues DEF Created
  <2>2. /\ home' \in [Conversations -> Created \cup {Missing}]
        /\ agentId' \in [Conversations -> Agents \cup {Unset}]
        /\ \A d \in Conversations : home'[d] # Missing => agentId'[d] \in Agents
        /\ \A d \in Conversations : home[d] # Missing => home'[d] # Missing /\ agentId'[d] = agentId[d]
    BY <1>3, <2>1 DEF ServerIsTree
  <2> QED BY <1>3, <2>1, <2>2 DEF ServerIsTree, ServerGoesOn
<1>4. ASSUME NEW c \in Conversations, NEW p \in Projects, AddConversation(c, p) PROVE ServerGoesOn
  <2>1. p \in Copied /\ p \in Created /\ ProjectAgent(p) \in Agents
    BY <1>4, ProjectAgentIsAgent DEF AddConversation, CopyFollows
  <2> QED BY <1>3, <1>4, <2>1 DEF AddConversation
<1>5. ASSUME NEW c \in Conversations, NEW p \in Projects, NEW a \in Agents, OthersAdd(c, p, a) PROVE ServerGoesOn
  BY <1>3, <1>5 DEF OthersAdd, Created
<1>6. ASSUME NEW c \in Conversations, NEW source \in Conversations, ForkConversation(c, source) PROVE ServerGoesOn
  <2>1. home[source] # Missing
    BY <1>6 DEF ForkConversation, CopyFollows
  <2>2. home[source] \in Created /\ agentId[source] \in Agents
    BY <2>1 DEF ServerIsTree
  <2> QED BY <1>3, <1>6, <2>2 DEF ForkConversation
<1>7. ASSUME NEW c \in Conversations, NEW p \in Projects, MoveConversation(c, p) PROVE ServerGoesOn
  <2>1. UNCHANGED <<parent, shared, agentId>> /\ home' = [home EXCEPT ![c] = p] /\ c \in Talks /\ p \in Copied
    BY <1>7 DEF MoveConversation
  <2>2. home[c] # Missing /\ p \in Created /\ p # Missing /\ Created' = Created
    BY <2>1, DistinctValues DEF CopyFollows, Created
  <2>3. /\ home' \in [Conversations -> Created \cup {Missing}]
        /\ \A d \in Conversations : home'[d] # Missing <=> home[d] # Missing
    BY <2>1, <2>2 DEF ServerIsTree
  <2> QED BY <2>1, <2>2, <2>3 DEF ServerIsTree, ServerGoesOn
<1>8. CASE RefreshTree \/ UNCHANGED settingsVars
  BY <1>1, <1>8 DEF RefreshTree, settingsVars, server
<1>9. ASSUME NEW p, RenameProject(p) PROVE ServerGoesOn
  BY <1>1, <1>9 DEF RenameProject
<1>10. ASSUME NEW p, NEW dir, NEW a, SaveProject(p, dir, a) PROVE ServerGoesOn
  BY <1>1, <1>10 DEF SaveProject
<1>11. ASSUME NEW dir, NEW a, SaveDefaults(dir, a) PROVE ServerGoesOn
  BY <1>1, <1>11 DEF SaveDefaults
<1>12. ASSUME NEW c, NEW a, PinAgent(c, a) PROVE ServerGoesOn
  BY <1>1, <1>12 DEF PinAgent
<1>13. ASSUME NEW p \in Projects, NEW q \in Projects \cup {Root}, MoveProject(p, q) PROVE ServerGoesOn
  BY <1>2, <1>13 DEF MoveProject, CopyFollows
<1>14. ASSUME NEW p \in Projects, NEW q \in Projects \cup {Root}, OthersMove(p, q) PROVE ServerGoesOn
  BY <1>2, <1>14 DEF OthersMove, CanMove, Created
<1>15. ASSUME NEW p \in Projects, NEW q \in Projects \cup {Root}, NEW dir \in Dirs, NewProject(p, q, dir)
       PROVE  ServerGoesOn
  BY <1>2, <1>15 DEF NewProject, Created, CopyFollows
<1> QED BY <1>4, <1>5, <1>6, <1>7, <1>8, <1>9, <1>10, <1>11, <1>12, <1>13, <1>14, <1>15, SettingsSteps


LEMMA ChoicesKeep ==
  ASSUME ChoicesAreKept, CopyFollows, [SettingsNext]_settingsVars
  PROVE  ChoicesAreKept'
<1>1. CASE UNCHANGED prefs
  BY <1>1 DEF ChoicesAreKept
<1>2. /\ prefs.cwd \in [Projects -> Dirs \cup {Unset}]
      /\ prefs.agent \in [Projects -> Agents \cup {Unset}]
      /\ prefs.pinned \in [Conversations -> Agents \cup {Unset, Missing}]
      /\ prefs.wsCwd \in Dirs \cup {Unset} /\ prefs.wsAgent \in Agents \cup {Unset}
  BY DEF ChoicesAreKept
<1>3. ASSUME NEW p \in Projects, NEW dir \in Dirs \cup {Unset}, NEW a \in Agents \cup {Unset},
             prefs' = Chosen(p, dir, a)
      PROVE  ChoicesAreKept'
  <2>1. prefs' = [prefs EXCEPT !.cwd = [prefs.cwd EXCEPT ![p] = dir],
                               !.agent = [prefs.agent EXCEPT ![p] = a]]
    BY <1>3 DEF Chosen
  <2>2. /\ [prefs.cwd EXCEPT ![p] = dir] \in [Projects -> Dirs \cup {Unset}]
        /\ [prefs.agent EXCEPT ![p] = a] \in [Projects -> Agents \cup {Unset}]
    BY <1>2
  <2> QED BY <2>1, <2>2 DEF ChoicesAreKept
<1>4. ASSUME NEW c \in Conversations, NEW a \in Agents \cup {Unset},
             prefs' = [prefs EXCEPT !.pinned[c] = a]
      PROVE  ChoicesAreKept'
  <2>1. prefs' = [prefs EXCEPT !.pinned = [prefs.pinned EXCEPT ![c] = a]]
    BY <1>4
  <2>2. [prefs.pinned EXCEPT ![c] = a] \in [Conversations -> Agents \cup {Unset, Missing}]
    BY <1>2
  <2> QED BY <2>1, <2>2 DEF ChoicesAreKept
<1>5. ASSUME NEW dir \in Dirs, NEW a \in Agents, SaveDefaults(dir, a) PROVE ChoicesAreKept'
  BY <1>5 DEF SaveDefaults, ChoicesAreKept
<1>6. ASSUME NEW p \in Projects, NEW q, NEW dir \in Dirs,
             MoveProject(p, q) \/ OthersMove(p, q) \/ NewProject(p, q, dir)
      PROVE  ChoicesAreKept'
  BY <1>1, <1>3, <1>6 DEF MoveProject, OthersMove, NewProject
<1>7. ASSUME NEW p, NEW q, MoveProject(p, q) \/ OthersMove(p, q) PROVE ChoicesAreKept'
  BY <1>1, <1>7 DEF MoveProject, OthersMove
<1>8. ASSUME NEW p \in Projects, NEW dir \in Dirs \cup {Unset}, NEW a \in Agents \cup {Unset},
             RenameProject(p) \/ SaveProject(p, dir, a)
      PROVE  ChoicesAreKept'
  BY <1>1, <1>3, <1>8 DEF RenameProject, SaveProject
<1>9. ASSUME NEW p, RenameProject(p) PROVE ChoicesAreKept'
  BY <1>1, <1>9 DEF RenameProject
<1>10. ASSUME NEW c \in Conversations, NEW p \in Projects, NEW d, NEW a,
              \/ AddConversation(c, p) \/ MoveConversation(c, p)
              \/ OthersAdd(c, p, a) \/ ForkConversation(c, d)
       PROVE  ChoicesAreKept'
  BY <1>1, <1>4, <1>10 DEF AddConversation, MoveConversation, OthersAdd, ForkConversation
<1>11. ASSUME NEW c, NEW d, ForkConversation(c, d) PROVE ChoicesAreKept'
  BY <1>1, <1>11 DEF ForkConversation
<1>12. ASSUME NEW c \in Conversations, NEW a \in Agents \cup {Unset}, PinAgent(c, a)
       PROVE  ChoicesAreKept'
  BY <1>4, <1>12 DEF PinAgent
<1>13. CASE RefreshTree \/ UNCHANGED settingsVars
  BY <1>1, <1>13 DEF RefreshTree, settingsVars
<1> QED BY <1>5, <1>6, <1>7, <1>8, <1>9, <1>10, <1>11, <1>12, <1>13, SettingsSteps

\* What is done without a refresh.  A copy that shows less than it should is in doubt.
LEMMA CopyKeeps ==
  ASSUME ServerIsTree, ChoicesAreKept, CopyFollows, ServerIsTree', ChoicesAreKept',
         [SettingsNext]_settingsVars
  PROVE  CopyFollows'
<1> DEFINE V == [parent : [Projects -> Projects \cup {Root, Missing}],
                 cwd : [Projects -> Dirs \cup {SharedDir, Unset}],
                 agent : [Projects -> Agents \cup {Unset}],
                 home : [Conversations -> Projects \cup {Missing}],
                 agentId : [Conversations -> Agents \cup {Unset}]]
<1>1. /\ Created \subseteq Created'
      /\ \A c \in Conversations : home[c] # Missing => home'[c] # Missing /\ agentId'[c] = agentId[c]
  BY ServerKeeps DEF ServerGoesOn
<1>2. CASE Refreshed
  BY <1>2, RefreshedFollows
<1>3. ASSUME view'.parent = view.parent, view'.home = view.home, view'.agentId = view.agentId,
             view'.agent = prefs'.agent, view' \in V,
             \A p \in Projects \ doubtful' : view'.cwd[p] = Effective(p)'
      PROVE  CopyFollows'
  <2>1. Copied' = Copied /\ Talks' = Talks
    BY <1>3 DEF Copied, Talks
  <2>2. NoLoops(view'.parent, Copied') /\ Copied' \subseteq Created'
    BY <1>1, <1>3, <2>1 DEF CopyFollows
  <2>3. \A c \in Talks' : view'.home[c] \in Copied' /\ home'[c] # Missing /\ view'.agentId[c] = agentId'[c]
    BY <1>1, <1>3, <2>1 DEF CopyFollows, Talks
  <2> QED BY <1>3, <2>2, <2>3 DEF CopyFollows
<1>4. CASE UNCHANGED <<view, shared, doubtful>> /\ prefs'.cwd = prefs.cwd /\ prefs'.agent = prefs.agent
  <2>1. \A p \in Projects : Effective(p)' = Effective(p)
    BY <1>4 DEF Effective
  <2> QED BY <1>3, <1>4, <2>1 DEF CopyFollows
<1>5. /\ view \in V /\ view.agent = prefs.agent
      /\ \A p \in Projects \ doubtful : view.cwd[p] = Effective(p)
      /\ shared \in [Projects -> {SharedDir, Unset}]
      /\ prefs.cwd \in [Projects -> Dirs \cup {Unset}]
      /\ prefs.agent \in [Projects -> Agents \cup {Unset}]
  BY DEF CopyFollows, ServerIsTree, ChoicesAreKept
<1>6. ASSUME NEW p \in Projects, NEW dir \in Dirs \cup {SharedDir, Unset}, NEW agents,
             view' = [view EXCEPT !.cwd = [view.cwd EXCEPT ![p] = dir], !.agent = agents],
             agents \in [Projects -> Agents \cup {Unset}]
      PROVE  /\ view'.parent = view.parent /\ view'.home = view.home /\ view'.agentId = view.agentId
             /\ view'.agent = agents /\ view' \in V
             /\ view'.cwd[p] = dir /\ \A q \in Projects : q # p => view'.cwd[q] = view.cwd[q]
  <2>1. [view.cwd EXCEPT ![p] = dir] \in [Projects -> Dirs \cup {SharedDir, Unset}]
    BY <1>5
  <2> QED BY <1>5, <1>6, <2>1
<1>7. ASSUME NEW p \in Projects, RenameProject(p) PROVE CopyFollows'
  <2>1. /\ view' = [view EXCEPT !.cwd = [view.cwd EXCEPT ![p] = shared[p]], !.agent = view.agent]
        /\ doubtful' = doubtful \cup {p} /\ UNCHANGED <<prefs, shared>>
    <3>1. /\ view' = [view EXCEPT !.cwd[p] = shared[p]]
          /\ doubtful' = doubtful \cup {p} /\ UNCHANGED <<prefs, shared>>
      BY <1>7 DEF RenameProject, Overwritten, server
    <3> QED BY <1>5, <3>1
  <2>2. /\ view'.parent = view.parent /\ view'.home = view.home /\ view'.agentId = view.agentId
        /\ view'.agent = view.agent /\ view' \in V
        /\ \A q \in Projects : q # p => view'.cwd[q] = view.cwd[q]
    BY <1>5, <1>6, <2>1
  <2>3. \A q \in Projects : Effective(q)' = Effective(q)
    BY <2>1 DEF Effective
  <2> QED BY <1>3, <1>5, <2>1, <2>2, <2>3
<1>8. ASSUME NEW p \in Projects, NEW dir \in Dirs \cup {Unset}, NEW a \in Agents \cup {Unset},
             SaveProject(p, dir, a)
      PROVE  CopyFollows'
  <2> DEFINE agents == [view.agent EXCEPT ![p] = a]
             cwds == [prefs.cwd EXCEPT ![p] = dir]
  <2>1. UNCHANGED shared /\ prefs' = [prefs EXCEPT !.cwd[p] = dir, !.agent[p] = a]
    BY <1>8 DEF SaveProject, Chosen, server
  <2>2. prefs'.cwd = cwds /\ prefs'.agent = agents
    BY <1>5, <2>1 DEF ChoicesAreKept
  <2>3. agents \in [Projects -> Agents \cup {Unset}]
    BY <1>5
  <2>4. \A q \in Projects : q # p => Effective(q)' = Effective(q)
    BY <1>5, <2>1, <2>2 DEF Effective
  <2>5. CASE p \in stale
    <3>1. /\ view' = [view EXCEPT !.cwd = [view.cwd EXCEPT ![p] = dir], !.agent = agents]
          /\ doubtful' = IF dir = Unset THEN doubtful \cup {p} ELSE doubtful \ {p}
      BY <1>8, <2>5 DEF SaveProject, Shown
    <3>2. /\ view'.parent = view.parent /\ view'.home = view.home /\ view'.agentId = view.agentId
          /\ view'.agent = agents /\ view' \in V
          /\ view'.cwd[p] = dir /\ \A q \in Projects : q # p => view'.cwd[q] = view.cwd[q]
      <4> HIDE DEF agents
      <4> QED BY <1>6, <2>3, <3>1
    <3>3. dir # Unset => Effective(p)' = dir
      BY <1>5, <2>2 DEF Effective
    <3> QED BY <1>3, <1>5, <2>2, <2>4, <3>1, <3>2, <3>3
  <2>6. CASE p \notin stale
    <3>1. /\ view' = [view EXCEPT !.cwd = [view.cwd EXCEPT ![p] = shared[p]], !.agent = agents]
          /\ doubtful' = doubtful \cup {p}
      <4>1. view' = [[view EXCEPT !.cwd[p] = dir, !.agent[p] = a] EXCEPT !.cwd[p] = shared[p]]
        BY <1>8, <2>6 DEF SaveProject, Shown, Overwritten
      <4> QED BY <1>5, <1>8, <2>6, <4>1 DEF SaveProject
    <3>2. /\ view'.parent = view.parent /\ view'.home = view.home /\ view'.agentId = view.agentId
          /\ view'.agent = agents /\ view' \in V
          /\ \A q \in Projects : q # p => view'.cwd[q] = view.cwd[q]
      <4>1. shared[p] \in Dirs \cup {SharedDir, Unset}
        BY <1>5
      <4> HIDE DEF agents
      <4> QED BY <1>6, <2>3, <3>1, <4>1
    <3> QED BY <1>3, <1>5, <2>2, <2>4, <3>1, <3>2
  <2> QED BY <2>5, <2>6
<1>9. ASSUME NEW c, NEW dir, NEW a, PinAgent(c, a) \/ SaveDefaults(dir, a) PROVE CopyFollows'
  <2>1. UNCHANGED <<view, shared, doubtful>> /\ prefs'.cwd = prefs.cwd /\ prefs'.agent = prefs.agent
    BY <1>9 DEF PinAgent, SaveDefaults, server, ChoicesAreKept
  <2> QED BY <1>4, <2>1
<1>10. ASSUME NEW c, NEW p, NEW q, NEW a, OthersMove(p, q) \/ OthersAdd(c, p, a) PROVE CopyFollows'
  <2>1. UNCHANGED <<view, shared, doubtful, prefs>>
    BY <1>10 DEF OthersMove, OthersAdd
  <2> QED BY <1>4, <2>1
<1>11. ASSUME NEW p, NEW q, NEW dir, MoveProject(p, q) \/ NewProject(p, q, dir) PROVE CopyFollows'
  BY <1>2, <1>11 DEF MoveProject, NewProject
<1>12. ASSUME NEW c, NEW p, NEW d,
              AddConversation(c, p) \/ MoveConversation(c, p) \/ ForkConversation(c, d)
       PROVE  CopyFollows'
  BY <1>2, <1>12 DEF AddConversation, MoveConversation, ForkConversation
<1>13. CASE UNCHANGED settingsVars
  BY <1>4, <1>13 DEF settingsVars, server
<1>14. CASE RefreshTree
  BY <1>2, <1>14 DEF RefreshTree
<1> QED BY <1>7, <1>8, <1>9, <1>10, <1>11, <1>12, <1>13, <1>14, SettingsSteps

LEMMA SettingsBegin ==
  ASSUME SettingsInit
  PROVE  Settings
<1>1. /\ parent \in [Projects -> {Root, Missing}] /\ shared \in [Projects -> {SharedDir, Unset}]
      /\ home = [c \in Conversations |-> Missing] /\ agentId = [c \in Conversations |-> Unset]
      /\ prefs = [cwd |-> [p \in Projects |-> Unset], agent |-> [p \in Projects |-> Unset],
                  pinned |-> [c \in Conversations |-> Missing], wsCwd |-> Unset, wsAgent |-> Unset]
      /\ view = [parent |-> parent, cwd |-> shared, agent |-> prefs.agent,
                 home |-> home, agentId |-> agentId]
  BY DEF SettingsInit
<1>2. NoLoops(parent, Created)
  BY <1>1, DistinctValues DEF NoLoops, Created
<1>3. ServerIsTree
  BY <1>1, <1>2 DEF ServerIsTree
<1>4. ChoicesAreKept
  BY <1>1 DEF ChoicesAreKept
<1>5. CopyFollows
  <2>1. /\ view.parent = parent /\ view.cwd = shared /\ view.agent = prefs.agent
        /\ view.home = home /\ view.agentId = agentId
        /\ prefs.agent = [p \in Projects |-> Unset] /\ prefs.cwd = [p \in Projects |-> Unset]
    BY <1>1
  <2>2. Copied = Created /\ Talks = {}
    BY <1>1, <2>1 DEF Copied, Created, Talks
  <2>3. /\ parent \in [Projects -> Projects \cup {Root, Missing}]
        /\ shared \in [Projects -> Dirs \cup {SharedDir, Unset}]
        /\ prefs.agent \in [Projects -> Agents \cup {Unset}]
        /\ home \in [Conversations -> Projects \cup {Missing}]
        /\ agentId \in [Conversations -> Agents \cup {Unset}]
    BY <1>1, <2>1
  <2>4. view \in [parent : [Projects -> Projects \cup {Root, Missing}],
                  cwd : [Projects -> Dirs \cup {SharedDir, Unset}],
                  agent : [Projects -> Agents \cup {Unset}],
                  home : [Conversations -> Projects \cup {Missing}],
                  agentId : [Conversations -> Agents \cup {Unset}]]
    BY <1>1, <2>3
  <2>5. \A p \in Projects : view.cwd[p] = Effective(p)
    BY <2>1 DEF Effective
  <2> QED BY <1>2, <2>1, <2>2, <2>4, <2>5 DEF CopyFollows
<1> QED BY <1>3, <1>4, <1>5 DEF Settings

LEMMA SettingsLast == SettingsSpec => []Settings
<1>1. SettingsInit => Settings
  BY SettingsBegin
<1>2. Settings /\ [SettingsNext]_settingsVars => Settings'
  BY ServerKeeps, ChoicesKeep, CopyKeeps DEF Settings, ServerGoesOn
<1> QED BY <1>1, <1>2, PTL DEF SettingsSpec


-----------------------------------------------------------------------------
(* What the choices mean *)

\* The copy and the plain document find the same project on a chain without doubt.
LEMMA SameDirectory ==
  ASSUME Settings, NEW p \in Copied, UpToDate(p), NEW q, q = p
  PROVE  Resolve(p, q) = Plain!Resolve(p)
<1> DEFINE L == Ancestors[p]
           mine == {i \in 1..Len(L) : view.cwd[L[i]] # Unset}
           own(r) == IF prefs.cwd[r] # Unset THEN prefs.cwd[r] ELSE shared[r]
           cwds == [r \in Projects |-> own(r)]
           plain == {i \in 1..Len(L) : cwds[L[i]] # Unset}
           theirs == {i \in 1..Len(L) : shared[L[i]] # Unset}
           First(I) == IF I # {} THEN Min(I) ELSE 0
<1>1. /\ CachedChain[p] = L /\ \A i \in DOMAIN L : L[i] \notin doubtful
      /\ Plain!Chain[p] = L
  BY PlainChain DEF UpToDate, Settings, ToSet
<1>2. L \in Seq(Created) /\ Created \subseteq Projects
  BY AncestorsLead, ChainsLead DEF Settings, ServerIsTree, CopyFollows, Created
<1>3. \A i \in 1..Len(L) : L[i] \in Projects \ doubtful
  BY <1>1, <1>2
<1>4. \A i \in 1..Len(L) : view.cwd[L[i]] = cwds[L[i]]
  BY <1>3 DEF Settings, CopyFollows, Effective
<1>5. mine = plain
  BY <1>4
<1>6. \A i \in 1..Len(L) : shared[L[i]] # Unset => cwds[L[i]] # Unset
  BY <1>3
<1>7. plain \subseteq Nat /\ 0 \notin plain
  BY <1>2
<1>8. First(plain) # 0 => First(plain) \in plain
  BY <1>7, LeastOne
<1>9. Resolve(p, q) = IF First(mine) # 0 THEN view.cwd[L[First(mine)]]
                      ELSE IF prefs.wsCwd # Unset THEN prefs.wsCwd ELSE ServerResolve(q)
  BY <1>1 DEF Resolve, SelectInSeq
<1>10. Plain!Resolve(p) = IF First(plain) = 0
                            THEN IF prefs.wsCwd # Unset THEN prefs.wsCwd ELSE ServerDefault
                            ELSE cwds[L[First(plain)]]
  BY <1>1 DEF Plain!Resolve, Plain!SelectInSeq, SelectInSeq, Plain!Min, Min
<1>11. First(plain) = 0 => ServerResolve(q) = ServerDefault
  <2>1. ServerResolve(q) = IF First(theirs) = 0 THEN ServerDefault ELSE shared[L[First(theirs)]]
    BY DEF ServerResolve, SelectInSeq
  <2>2. plain = {} => theirs = {}
    BY <1>6
  <2>3. First(plain) = 0 => plain = {}
    BY <1>7, LeastOne
  <2> HIDE DEF plain, theirs
  <2> QED BY <2>1, <2>2, <2>3
<1>12. First(plain) # 0 => view.cwd[L[First(plain)]] = cwds[L[First(plain)]]
  BY <1>4, <1>8
<1> HIDE DEF First, mine, plain, cwds, L
<1> QED BY <1>5, <1>9, <1>10, <1>11, <1>12

LEMMA SameAgent ==
  ASSUME Settings, NEW p \in Copied, UpToDate(p)
  PROVE  ProjectAgent(p) = Plain!ProjectAgent(p)
<1>1. CachedChain[p] = Plain!Chain[p] /\ view.agent = prefs.agent
  BY PlainChain DEF UpToDate, Settings, CopyFollows
<1> QED BY <1>1 DEF ProjectAgent, Plain!ProjectAgent, Plain!SelectInSeq, SelectInSeq, Plain!Min, Min

\* RemoteWorkspace resolves directories and agents as a plain Workspace with the same
\* choices would (resolve(), project_agent() and conversation_agent() of client_api.py and
\* of store.py), in a tree of any depth and after any moves, refreshes and refused saves.
THEOREM ChoicesStayEffective == SettingsSpec => []ChoicesAreEffective
<1>1. ASSUME Settings PROVE ChoicesAreEffective
  <2>1. ASSUME NEW p \in Copied, UpToDate(p)
        PROVE  DirectoryOf(p) = Plain!Resolve(p) /\ ProjectAgent(p) = Plain!ProjectAgent(p)
    BY <1>1, <2>1, SameDirectory, SameAgent DEF DirectoryOf
  <2>2. ASSUME NEW c \in Talks, view.home[c] = home[c], UpToDate(home[c])
        PROVE  /\ ConversationDirectory(c) = Plain!Resolve(home[c])
               /\ ConversationAgent(c) = Plain!ConversationAgent(c)
               /\ ConversationAgentSource(c) = Plain!ConversationAgentSource(c)
    <3>1. /\ home[c] \in Copied /\ home[c] # Missing /\ c \in Conversations
          /\ view.agentId[c] = agentId[c] /\ view.agent = prefs.agent
      BY <1>1, <2>2 DEF Settings, CopyFollows, Talks
    <3>2. agentId[c] \in Agents /\ prefs.pinned[c] \in Agents \cup {Unset, Missing}
      BY <1>1, <3>1 DEF Settings, ServerIsTree, ChoicesAreKept
    <3>3. Agents \cap {Unset, Missing} = {} /\ Unset # Missing
      BY DistinctValues
    <3>4. ConversationDirectory(c) = Plain!Resolve(home[c])
      BY <1>1, <2>2, <3>1, SameDirectory DEF ConversationDirectory
    <3>5. ProjectAgent(home[c]) = Plain!ProjectAgent(home[c])
      BY <1>1, <2>2, <3>1, SameAgent
    <3>6. CachedChain[home[c]] = Plain!Chain[home[c]]
      BY <1>1, <2>2, PlainChain DEF UpToDate, Settings
    <3> DEFINE pin == IF prefs.pinned[c] = Missing THEN agentId[c] ELSE prefs.pinned[c]
    <3>7. /\ Plain!ConversationAgent(c) = IF pin \in Agents THEN pin ELSE Plain!ProjectAgent(home[c])
          /\ Plain!ConversationAgentSource(c) =
               IF pin \in Agents THEN "conversation"
               ELSE IF \E q \in ToSet(Plain!Chain[home[c]]) : prefs.agent[q] \in Agents THEN "project"
               ELSE IF prefs.wsAgent \in Agents THEN "workspace" ELSE "default"
      BY <3>1 DEF Plain!ConversationAgent, Plain!ConversationAgentSource, Plain!ToSet, ToSet
    <3>8. ConversationAgent(c) = Plain!ConversationAgent(c)
      BY <2>2, <3>1, <3>2, <3>3, <3>5, <3>7 DEF ConversationAgent
    <3>9. ConversationAgentSource(c) = Plain!ConversationAgentSource(c)
      BY <2>2, <3>1, <3>2, <3>3, <3>6, <3>7 DEF ConversationAgentSource
    <3> QED BY <3>4, <3>8, <3>9
  <2> QED BY <2>1, <2>2 DEF ChoicesAreEffective
<1> QED BY <1>1, SettingsLast, PTL

=============================================================================
