SPECIFICATION FairSpec
CONSTANTS
  w1 = w1  w2 = w2  e1 = e1  e2 = e2  e3 = e3
  Windows = {w1, w2}
  Edits = {e1, e2, e3}
  Nobody = Nobody
INVARIANTS OneFaultIsSurvived OpenDocumentIsCurrent
PROPERTY EditIsKept
