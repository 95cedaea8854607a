SPECIFICATION Spec
CONSTANTS
  Conversations = {c1, c2}
  Projects = {p1, p2}
  Messages = {m1, m2, m3}
  Indexed = {m1, m2}
  Stamps = {s1, s2}
  None = None
  PageSize = 1
  MaxText = 1
  MaxNo = 2
SYMMETRY Symmetry
CHECK_DEADLOCK FALSE
INVARIANTS
  PagesMissNothing
  RestoreIsExact
PROPERTY
  SearchFollowsTranscript
