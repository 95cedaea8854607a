SPECIFICATION SharedSpec
CONSTANTS
  Clients = {c1, c2}
  Nodes = {p1, n1}
  Folders = {p1}
  MaxDepth = 2
  Names = {a}
  Sessions = {s1}
  None = None
  MaxRev <- FewRevisions
  MaxLate = 1
SYMMETRY Symmetry
CHECK_DEADLOCK FALSE
INVARIANTS
  CachesAreVersions
PROPERTY EditsReplaceWhatWasSeen
