SPECIFICATION Spec
CONSTANTS
  p1 = p1  p2 = p2  p3 = p3  c1 = c1  c2 = c2  ann = ann  bob = bob
  Projects = {p1, p2, p3}
  Conversations = {c1, c2}
  Users = {ann}
  Role <- AdminRole
  Names = {n1, n2}
  PyFold <- SameFold
  SqlFold <- SameFold
  Root = Root
  Grantable = {}
  MaxDepth = 3
  ClockSteps = {1}
  MaxClock = 4
SYMMETRY Symmetry
INVARIANTS LiveUnderLive Acyclic ForeignKeysHold SiblingNamesUnique RestoreUndoesOneDelete IndexMirrorsRows
CHECK_DEADLOCK FALSE
