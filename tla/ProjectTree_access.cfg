SPECIFICATION Spec
CONSTANTS
  p1 = p1  p2 = p2  p3 = p3  c1 = c1  c2 = c2  ann = ann  bob = bob
  Projects = {p1, p2, p3}
  Conversations = {}
  Users = {ann, bob}
  Role <- TeamRole
  Names = {n1, n2}
  PyFold <- SameFold
  SqlFold <- SameFold
  Root = Root
  Grantable = {"viewer", "editor", "owner"}
  MaxDepth = 3
  ClockSteps = {1}
  MaxClock = 2
SYMMETRY Symmetry
INVARIANTS ListingMatchesWalk
CHECK_DEADLOCK FALSE
