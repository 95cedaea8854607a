SPECIFICATION SettingsSpec
CONSTANTS
  Projects = {p1, p2}
  Conversations = {c1, c2}
  Dirs = {d1}
  SharedDir = SharedDir
  ServerDefault = ServerDefault
  Codex = Codex
  Claude = Claude
  Root = Root
  Unset = Unset
  Missing = Missing
  MaxSteps = 5
SYMMETRY Symmetry
INVARIANT ChoicesAreEffective
