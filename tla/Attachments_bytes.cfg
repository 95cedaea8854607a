SPECIFICATION Spec
CONSTANTS
  x = x
  y = y
  Contents <- ContentsDef
  Messages = {m1, m2}
  Ids = {a1, a2}
  Uploads = {u1}
  Senders = {c1}
  Readers = {r1}
  Nothing = Nothing
SYMMETRY Symmetry
CHECK_DEADLOCK FALSE
INVARIANTS
  LinkedBytesAreStored
  CommittedMeansHashed
  LinkedFilesAreWhole
