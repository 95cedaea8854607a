SPECIFICATION LevelSpec
CONSTANTS
  MaxRows = 3
  MaxGone = 1
  RowId <- Created
  Name <- Backwards
  Threads = {t1}
  None = None
  BASE = 2
  RANK_WIDTH = 2
  MAX_RANK_LENGTH = 2
CHECK_DEADLOCK FALSE
PROPERTY ImplementsLists
