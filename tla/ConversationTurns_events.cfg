SPECIFICATION FairSpec
CONSTANTS
  left = left  right = right
  Convs = {left, right}
  MaxPrompts = 2
  MaxLines = 1
  MaxBroken = 1
INVARIANTS NoGhosts NoRunawayAgent CancelReachesProcess AnswersFollowPrompts SentOnce RecordsSettle
PROPERTY StopIsHonoured
CHECK_DEADLOCK FALSE
