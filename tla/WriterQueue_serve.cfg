SPECIFICATION FairSpec
CONSTANTS
  j1 = j1  j2 = j2  j3 = j3
  Jobs = {j1, j2, j3}
  Stop = Stop
  LockRetries = 2
  OpenMayFail = TRUE
INVARIANTS NoTransactionLeftOpen StrictFIFO
PROPERTIES ImplementsStore InLineIsAnswered
