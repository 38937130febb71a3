CONSTANTS
  N = 2
  NoAuth = {}
  MaxAttempts = 2
  MaxSteps = 1
  MaxReplies = 0
  MaxLost = 0
  MaxFaults = 0
  MaxRestarts = 0
  MaxTroubles = 1
SPECIFICATION Spec
INVARIANTS OneAfterTheOther
CHECK_DEADLOCK FALSE
