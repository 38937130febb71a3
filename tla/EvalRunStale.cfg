CONSTANTS
  N = 1
  NoAuth = {}
  MaxAttempts = 2
  MaxSteps = 3
  MaxReplies = 2
  MaxLost = 1
  MaxFaults = 0
  MaxRestarts = 0
  MaxTroubles = 1
SPECIFICATION Spec
INVARIANTS NoStaleQuestion
CHECK_DEADLOCK FALSE
