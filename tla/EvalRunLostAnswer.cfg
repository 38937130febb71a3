CONSTANTS
  N = 1
  NoAuth = {}
  MaxAttempts = 2
  MaxSteps = 2
  MaxReplies = 1
  MaxLost = 1
  MaxFaults = 0
  MaxRestarts = 0
  MaxTroubles = 1
SPECIFICATION FairSpec
PROPERTIES RunGoesOn
CHECK_DEADLOCK FALSE
