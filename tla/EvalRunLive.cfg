CONSTANTS
  N = 2
  NoAuth = {}
  MaxAttempts = 2
  MaxSteps = 2
  MaxReplies = 2
  MaxLost = 0
  MaxFaults = 1
  MaxRestarts = 0
  MaxTroubles = 1
SPECIFICATION FairSpec
PROPERTIES RunGoesOn
CHECK_DEADLOCK FALSE
