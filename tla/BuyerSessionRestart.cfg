CONSTANTS
  Sessions = {s1}
  MaxActive = 1
  MaxAttempts = 1
  MaxSteps = 1
  MaxFaults = 0
  MaxRestarts = 1
SPECIFICATION FairSpec
PROPERTIES EveryEventIsSent
CHECK_DEADLOCK FALSE
