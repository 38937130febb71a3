CONSTANTS
  Sessions = {s1}
  MaxActive = 1
  MaxAttempts = 2
  MaxSteps = 3
  MaxFaults = 0
  MaxRestarts = 0
SPECIFICATION FairSpec
INVARIANTS NoSilentEnd
PROPERTIES AcceptedAnswerIsHeard RunnerSettles EveryEventIsSent
CHECK_DEADLOCK FALSE
