\* The repository may raise once, at any call.
CONSTANTS
  Sessions = {s1}
  MaxActive = 1
  MaxAttempts = 1
  MaxSteps = 1
  MaxFaults = 1
  MaxRestarts = 0
SPECIFICATION Spec
PROPERTIES AnalysisKeepsVerdict
CHECK_DEADLOCK FALSE
