\* One case that timed out, judged while its session still reports.
CONSTANTS
  N = 1
  Batches = {b1}
  MaxFaults = 0
SPECIFICATION Spec
PROPERTIES UnverifiedIsKept
CHECK_DEADLOCK FALSE
