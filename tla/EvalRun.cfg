\* Three cases, one of which is skipped, while messages are lost, coroutines raise and
\* eval_service and the buyer restart; a resumed run and the first one overtake each other.
CONSTANTS
  N = 3
  NoAuth = {2}
  MaxAttempts = 2
  MaxSteps = 3
  MaxReplies = 1
  MaxLost = 2
  MaxFaults = 1
  MaxRestarts = 1
  MaxTroubles = 2
SPECIFICATION Spec
INVARIANTS CasesInOrder CreatedOnce SaysWhatWasTold FinishedIsOver
PROPERTIES OverIsFinal
CHECK_DEADLOCK FALSE
