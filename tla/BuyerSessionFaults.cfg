\* One session; repository calls may raise and the process may restart at any step.
CONSTANTS
  Sessions = {s1}
  MaxActive = 1
  MaxAttempts = 2
  MaxSteps = 3
  MaxFaults = 2
  MaxRestarts = 1
SPECIFICATION Spec
INVARIANTS TypeOK AnswersMatchQuestions StoredVerdictIsTold PaymentToldOnce OutboxBeforeWire AnalysisAfterVerdict
INVARIANTS ShownStatus
PROPERTIES KeepsRow
CHECK_DEADLOCK FALSE
