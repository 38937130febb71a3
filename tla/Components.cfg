\* Every component that is modelled by itself, one after the other.
CONSTANTS
  Parts = {"repository", "step", "store", "auth", "cdp", "payment", "knowledge", "judge", "cycle"}
  MaxEvents = 2
  Pipes = {"stdout"}
  MaxItems = 2
  BatchSize = 2
  MaxProbes = 1
  MaxLost = 1
  Envelopes = {e1, e2, e3, e4}
  Pages = {p1, p2}
  QueueSize = 2
  Retries = 1
  MaxTries = 3
  MaxContexts = 2
  Analysed = {s1, s2}
  N = 2
  Batches = {b1, b2}
  MaxFaults = 1
  MaxContinues = 3
  MaxAsks = 2
  MaxCycleFaults = 2
SPECIFICATION PartsSpec
SYMMETRY BatchSymmetry
INVARIANTS MarksAreKept EachItemOnce OutboxInSequence FinishedIsLast OwedTheNewest
INVARIANTS CookiesAreRemoved SummaryIsTrue ActsOnce ToldWhatIsProven AnalysisIsDraft
INVARIANTS JudgedIsEvaluated NothingLeftPending HandoffIsResumed CandidateIsInScope ImprovedIsEarned
PROPERTIES KeepsRow
CHECK_DEADLOCK FALSE
