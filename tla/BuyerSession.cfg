\* Two sessions compete for one slot; the repository answers, the network does not always.
CONSTANTS
  Sessions = {s1, s2}
  MaxActive = 1
  MaxAttempts = 2
  MaxSteps = 2
  MaxFaults = 0
  MaxRestarts = 1
SPECIFICATION Spec
SYMMETRY SessionSymmetry
INVARIANTS BrowserNotShared NoGapAtReceiver OneVerdictTold
PROPERTIES VerdictIsFinal KeepsLifecycle KeepsView
CHECK_DEADLOCK FALSE
