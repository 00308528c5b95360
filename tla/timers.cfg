SPECIFICATION Spec
CONSTANTS
  Plans <- MCPlans
  NumTimers = 3
  MaxTime = 5
  MaxCancels = 1
  MaxThrows = 1
  MaxRuns = 2
CHECK_DEADLOCK FALSE
INVARIANTS NoLostWakeup HeapCorrect
PROPERTIES FiresOnTime FifoUnlessThrown TimersFire
