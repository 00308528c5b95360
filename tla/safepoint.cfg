\* Two mutators and a helper that comes with or without bypass_safepoint:
\* races of requests with the fast paths, nested operations, acquired data.
CONSTANTS
  Thread = {m1, m2, h}
  Mutator = {m1, m2}
  Bypass = {h}
  NoThread = NoThread
  MaxNesting = 2
  MaxAcquired = 2
SPECIFICATION FairSpec
INVARIANTS StopTheWorld CountExact AcquiredDataStays
PROPERTIES OperationStarts BlockedOnlyForOperations
