SPECIFICATION Spec
CONSTANTS
  p1 = p1 p2 = p2
  Thread = {t1, t2}
  MarkTask = {m1, m2}
  Page = {p1, p2}
  InitialPages <- MCInitialPages
  NoThread = NoThread
  Null = Null
  RootSlices = 1
  MaxOps = 3
INVARIANTS HeapIsQuiet PhaseIsTrue LargePagesIntact NoTaskAfterShutdown
PROPERTY OperationsEnd
