\* Native handlers and isolates on a pool, under fairness.
CONSTANTS
  Kinds = {"native", "pool"}
  Events = {e1, e2}
  OOBs = {o1}
  Controls = {}
  Port = {main, p1}
  MainPort = main
  PauseKinds = {"pool"}
  WaitInOOB = FALSE
  MaxDepth = 2
  Free = Free
SPECIFICATION FairSpec
CHECK_DEADLOCK FALSE
PROPERTY EveryMessageIsTaken
PROPERTY ClosedHandlerIsDeleted
