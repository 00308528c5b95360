\* Native, pool and embedder handlers, with pauses, nested handling, errors.
CONSTANTS
  Kinds = {"native", "pool", "embedder"}
  Events = {e1, e2}
  OOBs = {o1, o2}
  Controls = {c1}
  Port = {main, p1}
  MainPort = main
  PauseKinds = {"pool"}
  WaitInOOB = FALSE
  MaxDepth = 2
  Free = Free
SPECIFICATION Spec
CHECK_DEADLOCK FALSE
INVARIANTS OneTask NoStrandedMessage NoUseAfterDelete LivePortsExact
