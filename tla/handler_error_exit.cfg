\* An isolate that fails, is paused on exit and resumed.
CONSTANTS
  Kinds = {"pool"}
  Events = {e1, e2}
  OOBs = {o1}
  Controls = {}
  Port = {main, p1}
  MainPort = main
  PauseKinds = {}
  WaitInOOB = FALSE
  MaxDepth = 1
  Free = Free
SPECIFICATION Spec
CHECK_DEADLOCK FALSE
PROPERTY ErrorEndsHandler
