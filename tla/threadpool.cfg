\* The pool of an isolate group: limited, with the idle hook, fair.
CONSTANTS
  Worker = {w1, w2, w3}
  Task = {t1, t2, t3}
  MaxPoolSize = 1
  IdleNotifier = TRUE
  NoTask = NoTask
SPECIFICATION FairSpec
CHECK_DEADLOCK FALSE
INVARIANTS EveryTaskHasAWorker EachDeadWorkerHasOneJoiner SomeWorkerWillLook
PROPERTY ImplementsLiveTaskPool
