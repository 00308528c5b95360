\* Two isolates of the application, one spawned by the other in the same or
\* in a new group, the service isolate and the kernel isolate, which may end
\* by an error.  The spawned isolate uses the compiler.
CONSTANTS
  App = {a1, a2}
  Main = a1
  Kernel = kernel
  Service = service
  None = None
  Source = {a2}
  MayFail = {kernel}
SPECIFICATION FairSpec
CHECK_DEADLOCK FALSE
INVARIANTS NoneEscapesTheKill SpawnerOutlivesTask GroupOutlivesIsolates NothingRunsAfterCleanup
PROPERTY CleanupReturns
