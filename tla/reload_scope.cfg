\* A thread handles its messages in a NoReloadScope.
CONSTANTS
  Isolate = {i1, i2}
  Main = i1
  NoIsolate = NoIsolate
  MaxMutators = 2
  MaxReloads = 1
  MaxEvents = 2
SPECIFICATION FairSpec
PROPERTY ReloadIsDone
