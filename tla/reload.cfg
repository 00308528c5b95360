\* Three isolates, two of which may run at the same time.
CONSTANTS
  Isolate = {i1, i2, i3}
  Main = i1
  NoIsolate = NoIsolate
  MaxMutators = 2
  MaxReloads = 2
  MaxEvents = 2
SPECIFICATION FairSpec
INVARIANTS ReloadIsAlone CountersExact SlotsExact
PROPERTY EveryoneGoesOn
