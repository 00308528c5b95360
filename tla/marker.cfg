CONSTANTS
  Thread = {main, t1}
  Main = main
  Rounds = 14
  a = a
  b = b
  c = c
  w1 = w1
  w2 = w2
  i = i
  Null = Null
  Plain <- MCPlain
  Weak <- MCWeak
  Code <- MCCode
  Key <- MCKey
  Value <- MCValue
  Heaps <- MCHeaps
  BlockSize = 1
SPECIFICATION MarkerSpec
INVARIANTS MarksWhatIsReachable PhasesInStep WeakByFateOfKey
PROPERTY MarkingEnds
