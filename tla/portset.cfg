\* Eight ids that share slots; the table has 8 slots and grows to 16.
CONSTANTS
  Draw <- CollidingDraw
  InitialCapacity = 8
SPECIFICATION Spec
INVARIANTS FindsExactlyOpenPorts SearchesEnd
