SPECIFICATION Processes
CONSTANTS
  N = 3
  MaxLines = 3
  Riders = {r1, r2}
  r1 = r1
  r2 = r2
  Bus = Bus
  C = 1
INVARIANTS
  LineStable
  MutexUse
PROPERTIES
  OutputInOrder
  PsedEnds
  BusEnds
  NobodyStranded
