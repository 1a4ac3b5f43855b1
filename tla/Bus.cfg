SPECIFICATION BusSpec
CONSTANTS
  Riders = {r1, r2, r3}
  r1 = r1
  r2 = r2
  r3 = r3
  Bus = Bus
  C = 2
  Runs = {a, b}
  a = a
  b = b
  None = None
SYMMETRY Symmetry
INVARIANTS
  TypeOK
  Exclusion
  Handshake
  Counters
  Tickets
  BusFinishes
  PrivateSemaphores
  Erased
PROPERTIES
  StopSpec
