SPECIFICATION Spec
CONSTANTS
  Runs = {a, b}
  a = a
  b = b
  None = None
SYMMETRY Symmetry
INVARIANTS
  SegmentsRemoved
