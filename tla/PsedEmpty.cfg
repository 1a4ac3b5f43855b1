SPECIFICATION Spec
CONSTANTS
  N = 2
  MaxLines = 1
INVARIANTS
  QuietEnd
