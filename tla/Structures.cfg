SPECIFICATION Structures
CONSTANTS
  QUEUE_SIZE = 4
  Values = {v, w}
  Star = Star
  Done = Done
  Error = Error
  Nodes = {n1, n2, n3}
  NULL = NULL
  None = None
  Keys = {3, 5, 6, 8}
  HTSIZE = 3
  Numbers = {1, 2, 3, 4, 5}
  MAXSTACK = 4
SYMMETRY Symmetry
CHECK_DEADLOCK FALSE
INVARIANTS
  TraversalsRight
PROPERTIES
  FifoSpec
  ListsImplemented
  DictionariesImplemented
