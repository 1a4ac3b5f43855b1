SPECIFICATION Programs
CONSTANTS
  arr_size = 2
  Code <- MCCode
  Spaces = {" "}
  MAX_LENGTH = 2
  MaxInput = 8
  NL = NL
  NUL = NUL
  MaxText = 6
  MaxLines = 2
  Items = {i1, i2, i3}
  NULL = NULL
  Keys <- MCKeys
  Sizes = {2, 4}
  MaxData = 2
  SIZEOF = 2
  CHAR_BIT = 2
  Limits = {0, 1, 2, 3, 4, 5, 6, 7, 8, 9, 10, 11, 12, 13, 14, 15, 16, 17, 26, 30, 50}
  COUNT = 3
  LIMIT = 12
  START = 2
  Files <- MCFiles
  UINT_MAX = 15
  Packets <- MCPackets
  Arguments <- MCArguments
  INT_MAX = 2
  MaxCaptured = 4
  None = None
  eth0 = eth0
  port = port
  other = other
  h1 = h1
  h2 = h2
CHECK_DEADLOCK FALSE
INVARIANTS
  Counts
  LastLinesPrinted
  
  PacketsShown
PROPERTIES
  TableImplemented
  ProgramsEnd
