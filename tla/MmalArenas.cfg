SPECIFICATION Spec
CONSTANTS
  HDR = 3
  ARENA = 2
  PAGE = 40
  SIZE_MAX = 255
  TOP = 160
  Bases = {1, 81}
  Sizes = {30}
  Calls = {"mmalloc", "mfree"}
  MaxLive = 3
  MaxCalls = 4
  MaxArenas = 2
INVARIANTS
  InsideArena
