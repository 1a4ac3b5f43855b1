SPECIFICATION MmalSpec
CONSTANTS
  HDR = 3
  ARENA = 2
  PAGE = 24
  SIZE_MAX = 191
  TOP = 145
  Bases = {1, 25, 97}
  Sizes = {0, 1, 6, 13, 19, 165, 190}
  Calls = {"mmalloc", "mfree", "mrealloc"}
  MaxLive = 3
  MaxCalls = 5
  MaxArenas = 3
INVARIANTS
  RoomySound
  ExitReasons
PROPERTIES
  RoomyFreeJoins
  SoundKept
  RoomyReturns
