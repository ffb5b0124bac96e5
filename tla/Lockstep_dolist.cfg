SPECIFICATION Safety
CONSTANTS
  N = 2
  InitAhead = 3
  NewAheads = {}
  Loads = {"light"}
  SomeCap = 1
  PerPacket = 1
  OutListMax = 4
  DoListMax = 2
  CountSpace = 16
  Online = FALSE
  Leavers = {}
  Impatient = FALSE
  Commands <- TwoOne
  Timings = 0
  LastFrame = 3
INVARIANTS SendReturns
CHECK_DEADLOCK FALSE
