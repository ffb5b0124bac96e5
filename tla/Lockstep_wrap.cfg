SPECIFICATION Safety
CONSTANTS
  N = 2
  InitAhead = 3
  NewAheads = {}
  Loads = {"light"}
  SomeCap = 1
  PerPacket = 1
  OutListMax = 4
  DoListMax = 8
  CountSpace = 2
  Online = FALSE
  Leavers = {}
  Impatient = FALSE
  Commands <- TwoOne
  Timings = 0
  LastFrame = 3
INVARIANTS CountsTellTruth
CHECK_DEADLOCK FALSE
