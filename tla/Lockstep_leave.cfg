SPECIFICATION Spec
CONSTANTS
  N = 2
  InitAhead = 1
  NewAheads = {}
  Loads = {"light"}
  SomeCap = 1
  PerPacket = 1
  OutListMax = 4
  DoListMax = 8
  CountSpace = 16
  Online = FALSE
  Leavers = {2}
  Impatient = TRUE
  Commands <- OnlyTwo
  Timings = 0
  LastFrame = 3
PROPERTIES GameGoesOn
CHECK_DEADLOCK FALSE
