SPECIFICATION Safety
CONSTANTS
  N = 2
  InitAhead = 3
  NewAheads = {}
  Loads = {"light"}
  SomeCap = 1
  PerPacket = 1
  OutListMax = 4
  DoListMax = 8
  CountSpace = 16
  Online = FALSE
  Leavers = {1}
  Impatient = FALSE
  Commands <- OnlyTwo
  Timings = 0
  LastFrame = 5
INVARIANTS NeverTooLate
CHECK_DEADLOCK FALSE
