SPECIFICATION Safety
CONSTANTS
  N = 2
  InitAhead = 2
  NewAheads = {4}
  Loads = {"light", "some"}
  SomeCap = 1
  PerPacket = 1
  OutListMax = 4
  DoListMax = 8
  CountSpace = 16
  Online = FALSE
  Leavers = {}
  Impatient = FALSE
  Commands <- TwiceTwo
  Timings = 1
  LastFrame = 5
INVARIANTS TypeOK InSync NeverTooLate SkewBounded OrdersInOrder CountsTellTruth
CHECK_DEADLOCK FALSE
