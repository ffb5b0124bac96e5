SPECIFICATION Safety
CONSTANTS
  Left = left
  Right = right
  Msg = {1, 2, 3, 4}
  MaxSend = 3
  MaxReceive = 3
  RetryDelta = 0
  MaxRetries <- NoLimit
  Timeout <- NoLimit
  IdSpace = 16
  Window = 8
  Lossy = FALSE
  MaxDup = 1
  AckBudget <- OneWay4
  NoAckBudget <- None
CONSTRAINT Numbered
INVARIANTS NextAlwaysFits
CHECK_DEADLOCK FALSE
