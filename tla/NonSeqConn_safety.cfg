SPECIFICATION Safety
CONSTANTS
  Left = left
  Right = right
  Msg = {1, 2, 3}
  MaxSend = 3
  MaxReceive = 2
  RetryDelta = 0
  MaxRetries = 1
  Timeout <- NoLimit
  IdSpace = 16
  Window = 2
  Lossy = FALSE
  MaxDup = 1
  AckBudget <- OneWay3
  NoAckBudget <- OneWay1
CONSTRAINT Numbered
INVARIANTS TypeOK InOrderDelivery ReleasedOnlyIfTaken UnreadIsQueued NextAlwaysFits IInv
PROPERTIES ImplementsChannelSafety
CHECK_DEADLOCK FALSE
