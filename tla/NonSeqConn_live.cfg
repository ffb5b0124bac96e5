SPECIFICATION Spec
CONSTANTS
  Left = left
  Right = right
  Msg = {1, 2}
  MaxSend = 2
  MaxReceive = 2
  RetryDelta = 0
  MaxRetries <- NoLimit
  Timeout = 1
  IdSpace = 16
  Window = 2
  Lossy = TRUE
  MaxDup = 1
  AckBudget <- OneWay2
  NoAckBudget <- None
CONSTRAINT Numbered
PROPERTIES ImplementsChannel SendQueueDrains
CHECK_DEADLOCK FALSE
