SPECIFICATION Spec
CONSTANTS
  Client <- Three
  Channel = {"lobby"}
  MaxPlayers = {0, 2}
  TxLimit = 2
  Early = {1, 2}
  Unruly = {3}
  MaxGames = 1
  MaxFrames = 6
  MaxTalk = 1
INVARIANTS TypeOK SeatsAgree HostFirst 
PROPERTIES ImplementsRooms SeatsAreFreed
CHECK_DEADLOCK FALSE
