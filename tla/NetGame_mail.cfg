SPECIFICATION Spec
CONSTANTS
    Kind = {"wol", "udp"}
    Player = {1, 2}
    Order <- TwoInOrder
    IdOf <- TwoIds
    Transport = {"datagram", "stream"}
    MaxConnections = 2
    MaxQueued = 2
    ConnectMax = 2
    MaxReceive = 2
    MaxSend = 1
    Lot = 2
    Casts = 2
    SigningOff = {1, 2}
INVARIANTS TypeOK WaitsWhereRead EveryoneIsRead LostWithCause FramesAreTheirs
PROPERTY ImplementsMailbox
CHECK_DEADLOCK FALSE
