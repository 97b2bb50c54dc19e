CONSTANTS
    Senders = {s1, s2}
    d1 = d1
    d2 = d2
    Destinations = {d1, d2}
    MaxFrame = 1
    Capacity = 1
    SendBuffer = 1
    MaxConns = 2
    MaxPackets = 3
    Peers <- MCPeers
SPECIFICATION FairSpec
PROPERTIES
    ImplementsUpward
    ImplementsDownward
    SendReturns
    ReadersEnd
CHECK_DEADLOCK FALSE
