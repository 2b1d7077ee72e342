CONSTANTS
    earth = earth
    moon = moon
    mars = mars
    l1 = l1
    r1 = r1
    r2 = r2
    a1 = a1
    Standard = Standard
    NotAcked = NotAcked
    NoMessage = NoMessage
    LocalPeer = earth
    Peers <- MCPeers
    Reachable <- MCReachable
    LocalUuids <- MCLocalUuids
    RemoteUuids <- MCRemoteUuids
    SenderTimes = {0, 2}
    AckTimes <- MCAckTimes
    MaxTime = 2
    MaxSeeds = 2
    MaxMessages = 3
SYMMETRY MCSymmetry
SPECIFICATION Spec
INVARIANTS TypeOK Sorted StampsPast
PROPERTIES ArrivalsLandAtBottom HistoryKept
