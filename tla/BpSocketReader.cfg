CONSTANTS
    s1 = s1
    s2 = s2
    s3 = s3
    b1 = b1
    b2 = b2
    o1 = o1
    o2 = o2
    Inbound <- MCInbound
    Oversize = {b2}
    Sockets <- OwnSockets
    Services <- OwnServices
    Addresses <- OwnAddresses
    Dest <- OwnDest
    Outbound = {o1, o2}
    TooLong = {o2}
    MaxKills = 1
    MaxFaults = 0
    MaxInterrupts = 1
SPECIFICATION FairSpec
CHECK_DEADLOCK FALSE
INVARIANTS ReaderHasHelp NothingLost OneUnderWay
PROPERTIES EventuallyRead EventuallyAccepted
