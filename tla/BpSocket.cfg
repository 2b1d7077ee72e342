CONSTANTS
    s1 = s1
    s2 = s2
    s3 = s3
    b1 = b1
    b2 = b2
    o1 = o1
    o2 = o2
    Inbound <- MCInbound
    Oversize = {b2}
    Sockets <- SharedSockets
    Services <- SharedServices
    Addresses <- SharedAddresses
    Dest <- SharedDest
    Outbound = {}
    TooLong = {}
    MaxKills = 1
    MaxFaults = 1
    MaxInterrupts = 1
SPECIFICATION Spec
SYMMETRY SameAddress
CHECK_DEADLOCK FALSE
INVARIANTS TypeOK OneReader UniqueUnlessRaced
PROPERTY ImplementsLastHop
