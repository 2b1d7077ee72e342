CONSTANTS
    b1 = b1
    b2 = b2
    o1 = o1
    o2 = o2
    NoBundle = NoBundle
    Inbound = {b1}
    Outbound = {o1, o2}
    Attempts = 2
    MaxDrops = 1
    MaxBreaks = 1
    MaxStops = 1
    MaxDeaths = 1
    MaxStalls = 1
SPECIFICATION FairSpec
CHECK_DEADLOCK FALSE
INVARIANTS TypeOK AckedMeansHandedOff CopiesNeedLosses OwnResponse
PROPERTIES ImplementsLastHop EventuallyReceived EventuallySettled
