CONSTANTS
    earth = earth
    moon = moon
    mars = mars
    m1 = m1
    NoPacket = NoPacket
    Nodes <- MCNodes
    Messages <- MCMessages
    Origin <- MCOrigin
    Peers <- MCPeers
    Answers <- MCAnswers
    MaxLosses = 1
    MaxDups = 1
    MaxCrashes = 1
SPECIFICATION FairSpec
CHECK_DEADLOCK FALSE
INVARIANTS TypeOK AcksFindTheirMessage AckedMeansShown CopiesShown QuietMeansDone
PROPERTIES ImplementsDelivery EventuallyAcked EventuallyShown
