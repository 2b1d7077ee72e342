CONSTANTS
    UI = UI
    Nobody = Nobody
    w1 = w1
    w2 = w2
    m1 = m1
    r1 = r1
    p1 = p1
    p2 = p2
    Workers = {w1, w2}
    Messages = {m1}
    Recipients = {r1}
    Packets = {p1, p2}
    Streams = {p2}
    Descriptors = 2
    Pages = {"Contacts", "Split"}
SPECIFICATION FairSpec
CHECK_DEADLOCK FALSE
INVARIANTS TypeOK NoCircularWait PoisonConfined
PROPERTIES WindowSurvives TasksEnd FramesKeepComing
