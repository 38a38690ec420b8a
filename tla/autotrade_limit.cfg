CONSTANTS
    s1 = s1  c1 = c1  t1 = t1  t2 = t2  t3 = t3  m1 = m1
    w1 = w1  w2 = w2
    ConfluenceLabel = ConfluenceLabel
    NoChannel = NoChannel
    Events <- Messages
    Source <- MCSource
    Channel <- MCChannel
    Pair <- MCPair
    Score <- MCScore
    Tradable <- Messages
    Workers <- Threads2
    GeneralChoices <- PaperOnly
    DedicatedChoices <- OnOrOff
    ConfluenceChoices = {FALSE}
    OpenLimit = 1
    MinTrades = 1
    MinWinRate = 75
    BrokerResults = {"filled", "rejected"}
    MaxDeliveries = 1
    MaxCloses = 1
    MaxWindow = 0
    MaxLost = 0
    MaxFaults = 0
SPECIFICATION Spec
SYMMETRY Interchangeable
INVARIANTS LimitOvershootBounded
CHECK_DEADLOCK FALSE
