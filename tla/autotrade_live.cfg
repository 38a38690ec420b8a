CONSTANTS
    s1 = s1  c1 = c1  t1 = t1  t2 = t2  t3 = t3  m1 = m1
    w1 = w1  w2 = w2
    ConfluenceLabel = ConfluenceLabel
    NoChannel = NoChannel
    Events <- MessageAndText
    Source <- MCSource
    Channel <- MCChannel
    Pair <- MCPair
    Score <- MCScore
    Tradable <- MessageAndText
    Workers <- Threads2
    GeneralChoices <- AnyGeneral
    DedicatedChoices <- OnOnly
    ConfluenceChoices = {FALSE, TRUE}
    OpenLimit = 2
    MinTrades = 1
    MinWinRate = 75
    BrokerResults = {"filled", "rejected", "lost"}
    MaxDeliveries = 1
    MaxCloses = 1
    MaxWindow = 0
    MaxLost = 1
    MaxFaults = 1
SPECIFICATION FairSpec
INVARIANTS EntriesAreKnown
PROPERTIES QualifiedIsTraded
CHECK_DEADLOCK FALSE
