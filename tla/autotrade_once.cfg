CONSTANTS
    s1 = s1  c1 = c1  t1 = t1  t2 = t2  t3 = t3  m1 = m1
    w1 = w1  w2 = w2
    ConfluenceLabel = ConfluenceLabel
    NoChannel = NoChannel
    Events <- ScanAndHit
    Source <- MCSource
    Channel <- MCChannel
    Pair <- MCPair
    Score <- MCScore
    Tradable <- ScanAndHit
    Workers <- Threads2
    GeneralChoices <- PaperOrLive
    DedicatedChoices <- OnOnly
    ConfluenceChoices = {TRUE}
    OpenLimit = 1
    MinTrades = 1
    MinWinRate = 75
    BrokerResults = {"filled", "rejected"}
    MaxDeliveries = 2
    MaxCloses = 1
    MaxWindow = 1
    MaxLost = 0
    MaxFaults = 1
SPECIFICATION Spec
SYMMETRY Interchangeable
INVARIANTS OneOrderPerSignal ConfluenceNotMissed
PROPERTIES IntakeSpec
CHECK_DEADLOCK FALSE
