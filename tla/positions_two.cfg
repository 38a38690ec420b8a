SPECIFICATION FairSpec
CONSTANTS
  Orders = {p1, l1}
  LiveOrders = {l1}
  NoOrder = none
  Terms <- LongOnly
  Settings <- NoSettings
  Prices <- MCPrices2
  Closers = {}
  Editors = {}
  AutoExitChoices = {TRUE}
  UserOutcomes = {"target_hit"}
  BrokerResults = {"filled", "rejected"}
  ProximityPct = 6
  MaxFaults = 0
  MaxLost = 0
INVARIANTS HitAlertMeansHeld OutcomeMatchesExit BrokerInSync
PROPERTIES HitIsClosed ExitIsSynced
CHECK_DEADLOCK TRUE
