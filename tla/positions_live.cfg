SPECIFICATION Spec
CONSTANTS
  Orders = {l1}
  LiveOrders = {l1}
  NoOrder = none
  Terms <- BothSides
  Settings <- LockOrAll
  Prices <- MCPrices
  Closers = {c1}
  Editors = {}
  AutoExitChoices = {TRUE, FALSE}
  UserOutcomes = {"target_hit"}
  BrokerResults = {"filled", "rejected", "lost"}
  ProximityPct = 6
  MaxFaults = 1
  MaxLost = 1
INVARIANTS StopProtects ClosedLiveWasOffset OutcomeOnlyOfClosed
CHECK_DEADLOCK TRUE
