SPECIFICATION Spec
CONSTANTS
  Orders = {p1}
  LiveOrders = {}
  NoOrder = none
  Terms <- AllTerms
  Settings <- TwoSettings
  Prices <- MCPrices
  Closers = {c1}
  Editors = {e1}
  AutoExitChoices = {FALSE}
  UserOutcomes = {}
  BrokerResults = {"filled"}
  ProximityPct = 6
  MaxFaults = 1
  MaxLost = 0
INVARIANTS PaperExitJustified AlertedOnce
PROPERTIES BookSpec StopOnlyTightens
CHECK_DEADLOCK TRUE
