\* One scan of one stock, over every order of its prices.
SPECIFICATION Spec
CONSTANTS
  MinPrice = 1
  Prices <- MCPrices
  Stocks <- MCStocks
  CandleTicks = 2
  MaxTicks = 4
INVARIANTS
  OneSideOnly
  SidesMirror
  ConfirmedByClosedCandle
  ScreenerConfirms
CHECK_DEADLOCK FALSE
