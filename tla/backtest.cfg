\* One run over two symbols: every history of three candles of the first, of one candle of the second.
SPECIFICATION Spec
CONSTANTS
  s1 = s1
  s2 = s2
  NoTrade = NoTrade
  Symbols <- MCSymbols
  Horizon <- MCHorizon
  Bars <- MCBars
  MaxHoldDays = 2
  MaxWorkers = 1
INVARIANTS
  TradesAreTransitions
  ExitIsFirstTouch
  CompletedIsWhole
PROPERTIES
  RunEnds
CHECK_DEADLOCK FALSE
