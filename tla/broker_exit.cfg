CONSTANTS
  None = None
  Users = {u1}
  Keys = {k1}
  Adapters <- KiteAndDhan
  MaxDay = 1
  MaxSlot = 1
  MaxLogins = 2
  MaxPositions = 1
SPECIFICATION Spec
INVARIANT ClosedIsFlat
CHECK_DEADLOCK FALSE
