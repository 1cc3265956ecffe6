SPECIFICATION Spec
CONSTANTS
  Keys = {}
  NoKey = NoKey
  HoldKeys = {h1}
  NoHold = NoHold
  Amounts = {1, 2}
  Deadlines = {1, 2}
  Waivers = {FALSE}
  Reasons = {"refund"}
  MaxClock = 1
  MaxLag = 0
  MaxLots = 3
  MaxRows = 3
PROPERTIES
  OwedWasSpent
CHECK_DEADLOCK FALSE
