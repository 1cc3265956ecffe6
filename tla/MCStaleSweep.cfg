SPECIFICATION Spec
CONSTANTS
  Keys = {}
  NoKey = NoKey
  HoldKeys = {h1}
  NoHold = NoHold
  Amounts = {1, 2}
  Deadlines = {1, 2}
  Waivers = {FALSE}
  Reasons = {}
  MaxClock = 1
  MaxLag = 0
  MaxLots = 3
  MaxRows = 2
PROPERTIES
  SweptOnlyPastDeadline
CHECK_DEADLOCK FALSE
