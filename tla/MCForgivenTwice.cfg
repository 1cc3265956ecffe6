SPECIFICATION Spec
CONSTANTS
  Keys = {}
  NoKey = NoKey
  HoldKeys = {}
  NoHold = NoHold
  Amounts = {1, 2}
  Deadlines = {1, 2}
  Waivers = {FALSE}
  Reasons = {"refund"}
  MaxClock = 1
  MaxLag = 0
  MaxLots = 3
  MaxRows = 5
INVARIANTS
  ForgivenHadExpired
CHECK_DEADLOCK FALSE
