SPECIFICATION FairSpec
CONSTANTS
  Keys = {}
  NoKey = NoKey
  HoldKeys = {h1}
  NoHold = NoHold
  Amounts = {1, 2}
  Deadlines = {1, 2}
  Waivers = {FALSE,TRUE}
  Reasons = {"dispute"}
  MaxClock = 1
  MaxLag = 1
  MaxLots = 3
  MaxRows = 3
INVARIANTS
  HoldsAccountedFor
PROPERTIES
  ImplementsAccount
  AbandonedHoldsResolved
  DueLotsExpired
CHECK_DEADLOCK FALSE
