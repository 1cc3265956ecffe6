SPECIFICATION Spec
CONSTANTS
  Keys = {k1}
  NoKey = NoKey
  HoldKeys = {}
  NoHold = NoHold
  Amounts = {1, 2}
  Deadlines = {1, 2}
  Waivers = {FALSE}
  Reasons = {"refund", "dispute"}
  MaxClock = 1
  MaxLag = 0
  MaxLots = 3
  MaxRows = 5
INVARIANTS
  KeysUsedOnce
  ClawbacksWithinGrant
  DebtsAccountedFor
PROPERTIES
  LotsOnlyShrink
  DebtsCollectedFirst
CHECK_DEADLOCK FALSE
