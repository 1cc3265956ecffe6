SPECIFICATION Spec
CONSTANTS
  Keys = {}
  NoKey = NoKey
  HoldKeys = {h1, h2}
  NoHold = NoHold
  Amounts = {1, 2}
  Deadlines = {1, 2}
  Waivers = {FALSE}
  Reasons = {"dispute"}
  MaxClock = 1
  MaxLag = 1
  MaxLots = 4
  MaxRows = 3
SYMMETRY HoldKeySymmetry
INVARIANTS
  TypeOK
  BalanceIsLiveLots
  Conservation
  GrantDeadlineKept
PROPERTIES
  HandedBackDead
  CapturedIsFinal
CHECK_DEADLOCK FALSE
