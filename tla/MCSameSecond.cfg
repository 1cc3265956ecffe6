SPECIFICATION Spec
CONSTANTS
  Subs = {s1}
  NoSub = NoSub
  Workers = {w1}
  Idle = Idle
  Ends = {3, 5}
  SharedCustomer = FALSE
  NamesUser = FALSE
  SameSecond = TRUE
  MaxTime = 4
  MaxEvents = 5
  MaxRepairs = 0
  MaxFailures = 0
INVARIANTS
  AdvancedWins
CHECK_DEADLOCK FALSE
