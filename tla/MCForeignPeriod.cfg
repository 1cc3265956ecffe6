SPECIFICATION Spec
CONSTANTS
  Subs = {s1, s2}
  NoSub = NoSub
  Workers = {w1}
  Idle = Idle
  Ends = {3, 5}
  SharedCustomer = FALSE
  NamesUser = FALSE
  SameSecond = FALSE
  MaxTime = 6
  MaxEvents = 7
  MaxRepairs = 0
  MaxFailures = 0
INVARIANTS
  BundleOfOwnPeriod
CHECK_DEADLOCK FALSE
