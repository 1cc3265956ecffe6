SPECIFICATION Spec
CONSTANTS
  Subs = {s1, s2}
  NoSub = NoSub
  Workers = {w1}
  Idle = Idle
  Ends = {3, 5}
  SharedCustomer = TRUE
  NamesUser = FALSE
  SameSecond = FALSE
  MaxTime = 6
  MaxEvents = 7
  MaxRepairs = 0
  MaxFailures = 0
INVARIANTS
  OwnEventsOnly
CHECK_DEADLOCK FALSE
