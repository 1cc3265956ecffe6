SPECIFICATION Spec
CONSTANTS
  Subs = {s1}
  NoSub = NoSub
  Workers = {w1}
  Idle = Idle
  Ends = {3, 5}
  SharedCustomer = FALSE
  NamesUser = FALSE
  SameSecond = FALSE
  MaxTime = 4
  MaxEvents = 5
  MaxRepairs = 1
  MaxFailures = 0
INVARIANTS
  CurrentAsOfClock
CHECK_DEADLOCK FALSE
