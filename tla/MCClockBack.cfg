SPECIFICATION Spec
CONSTANTS
  Subs = {s1}
  NoSub = NoSub
  Workers = {w1, w2}
  Idle = Idle
  Ends = {3, 5}
  SharedCustomer = FALSE
  NamesUser = FALSE
  SameSecond = FALSE
  MaxTime = 4
  MaxEvents = 5
  MaxRepairs = 0
  MaxFailures = 0
PROPERTIES
  ClockNeverBack
CHECK_DEADLOCK FALSE
