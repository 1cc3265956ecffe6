SPECIFICATION FairSpec
CONSTANTS
  Subs = {s1}
  NoSub = NoSub
  Workers = {w1, w2}
  Idle = Idle
  Ends = {2, 4}
  SharedCustomer = FALSE
  NamesUser = TRUE
  SameSecond = TRUE
  MaxTime = 3
  MaxEvents = 3
  MaxRepairs = 1
  MaxFailures = 1
INVARIANTS
  TypeOK
  BundleDated
PROPERTIES
  EveryEventHandled
CHECK_DEADLOCK FALSE
