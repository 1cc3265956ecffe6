SPECIFICATION Spec
CONSTANTS
  Subs = {s1}
  NoSub = NoSub
  Workers = {w1}
  Idle = Idle
  Ends = {3, 5, 7}
  SharedCustomer = FALSE
  NamesUser = FALSE
  SameSecond = FALSE
  MaxTime = 6
  MaxEvents = 7
  MaxRepairs = 0
  MaxFailures = 1
INVARIANTS
  NewestWordHeld
  MirrorsOnceHandled
  ParkedIsClaimed
CHECK_DEADLOCK FALSE
