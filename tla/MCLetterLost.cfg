SPECIFICATION RaisingSpec
CONSTANTS
  c1 = c1
  c2 = c2
  Consumers = {c1}
  Stories <- PayerStories
  MaxAge = 1
  DayLength = 2
  MaxClock = 3
  MaxFaults = 1
INVARIANT ClaimMeansSent
CHECK_DEADLOCK FALSE
