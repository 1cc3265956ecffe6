SPECIFICATION FairSpec
CONSTANTS
  c1 = c1
  c2 = c2
  Consumers = {c1, c2}
  Stories <- PayerStories
  MaxAge = 1
  DayLength = 2
  MaxClock = 3
  MaxFaults = 2
INVARIANTS
  OneLetterEach
  TwoLettersAnInvoice
  ClaimMeansSent
PROPERTIES
  EveryFactSettled
CHECK_DEADLOCK FALSE
