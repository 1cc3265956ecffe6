SPECIFICATION FairSpec
CONSTANTS
  w1 = w1
  w2 = w2
  op = op
  Web = {w1, w2}
  Operators = {op}
  Stories <- SubscriberStories
  MaxFaults = 1
INVARIANTS
  LargestShareTaken
PROPERTIES
  ImplementsBook
  NoSaleLost
  EveryEventProcessed
CHECK_DEADLOCK FALSE
