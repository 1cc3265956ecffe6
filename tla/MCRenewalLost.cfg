SPECIFICATION Spec
CONSTANTS
  w1 = w1
  w2 = w2
  op = op
  Web = {w1, w2}
  Operators = {op}
  Stories <- SubscriberStories
  MaxFaults = 1
PROPERTIES
  RenewalsGranted
CHECK_DEADLOCK FALSE
