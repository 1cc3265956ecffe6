SPECIFICATION Spec
CONSTANTS
  w1 = w1
  w2 = w2
  op = op
  Web = {w1, w2}
  Operators = {op}
  Stories <- DisputeStories
  MaxFaults = 1
INVARIANTS
  RefundedStaysTaken
CHECK_DEADLOCK FALSE
