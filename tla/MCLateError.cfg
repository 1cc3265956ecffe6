SPECIFICATION Spec
CONSTANTS
  w1 = w1
  w2 = w2
  op = op
  Web = {w1, w2}
  Operators = {op}
  Stories <- DisputeStories
  MaxFaults = 1
INVARIANTS
  ProcessedHasNoError
CHECK_DEADLOCK FALSE
