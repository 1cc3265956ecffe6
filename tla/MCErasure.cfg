SPECIFICATION FairSpec
CONSTANTS
  internal_meter_only = internal_meter_only
  Requests = {requested, deleted}
  Callers = {c1}
  Stories <- EveryStory
  Marks = {internal_meter_only}
  NoMark = NoMark
  Written <- WaivedHolds
  MaxRows = 3
  MaxFaults = 1
INVARIANTS
  ErasedWhatWas
PROPERTIES
  EveryRequestReceipted
CHECK_DEADLOCK FALSE
