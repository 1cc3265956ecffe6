\* One of these at a time; TLC finds each violated.
SPECIFICATION Spec
CONSTANTS
  internal_meter_only = internal_meter_only
  Requests = {requested, deleted}
  Callers = {c1}
  Stories <- EveryStory
  Marks = {internal_meter_only}
  NoMark = NoMark
  Written <- WaivedHolds
  MaxRows = 3
  MaxFaults = 0
INVARIANTS
  IdsStayGone
\* WalletStaysNobodys
\* MarksKept
\* NothingWritten
\* NoDeadlock
CHECK_DEADLOCK FALSE
