\* One of these at a time; TLC finds each violated.
SPECIFICATION Spec
CONSTANTS
  free = free
  pro = pro
  team = team
  seats = seats
  Plans = {free, pro, team}
  Default = free
  Shipped <- ThreePlans
  Bundled <- MonthlyCredits
  Keys = {seats}
  Ceiling <- Seats
  Unlimited = 2
  PeriodEnds = {2}
  Operators = {op1, op2}
  Sweepers = {beat, hand}
  Host = host
  Openings = {"auto"}
  Staffing = {{op1, op2}}
  PaidPlans = {pro}
  LocalPlans = {free, pro, team}
  Lengths = {1}
  MonthLength = 2
  MaxDay = 2
  MaxComps = 2
  MaxFailures = 1
INVARIANTS
  NoSilentStack
\* PaidPlanGoverns
\* NothingUnderneath
CHECK_DEADLOCK FALSE
