SPECIFICATION Spec
CONSTANTS
  ann = ann
  guest = guest
  p1 = p1
  p2 = p2
  s1 = s1
  s2 = s2
  Users = {ann, guest}
  NoUser = NoUser
  Merges <- NoMerge
  Procs = {p1, p2}
  Patchers = {ann}
  HoldKeys = {k1}
  Subs = {s1, s2}
  InitialSubs <- Plans
  Amounts = {1}
  Deadlines = {1}
  MaxClock = 1
  MaxWallets = 2
  MaxRows = 2
  MaxHolds = 2
SYMMETRY ProcSymmetry
INVARIANTS
  CacheMaintained
CHECK_DEADLOCK FALSE
