SPECIFICATION FairSpec
CONSTANTS
  placed = placed refresh1 = refresh1 refresh2 = refresh2 told1 = told1 told2 = told2
  p1 = p1 p2 = p2 r1 = r1 r2 = r2
  Job = {placed, refresh1, refresh2, told1}
  KindOf <- MCKindOf
  LevelOf <- MCLevelOf
  MaxLevel = 2
  Silent = {2}
  Instance = {p1}
  Retry = {r1}
  InstanceOf <- MCInstanceOf
  NoJob = NoJob
  MaxAttempts = 2
  MaxFaults = 2
INVARIANTS StaffSeesCurrent DeliveredWasPosted
PROPERTIES EveryJobSettles
CHECK_DEADLOCK FALSE
