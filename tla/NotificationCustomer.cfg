SPECIFICATION Spec
CONSTANTS
  placed = placed refresh1 = refresh1 refresh2 = refresh2 told1 = told1 told2 = told2
  p1 = p1 p2 = p2 r1 = r1 r2 = r2
  Job = {told1, told2}
  KindOf <- MCKindOf
  LevelOf <- MCLevelOf
  MaxLevel = 3
  Silent = {3}
  Instance = {p1, p2}
  Retry = {r1}
  InstanceOf <- MCInstanceOf
  NoJob = NoJob
  MaxAttempts = 2
  MaxFaults = 3
INVARIANTS AutomaticSendOnce OutOfOrderIsUncertain ClaimsInOrder LossIsVisible
CHECK_DEADLOCK FALSE
