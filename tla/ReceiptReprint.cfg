SPECIFICATION FairSpec
CONSTANTS
  till = till
  bar = bar
  p1 = p1
  p2 = p2
  sync = sync
  reprint = reprint
  offline = offline
  None = None
  Desktop <- MCTill
  Printer <- MCOne
  Origin = till
  Job <- MCBoth
  Reprint <- MCReprint
  Offline = offline
  Targets <- MCTargets
  MaxAttempts = 2
  MaxAsked = 0
  MaxFaults = 2
CHECK_DEADLOCK FALSE
INVARIANTS
  DoneIsPrinted
PROPERTIES
  Settles
