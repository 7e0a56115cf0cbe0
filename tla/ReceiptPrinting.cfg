SPECIFICATION Spec
CONSTANTS
  till = till
  bar = bar
  p1 = p1
  p2 = p2
  sync = sync
  reprint = reprint
  offline = offline
  None = None
  Desktop <- MCDesktop
  Printer <- MCPrinter
  Origin = till
  Job <- MCJust
  Reprint = {}
  Offline = offline
  Targets <- MCTargets
  MaxAttempts = 2
  MaxAsked = 1
  MaxFaults = 2
CHECK_DEADLOCK FALSE
INVARIANTS
  OneSheetPerRequest
  PaperOnceInTurn
PROPERTIES
  OnlyOperatorsReopen
