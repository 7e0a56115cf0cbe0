SPECIFICATION FairSpec
CONSTANTS
  b1 = b1 b2 = b2 b3 = b3
  e1 = e1 e2 = e2 e3 = e3 e4 = e4
  Branch = {b1, b2, b3}
  Event = {e1, e2, e3, e4}
  BranchOf <- MCBranchOf
  Panels <- MCPanels
  Limit = 1
  MaxFaults = 3
CHECK_DEADLOCK FALSE
INVARIANTS NothingSkipped HeardIsShown
PROPERTIES PanelCatchesUp

