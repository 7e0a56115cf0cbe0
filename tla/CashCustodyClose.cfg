SPECIFICATION Spec
CONSTANTS
  cashier = cashier
  courier = courier
  None = None
  Employee <- MCEmployee
  Cashiers <- MCCashiers
  Shift = {s1, s2}
  Transfer = {t1}
  Clerk = {c1}
  Overlapping = {"close"}
  Openings = {2}
  Sales = {1}
  Entries = {1}
  Portions = {1, 2}
  MaxTill = 1
SYMMETRY MCSymmetry
CHECK_DEADLOCK FALSE
INVARIANTS
  PendingIsResolvable
