SPECIFICATION Spec
CONSTANTS
  cashier = cashier
  courier = courier
  None = None
  Employee <- MCEmployee
  Cashiers <- MCCashiers
  Shift = {s1, s2, s3}
  Transfer = {t1, t2}
  Clerk = {c1, c2}
  Overlapping = {"close", "force", "refund"}
  Openings = {2}
  Sales = {1}
  Entries = {1}
  Portions = {2}
  MaxTill = 1
SYMMETRY MCSymmetry
CHECK_DEADLOCK FALSE
INVARIANTS
  TypeOK
  SettledOnce
  ClosingCountsTill
  SourcesNotDoubled
PROPERTIES
  ClosedIsFrozen
