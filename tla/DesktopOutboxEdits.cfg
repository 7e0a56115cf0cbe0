SPECIFICATION Spec
CONSTANTS
  sale = sale edit = edit edit2 = edit2 pay = pay
  order = order till = till
  tA = tA tB = tB eA = eA eB = eB s1 = s1 s2 = s2
  Command = {edit, edit2}
  Lane = {order, till}
  LaneOf <- MCLaneOf
  Touches <- MCTouches
  Creates = {}
  Versioned = {order}
  Reconciled = {order}
  Cancellable = {edit, edit2}
  Token = {tA, tB}
  Scope = {s1}
  ScopeOf <- SameScope
  Employee = {eA, eB}
  EmployeeOf <- TwoEmployees
  NoToken = NoToken NoScope = NoScope NoEmployee = NoEmployee
  NoCommand = NoCommand Foreign = Foreign
  MaxForeign = 1
  MaxFaults = 2
INVARIANTS CancelledNeverApplied TravelsAsOwner LaneOrder

