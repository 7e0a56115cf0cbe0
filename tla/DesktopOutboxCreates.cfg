SPECIFICATION FairSpec
CONSTANTS
  sale = sale edit = edit edit2 = edit2 pay = pay
  order = order till = till
  tA = tA tB = tB eA = eA eB = eB s1 = s1 s2 = s2
  Command = {sale, edit, pay}
  Lane = {order, till}
  LaneOf <- MCLaneOf
  Touches <- MCTouches
  Creates = {sale}
  Versioned = {order}
  Reconciled = {}
  Cancellable = {edit}
  Token = {tA}
  Scope = {s1}
  ScopeOf <- OneToken
  Employee = {eA}
  EmployeeOf <- OneEmployee
  NoToken = NoToken NoScope = NoScope NoEmployee = NoEmployee
  NoCommand = NoCommand Foreign = Foreign
  MaxForeign = 0
  MaxFaults = 3
INVARIANTS LocalIdsResolved AcknowledgedAppliedOnce
PROPERTIES ImplementsDelivery Drains
