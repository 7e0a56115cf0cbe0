SPECIFICATION Spec
CONSTANTS
  base = base
  extra = extra
  tea = tea
  soup = soup
  cake = cake
  NoOrder = NoOrder
  Order = {base, extra}
  Item = {tea, cake}
  Supplement <- MCSupplement
  OrderOf <- MCOrderOf
  TypeOf <- MCTypeOf
  KitchenShowsPos = {TRUE, FALSE}
  Admin = FALSE
INVARIANTS
  TypeOK
  OccupiedWhileActive
  ClosedOrderClosesTicket
  PaidWithinTotal
  ListedItemsAreDeducted
PROPERTIES
  CancelledWithoutMoney
  StaffActOnShownStatus
