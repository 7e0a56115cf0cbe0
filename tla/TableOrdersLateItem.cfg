SPECIFICATION Spec
CONSTANTS
  base = base
  extra = extra
  tea = tea
  soup = soup
  cake = cake
  NoOrder = NoOrder
  Order = {base}
  Item = {tea, soup}
  Supplement = {}
  OrderOf <- MCOrderOf
  TypeOf <- MCTypeOf
  KitchenShowsPos = {TRUE, FALSE}
  Admin = FALSE
INVARIANT
  KitchenSeesEveryItem
