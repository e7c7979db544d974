\* Two online orders, two requests to the stock services at a time, one seller.
SPECIFICATION SalesSpec
CONSTANTS
  Order = {o1, o2}
  Handler = {h1}
  Worker = {w1, w2}
  Quantity <- EachOne
  Income <- EachOne
  AutoOrders <- Nobody
  Initial = 3
  GatewayStatus <- OnlyYes
  Faults <- Nobody
  MaxDeliveries = 1
  Seller = {s1}
  Clerk = {c1, c2}
  Lot <- Lots
SYMMETRY Symmetry
INVARIANTS SalesAccounted
CHECK_DEADLOCK FALSE
