\* One online order and one seller, two tickets.
SPECIFICATION SalesSpec
CONSTANTS
  Order = {o1}
  Handler = {h1}
  Worker = {w1}
  Quantity <- EachOne
  Income <- EachOne
  AutoOrders <- Nobody
  Initial = 2
  GatewayStatus <- OnlyYes
  Faults <- Nobody
  MaxDeliveries = 1
  Seller = {s1}
  Clerk = {c1}
  Lot <- Lots
INVARIANTS AllocationsBounded
CHECK_DEADLOCK FALSE
