\* A payment that fails at first and is approved within ten minutes.
SPECIFICATION FairSpec
CONSTANTS
  o1 = o1
  o2 = o2
  o3 = o3
  Order = {o1, o2}
  Handler = {h1}
  Worker = {w1, w2}
  Quantity <- OneAndTwo
  Income <- OneEach
  AutoOrders <- Nobody
  Initial <- Unlimited
  GatewayStatus <- SomeEvents
  Faults <- NoFaults
  MaxDeliveries = 2
PROPERTIES PaidIsServed
CHECK_DEADLOCK FALSE
