\* An order with nothing to pay and two paid at the gateway, whose payments may fail at
\* first; nothing else fails, callbacks come one at a time.
SPECIFICATION FairSpec
CONSTANTS
  o1 = o1
  o2 = o2
  o3 = o3
  Order = {o1, o2, o3}
  Handler = {h1}
  Worker = {w1}
  Quantity <- OneAndTwo
  Income <- OneEach
  AutoOrders <- OnlyO1
  Initial <- Unlimited
  GatewayStatus <- SomeEvents
  Faults <- NoFaults
  MaxDeliveries = 2
PROPERTIES StartedInTimeIsFinished PaidInTimeIsServed
CHECK_DEADLOCK FALSE
