\* An order with nothing to pay: the task is queued before the order is committed.
SPECIFICATION FairSpec
CONSTANTS
  o1 = o1
  o2 = o2
  o3 = o3
  Order = {o1, o2}
  Handler = {h1}
  Worker = {w1, w2}
  Quantity <- OneAndTwo
  Income <- OneEach
  AutoOrders <- OnlyO1
  Initial <- Unlimited
  GatewayStatus <- Approvals
  Faults <- NoFaults
  MaxDeliveries = 2
PROPERTIES StartedIsFinished
CHECK_DEADLOCK FALSE
