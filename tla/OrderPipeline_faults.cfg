\* Two gateway orders and racing callbacks, every fault.
SPECIFICATION Spec
CONSTANTS
  o1 = o1
  o2 = o2
  o3 = o3
  Order = {o1, o2}
  Handler = {h1, h2}
  Worker = {w1, w2}
  Quantity <- OneAndTwo
  Income <- OneEach
  AutoOrders <- Nobody
  Initial = 2
  GatewayStatus <- SomeEvents
  Faults <- AllFaults
  MaxDeliveries = 2
SYMMETRY Symmetry
INVARIANTS TypeOK NothingWithoutApproval NoSecondBatch NoSeatLost NothingInvented
PROPERTIES PaidIsLostOnlyToARace ImplementsBoxOffice
CHECK_DEADLOCK FALSE
