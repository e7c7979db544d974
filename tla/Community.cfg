SPECIFICATION Spec
CONSTANTS
  ann = ann  bob = bob
  order1 = order1  order2 = order2  sub1 = sub1  payout1 = payout1
  light1 = light1  member1 = member1  account1 = account1  event1 = event1
  Event = {e1}
  EventWorker = {w1, w2}
  DefaultLimit = 2
  Limit = {2, 4}
  Quantity = {2}
  MaxStarted = 1
  MaxIssued = 2
  MaxEventCalls = 3
  MaxRooms = 2
  ChatUser = {ann, bob}
  TeamOf <- JustAnn
  ChatWorker = {w1, w2}
  MaxChatCalls = 3
  MaxAccounts = 2
  low = low  mixed = mixed
  Address = {low, mixed}
  NormalOf <- Lowered
  AccountWorker = {w1, w2}
  MaxCodes = 3
  MaxAccCalls = 4
  MaxExpiries = 1
  TicketClass = {x, y}
  TillWorker = {w1, w2}
  OnSale = {3}
  Expiry = {1, 3}
  FirstExpiry = 2
  OrderSize = 2
  MaxOrdered = 2
  MaxShelfCalls = 3
  Reporter = {x, y}
  ScanWorker = {w1, w2}
  Day = 2
  Hour = 2
  LastSlot = 2
  MaxPrefCalls = 1
  MaxScans = 2
  Reader = {ann, bob}
  Phone = {x, y}
  OwnerOf <- BothOfAnn
  Owner = {ann}
  Nearby = {ann, bob}
  TypeFan = {ann, bob}
  Follower = {ann, bob}
  Moments = {1, 2}
  Away = 2
  NoticeWorker = {w1, w2}
  MaxPassages = 1
  MaxNoticeCalls = 2
  MaxQueued = 2
  Matter = {order1, order2, sub1, payout1, light1, member1, account1, event1}
  KindOf <- KindOfEach
  SeatsOf <- TwoPerOrder
  HasDevice = {sub1}
  Seats = 4
  Percentages = {50}
  Handler = {w1, w2}
  Clerk = {clerk1}
  MaxFaults = 1
  Guest = {ann, bob}
  RoomOwner = ann
  Publisher = ann
  Criterion = {x, y}
  Keeper = {w1, w2}
  Tagger = {w1, w2}
  SoonDays = 2
  KeptDays = 1
  LastDay = 2
  MaxRoomCalls = 4
  Pass = {x, y}
  PassOf <- OneEach
  Scanner = {w1, w2}
  Visitor = {w1, w2}
  MaxDoorCalls = 4
  MaxClients = 2
  Mailbox = {ann}
  Chip = {x, y}
  Registration = {reg1}
  SessionWorker = {w1, w2}
  MaxMinted = 4
  MaxSessionCalls = 5
SYMMETRY Interchangeable
INVARIANTS
  EventsSound
  ChatSound AccountsSound ShelfSound
  SerialReportsAnHourApart
  SerialToldOnce
  NoticesAreRight RoomAccessSound DoorSound SessionsSound
CHECK_DEADLOCK FALSE
