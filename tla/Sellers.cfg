SPECIFICATION Spec
CONSTANTS
  wd1 = wd1  wd2 = wd2  ann = ann  show1 = show1  show2 = show2  org1 = org1  org2 = org2
  Withdrawal = {wd1, wd2}
  WithdrawalAmount <- TwoEachWay
  ByBank <- SecondByBank
  BySuperSeller = TRUE
  MinWithdrawal = 1
  MaxRetryCount = 2
  Adjustment = {4}
  MoneyWorker = {w1, w2}
  Batch = {b1}
  SmallAmount = 2
  MaxJobs = 5
  Invitation = {i1}
  Person = {ann}
  Invitee <- AllToAnn
  DeskWorker = {w1, w2}
  MaxSubmissions = 2
  MaxAnswers = 1
  ETicket = {e1, e2}
  MailWorker = {w1, w2}
  MaxRetry = 3
  MaxLosses = 1
  MaxCycles = 3
  SuperSeller = {ss1, ss2}
  Percentage = {10, 50}
  OfferWorker = {w1, w2}
  WuloPercentage = 15
  TicketPrice = {1, 20}
  MaxOfferCalls = 2
  Agent = {w1, w2}
  Show = {show1, show2}
  Lots = {2}
  Prices = {1, 3}
  Commissions = {10}
  Cuts = {0, 20}
  Dates = {27, 28, 30}
  MonthFirst = {0, 28, 59}
  Frequencies = {"DAILY", "WEEKLY", "MONTHLY"}
  MaxMoves = 3
  MaxPlaced = 2
  MaxEdits = 1
  MaxReports = 2
  Organization = {org1, org2}
  Own <- JustOrg1
  SuperSellers <- JustOrg1
  Asks <- Asked
  MaxChanges = 1
  Earner = {ann}
  DeskStaff = {ann}
  Inviter = {ss1}
  Correction <- GivenOrTaken
  Teller = {w1, w2}
  StockHolder = {h1, h2}
  LowForSeller = 1
  LowInTotal = 3
  StockMoves <- AddedOrSold
  StockClerk = {w1, w2}
  MaxStockMoves = 4
  MaxHours = 2
  MaxProfiles = 2
  MaxVisits = 7
SYMMETRY Processes
INVARIANTS
  NeverOverdrawn SerialWalletBalances
  SerialKycIsTheLast
  MailsAreSafe
  OfferIsHonoured
  FiguresSound
  AccessIsAsGranted
  WalletDeskSound
  SerialToldOfLowStock
CHECK_DEADLOCK FALSE
