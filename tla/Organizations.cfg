\* An organization, its members and followers, its money, its discounts, what it pays for.
SPECIFICATION Spec
CONSTANTS
  p1 = p1
  p2 = p2
  p3 = p3
  p4 = p4
  s1 = s1
  s2 = s2
  User = {ann, bob}
  Admin = {ann}
  WebWorker = {w1, w2}
  MaxMembershipPk = 2
  Payout = {out1, out2}
  PayoutAmount <- TwoEach
  MinimalWithdraw = 1
  CallbackWorker = {c1, c2}
  Sale = {sale1, sale2}
  SaleIncome <- ThreeEach
  MaxAccepted = 3
  Purchase = {p1, p2, p3, p4}
  Buyer <- BuyerOf
  Organizer = "organization"
  Cost <- CostOfEach
  Automatic <- OnlyP3
  Method = "FIXED"
  Value = 12
  MinimalAmount = 0
  UsageLimit = 1
  MaxUses = 2
  Plan = {s1, s2}
  PlanDays <- DaysOfEach
  Spot = {spot1, spot2}
  HookWorker = {hook1, hook2}
  MaxDay = 1
  MaxEdits = 1
  Wish <- Forms
  Tweak <- Tweaks
  Condition <- Conditions
  Item <- Items
  Price <- Prices2
  Asker <- Askers
  Clerk = {w1, w2}
  MaxEdition = 4
INVARIANTS RolesWereAsked SerialBooksBalance DebitsArePayouts DiscountsSound
  PaidServicesSound CatalogueSound
PROPERTIES StatusComesRight
CHECK_DEADLOCK FALSE
