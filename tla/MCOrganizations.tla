---------------------------- MODULE MCOrganizations ----------------------------
(* Small instances, for TLC, of the modules about what an organization is and *)
(* what it earns and pays.  They share no variable: "part" says which of them *)
(* moves, the others keep their initial state, and the runs are the union of  *)
(* the components' own runs.                                                  *)
EXTENDS Organizations, OrganizationAccount, Discounts, PaidServices, Catalogue, TLC

VARIABLE part

CONSTANTS p1, p2, p3, p4, s1, s2

allVars == <<orgVars, accountVars, discountVars, paidVars, catalogueVars, part>>

TwoEach    == [p \in Payout |-> 2]
ThreeEach  == [s \in Sale |-> 3]
\* Three coupons, two of them by one buyer, and an order without one.
BuyerOf    == [p \in Purchase |-> IF p \in {p1, p2} THEN "bob" ELSE "carl"]
CostOfEach == [p \in Purchase |-> IF p = p2 THEN 15 ELSE 10]
OnlyP3     == {p3}
DaysOfEach == [s \in Plan |-> IF s = s1 THEN 1 ELSE 0]

\* Forms: half a per cent (stored as none), a negative one, a fixed amount without a limit, a
\* negative one with a maximum above the limit, free shipping, and two for subscriptions, the
\* second with a condition that is not theirs and a period that ends before it begins.
Form == [target |-> "TICKET", org |-> TRUE, type |-> "PERCENTAGE", value |-> <<1000>>, max |-> 1,
         limit |-> 2, minimal |-> 0, from |-> <<>>, until |-> <<1>>, dynamic |-> TRUE,
         auto |-> TRUE, conds |-> {}]
OnTickets == [kind |-> "TICKETS", op |-> "IN", ids |-> {"seat"}]
Members1  == [kind |-> "ORGANIZATIONS", op |-> "IN", ids |-> {"org"}]
NotBob    == [kind |-> "USERS", op |-> "NOT_IN", ids |-> {"bob"}]
OnlyBob   == [kind |-> "USERS", op |-> "IN", ids |-> {"bob"}]
Conditions == {OnTickets, Members1, NotBob, OnlyBob}
Forms ==
  {[Form EXCEPT !.value = <<50>>, !.conds = {NotBob}],
   [Form EXCEPT !.value = <<-500>>],
   [Form EXCEPT !.type = "FIXED", !.value = <<3000>>, !.minimal = 40, !.from = <<0>>, !.limit = 0,
                !.max = 3],
   [Form EXCEPT !.type = "FIXED", !.value = <<-500>>, !.max = 3],
   [Form EXCEPT !.type = "FREE_SHIPPING", !.value = <<>>, !.dynamic = FALSE],
   [Form EXCEPT !.target = "SUBSCRIPTION", !.conds = {Members1}],
   [Form EXCEPT !.target = "SUBSCRIPTION", !.conds = {OnlyBob}, !.from = <<1>>, !.until = <<0>>]}
Tweaks == {[limit |-> 1, minimal |-> 0, from |-> <<1>>, until |-> <<0>>],
           [limit |-> 3, minimal |-> 40, from |-> <<0>>, until |-> <<>>]}
Items  == "seat" :> "TICKET" @@ "year" :> "SUBSCRIPTION"
Prices2 == "seat" :> 45 @@ "year" :> 30
Askers == "bob" :> "USER" @@ "org" :> "ORGANIZATION" @@ "nobody" :> "ANONYMOUS"

Others(p) ==
  /\ p \notin {"members", "followers"} => UNCHANGED orgVars
  /\ p # "account"      => UNCHANGED accountVars
  /\ p # "discounts"    => UNCHANGED discountVars
  /\ p \notin {"subscriptions", "highlighting"} => UNCHANGED paidVars
  /\ p # "catalogue"    => UNCHANGED catalogueVars
  /\ UNCHANGED part

OnlyMembers   == \A w \in WebWorker : handling[w].pc \notin {"follow", "save"}
NobodyJoins   == \A w \in WebWorker : handling[w].pc # "create"
\* Purchases race in pairs.
TwoUnderWay   == Cardinality({p \in Purchase : UnderWay(p)}) <= 2

\* Callbacks meet only about highlightings.
OneHook       == LET only == CHOOSE w \in HookWorker : TRUE
                 IN \A w \in HookWorker \ {only} : hook[w] = NoHook

Init ==
  /\ OrgInit /\ AccountInit /\ DiscountInit /\ PaidInit
  /\ CatalogueInit
  /\ part \in {"members", "followers", "account", "discounts", "subscriptions", "highlighting",
               "catalogue"}

\* Members in an organization that is not edited, then followers in one that is.
\* Subscriptions without highlightings, and highlightings with one subscription at most, paid
\* at once, and no task: all that the two have to do with each other is HaveActiveSubscription.
\* A buyer is told one price, at any moment: nothing in Catalogue reads it.
Next ==
  \/ part = "members" /\ OrgNext /\ OnlyMembers' /\ Others(part)
  \/ part = "followers" /\ OrgNext /\ NobodyJoins' /\ Others(part)
  \/ part = "account" /\ AccountNext /\ Others(part)
  \/ part = "discounts" /\ DiscountNext /\ TwoUnderWay' /\ Others(part)
  \/ part = "subscriptions" /\ PaidNext /\ OneHook' /\ UNCHANGED highlight /\ Others(part)
  \/ part = "highlighting" /\ PaidNext /\ plan'[s1] = NoPlan /\ payment'[s2] # "IN_PROGRESS"
       /\ sweep' = NoSweep /\ Others(part)
  \/ part = "catalogue" /\ quoted = NoQuote /\ CatalogueNext /\ Others(part)

Spec == Init /\ [][Next]_allVars /\ PaidFairness
==============================================================================
