------------------------------- MODULE Catalogue -------------------------------
(* The making of a discount, by an administrator or by an organization, its   *)
(* later edits, its conditions and coupons, and what check_availability tells *)
(* a buyer of it.  Discounts says what becomes of the purchases that use it.  *)
(*                                                                            *)
(* A discount is made with its two rules in one transaction.  An organization *)
(* edits it in three: the usage rule, the validation rule, then the whole row *)
(* it had read, counter included.  An administrator's edit is the whole row   *)
(* again, and what it checks are single fields.                               *)
EXTENDS Integers, Sequences, FiniteSets

CONSTANTS
  Wish,        \* what a new discount, or an organization's edit of it, asks for
  Tweak,       \* what an administrator's edit may set: limit, minimal and period
  Condition,   \* what a condition may say: [kind, op, ids]
  Item,        \* Item[i]: the kind of i, "TICKET" or "SUBSCRIPTION"
  Price,       \* Price[i]: what i costs
  Asker,       \* Asker[a]: "USER", "ORGANIZATION" or "ANONYMOUS"
  Clerk,       \* web workers that edit, and callbacks that count a use
  MaxEdition   \* bound: calls that change something

ASSUME CatalogueAssumption ==
  /\ \A i \in DOMAIN Item : Item[i] \in {"TICKET", "SUBSCRIPTION"} /\ Price[i] \in Nat
  /\ \A a \in DOMAIN Asker : Asker[a] \in {"USER", "ORGANIZATION", "ANONYMOUS"}
  /\ Wish \subseteq
       [target : {"TICKET", "SUBSCRIPTION"}, org : BOOLEAN,
        type : {"PERCENTAGE", "FIXED", "FREE_SHIPPING"}, value : Seq(Int), max : Int,
        limit : Int, minimal : Int, from : Seq(Int), until : Seq(Int),
        dynamic : BOOLEAN, auto : BOOLEAN, conds : SUBSET Condition]
  /\ Tweak \subseteq [limit : Int, minimal : Int, from : Seq(Int), until : Seq(Int)]
  /\ MaxEdition \in Nat

VARIABLES
  deal,      \* the Discount row, or NoDeal
  rule,      \* its DiscountUsageRule and its DiscountValidationRule
  conds,     \* the conditions of its validation rule
  codes,     \* how many coupons it has
  clerk,     \* clerk[c]: an edit, a coupon or a use under way, with what it has read
  date,     \* the day
  quoted,    \* the last answer of check_availability
  counted,   \* uses that were counted (history)
  strayed,   \* how the discount left what was checked when it was made (history)
  edition

catalogueVars == <<deal, rule, conds, codes, clerk, date, quoted, counted, strayed, edition>>

NoDeal   == [target |-> "none"]
NoRule   == [uses |-> "none"]
Idle     == [pc |-> "idle"]
NoQuote  == [reduced |-> <<>>]
Exists   == deal # NoDeal
IsFree(c) == clerk[c] = Idle
Day      == 0..1

\* Kinds of condition for each target; an organization's form knows those of tickets alone.
KindsFor(target) ==
  IF target = "TICKET" THEN {"USERS", "EVENTS", "TICKETS", "TICKET_CATEGORIES"}
                       ELSE {"SUBSCRIPTION_TYPES", "ORGANIZATIONS"}
\* DISCOUNT_USE_ENTITY_TYPES_STR
ConsumerFor(target) == IF target = "TICKET" THEN "USER" ELSE "ORGANIZATION"

--------------------------------------------------------------------------------
(* What the forms check.  Values are in hundredths, and absent ones are <<>>; *)
(* a maximum, a limit or an amount of 0 is absent too.                        *)

MaximumFits(w) == w.max # 0 /\ w.limit # 0 => w.max <= w.limit
PeriodFits(w)  == w.from # <<>> /\ w.until # <<>> => w.from[1] <= w.until[1]

\* (A faulty variant: a percentage is an amount like any other.)
AnyValue(w) == w.type = "FREE_SHIPPING" \/ w.value # <<>>

\* A percentage that is absent raises: nothing can be compared with it.
PercentageFits(w) ==
  w.type = "PERCENTAGE" => w.value # <<>> /\ 0 < w.value[1] /\ w.value[1] <= 100 * 100

\* Only the administrator's form asks for a fixed value below the minimal amount.
FixedFits(w) ==
  w.type = "FIXED" /\ w.minimal # 0 => w.value # <<>> /\ w.minimal * 100 > w.value[1]

\* The column is an integer: what is behind the point is lost, towards 0.
Truncated(v)  == IF v < 0 THEN 0 - ((0 - v) \div 100) ELSE v \div 100
Stored(value) == IF value = <<>> THEN <<>> ELSE <<Truncated(value[1])>>
StoredValue(w) == IF w.type = "FREE_SHIPPING" THEN <<>> ELSE Stored(w.value)

RulesOf(w, target) == [uses |-> ConsumerFor(target), max |-> w.max,
                       type |-> w.type, value |-> StoredValue(w)]
NewDeal(w, org, target) ==
  [target |-> target, org |-> org, limit |-> w.limit, minimal |-> w.minimal,
   from |-> w.from, until |-> w.until, dynamic |-> w.dynamic, auto |-> w.auto, uses |-> 0]

CountEdition == edition < MaxEdition /\ edition' = edition + 1
Apart == UNCHANGED <<codes, date, quoted, counted>>
Stray(how, said) == strayed' = IF how THEN strayed \cup {said} ELSE strayed

Make(w, org, target) ==
  /\ deal' = NewDeal(w, org, target)
  /\ rule' = RulesOf(w, target)
  /\ conds' = w.conds
  /\ CountEdition
  /\ UNCHANGED <<clerk, strayed>> /\ Apart

\* (A faulty variant: the conditions of a new discount are not looked at.)
AnyConditions(w, target) == TRUE

ConditionsFit(w, target) == \A k \in w.conds : k.kind \in KindsFor(target)

\* A condition that does not fit takes the discount and its rules back with it.
AdminMakes(w) ==
  /\ ~Exists
  /\ MaximumFits(w) /\ PeriodFits(w) /\ PercentageFits(w) /\ FixedFits(w)
  /\ ConditionsFit(w, w.target)
  /\ Make(w, w.org, w.target)

\* Always for tickets, never automatic and always dynamic.
OrganizationMakes(w) ==
  /\ ~Exists /\ w.org /\ w.type # "FREE_SHIPPING"
  /\ MaximumFits(w) /\ PeriodFits(w) /\ PercentageFits(w)
  /\ ConditionsFit(w, "TICKET")
  /\ Make([w EXCEPT !.dynamic = TRUE, !.auto = FALSE], TRUE, "TICKET")

--------------------------------------------------------------------------------
(* Edits                                                                      *)

Rival(c) == {d \in Clerk \ {c} : clerk[d].pc \in {"edit", "usage", "values", "tweak", "use"}}
TakeUp(c, job) == clerk' = [clerk EXCEPT ![c] = job]

\* bloc_update: the row is read; type, value and maximum have to be there.
BeginBlocUpdate(c, w) ==
  /\ IsFree(c) /\ Exists /\ deal.org
  /\ w.type # "FREE_SHIPPING"
  /\ MaximumFits(w) /\ PeriodFits(w) /\ PercentageFits(w)
  /\ CountEdition
  /\ TakeUp(c, [pc |-> "edit", seen |-> deal, wish |-> w])
  /\ Stray(Rival(c) # {}, "together")
  /\ UNCHANGED <<deal, rule, conds>> /\ Apart

SaveUsageRule(c) ==
  /\ clerk[c].pc = "edit"
  /\ rule' = [rule EXCEPT !.max = clerk[c].wish.max]
  /\ clerk' = [clerk EXCEPT ![c].pc = "usage"]
  /\ UNCHANGED <<deal, conds, strayed, edition>> /\ Apart

SaveValidationRule(c) ==
  /\ clerk[c].pc = "usage"
  /\ rule' = [rule EXCEPT !.type = clerk[c].wish.type, !.value = Stored(clerk[c].wish.value)]
  /\ clerk' = [clerk EXCEPT ![c].pc = "values"]
  /\ UNCHANGED <<deal, conds, strayed, edition>> /\ Apart

\* (A faulty variant: the row is written as a new one.)
AsNew(row, w) == NewDeal(w, TRUE, "TICKET")

\* The fields of the form, on the row that was read: a limit that is not named stays.  The
\* target is always that of tickets, but the usage rule goes on counting whom it counted.
Overlaid(row, w) ==
  [row EXCEPT !.target = "TICKET", !.limit = IF w.limit = 0 THEN @ ELSE w.limit,
              !.minimal = w.minimal, !.from = w.from, !.until = w.until]

SaveDeal(c) ==
  /\ clerk[c].pc = "values"
  /\ deal' = Overlaid(clerk[c].seen, clerk[c].wish)
  /\ TakeUp(c, Idle)
  /\ strayed' = strayed
       \cup (IF clerk[c].seen.target # "TICKET" THEN {"retargeted"} ELSE {})
       \cup (IF clerk[c].wish.limit = 0 THEN {"unnamed"} ELSE {})
  /\ UNCHANGED <<rule, conds, edition>> /\ Apart

\* DiscountSerializer: single fields, none compared with another; the same form is the
\* organization's update.
BeginTweak(c, t) ==
  /\ IsFree(c) /\ Exists
  /\ CountEdition
  /\ TakeUp(c, [pc |-> "tweak", seen |-> deal, tweak |-> t])
  /\ Stray(Rival(c) # {}, "together")
  /\ UNCHANGED <<deal, rule, conds>> /\ Apart

SaveTweak(c) ==
  /\ clerk[c].pc = "tweak"
  /\ LET t == clerk[c].tweak
     IN deal' = [clerk[c].seen EXCEPT !.limit = t.limit, !.minimal = t.minimal,
                                      !.from = t.from, !.until = t.until]
  /\ TakeUp(c, Idle)
  /\ strayed' = strayed \cup {"tweaked"}
  /\ UNCHANGED <<rule, conds, edition>> /\ Apart

\* A clerk that dies between two saves leaves the first of them.
ClerkDies(c) ==
  /\ ~IsFree(c)
  /\ TakeUp(c, Idle)
  /\ Stray(clerk[c].pc \in {"usage", "values"}, "halfway")
  /\ UNCHANGED <<deal, rule, conds, edition>> /\ Apart

DestroyDeal ==
  /\ Exists /\ \A c \in Clerk : IsFree(c)
  /\ CountEdition
  /\ deal' = NoDeal /\ rule' = NoRule /\ conds' = {} /\ codes' = 0
  /\ counted' = 0 /\ strayed' = {}
  /\ UNCHANGED <<clerk, date, quoted>>

--------------------------------------------------------------------------------
(* Conditions and coupons                                                     *)

\* The administrators' form compares the kind with the discount's target ...
AddCondition(k) ==
  /\ Exists /\ k.kind \in KindsFor(deal.target)
  /\ CountEdition
  /\ conds' = conds \cup {k}
  /\ UNCHANGED <<deal, rule, clerk, strayed>> /\ Apart

\* ... the organizations' with the kinds for tickets, whatever rule it is for.
AddOrganizationCondition(k) ==
  /\ Exists /\ k.kind \in KindsFor("TICKET")
  /\ CountEdition
  /\ conds' = conds \cup {k}
  /\ Stray(deal.target # "TICKET", "retargeted")
  /\ UNCHANGED <<deal, rule, clerk>> /\ Apart

\* UpdateDiscountConditionSerializer: the kind stays.
EditCondition(k, new) ==
  /\ Exists /\ k \in conds /\ new.kind = k.kind /\ new # k
  /\ CountEdition
  /\ conds' = (conds \ {k}) \cup {new}
  /\ UNCHANGED <<deal, rule, clerk, strayed>> /\ Apart

DestroyCondition(k) ==
  /\ k \in conds
  /\ CountEdition
  /\ conds' = conds \ {k}
  /\ UNCHANGED <<deal, rule, clerk, strayed>> /\ Apart

\* (A faulty variant: there may be any number of coupons.)
NoMoreToCount == TRUE

\* Two coupons are still not "more than one" until they have been saved; the discount that
\* is not dynamic is not asked.
MayHaveAnother == ~deal.dynamic \/ codes <= 1

\* CouponSerializer counts the coupons, then the coupon is saved.
CountCodes(c) ==
  /\ IsFree(c) /\ Exists /\ MayHaveAnother
  /\ CountEdition
  /\ TakeUp(c, [pc |-> "coupon"])
  /\ Stray(\E d \in Clerk : clerk[d].pc = "coupon", "twoCoupons")
  /\ UNCHANGED <<deal, rule, conds>> /\ Apart

SaveCode(c) ==
  /\ clerk[c].pc = "coupon"
  /\ codes' = codes + 1
  /\ TakeUp(c, Idle)
  /\ UNCHANGED <<deal, rule, conds, date, quoted, counted, strayed, edition>>

\* OrganizationCouponSerializer only looks whether the code is taken and whose the discount is.
AddOrganizationCode ==
  /\ Exists /\ deal.org
  /\ CountEdition
  /\ codes' = codes + 1
  /\ strayed' = strayed \cup {"twoCoupons"}
  /\ UNCHANGED <<deal, rule, conds, clerk, date, quoted, counted>>

--------------------------------------------------------------------------------
(* Uses and answers                                                           *)

\* use_discount reads the row with the coupon, counts, and saves the counter alone.
BeginUse(c) ==
  /\ IsFree(c) /\ Exists
  /\ CountEdition
  /\ TakeUp(c, [pc |-> "use", seen |-> deal])
  /\ Stray(Rival(c) # {}, "together")
  /\ UNCHANGED <<deal, rule, conds>> /\ Apart

SaveUse(c) ==
  /\ clerk[c].pc = "use"
  /\ deal' = [deal EXCEPT !.uses = clerk[c].seen.uses + 1]
  /\ TakeUp(c, Idle)
  /\ counted' = counted + 1
  /\ UNCHANGED <<rule, conds, codes, date, quoted, strayed, edition>>

\* check_discount_date_validity: a bound alone is strict; past it the comparison raises.
InPeriod ==
  CASE deal.from = <<>> /\ deal.until = <<>> -> TRUE
    [] deal.from = <<>> /\ deal.until # <<>> -> deal.until[1] > date
    [] deal.from # <<>> /\ deal.until = <<>> -> deal.from[1] < date
    [] OTHER -> date \in deal.from[1]..deal.until[1]

\* is_condition_matched: users and organizations are the consumer, the rest is the item.
\* An id of the wrong kind is in no table that is looked into.
HitBy(k, item, asker) ==
  CASE k.kind = "USERS"              -> Asker[asker] = "USER" /\ asker \in k.ids
    [] k.kind = "ORGANIZATIONS"      -> Asker[asker] = "ORGANIZATION" /\ asker \in k.ids
    [] k.kind = "SUBSCRIPTION_TYPES" -> Item[item] = "SUBSCRIPTION" /\ item \in k.ids
    [] OTHER                         -> Item[item] = "TICKET" /\ item \in k.ids
MatchedBy(k, item, asker) == HitBy(k, item, asker) = (k.op = "IN")

\* check_discount_target_entity: the item is looked for in the table of the discount's target.
FoundTarget(item) == Item[item] = deal.target

\* Anonymous buyers of tickets are asked for no condition.
Available(item, asker) ==
  /\ FoundTarget(item)
  /\ Asker[asker] = "ANONYMOUS" => deal.target = "TICKET"
  /\ Asker[asker] # "ANONYMOUS" => /\ Asker[asker] = ConsumerFor(deal.target)
                                   /\ \A k \in conds : MatchedBy(k, item, asker)
  /\ InPeriod
  /\ deal.minimal <= Price[item]
  /\ deal.limit = 0 \/ deal.uses <= deal.limit

AtLeastNothing(n) == IF n < 0 THEN 0 ELSE n
RoundedUp(n)      == (n + 99) \div 100
ReducedTo(cost) ==
  AtLeastNothing(IF rule.type = "PERCENTAGE" THEN RoundedUp(cost * (100 - rule.value[1]))
                                             ELSE cost - rule.value[1])

\* A rule without a value raises when it is applied: free shipping is never granted.
CheckAvailability(item, asker) ==
  /\ Exists /\ codes > 0
  /\ Available(item, asker) /\ rule.value # <<>>
  /\ quoted' = [reduced |-> <<ReducedTo(Price[item])>>, item |-> item, asker |-> asker,
                fixed |-> rule.type = "FIXED", value |-> rule.value[1]]
  /\ UNCHANGED <<deal, rule, conds, codes, clerk, date, counted, strayed, edition>>

\* check_automatic_discounts lists a discount whose target is the name of the item's class in
\* capitals, which is so of tickets only.
CheckAutomatic(item, asker) ==
  /\ Exists /\ deal.auto
  /\ Item[item] = "TICKET" /\ Available(item, asker)
  /\ quoted' = [reduced |-> <<Price[item]>>, item |-> item, asker |-> asker,
                fixed |-> FALSE, value |-> 0]
  /\ UNCHANGED <<deal, rule, conds, codes, clerk, date, counted, strayed, edition>>

NextMorning ==
  /\ date + 1 \in Day
  /\ date' = date + 1
  /\ UNCHANGED <<deal, rule, conds, codes, clerk, quoted, counted, strayed, edition>>

--------------------------------------------------------------------------------
CatalogueInit ==
  /\ deal = NoDeal /\ rule = NoRule /\ conds = {} /\ codes = 0
  /\ clerk = [c \in Clerk |-> Idle] /\ date = 0 /\ quoted = NoQuote
  /\ counted = 0 /\ strayed = {} /\ edition = 0

CatalogueNext ==
  \/ NextMorning \/ DestroyDeal \/ AddOrganizationCode
  \/ \E w \in Wish : AdminMakes(w) \/ OrganizationMakes(w)
  \/ \E k \in Condition :
       \/ AddCondition(k) \/ AddOrganizationCondition(k) \/ DestroyCondition(k)
       \/ \E new \in Condition : EditCondition(k, new)
  \/ \E i \in DOMAIN Item, a \in DOMAIN Asker : CheckAvailability(i, a) \/ CheckAutomatic(i, a)
  \/ \E c \in Clerk :
       \/ SaveUsageRule(c) \/ SaveValidationRule(c) \/ SaveDeal(c) \/ SaveTweak(c)
       \/ ClerkDies(c) \/ CountCodes(c) \/ SaveCode(c) \/ BeginUse(c) \/ SaveUse(c)
       \/ \E w \in Wish : BeginBlocUpdate(c, w)
       \/ \E t \in Tweak : BeginTweak(c, t)

CatalogueSpec == CatalogueInit /\ [][CatalogueNext]_catalogueVars

--------------------------------------------------------------------------------
(* Properties                                                                 *)

\* No edit puts the counter of uses back, as long as none overlaps another edit or a use.
SerialUsesKept == Exists /\ "together" \notin strayed => deal.uses = counted

\* One consumer's maximum stays within the limit of all, whichever form wrote them, unless an
\* edit that names one of the two, two edits at once or one that died halfway set only one.
SerialMaximumFits ==
  Exists /\ strayed \cap {"together", "tweaked", "unnamed", "halfway"} = {}
    /\ (\A c \in Clerk : clerk[c].pc \notin {"usage", "values"})
    /\ rule.max # 0 /\ deal.limit # 0 => rule.max <= deal.limit

\* A discount's conditions are of the kinds its target has, and its usage rule counts those who
\* buy it, unless an organization edited what an administrator had made for another target.
RulesFitTarget ==
  Exists /\ "retargeted" \notin strayed =>
    /\ rule.uses = ConsumerFor(deal.target)
    /\ \A k \in conds : k.kind \in KindsFor(deal.target)

\* What a buyer is told is a price between nothing and what the item costs, unless a fixed
\* amount is negative, which no form refuses.
QuoteIsSane ==
  quoted # NoQuote /\ ~(quoted.fixed /\ quoted.value < 0) =>
    quoted.reduced[1] \in 0..Price[quoted.item]

\* A dynamic discount has at most two coupons of administrators that count one after the other.
SerialTwoCodes == Exists /\ deal.dynamic /\ "twoCoupons" \notin strayed => codes <= 2

\* All five.
CatalogueSound ==
  SerialUsesKept /\ SerialMaximumFits /\ RulesFitTarget /\ QuoteIsSane /\ SerialTwoCodes

CatalogueTypeOK ==
  /\ deal # NoDeal => deal.target \in {"TICKET", "SUBSCRIPTION"} /\ deal.uses \in Nat
  /\ rule # NoRule => rule.uses \in {"USER", "ORGANIZATION"} /\ rule.max \in Int
  /\ conds \subseteq Condition /\ codes \in Nat /\ date \in Day
================================================================================
