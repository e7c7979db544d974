------------------------------ MODULE Discounts ------------------------------
(****************************************************************************)
(* One discount on tickets and the purchases that ask for it, by a coupon's *)
(* code or automatically: what is checked before the price is reduced, what *)
(* the price becomes, and when a use is counted.                            *)
(*                                                                          *)
(* An automatic discount is counted when the order is created; a coupon     *)
(* (and the coupon made for an automatic discount) when the payment's       *)
(* callback is handled, in the callback's transaction.  The three counters  *)
(* are read, incremented in memory and saved.                               *)
(****************************************************************************)
EXTENDS Integers, FiniteSets

CONSTANTS
  Purchase,       \* orders of tickets of the discount's organization
  Buyer,          \* Buyer[p]: who orders
  Organizer,      \* the id of the organization
  Cost,           \* Cost[p]: line_total of the order
  Automatic,      \* the purchases that give no coupon (Discount.is_automatic)
  Method,         \* DiscountValidationRule.type
  Value,          \* DiscountValidationRule.value
  MinimalAmount,  \* Discount.minimal_amount
  UsageLimit,     \* Discount.usage_limit; 0 stands for none
  MaxUses         \* DiscountUsageRule.max_uses; 0 stands for none

ASSUME CostAssumption   == Cost \in [Purchase -> Nat] /\ Automatic \subseteq Purchase
ASSUME OrganizerAssumption == \A p \in Purchase : Organizer # Buyer[p]
ASSUME MethodAssumption == Method \in {"PERCENTAGE", "FIXED", "FREE_SHIPPING"}
ASSUME ValueAssumption  ==
  /\ Value \in Nat /\ MinimalAmount \in Nat /\ UsageLimit \in Nat /\ MaxUses \in Nat
  /\ Method = "PERCENTAGE" => Value \in 1..100

VARIABLES
  usagesCount,  \* Discount.usages_count
  consumerUses, \* consumerUses[c]: usages of the DiscountUsage row with entity_id c
  couponUses,   \* Coupon.usages of the discount's coupon
  purchase,     \* purchase[p]: how far p has come
  charged,      \* charged[p]: amount of p's payment
  reduced,      \* the purchases whose transaction carries coupon_metadata
  concurrent    \* observation only: two purchases have been under way at once

discountVars ==
  <<usagesCount, consumerUses, couponUses, purchase, charged, reduced, concurrent>>

Consumer == {Buyer[p] : p \in Purchase} \cup {Organizer}
NotBegun == [pc |-> "new"]

DiscountInit ==
  /\ usagesCount  = 0
  /\ consumerUses = [c \in Consumer |-> 0]
  /\ couponUses   = 0
  /\ purchase     = [p \in Purchase |-> NotBegun]
  /\ charged      = Cost
  /\ reduced      = {}
  /\ concurrent   = FALSE

------------------------------------------------------------------------------
(* What the checks answer                                                   *)

\* (A faulty variant: the limit is not looked at.)
UnderAnyLimit == TRUE

\* check_discount_usage_limit_validity: the limit itself is still allowed.
UnderLimit == UsageLimit = 0 \/ usagesCount <= UsageLimit
\* DiscountUsageRule.check_rule
UnderMaximum(c) == MaxUses = 0 \/ consumerUses[c] < MaxUses

\* is_discount_available_to_user_or_organization, within its period, without conditions.
IsAvailable(p) == MinimalAmount <= Cost[p] /\ UnderLimit /\ UnderMaximum(Buyer[p])

\* (A faulty variant: a fixed reduction may be more than the price.)
AsItIs(n) == n

AtLeastZero(n) == IF n < 0 THEN 0 ELSE n

\* get_discounted_value: factor is in hundredths, results are rounded up.
DiscountedValue(cost, factor, amount) ==
  CASE Method = "PERCENTAGE" -> (cost * factor + 99) \div 100
    [] Method = "FIXED"      -> AtLeastZero(cost - amount)
    [] OTHER                 -> 0

\* get_calculation_infos turns a percentage into the share that is left to pay ...
CouponPrice(cost) == DiscountedValue(cost, 100 - Value, Value)
\* ... and apply_best_automatic_discount uses it as it is.
AutomaticPrice(cost) == DiscountedValue(cost, 100 * Value, Value)

------------------------------------------------------------------------------
(* Orders                                                                   *)

UnderWay(p) == purchase[p].pc \notin {"new", "settled"}

Begin(p, job) ==
  /\ purchase[p] = NotBegun
  /\ purchase' = [purchase EXCEPT ![p] = job]
  /\ concurrent' = (concurrent \/ \E q \in Purchase : UnderWay(q))

OrderAtFullPrice(p) ==
  /\ p \in Automatic
  /\ ~(IsAvailable(p) /\ AutomaticPrice(Cost[p]) < Cost[p])
  /\ Begin(p, [pc |-> "open"])
  /\ UNCHANGED <<usagesCount, consumerUses, couponUses, charged, reduced>>

\* A coupon that is not available refuses the order.
OrderWithCoupon(p) ==
  /\ p \notin Automatic
  /\ IsAvailable(p)
  /\ Begin(p, [pc |-> "open"])
  /\ charged' = [charged EXCEPT ![p] = CouponPrice(Cost[p])]
  /\ reduced' = reduced \cup {p}
  /\ UNCHANGED <<usagesCount, consumerUses, couponUses>>

\* apply_best_automatic_discount has read the discount and finds its price better.
FindAutomatic(p) ==
  /\ p \in Automatic
  /\ IsAvailable(p) /\ AutomaticPrice(Cost[p]) < Cost[p]
  /\ Begin(p, [pc |-> "found", seen |-> usagesCount])
  /\ UNCHANGED <<usagesCount, consumerUses, couponUses, charged, reduced>>

\* use_discount, get_or_create of the consumer's row.
ReadConsumer(p) ==
  /\ purchase[p].pc = "found"
  /\ purchase' = [purchase EXCEPT ![p] = [pc |-> "counting", seen |-> @.seen,
                                          uses |-> consumerUses[Buyer[p]]]]
  /\ UNCHANGED <<usagesCount, consumerUses, couponUses, charged, reduced, concurrent>>

CountConsumer(p) ==
  /\ purchase[p].pc = "counting"
  /\ consumerUses' = [consumerUses EXCEPT ![Buyer[p]] = purchase[p].uses + 1]
  /\ purchase' = [purchase EXCEPT ![p].pc = "counted"]
  /\ UNCHANGED <<usagesCount, couponUses, charged, reduced, concurrent>>

CountDiscount(p) ==
  /\ purchase[p].pc = "counted"
  /\ usagesCount' = purchase[p].seen + 1
  /\ purchase' = [purchase EXCEPT ![p] = [pc |-> "granted"]]
  /\ UNCHANGED <<consumerUses, couponUses, charged, reduced, concurrent>>

\* The coupon made for it is checked like any other, and left out when it fails.
OpenAutomatic(p) ==
  /\ purchase[p].pc = "granted"
  /\ purchase' = [purchase EXCEPT ![p] = [pc |-> "open"]]
  /\ IF IsAvailable(p)
     THEN /\ charged' = [charged EXCEPT ![p] = CouponPrice(Cost[p])]
          /\ reduced' = reduced \cup {p}
     ELSE UNCHANGED <<charged, reduced>>
  /\ UNCHANGED <<usagesCount, consumerUses, couponUses, concurrent>>

------------------------------------------------------------------------------
(* Payments: update_coupon_related_to_transaction_usage                     *)

PayWithoutCoupon(p) ==
  /\ purchase[p].pc = "open" /\ p \notin reduced
  /\ purchase' = [purchase EXCEPT ![p] = [pc |-> "settled"]]
  /\ UNCHANGED <<usagesCount, consumerUses, couponUses, charged, reduced, concurrent>>

PaymentFails(p) ==
  /\ purchase[p].pc = "open"
  /\ purchase' = [purchase EXCEPT ![p] = [pc |-> "settled"]]
  /\ reduced' = reduced \ {p}
  /\ UNCHANGED <<usagesCount, consumerUses, couponUses, charged, concurrent>>

\* The coupon is read together with its discount.
ReadCoupon(p) ==
  /\ purchase[p].pc = "open" /\ p \in reduced
  /\ purchase' = [purchase EXCEPT ![p] = [pc |-> "using", seen |-> usagesCount,
                                          uses |-> couponUses]]
  /\ UNCHANGED <<usagesCount, consumerUses, couponUses, charged, reduced, concurrent>>

\* handle_payment_transaction gives the organization as the consumer of a ticket's coupon.
\* The coupon's row is saved first and stays locked to the end of the transaction: the
\* consumer's row is read and written under that lock, so one step stands for it all.
UseCoupon(p) ==
  /\ purchase[p].pc = "using"
  /\ couponUses'   = IF p \in Automatic THEN couponUses ELSE purchase[p].uses + 1
  /\ consumerUses' = [consumerUses EXCEPT ![Organizer] = @ + 1]
  /\ usagesCount'  = purchase[p].seen + 1
  /\ purchase'     = [purchase EXCEPT ![p] = [pc |-> "settled"]]
  /\ UNCHANGED <<charged, reduced, concurrent>>

------------------------------------------------------------------------------
DiscountNext ==
  \E p \in Purchase :
    \/ OrderAtFullPrice(p) \/ OrderWithCoupon(p) \/ FindAutomatic(p)
    \/ ReadConsumer(p) \/ CountConsumer(p) \/ CountDiscount(p) \/ OpenAutomatic(p)
    \/ PayWithoutCoupon(p) \/ PaymentFails(p) \/ ReadCoupon(p) \/ UseCoupon(p)

DiscountSpec == DiscountInit /\ [][DiscountNext]_discountVars

------------------------------------------------------------------------------
ReducedFor(c) == {p \in reduced : Buyer[p] = c}

\* Whatever the checks and the two readings of a percentage make of it, what is charged
\* is never more than what the tickets cost, and never less than nothing.
PriceNeverRaised == \A p \in Purchase : charged[p] \in 0..Cost[p]

\* Purchases that come one after the other, each paid before the next begins, get the
\* discount at most UsageLimit + 1 times: the check lets the limit itself through, and what
\* an automatic discount counts twice only makes it stricter.  Purchases under way together
\* may get more of it.
SerialUsesWithinLimit ==
  ~concurrent /\ UsageLimit > 0 => Cardinality(reduced) <= UsageLimit + 1

\* Both: a discount neither raises a price nor is had more often than its limit.
DiscountsSound == PriceNeverRaised /\ SerialUsesWithinLimit

\* create_discount_usage_rule: "max_uses_per_entity: [ int ] The maximum time an consumer
\* can use the discount".  Purchases that come one after the other keep to it.
BuyersWithinMaximum ==
  ~concurrent /\ MaxUses > 0 => \A c \in Consumer : Cardinality(ReducedFor(c)) <= MaxUses
==============================================================================
