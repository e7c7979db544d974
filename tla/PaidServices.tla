----------------------------- MODULE PaidServices -----------------------------
(****************************************************************************)
(* What an organization pays for besides tickets: subscriptions, each valid *)
(* from one day to another, and the highlighting of an event.               *)
(*                                                                          *)
(* Creating one opens its payment in the same database transaction; the     *)
(* payment's callback switches it on; an hourly task recomputes which       *)
(* subscriptions are active, from rows it has read all at once.             *)
(****************************************************************************)
EXTENDS Integers, FiniteSets, TLC

CONSTANTS
  Plan,       \* the subscriptions an organization may ask for
  PlanDays,   \* PlanDays[s]: validity_days_range * unity_time_number
  Spot,       \* the highlightings that may be asked for one event
  HookWorker, \* web workers that answer the gateway's callbacks
  MaxDay,     \* bound: the last day of the runs
  MaxEdits    \* bound: edits of a subscription

ASSUME PlanDaysAssumption == PlanDays \in [Plan -> Nat]
ASSUME MaxDayAssumption   == MaxDay \in Nat /\ MaxEdits \in Nat
ASSUME PlansAreNotSpots   == Plan \cap Spot = {} /\ "none" \notin Spot

VARIABLES
  today,          \* the date
  plan,           \* plan[s]: the Subscription row, or NoPlan
  subscribeUntil, \* Organization.subscribe_until; -1 for null
  highlight,      \* the event's EventHighlighting row, or NoHighlight
  payment,        \* payment[x]: status of the transaction of x
  tooLate,        \* payments that were completed more than ten minutes ago
  hook,           \* hook[w]: the callback w is answering
  sweep,          \* the hourly task
  edits,          \* edits of subscriptions so far: only the bound reads it
  muddled,        \* observation only: see OrderlyPeriods
  crossed         \* payments that two callbacks were about at once (history)

paidVars ==
  <<today, plan, subscribeUntil, highlight, payment, tooLate, hook, sweep, edits,
    muddled, crossed>>

NoPlan      == [created |-> FALSE]
NoHighlight == [spot |-> "none"]
NoHook      == [pc |-> "waiting"]
NoSweep     == [pc |-> "idle"]

PaidInit ==
  /\ today          = 0
  /\ plan           = [s \in Plan |-> NoPlan]
  /\ subscribeUntil = -1
  /\ highlight      = NoHighlight
  /\ payment        = [x \in Plan \cup Spot |-> "none"]
  /\ tooLate        = {}
  /\ hook           = [w \in HookWorker |-> NoHook]
  /\ sweep          = NoSweep
  /\ edits          = 0
  /\ muddled        = FALSE
  /\ crossed        = {}

PaymentMade(x) == payment[x] \in {"PAID", "RESOLVED"}
PaymentOver(x) == payment[x] \in {"PAID", "RESOLVED", "FAILED"}

\* Subscription.objects, which does not see what was soft-deleted.
Visible(s)     == plan[s].created /\ ~plan[s].deleted
Covers(row)    == row.start <= today /\ today <= row.end

\* Organization.have_active_subscription
HaveActiveSubscription == \E s \in Plan : Visible(s) /\ plan[s].active /\ Covers(plan[s])

NextDay ==
  /\ today < MaxDay
  /\ today' = today + 1
  /\ tooLate' = {x \in Plan \cup Spot : PaymentOver(x)}
  /\ UNCHANGED <<plan, subscribeUntil, highlight, payment, hook, sweep, edits, muddled, crossed>>

------------------------------------------------------------------------------
(* Subscriptions: SubscriptionCreationSerializer and the two viewsets       *)

\* (A faulty variant: the new period begins on the last day of the old one.)
SameDayStart == IF subscribeUntil >= today THEN subscribeUntil ELSE today

StartDate == IF subscribeUntil >= today THEN subscribeUntil + 1 ELSE today

SomePlanIsOpen == \E s \in Plan : payment[s] = "IN_PROGRESS"

NewPlan(s, active) ==
  plan' = [plan EXCEPT ![s] = [created |-> TRUE, deleted |-> FALSE, active |-> active,
                               start |-> StartDate, end |-> StartDate + PlanDays[s]]]

\* Paid through the gateway: the row and its transaction commit together.
Subscribe(s) ==
  /\ plan[s] = NoPlan
  /\ NewPlan(s, FALSE)
  /\ payment' = [payment EXCEPT ![s] = "IN_PROGRESS"]
  /\ muddled' = (muddled \/ SomePlanIsOpen)
  /\ UNCHANGED <<today, subscribeUntil, highlight, tooLate, hook, sweep, edits, crossed>>

\* resolve_transaction by an administrator, or a coupon that leaves nothing to pay.
SubscribeResolved(s) ==
  /\ plan[s] = NoPlan
  /\ NewPlan(s, TRUE)
  /\ payment' = [payment EXCEPT ![s] = "RESOLVED"]
  /\ subscribeUntil' = StartDate + PlanDays[s]
  /\ muddled' = (muddled \/ SomePlanIsOpen)
  /\ UNCHANGED <<today, highlight, tooLate, hook, sweep, edits, crossed>>

\* SubscriptionSerializer leaves the dates and the status open.  The viewset of all the
\* subscriptions asks for an administrator; that of one organization names no permission for
\* an update, so that any account passes.
UpdateSubscription(s, start, end, active) ==
  /\ Visible(s) /\ edits < MaxEdits
  /\ edits' = edits + 1
  /\ plan' = [plan EXCEPT ![s].start = start, ![s].end = end, ![s].active = active]
  /\ muddled' = (muddled \/ start # plan[s].start \/ end # plan[s].end)
  /\ UNCHANGED <<today, subscribeUntil, highlight, payment, tooLate, hook, sweep, crossed>>

\* Soft deletion, by the owner or an administrator; subscribe_until stays.
DestroySubscription(s) ==
  /\ Visible(s)
  /\ plan' = [plan EXCEPT ![s].deleted = TRUE]
  /\ UNCHANGED <<today, subscribeUntil, highlight, payment, tooLate, hook, sweep, edits, muddled, crossed>>

------------------------------------------------------------------------------
(* The hourly task: SubscriptionManager.update_status, Subscription.active  *)

SweepGoesOn(todo, save, rows) ==
  sweep' = IF todo \cup save = {} THEN NoSweep
           ELSE [pc |-> "running", todo |-> todo, save |-> save,
                 rows |-> [s \in todo \cup save |-> rows[s]]]

SweepStart ==
  /\ sweep = NoSweep
  /\ \E s \in Plan : Visible(s)
  /\ SweepGoesOn({s \in Plan : Visible(s)}, {}, plan)
  /\ UNCHANGED <<today, plan, subscribeUntil, highlight, payment, tooLate, hook, edits, muddled, crossed>>

\* (A faulty variant: what has expired stays active.)
ComputedNever(s) == sweep.rows[s].active

\* The dates are those of the row as it was read, the payment is as it is now.
ComputedStatus(s) == PaymentMade(s) /\ Covers(sweep.rows[s])

SweepCheck(s) ==
  /\ sweep # NoSweep /\ s \in sweep.todo
  /\ LET computed == ComputedStatus(s) IN
     IF computed # sweep.rows[s].active
     THEN SweepGoesOn(sweep.todo \ {s}, sweep.save \cup {s},
                      [sweep.rows EXCEPT ![s].active = computed])
     ELSE SweepGoesOn(sweep.todo \ {s}, sweep.save, sweep.rows)
  /\ UNCHANGED <<today, plan, subscribeUntil, highlight, payment, tooLate, hook, edits, muddled, crossed>>

\* self.save(): the whole row, as it was read.
SweepSave(s) ==
  /\ sweep # NoSweep /\ s \in sweep.save
  /\ plan' = [plan EXCEPT ![s] = sweep.rows[s]]
  /\ SweepGoesOn(sweep.todo, sweep.save \ {s}, sweep.rows)
  /\ muddled' = (muddled \/ plan[s].start # sweep.rows[s].start \/ plan[s].end # sweep.rows[s].end)
  /\ UNCHANGED <<today, subscribeUntil, highlight, payment, tooLate, hook, edits, crossed>>

------------------------------------------------------------------------------
(* Highlighting: EventHighlightingSerializer and EventHighlightingViewSet   *)

\* The validator refuses an event that has a row, paid or not, so the viewset never comes
\* to replace an unpaid one.
MayHighlight(fromAdmin) == highlight = NoHighlight /\ (fromAdmin \/ HaveActiveSubscription)

\* Resolved at once by an administrator who says so, or by a coupon that leaves nothing to
\* pay, whoever orders.
CreateHighlighting(k, fromAdmin, resolve) ==
  /\ MayHighlight(fromAdmin)
  /\ payment[k] = "none"
  /\ highlight' = [spot |-> k, active |-> resolve]
  /\ payment' = [payment EXCEPT ![k] = IF resolve THEN "RESOLVED" ELSE "IN_PROGRESS"]
  /\ UNCHANGED <<today, plan, subscribeUntil, tooLate, hook, sweep, edits, muddled, crossed>>

\* hard_delete, which leaves the transaction.
DestroyHighlighting(fromAdmin) ==
  /\ highlight # NoHighlight
  /\ fromAdmin \/ HaveActiveSubscription
  /\ highlight' = NoHighlight
  /\ UNCHANGED <<today, plan, subscribeUntil, payment, tooLate, hook, sweep, edits, muddled, crossed>>

------------------------------------------------------------------------------
(* payments_callbacks and handle_payment_transaction for these two kinds    *)

HookAnswers(w, x) == hook[w].pc = "read" /\ hook[w].of = x

\* A paid transaction is refused, and one that ended more than ten minutes ago.
HookRead(w, x) ==
  /\ hook[w] = NoHook
  /\ payment[x] # "none" /\ ~PaymentMade(x) /\ x \notin tooLate
  /\ hook' = [hook EXCEPT ![w] = [pc |-> "read", of |-> x, seen |-> payment[x]]]
  /\ crossed' = IF \E v \in HookWorker : HookAnswers(v, x) THEN crossed \cup {x} ELSE crossed
  /\ UNCHANGED <<today, plan, subscribeUntil, highlight, payment, tooLate, sweep, edits, muddled>>

\* The signal looks at the status the transaction was read with.
HookSignals(w) == hook[w].seen = "IN_PROGRESS"

SavePayment(w, x, verdict) ==
  /\ payment' = [payment EXCEPT ![x] = verdict]
  /\ hook' = [hook EXCEPT ![w] = NoHook]

\* set_subscribe_until takes the end of whichever subscription was paid last.
HookSubscription(w, s, verdict) ==
  /\ HookAnswers(w, s) /\ HookSignals(w) /\ Visible(s)
  /\ SavePayment(w, s, verdict)
  /\ LET made == verdict = "PAID" IN
     /\ plan' = [plan EXCEPT ![s].active = made]
     /\ subscribeUntil' = IF made THEN plan[s].end ELSE subscribeUntil
  /\ muddled' = (muddled \/ payment[s] # "IN_PROGRESS")
  /\ UNCHANGED <<today, highlight, tooLate, sweep, edits, crossed>>

\* (A faulty variant: the event's row is switched, whichever payment it is for.)
HookAnyHighlighting(w, k, verdict) ==
  /\ HookAnswers(w, k) /\ HookSignals(w) /\ highlight # NoHighlight
  /\ SavePayment(w, k, verdict)
  /\ highlight' = [highlight EXCEPT !.active = (verdict = "PAID")]
  /\ UNCHANGED <<today, plan, subscribeUntil, tooLate, sweep, edits, muddled, crossed>>

HookHighlighting(w, k, verdict) ==
  /\ HookAnswers(w, k) /\ HookSignals(w) /\ highlight.spot = k
  /\ SavePayment(w, k, verdict)
  /\ highlight' = [highlight EXCEPT !.active = (verdict = "PAID")]
  /\ UNCHANGED <<today, plan, subscribeUntil, tooLate, sweep, edits, muddled, crossed>>

\* The row has gone: DoesNotExist rolls the callback back, and the payment is not recorded.
HookFindsNothing(w, x) ==
  /\ HookAnswers(w, x) /\ HookSignals(w)
  /\ IF x \in Plan THEN ~Visible(x) ELSE highlight.spot # x
  /\ hook' = [hook EXCEPT ![w] = NoHook]
  /\ UNCHANGED <<today, plan, subscribeUntil, highlight, payment, tooLate, sweep, edits, muddled, crossed>>

\* A transaction that was read failed changes its status, and nothing else.
HookLate(w, x, verdict) ==
  /\ HookAnswers(w, x) /\ ~HookSignals(w)
  /\ SavePayment(w, x, verdict)
  /\ muddled' = TRUE
  /\ UNCHANGED <<today, plan, subscribeUntil, highlight, tooLate, sweep, edits, crossed>>

------------------------------------------------------------------------------
PaidNext ==
  \/ NextDay \/ SweepStart
  \/ \E s \in Plan : \/ Subscribe(s) \/ SubscribeResolved(s) \/ DestroySubscription(s)
                     \/ SweepCheck(s) \/ SweepSave(s)
                     \/ \E start, end \in {today, MaxDay}, active \in BOOLEAN :
                          UpdateSubscription(s, start, end, active)
  \/ \E fromAdmin, resolve \in BOOLEAN, k \in Spot : CreateHighlighting(k, fromAdmin, resolve)
  \/ \E fromAdmin \in BOOLEAN : DestroyHighlighting(fromAdmin)
  \/ \E w \in HookWorker, x \in Plan \cup Spot : HookRead(w, x) \/ HookFindsNothing(w, x)
  \/ \E w \in HookWorker, verdict \in {"PAID", "FAILED"} :
       \/ \E s \in Plan : HookSubscription(w, s, verdict)
       \/ \E k \in Spot : HookHighlighting(w, k, verdict)
       \/ \E x \in Plan \cup Spot : HookLate(w, x, verdict)

\* The task runs every hour, and its threads go through every row it has read.
PaidFairness ==
  /\ WF_paidVars(SweepStart)
  /\ \A s \in Plan : WF_paidVars(SweepCheck(s)) /\ WF_paidVars(SweepSave(s))

PaidSpec == PaidInit /\ [][PaidNext]_paidVars /\ PaidFairness

------------------------------------------------------------------------------
StatusIsDue(s) == plan[s].active = (PaymentMade(s) /\ Covers(plan[s]))

\* An hour after the days, a payment or an edit have put a subscription's status
\* at odds with its payment and its dates, the task has put it right, however its stale
\* saves meet with theirs.
StatusComesRight == \A s \in Plan : Visible(s) ~> (~Visible(s) \/ StatusIsDue(s))

Overlap(s, t) == plan[s].start <= plan[t].end /\ plan[t].start <= plan[s].end

PaidPeriodsOverlap ==
  \E s, t \in Plan : /\ s # t
                     /\ plan[s].created /\ PaymentMade(s)
                     /\ plan[t].created /\ PaymentMade(t)
                     /\ Overlap(s, t)

\* As long as no subscription was created while another waited for its payment, no payment
\* was approved after it had failed, and no date was edited, no day is paid for twice:
\* deletions, failures and the task's stale saves notwithstanding.
OrderlyPeriods == ~muddled => ~PaidPeriodsOverlap

\* SubscriptionCreationSerializer.create: "Start one day after the last subscription end
\* date".  A day is paid for once.
PaidPeriodsDisjoint == ~PaidPeriodsOverlap

\* An event is shown in front only by the row whose own payment was made: a callback for a
\* row that was deleted and created again does not switch on its successor.  It takes two
\* callbacks at once for one payment, a failure after an approval, to leave it on unpaid.
SerialHighlightIsPaidFor ==
  highlight # NoHighlight /\ highlight.active /\ highlight.spot \notin crossed =>
    PaymentMade(highlight.spot)

\* Both: what runs was paid for, and paid for once.
PaidServicesSound == OrderlyPeriods /\ SerialHighlightIsPaidFor
==============================================================================
