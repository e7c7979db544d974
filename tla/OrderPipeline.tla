---------------------------- MODULE OrderPipeline ----------------------------
(****************************************************************************)
(* From an order to its e-tickets: the web request that creates an order    *)
(* and opens its payment, the gateway's payment callbacks, the Django       *)
(* signals they set off, and the Celery task that issues the e-tickets,     *)
(* credits the organisation and updates the ticket's remaining quantity.    *)
(*                                                                          *)
(* One ticket type of one event of one organisation is modelled: its orders *)
(* are the ones that contend for the same rows.  The database is PostgreSQL *)
(* at READ COMMITTED: a step that reads sees what is committed, a step that *)
(* ends a transaction publishes all its writes, and a transaction that has  *)
(* updated a row keeps every other writer of that row waiting until it      *)
(* ends.  Messages to the Celery broker are not part of any transaction.    *)
(****************************************************************************)
EXTENDS Integers, Sums

CONSTANTS
  Order,          \* the orders; each is created by one web request
  Handler,        \* web workers that answer the gateway's callbacks
  Worker,         \* Celery workers
  Quantity,       \* Quantity[o]: tickets of order o
  Income,         \* Income[o]: what order o brings the organisation
  AutoOrders,     \* gateway INTERNAL_AUTO or FREE_SHIPPING: nothing to pay
  Initial,        \* Ticket.available_quantity at the start; -1 is "unlimited"
  GatewayStatus,  \* the statuses of the entities in the gateway's events; "pending"
                  \* stands for any that payments_callbacks has no case for
  Faults,         \* what may go wrong: see the ASSUME below
  MaxDeliveries   \* bound on the callbacks accepted for one order

ASSUME OrderAssumption    == IsFiniteSet(Order)
ASSUME QuantityAssumption == Quantity \in [Order -> Nat \ {0}]
ASSUME IncomeAssumption   == Income \in [Order -> Nat]
ASSUME KindAssumption     == AutoOrders \subseteq Order
ASSUME InitialAssumption  == Initial \in Nat \cup {-1}
ASSUME StatusAssumption   ==
  GatewayStatus \subseteq {"approved", "canceled", "declined", "failed", "pending"}
\* "abort": a creation request dies between two writes; "rollback": a callback's
\* transaction is rolled back; "task": a generation task raises before its commit.
ASSUME FaultsAssumption   == Faults \subseteq {"abort", "rollback", "task"}
ASSUME BoundAssumption    == MaxDeliveries \in Nat

VARIABLES
  req,          \* req[o]: how far the request that creates o has come
  order,        \* order[o]: Order.status as committed
  tx,           \* tx[o]: Transaction.status of o's payment as committed
  updatedAt,    \* updatedAt[o]: age of Transaction.status_updated_at
  distributed,  \* distributed[o]: Order.is_income_distributed
  available,    \* Ticket.available_quantity
  participants, \* Event.participant_count
  balance,      \* OrganizationFinancialAccount.balance
  batches,      \* batches[o]: how many times o's e-tickets have been issued
  couponUses,   \* couponUses[o]: times the usage of o's coupon was recorded
  queue,        \* queue[o]: generation tasks of o waiting in the broker
  webhook,      \* webhook[o]: statuses of the events the gateway has emitted
  handler,      \* handler[h]: the callback web worker h is answering
  worker,       \* worker[w]: the generation task Celery worker w is running
  receipt,      \* receipt[o]: a receipt notification has been queued
  endNotice,    \* endNotice[o]: an end-of-processing notification has been queued
  \* Observation only: no action reads them, except deliveries, which bounds the runs.
  sent,         \* sent[o]: generation tasks ever queued for o
  undone,       \* undone[o]: callbacks rolled back after they queued a task for o
  missed,       \* missed[o]: generation tasks that ran before o was committed
  deliveries    \* deliveries[o]: callbacks accepted for o

requestVars == <<req>>
rowVars     == <<order, tx, updatedAt, distributed, batches, couponUses>>
counterVars == <<available, participants, balance>>
brokerVars  == <<queue, sent, missed, receipt, endNotice>>
gatewayVars == <<webhook, deliveries>>

vars == <<req, order, tx, updatedAt, distributed, available, participants, balance,
          batches, couponUses, queue, webhook, handler, worker, receipt, endNotice,
          sent, undone, missed, deliveries>>

------------------------------------------------------------------------------
(* Statuses and what the code derives from them.                            *)

RequestState == {"idle", "validated", "refused", "open", "answered", "aborted"}
OrderStatus  == {"absent", "SUBMITTED", "STARTED", "FINISHED"}
TxStatus     == {"absent", "PENDING", "IN_PROGRESS", "PAID", "RESOLVED",
                 "CANCELED", "FAILED"}

Completed(s) == s \in {"PAID", "CANCELED", "FAILED", "RESOLVED"}
\* (A faulty variant: what has ended has been paid.)
PaidIfCompleted(s) == Completed(s)

Paid(s) == s \in {"PAID", "RESOLVED"}

NoCallback == [pc |-> "idle"]
NoTask     == [pc |-> "idle"]

Callback == [pc : {"read", "saved", "written"}, order : Order, status : GatewayStatus,
             seenTx : TxStatus, seenOrder : OrderStatus, starts : BOOLEAN, fired : BOOLEAN]
Task     == [pc : {"loaded", "funded"}, order : Order, seenStatus : OrderStatus,
             seenDistributed : BOOLEAN, seenAvailable : Int, seenParticipants : Nat,
             seenBalance : Nat]

\* An e-ticket row is one of the Quantity[o] of a batch.
ETickets(o) == batches[o] * Quantity[o]
Issued == TotalOf([o \in Order |-> ETickets(o)], Order)

Init ==
  /\ req          = [o \in Order |-> "idle"]
  /\ order        = [o \in Order |-> "absent"]
  /\ tx           = [o \in Order |-> "absent"]
  /\ updatedAt    = [o \in Order |-> "never"]
  /\ distributed  = [o \in Order |-> FALSE]
  /\ available    = Initial
  /\ participants = 0
  /\ balance      = 0
  /\ batches      = [o \in Order |-> 0]
  /\ couponUses   = [o \in Order |-> 0]
  /\ queue        = [o \in Order |-> 0]
  /\ webhook      = [o \in Order |-> {}]
  /\ handler      = [h \in Handler |-> NoCallback]
  /\ worker       = [w \in Worker |-> NoTask]
  /\ receipt      = [o \in Order |-> FALSE]
  /\ endNotice    = [o \in Order |-> FALSE]
  /\ sent         = [o \in Order |-> 0]
  /\ undone       = [o \in Order |-> 0]
  /\ missed       = [o \in Order |-> 0]
  /\ deliveries   = [o \in Order |-> 0]

\* finalize_other_process, SUBMITTED -> STARTED: queue the receipt and the generation.
QueueGeneration(o) ==
  /\ queue'   = [queue EXCEPT ![o] = @ + 1]
  /\ sent'    = [sent EXCEPT ![o] = @ + 1]
  /\ receipt' = [receipt EXCEPT ![o] = TRUE]
  /\ UNCHANGED <<missed, endNotice>>

------------------------------------------------------------------------------
(* The web request that creates order o: create, admin_create or            *)
(* pseudo_anonymous, each of them one database transaction.                 *)

\* OrderItemSerializer.validate: a check of what is committed now, no reservation.
CanServe(o) == available = -1 \/ available >= Quantity[o]

Validate(o) ==
  /\ req[o] = "idle"
  /\ req' = [req EXCEPT ![o] = IF CanServe(o) THEN "validated" ELSE "refused"]
  /\ UNCHANGED <<rowVars, counterVars, brokerVars, gatewayVars, handler, worker, undone>>

\* Transaction.process_payment: nothing to pay, or a payment opened at the gateway.
PaymentOf(o) == IF o \in AutoOrders THEN "RESOLVED" ELSE "IN_PROGRESS"

\* What handle_payment_transaction has made of the order when the request ends: a
\* RESOLVED transaction starts it at once.
StatusOf(o) == IF o \in AutoOrders THEN "STARTED" ELSE "SUBMITTED"

\* The rows are saved, the payment is opened and the signals run, all in a transaction
\* whose rows nobody sees yet; a task queued meanwhile is already with the broker.
Submit(o) ==
  /\ req[o] = "validated"
  /\ req' = [req EXCEPT ![o] = "open"]
  /\ IF o \in AutoOrders THEN QueueGeneration(o) ELSE UNCHANGED brokerVars
  /\ UNCHANGED <<rowVars, counterVars, gatewayVars, handler, worker, undone>>

CommitSubmit(o) ==
  /\ req[o] = "open"
  /\ req'   = [req EXCEPT ![o] = "answered"]
  /\ order' = [order EXCEPT ![o] = StatusOf(o)]
  /\ tx'    = [tx EXCEPT ![o] = PaymentOf(o)]
  /\ couponUses' = [couponUses EXCEPT ![o] = IF o \in AutoOrders THEN @ + 1 ELSE @]
  /\ UNCHANGED <<updatedAt, distributed, batches, counterVars, brokerVars, gatewayVars,
                 handler, worker, undone>>

\* The gateway refuses ("Payment failed"), or the request dies: every row is rolled
\* back; what was queued, and a payment that was opened, are not.
AbortRequest(o) ==
  /\ "abort" \in Faults
  /\ req[o] \in {"validated", "open"}
  /\ req' = [req EXCEPT ![o] = "aborted"]
  /\ UNCHANGED <<rowVars, counterVars, brokerVars, gatewayVars, handler, worker, undone>>

------------------------------------------------------------------------------
(* The gateway (external): it emits events for a payment it has opened, in  *)
(* any order, until it has approved it, and delivers each of them any       *)
(* number of times, at any later time.                                      *)

GatewayEvent(o, s) ==
  /\ o \notin AutoOrders
  /\ req[o] \in {"open", "answered"}
  /\ "approved" \notin webhook[o] /\ s \notin webhook[o]
  /\ webhook' = [webhook EXCEPT ![o] = @ \cup {s}]
  /\ UNCHANGED <<requestVars, rowVars, counterVars, brokerVars, handler, worker, undone,
                 deliveries>>

------------------------------------------------------------------------------
(* payments_callbacks, one transaction per call, in web worker h.           *)

\* Transaction.objects.get(gateway_id=...): the row is committed, gateway_id and all.
Known(o) == tx[o] # "absent"

\* (A faulty variant: only the time limit is looked at.)
RefusedWhenOld(o) == Completed(tx[o]) /\ updatedAt[o] = "old"

\* The two refusals of the view; a refused call raises and changes nothing.
Refused(o) == Paid(tx[o]) \/ (Completed(tx[o]) /\ updatedAt[o] = "old")

\* (A faulty variant: the gateway's word is stored as it is.)
NewStatusVerbatim(seen, s) == s

\* The status the view gives a transaction that had status seen.
NewStatus(seen, s) ==
  CASE s = "approved"               -> "PAID"
    [] s \in {"canceled", "declined"} -> "CANCELED"
    [] s = "failed"                 -> "FAILED"
    [] OTHER                        -> seen

CallbackRead(h, o, s) ==
  /\ handler[h] = NoCallback
  /\ s \in webhook[o]
  /\ deliveries[o] < MaxDeliveries
  /\ Known(o) /\ ~Refused(o)
  /\ handler' = [handler EXCEPT ![h] =
       [pc |-> "read", order |-> o, status |-> s, seenTx |-> tx[o],
        seenOrder |-> "absent", starts |-> FALSE, fired |-> FALSE]]
  /\ deliveries' = [deliveries EXCEPT ![o] = @ + 1]
  /\ UNCHANGED <<requestVars, rowVars, counterVars, brokerVars, webhook, worker, undone>>

\* h has updated the transaction row of o and keeps it locked.
HoldsTx(h, o) == handler[h].pc \in {"saved", "written"} /\ handler[h].order = o
\* h has updated the order row of o and keeps it locked.
HoldsOrder(h, o) == HoldsTx(h, o) /\ handler[h].pc = "written" /\ handler[h].starts

Result(h) == NewStatus(handler[h].seenTx, handler[h].status)

\* (A faulty variant: a transaction whose payment is open is left out.)
SignalActsOnPending(h) == handler[h].seenTx = "PENDING" /\ Completed(Result(h))

\* handle_payment_transaction acts when a PENDING or IN_PROGRESS transaction completes.
SignalActs(h) ==
  /\ handler[h].seenTx \in {"PENDING", "IN_PROGRESS"}
  /\ Completed(Result(h))

\* (A faulty variant: the order starts however the payment ended.)
PaysOrderAnyway(h) == SignalActs(h)

\* ... and starts the order of a transaction that is now paid.
PaysOrder(h) == SignalActs(h) /\ Paid(Result(h))

\* _transaction.save() in the view, and the order the signal handler then reads.
CallbackSave(h) ==
  /\ handler[h].pc = "read"
  /\ \A g \in Handler : ~HoldsTx(g, handler[h].order)
  /\ handler' = [handler EXCEPT ![h] =
       IF PaysOrder(h)
       THEN [@ EXCEPT !.pc = "saved", !.seenOrder = order[handler[h].order]]
       ELSE [@ EXCEPT !.pc = "written"]]
  /\ UNCHANGED <<requestVars, rowVars, counterVars, brokerVars, gatewayVars, worker, undone>>

\* (Faulty variants: any save of STARTED is a first one; a status is compared wrongly.)
FirstStartOrAgain(h) == handler[h].seenOrder # "FINISHED"
FirstStartNever(h)   == handler[h].seenOrder = "STARTED"

\* The test of finalize_other_process on the order the handler read.
FirstStart(h) == handler[h].seenOrder = "SUBMITTED"

\* order.save(update_fields=['status']): the task is queued before the commit.
StartOrder(h) ==
  LET o == handler[h].order
  IN /\ handler[h].pc = "saved"
     /\ handler' = [handler EXCEPT ![h].pc = "written", ![h].starts = TRUE,
                                   ![h].fired = FirstStart(h)]
     /\ IF FirstStart(h) THEN QueueGeneration(o) ELSE UNCHANGED brokerVars
     /\ UNCHANGED <<requestVars, rowVars, counterVars, gatewayVars, worker, undone>>

CallbackCommit(h) ==
  LET o == handler[h].order
  IN /\ handler[h].pc = "written"
     /\ tx'        = [tx EXCEPT ![o] = Result(h)]
     /\ updatedAt' = [updatedAt EXCEPT ![o] = "recent"]
     /\ IF handler[h].starts
        THEN /\ order'      = [order EXCEPT ![o] = "STARTED"]
             /\ couponUses' = [couponUses EXCEPT ![o] = @ + 1]
        ELSE UNCHANGED <<order, couponUses>>
     /\ handler'   = [handler EXCEPT ![h] = NoCallback]
     /\ UNCHANGED <<requestVars, distributed, batches, counterVars, brokerVars,
                    gatewayVars, worker, undone>>

\* An exception after the save, or the death of the web worker.
CallbackRollback(h) ==
  LET o == handler[h].order
  IN /\ "rollback" \in Faults
     /\ handler[h].pc \in {"read", "saved", "written"}
     /\ handler' = [handler EXCEPT ![h] = NoCallback]
     /\ undone'  = [undone EXCEPT ![o] = IF handler[h].fired THEN @ + 1 ELSE @]
     /\ UNCHANGED <<requestVars, rowVars, counterVars, brokerVars, gatewayVars, worker>>

\* The ten minutes after which a completed transaction accepts no callback.
TenMinutesPass(o) ==
  /\ updatedAt[o] = "recent"
  /\ updatedAt' = [updatedAt EXCEPT ![o] = "old"]
  /\ UNCHANGED <<requestVars, order, tx, distributed, batches, couponUses, counterVars,
                 brokerVars, gatewayVars, handler, worker, undone>>

------------------------------------------------------------------------------
(* generate_etickets_for_order in Celery worker w.                          *)

\* The order, its ticket and its event are read before the transaction begins; an
\* order that is not committed yet raises DoesNotExist and the task is gone.
TaskLoad(w, o) ==
  /\ worker[w] = NoTask
  /\ queue[o] > 0
  /\ queue' = [queue EXCEPT ![o] = @ - 1]
  /\ missed' = [missed EXCEPT ![o] = IF order[o] = "absent" THEN @ + 1 ELSE @]
  /\ worker' = [worker EXCEPT ![w] =
       IF order[o] = "absent" THEN NoTask
       ELSE [pc |-> "loaded", order |-> o, seenStatus |-> order[o],
             seenDistributed |-> distributed[o], seenAvailable |-> available,
             seenParticipants |-> participants, seenBalance |-> 0]]
  /\ UNCHANGED <<requestVars, rowVars, counterVars, sent, receipt, endNotice, gatewayVars,
                 handler, undone>>

\* (A faulty variant: the account is credited before the transaction begins.)
TaskCreditEarly(w) ==
  /\ worker[w].pc = "loaded"
  /\ worker' = [worker EXCEPT ![w].pc = "funded", ![w].seenDistributed = TRUE]
  /\ balance' = balance + Income[worker[w].order]
  /\ UNCHANGED <<requestVars, rowVars, available, participants, brokerVars, gatewayVars,
                 handler, undone>>

\* distribute_the_income reads the account when the income is still to distribute.
TaskReadAccount(w) ==
  /\ worker[w].pc = "loaded"
  /\ worker' = [worker EXCEPT ![w].pc = "funded",
                  ![w].seenBalance = IF worker[w].seenDistributed THEN @ ELSE balance]
  /\ UNCHANGED <<requestVars, rowVars, counterVars, brokerVars, gatewayVars, handler,
                 undone>>

\* (A faulty variant: the quantity is subtracted twice.)
RemainingTwice(seen, o) == IF seen > 0 THEN seen - 2 * Quantity[o] ELSE seen

\* What the task leaves of the quantity it read: nothing is checked.
Remaining(seen, o) == IF seen > 0 THEN seen - Quantity[o] ELSE seen

\* The transaction's writes, all from what was read before.
TaskCommit(w) ==
  LET t == worker[w]
      o == t.order
  IN /\ t.pc = "funded"
     /\ \A h \in Handler : ~HoldsOrder(h, o)
     /\ balance'      = IF t.seenDistributed THEN balance ELSE t.seenBalance + Income[o]
     /\ distributed'  = [distributed EXCEPT ![o] = TRUE]
     /\ batches'      = [batches EXCEPT ![o] = @ + 1]
     /\ available'    = Remaining(t.seenAvailable, o)
     /\ participants' = t.seenParticipants + Quantity[o]
     /\ order'        = [order EXCEPT ![o] = "FINISHED"]
     /\ endNotice'    = [endNotice EXCEPT ![o] = @ \/ t.seenStatus = "STARTED"]
     /\ worker'       = [worker EXCEPT ![w] = NoTask]
     /\ UNCHANGED <<requestVars, tx, updatedAt, couponUses, queue, sent, missed, receipt,
                    gatewayVars, handler, undone>>

\* An exception in the task, or the death of its worker: no retry is configured.
TaskFail(w) ==
  /\ "task" \in Faults
  /\ worker[w].pc \in {"loaded", "funded"}
  /\ worker' = [worker EXCEPT ![w] = NoTask]
  /\ UNCHANGED <<requestVars, rowVars, counterVars, brokerVars, gatewayVars, handler,
                 undone>>

------------------------------------------------------------------------------
RequestStep(o) ==
  Validate(o) \/ Submit(o) \/ CommitSubmit(o) \/ AbortRequest(o)

CallbackStep(h) ==
  \/ \E o \in Order, s \in GatewayStatus : CallbackRead(h, o, s)
  \/ CallbackSave(h) \/ StartOrder(h) \/ CallbackCommit(h) \/ CallbackRollback(h)

TaskStep(w) ==
  \/ \E o \in Order : TaskLoad(w, o)
  \/ TaskReadAccount(w) \/ TaskCommit(w) \/ TaskFail(w)

Next ==
  \/ \E o \in Order : RequestStep(o) \/ TenMinutesPass(o)
  \/ \E o \in Order, s \in GatewayStatus : GatewayEvent(o, s)
  \/ \E h \in Handler : CallbackStep(h)
  \/ \E w \in Worker : TaskStep(w)

Spec == Init /\ [][Next]_vars

\* A started web request, an open database transaction and a Celery worker with a
\* task all go on; nobody is obliged to order, and the gateway not to call.
Fairness ==
  /\ \A o \in Order : WF_vars(Submit(o) \/ CommitSubmit(o))
  /\ \A h \in Handler : WF_vars(CallbackSave(h) \/ StartOrder(h) \/ CallbackCommit(h))
  /\ \A w \in Worker : /\ WF_vars(\E o \in Order : TaskLoad(w, o))
                       /\ WF_vars(TaskReadAccount(w) \/ TaskCommit(w))

FairSpec == Spec /\ Fairness

------------------------------------------------------------------------------
(* Properties.                                                              *)

TypeOK ==
  /\ req \in [Order -> RequestState]
  /\ order \in [Order -> OrderStatus]
  /\ tx \in [Order -> TxStatus]
  /\ updatedAt \in [Order -> {"never", "recent", "old"}]
  /\ distributed \in [Order -> BOOLEAN]
  /\ available \in Int
  /\ participants \in Nat
  /\ balance \in Nat
  /\ batches \in [Order -> Nat]
  /\ couponUses \in [Order -> Nat]
  /\ queue \in [Order -> Nat]
  /\ webhook \in [Order -> SUBSET GatewayStatus]
  /\ handler \in [Handler -> {NoCallback} \cup Callback]
  /\ worker \in [Worker -> {NoTask} \cup Task]
  /\ receipt \in [Order -> BOOLEAN]
  /\ endNotice \in [Order -> BOOLEAN]
  /\ sent \in [Order -> Nat]
  /\ undone \in [Order -> Nat]
  /\ missed \in [Order -> Nat]
  /\ deliveries \in [Order -> Nat]

\* The gateway has approved the payment of o, or o has nothing to pay.
Authorised(o) == o \in AutoOrders \/ "approved" \in webhook[o]

\* No e-ticket, no started order, no recorded coupon use and no paid transaction
\* without an approved payment: duplicated and reordered events, two callbacks
\* racing on one transaction, rollbacks and lost tasks included (the chain from
\* payments_callbacks through both signal handlers to generate_etickets_for_order).
NothingWithoutApproval ==
  \A o \in Order :
    (batches[o] > 0 \/ order[o] \in {"STARTED", "FINISHED"} \/ couponUses[o] > 0
       \/ Paid(tx[o])) => Authorised(o)

\* Whatever callbacks race, no order is given a second batch of e-tickets, unless a
\* callback that had queued the first one was rolled back.  The task itself checks
\* nothing: the lock on the transaction's row and the SUBMITTED -> STARTED test of
\* finalize_other_process are all that prevents it.
NoSecondBatch == \A o \in Order : batches[o] <= 1 + undone[o]

\* The unlocked read-modify-writes of the task may forget a sale, never a seat: what
\* available_quantity leaves open and what is issued always cover the initial quantity.
NoSeatLost == available >= Initial - Issued

\* What the batches issued have brought the organisation.
Earned == TotalOf([o \in Order |-> batches[o] * Income[o]], Order)

\* The same for the account and the participant count: lost updates only lower them,
\* an income is never there that no batch of e-tickets stands for.
NothingInvented ==
  /\ balance <= Earned
  /\ participants <= Issued

\* A paid transaction is not final (two callbacks may race), but it is only undone by
\* a callback that had read it before it was paid, never by one that came later.
PaidIsLostOnlyToARace ==
  [][\A o \in Order :
       Paid(tx[o]) /\ ~Paid(tx'[o])
         => \E h \in Handler : /\ handler[h].pc = "written" /\ handler[h].order = o
                               /\ ~Paid(handler[h].seenTx)]_vars

\* A started order is finished: "Start e-ticket generation task" (finalize_other_process)
\* is followed by the task's end, if nothing fails.  It is not so in the code.
StartedIsFinished == \A o \in Order : order[o] = "STARTED" ~> order[o] = "FINISHED"

\* What is so: a started order is finished unless its task ran before the order was
\* committed, however its payment was tried before.
StartedInTimeIsFinished ==
  \A o \in Order : order[o] = "STARTED" /\ missed[o] = 0 ~> order[o] = "FINISHED"

\* A paid order is finished: the e-tickets come "after receiving transaction paid
\* signal from fedapay" (finalize_other_process), if nothing fails.  Not so either.
PaidIsServed == \A o \in Order : Paid(tx[o]) ~> order[o] = "FINISHED"

\* What is so: a paid order is finished unless its task ran too early or the gateway had
\* reported before that the payment ended unpaid.
Unfailed(o) == webhook[o] \cap {"canceled", "declined", "failed"} = {}
PaidInTimeIsServed ==
  \A o \in Order : Paid(tx[o]) /\ Unfailed(o) /\ missed[o] = 0 ~> order[o] = "FINISHED"

\* The pipeline implements the box office.
Office == INSTANCE BoxOffice
  WITH authorised <- {o \in Order : Authorised(o)},
       issued     <- [o \in Order |-> ETickets(o)]
ImplementsBoxOffice == Office!Spec
==============================================================================
