------------------------- MODULE OrderPipelineProofs -------------------------
(****************************************************************************)
(* Theorems about OrderPipeline, for every set of orders, web workers and   *)
(* Celery workers, every quantity and every fault; and about TicketSales,   *)
(* where sellers have their part of the ticket.                             *)
(****************************************************************************)
EXTENDS TicketSales, SumLemmas, FiniteSetTheorems, TLAPS

\* What a handler or a worker that is not idle holds.
LEMMA BusyType ==
  ASSUME TypeOK
  PROVE  /\ \A h \in Handler : handler[h].pc # "idle" => handler[h] \in Callback
         /\ \A w \in Worker : worker[w].pc # "idle" => worker[w] \in Task
  BY DEF TypeOK, NoCallback, NoTask

\* The view gives a transaction a status of Transaction.
LEMMA NewStatusType ==
  ASSUME NEW seen \in TxStatus, NEW s \in GatewayStatus
  PROVE  NewStatus(seen, s) \in TxStatus
  BY DEF NewStatus, TxStatus

LEMMA TypeStep == TypeOK /\ [Next]_vars => TypeOK'
<1> SUFFICES ASSUME TypeOK, [Next]_vars PROVE TypeOK'
  OBVIOUS
<1> USE DEF TypeOK, requestVars, rowVars, counterVars, brokerVars, gatewayVars
<1>1. ASSUME NEW o \in Order, RequestStep(o) PROVE TypeOK'
  <2>1. CASE Validate(o)
    BY <2>1 DEF Validate, RequestState
  <2>2. CASE Submit(o)
    <3>1. CASE o \in AutoOrders
      <4>1. /\ queue' = [queue EXCEPT ![o] = @ + 1] /\ sent' = [sent EXCEPT ![o] = @ + 1]
            /\ receipt' = [receipt EXCEPT ![o] = TRUE] /\ endNotice' = endNotice
            /\ missed' = missed
        BY <2>2, <3>1 DEF Submit, QueueGeneration
      <4>2. req' \in [Order -> RequestState]
        BY <2>2 DEF Submit, RequestState
      <4> QED
        BY <2>2, <4>1, <4>2 DEF Submit
    <3>2. CASE o \notin AutoOrders
      BY <2>2, <3>2 DEF Submit, RequestState
    <3> QED
      BY <3>1, <3>2
  <2>3. CASE CommitSubmit(o)
    BY <2>3 DEF CommitSubmit, PaymentOf, StatusOf, RequestState, OrderStatus, TxStatus
  <2>4. CASE AbortRequest(o)
    BY <2>4 DEF AbortRequest, RequestState
  <2> QED
    BY <1>1, <2>1, <2>2, <2>3, <2>4 DEF RequestStep
<1>2. ASSUME NEW o \in Order, TenMinutesPass(o) PROVE TypeOK'
  BY <1>2 DEF TenMinutesPass
<1>3. ASSUME NEW o \in Order, NEW s \in GatewayStatus, GatewayEvent(o, s) PROVE TypeOK'
  BY <1>3 DEF GatewayEvent
<1>4. ASSUME NEW h \in Handler, CallbackStep(h) PROVE TypeOK'
  <2>1. ASSUME NEW o \in Order, NEW s \in GatewayStatus, CallbackRead(h, o, s) PROVE TypeOK'
    BY <2>1 DEF CallbackRead, Callback, OrderStatus
  <2>2. CASE CallbackSave(h)
    <3>1. handler[h] \in Callback
      BY <2>2, BusyType DEF CallbackSave
    <3>2. order[handler[h].order] \in OrderStatus
      BY <3>1 DEF Callback
    <3>3. handler'[h] \in Callback
      BY <2>2, <3>1, <3>2 DEF CallbackSave, Callback
    <3> QED
      BY <2>2, <3>3 DEF CallbackSave
  <2>3. CASE StartOrder(h)
    <3>1. handler[h] \in Callback
      BY <2>3, BusyType DEF StartOrder
    <3>2. handler'[h] \in Callback
      BY <2>3, <3>1 DEF StartOrder, FirstStart, Callback
    <3>3. /\ queue' \in [Order -> Nat] /\ sent' \in [Order -> Nat]
          /\ receipt' \in [Order -> BOOLEAN] /\ endNotice' \in [Order -> BOOLEAN]
          /\ missed' \in [Order -> Nat]
      <4>1. CASE FirstStart(h)
        <5>1. /\ queue' = [queue EXCEPT ![handler[h].order] = @ + 1]
              /\ sent' = [sent EXCEPT ![handler[h].order] = @ + 1]
              /\ receipt' = [receipt EXCEPT ![handler[h].order] = TRUE]
              /\ endNotice' = endNotice /\ missed' = missed
          BY <2>3, <4>1 DEF StartOrder, QueueGeneration
        <5> QED
          BY <3>1, <5>1 DEF Callback
      <4>2. CASE ~FirstStart(h)
        BY <2>3, <3>1, <4>2 DEF StartOrder
      <4> QED
        BY <4>1, <4>2
    <3> QED
      BY <2>3, <3>2, <3>3 DEF StartOrder
  <2>4. CASE CallbackCommit(h)
    <3>1. handler[h] \in Callback
      BY <2>4, BusyType DEF CallbackCommit
    <3>2. Result(h) \in TxStatus
      BY <3>1, NewStatusType DEF Result, Callback
    <3>3. tx' \in [Order -> TxStatus] /\ updatedAt' \in [Order -> {"never", "recent", "old"}]
      BY <2>4, <3>2 DEF CallbackCommit
    <3>4. order' \in [Order -> OrderStatus] /\ couponUses' \in [Order -> Nat]
      <4>1. CASE handler[h].starts
        BY <2>4, <4>1 DEF CallbackCommit, OrderStatus
      <4>2. CASE ~handler[h].starts
        BY <2>4, <4>2 DEF CallbackCommit
      <4> QED
        BY <4>1, <4>2
    <3> QED
      BY <2>4, <3>3, <3>4 DEF CallbackCommit
  <2>5. CASE CallbackRollback(h)
    BY <2>5, BusyType DEF CallbackRollback, Callback
  <2> QED
    BY <1>4, <2>1, <2>2, <2>3, <2>4, <2>5 DEF CallbackStep
<1>5. ASSUME NEW w \in Worker, TaskStep(w) PROVE TypeOK'
  <2>1. ASSUME NEW o \in Order, TaskLoad(w, o) PROVE TypeOK'
    BY <2>1 DEF TaskLoad, Task
  <2>2. CASE TaskReadAccount(w)
    <3>1. worker[w] \in Task
      BY <2>2, BusyType DEF TaskReadAccount
    <3>2. worker'[w] \in Task
      <4>1. CASE worker[w].seenDistributed
        BY <2>2, <3>1, <4>1 DEF TaskReadAccount, Task
      <4>2. CASE ~worker[w].seenDistributed
        BY <2>2, <3>1, <4>2 DEF TaskReadAccount, Task
      <4> QED
        BY <4>1, <4>2
    <3> QED
      BY <2>2, <3>2 DEF TaskReadAccount
  <2>3. CASE TaskCommit(w)
    <3>1. worker[w] \in Task
      BY <2>3, BusyType DEF TaskCommit
    <3>2. /\ balance' \in Nat /\ participants' \in Nat
      <4>1. /\ Quantity[worker[w].order] \in Nat /\ Income[worker[w].order] \in Nat
            /\ worker[w].seenBalance \in Nat /\ worker[w].seenParticipants \in Nat
        BY <3>1, QuantityAssumption, IncomeAssumption DEF Task
      <4>2. participants' = worker[w].seenParticipants + Quantity[worker[w].order]
        BY <2>3 DEF TaskCommit
      <4>3. \/ balance' = balance
            \/ balance' = worker[w].seenBalance + Income[worker[w].order]
        BY <2>3 DEF TaskCommit
      <4> QED
        BY <4>1, <4>2, <4>3
    <3>3. available' \in Int
      BY <2>3, <3>1, QuantityAssumption DEF TaskCommit, Remaining, Task
    <3>4. /\ distributed' \in [Order -> BOOLEAN] /\ order' \in [Order -> OrderStatus]
          /\ endNotice' \in [Order -> BOOLEAN] /\ batches' \in [Order -> Nat]
      BY <2>3, <3>1 DEF TaskCommit, Task, OrderStatus
    <3> QED
      BY <2>3, <3>2, <3>3, <3>4 DEF TaskCommit
  <2>4. CASE TaskFail(w)
    BY <2>4 DEF TaskFail
  <2> QED
    BY <1>5, <2>1, <2>2, <2>3, <2>4 DEF TaskStep
<1>6. CASE UNCHANGED vars
  BY <1>6 DEF vars
<1> QED
  BY <1>1, <1>2, <1>3, <1>4, <1>5, <1>6 DEF Next

\* Every variable keeps its type (TypeOK), whatever the constants.
THEOREM TypeCorrect == Spec => []TypeOK
<1>1. Init => TypeOK
  BY InitialAssumption DEF Init, TypeOK, RequestState, OrderStatus, TxStatus
<1> QED
  BY <1>1, TypeStep, PTL DEF Spec

------------------------------------------------------------------------------
(* Where rows and callbacks come from.                                      *)

\* No row of o is committed yet.
Early(o) == req[o] # "answered"

\* Rows appear with their request; a callback is about a transaction whose payment is
\* open, carries a status the gateway has emitted, and has not read it as paid.
Origins ==
  /\ \A o \in Order : Early(o) => order[o] = "absent" /\ tx[o] = "absent"
  /\ \A o \in AutoOrders : webhook[o] = {}
  /\ \A h \in Handler : handler[h].pc # "idle" =>
       /\ ~Early(handler[h].order)
       /\ handler[h].status \in webhook[handler[h].order]
       /\ ~Paid(handler[h].seenTx) /\ handler[h].seenTx # "absent"
  /\ \A w \in Worker : worker[w].pc # "idle" => ~Early(worker[w].order)

LEMMA NewStatusPresent ==
  ASSUME NEW seen, seen # "absent", NEW s
  PROVE  NewStatus(seen, s) # "absent"
  BY DEF NewStatus

LEMMA OriginsStep == TypeOK /\ Origins /\ [Next]_vars => Origins'
<1> SUFFICES ASSUME TypeOK, Origins, [Next]_vars PROVE Origins'
  OBVIOUS
<1> USE DEF TypeOK, Origins, Early, Paid, requestVars, rowVars, counterVars, brokerVars,
            gatewayVars
<1>1. ASSUME NEW o \in Order, RequestStep(o) PROVE Origins'
  <2>1. CASE Validate(o)
    BY <2>1 DEF Validate
  <2>2. CASE Submit(o)
    BY <2>2 DEF Submit
  <2>3. CASE CommitSubmit(o)
    BY <2>3 DEF CommitSubmit, PaymentOf, StatusOf
  <2>4. CASE AbortRequest(o)
    BY <2>4 DEF AbortRequest
  <2> QED
    BY <1>1, <2>1, <2>2, <2>3, <2>4 DEF RequestStep
<1>2. ASSUME NEW o \in Order, TenMinutesPass(o) PROVE Origins'
  BY <1>2 DEF TenMinutesPass
<1>3. ASSUME NEW o \in Order, NEW s \in GatewayStatus, GatewayEvent(o, s) PROVE Origins'
  BY <1>3, BusyType DEF GatewayEvent, Callback
<1>4. ASSUME NEW h \in Handler, CallbackStep(h) PROVE Origins'
  <2>1. ASSUME NEW o \in Order, NEW s \in GatewayStatus, CallbackRead(h, o, s) PROVE Origins'
    BY <2>1 DEF CallbackRead, Known, Refused
  <2>2. CASE CallbackSave(h)
    BY <2>2, BusyType DEF CallbackSave, Callback
  <2>3. CASE StartOrder(h)
    BY <2>3, BusyType DEF StartOrder, Callback
  <2>4. CASE CallbackCommit(h)
    BY <2>4, BusyType, NewStatusPresent DEF CallbackCommit, Result, Callback, NoCallback
  <2>5. CASE CallbackRollback(h)
    BY <2>5, BusyType DEF CallbackRollback, Callback, NoCallback
  <2> QED
    BY <1>4, <2>1, <2>2, <2>3, <2>4, <2>5 DEF CallbackStep
<1>5. ASSUME NEW w \in Worker, TaskStep(w) PROVE Origins'
  <2>1. ASSUME NEW o \in Order, TaskLoad(w, o) PROVE Origins'
    BY <2>1 DEF TaskLoad, NoTask
  <2>2. CASE TaskReadAccount(w)
    BY <2>2, BusyType DEF TaskReadAccount, Task
  <2>3. CASE TaskCommit(w)
    BY <2>3, BusyType DEF TaskCommit, NoTask, Task
  <2>4. CASE TaskFail(w)
    BY <2>4 DEF TaskFail, NoTask
  <2> QED
    BY <1>5, <2>1, <2>2, <2>3, <2>4 DEF TaskStep
<1>6. CASE UNCHANGED vars
  BY <1>6 DEF vars
<1> QED
  BY <1>1, <1>2, <1>3, <1>4, <1>5, <1>6 DEF Next

------------------------------------------------------------------------------
(* Nothing without approval.                                                *)

\* The strengthening that is inductive: a queued task, a running one and a callback
\* that is starting an order also stand for an approved payment.
Approved ==
  /\ NothingWithoutApproval
  /\ \A o \in Order : queue[o] > 0 => Authorised(o)
  /\ \A w \in Worker : worker[w].pc # "idle" => Authorised(worker[w].order)
  /\ \A h \in Handler : /\ handler[h].pc = "saved" => Paid(Result(h))
                        /\ handler[h].pc # "idle" /\ handler[h].starts => Paid(Result(h))

\* Only an approval gives a transaction that was not paid a paid status.
LEMMA PaidByApproval ==
  ASSUME NEW seen, ~Paid(seen), NEW s, Paid(NewStatus(seen, s))
  PROVE  s = "approved"
  BY DEF NewStatus, Paid

LEMMA ApprovedStep == TypeOK /\ Origins /\ Approved /\ [Next]_vars => Approved'
<1> SUFFICES ASSUME TypeOK, Origins, Approved, [Next]_vars PROVE Approved'
  OBVIOUS
<1>0. \A h \in Handler : handler[h].pc # "idle" /\ Paid(Result(h)) => Authorised(handler[h].order)
  BY PaidByApproval DEF Origins, Result, Authorised
<1> USE DEF TypeOK, Approved, NothingWithoutApproval, Authorised, Paid, requestVars, rowVars,
            counterVars, brokerVars, gatewayVars
<1>1. ASSUME NEW o \in Order, RequestStep(o) PROVE Approved'
  <2>1. CASE Validate(o)
    BY <2>1 DEF Validate, Result
  <2>2. CASE Submit(o)
    BY <2>2 DEF Submit, QueueGeneration, Result
  <2>3. CASE CommitSubmit(o)
    BY <2>3 DEF CommitSubmit, PaymentOf, StatusOf, Result
  <2>4. CASE AbortRequest(o)
    BY <2>4 DEF AbortRequest, Result
  <2> QED
    BY <1>1, <2>1, <2>2, <2>3, <2>4 DEF RequestStep
<1>2. ASSUME NEW o \in Order, TenMinutesPass(o) PROVE Approved'
  BY <1>2 DEF TenMinutesPass, Result
<1>3. ASSUME NEW o \in Order, NEW s \in GatewayStatus, GatewayEvent(o, s) PROVE Approved'
  BY <1>3, BusyType DEF GatewayEvent, Result, Task
<1>4. ASSUME NEW h \in Handler, CallbackStep(h) PROVE Approved'
  <2>1. ASSUME NEW o \in Order, NEW s \in GatewayStatus, CallbackRead(h, o, s) PROVE Approved'
    BY <2>1 DEF CallbackRead, Result
  <2>2. CASE CallbackSave(h)
    BY <2>2, BusyType DEF CallbackSave, PaysOrder, Result, Callback
  <2>3. CASE StartOrder(h)
    <3>0. handler[h].pc = "saved" /\ Paid(Result(h))
      BY <2>3 DEF StartOrder, Result
    <3>1. handler[h] \in Callback /\ Authorised(handler[h].order)
      BY <1>0, <3>0, BusyType
    <3>2. /\ \A g \in Handler : handler'[g].pc # "idle" => handler[g].pc # "idle"
          /\ \A g \in Handler : /\ handler'[g].order = handler[g].order
                                /\ handler'[g].seenTx = handler[g].seenTx
                                /\ handler'[g].status = handler[g].status
      BY <2>3, <3>1 DEF StartOrder, Callback
    <3>3. \A g \in Handler : /\ handler'[g].pc = "saved" => handler[g].pc = "saved"
                             /\ handler'[g].starts => handler[g].starts \/ handler[g].pc = "saved"
      BY <2>3, <3>1 DEF StartOrder, Callback
    <3>4. \A o \in Order : queue'[o] > 0 => Authorised(o)
      <4>1. CASE FirstStart(h)
        BY <2>3, <3>1, <4>1 DEF StartOrder, QueueGeneration, Callback
      <4>2. CASE ~FirstStart(h)
        BY <2>3, <4>2 DEF StartOrder
      <4> QED
        BY <4>1, <4>2
    <3>5. UNCHANGED <<rowVars, webhook, worker>>
      BY <2>3 DEF StartOrder
    <3>6. \A g \in Handler : Result(g)' = Result(g)
      BY <3>2 DEF Result
    <3>7. \A g \in Handler : /\ handler'[g].pc = "saved" => Paid(Result(g))
                             /\ handler'[g].pc # "idle" /\ handler'[g].starts => Paid(Result(g))
      BY <3>2, <3>3 DEF Result
    <3> QED
      BY <3>4, <3>5, <3>6, <3>7
  <2>4. CASE CallbackCommit(h)
    BY <1>0, <2>4, BusyType DEF CallbackCommit, Result, Callback, NoCallback
  <2>5. CASE CallbackRollback(h)
    BY <2>5, BusyType DEF CallbackRollback, Result, Callback, NoCallback
  <2> QED
    BY <1>4, <2>1, <2>2, <2>3, <2>4, <2>5 DEF CallbackStep
<1>5. ASSUME NEW w \in Worker, TaskStep(w) PROVE Approved'
  <2>1. ASSUME NEW o \in Order, TaskLoad(w, o) PROVE Approved'
    BY <2>1 DEF TaskLoad, NoTask, Result
  <2>2. CASE TaskReadAccount(w)
    BY <2>2, BusyType DEF TaskReadAccount, Task, Result
  <2>3. CASE TaskCommit(w)
    BY <2>3, BusyType DEF TaskCommit, NoTask, Task, Result
  <2>4. CASE TaskFail(w)
    BY <2>4 DEF TaskFail, NoTask, Result
  <2> QED
    BY <1>5, <2>1, <2>2, <2>3, <2>4 DEF TaskStep
<1>6. CASE UNCHANGED vars
  BY <1>6 DEF vars, Result
<1> QED
  BY <1>1, <1>2, <1>3, <1>4, <1>5, <1>6 DEF Next

LEMMA InitApproved == Init => TypeOK /\ Origins /\ Approved
  BY InitialAssumption, KindAssumption DEF Init, TypeOK, RequestState, OrderStatus, TxStatus, Origins, Early,
     Approved, NothingWithoutApproval, Authorised, Paid, NoCallback, NoTask

\* Nothing is started, issued, recorded or paid without an approved payment
\* (NothingWithoutApproval): callbacks duplicated, reordered and racing included.
THEOREM ApprovalRequired == Spec => []NothingWithoutApproval
<1>1. Approved => NothingWithoutApproval
  BY DEF Approved
<1> QED
  BY <1>1, InitApproved, TypeStep, OriginsStep, ApprovedStep, PTL DEF Spec

\* A paid transaction is only undone by a callback that had read it before
\* (PaidIsLostOnlyToARace): the view's refusal of paid transactions.
THEOREM PaidLostOnlyToARace == Spec => PaidIsLostOnlyToARace
<1> DEFINE Race ==
      \A o \in Order :
        Paid(tx[o]) /\ ~Paid(tx'[o])
          => \E h \in Handler : /\ handler[h].pc = "written" /\ handler[h].order = o
                                /\ ~Paid(handler[h].seenTx)
<1>1. TypeOK /\ Origins /\ [Next]_vars => [Race]_vars
  <2> SUFFICES ASSUME TypeOK, Origins, Next PROVE Race
    OBVIOUS
  <2> USE DEF TypeOK, Origins, Early, Paid, rowVars
  <2>1. ASSUME NEW o \in Order, RequestStep(o) \/ TenMinutesPass(o) PROVE Race
    BY <2>1 DEF RequestStep, Validate, Submit, CommitSubmit, AbortRequest, TenMinutesPass
  <2>2. ASSUME NEW o \in Order, NEW s \in GatewayStatus, GatewayEvent(o, s) PROVE Race
    BY <2>2 DEF GatewayEvent
  <2>3. ASSUME NEW h \in Handler, CallbackStep(h) PROVE Race
    <3>1. CASE CallbackCommit(h)
      BY <3>1 DEF CallbackCommit
    <3>2. CASE ~CallbackCommit(h)
      BY <2>3, <3>2 DEF CallbackStep, CallbackRead, CallbackSave, StartOrder, CallbackRollback
    <3> QED
      BY <3>1, <3>2
  <2>4. ASSUME NEW w \in Worker, TaskStep(w) PROVE Race
    BY <2>4 DEF TaskStep, TaskLoad, TaskReadAccount, TaskCommit, TaskFail
  <2> QED
    BY <2>1, <2>2, <2>3, <2>4 DEF Next
<1> QED
  BY <1>1, InitApproved, TypeStep, OriginsStep, PTL DEF Spec, PaidIsLostOnlyToARace

------------------------------------------------------------------------------
(* No second batch.                                                         *)

\* The tasks of o that are running.
Running(o) == {w \in Worker : worker[w].pc # "idle" /\ worker[w].order = o}

\* The strengthening that is inductive.  The transaction's row lock serialises the
\* callbacks of an order from their save on; who holds it with an order read as
\* SUBMITTED is the first to queue the task, and once the task is queued the order is
\* no longer SUBMITTED or the callback that queued it still holds the lock.
Serial ==
  /\ \A g, h \in Handler :
       /\ handler[g].pc \in {"saved", "written"} /\ handler[h].pc \in {"saved", "written"}
       /\ handler[g].order = handler[h].order
       => g = h
  /\ \A h \in Handler : handler[h].pc # "idle" /\ handler[h].fired =>
       /\ handler[h].pc = "written" /\ handler[h].starts
       /\ sent[handler[h].order] = undone[handler[h].order] + 1
  /\ \A h \in Handler : handler[h].pc = "saved" /\ handler[h].seenOrder = "SUBMITTED" =>
       sent[handler[h].order] = undone[handler[h].order]
  /\ \A o \in AutoOrders :
       /\ undone[o] = 0 /\ sent[o] <= 1
       /\ req[o] \in {"idle", "validated", "refused"} => sent[o] = 0
  /\ \A o \in Order \ AutoOrders :
       \/ sent[o] = undone[o]
       \/ /\ sent[o] = undone[o] + 1
          /\ \/ order[o] \in {"STARTED", "FINISHED"}
             \/ \E h \in Handler : handler[h].pc # "idle" /\ handler[h].order = o /\ handler[h].fired

\* Every batch, running task and waiting task of o was queued once.
Counted ==
  \A o \in Order : /\ IsFiniteSet(Running(o))
                   /\ batches[o] + queue[o] + Cardinality(Running(o)) <= sent[o]

\* A handler at work is on an order that is paid at the gateway.
LEMMA CallbackOrder ==
  ASSUME TypeOK, Origins
  PROVE  \A h \in Handler : handler[h].pc # "idle" => handler[h].order \in Order \ AutoOrders
  BY BusyType DEF Origins, Callback

LEMMA SerialStep == TypeOK /\ Origins /\ Serial /\ [Next]_vars => Serial'
<1> SUFFICES ASSUME TypeOK, Origins, Serial, [Next]_vars PROVE Serial'
  OBVIOUS
<1> USE DEF TypeOK, Serial, requestVars, rowVars, counterVars, brokerVars, gatewayVars
<1> USE KindAssumption
<1>1. ASSUME NEW o \in Order, RequestStep(o) PROVE Serial'
  <2>1. CASE Validate(o)
    BY <2>1 DEF Validate
  <2>2. CASE Submit(o)
    BY <2>2, CallbackOrder DEF Submit, QueueGeneration, Origins
  <2>3. CASE CommitSubmit(o)
    BY <2>3 DEF CommitSubmit, PaymentOf, StatusOf, Origins, Early
  <2>4. CASE AbortRequest(o)
    BY <2>4 DEF AbortRequest
  <2> QED
    BY <1>1, <2>1, <2>2, <2>3, <2>4 DEF RequestStep
<1>2. ASSUME NEW o \in Order, TenMinutesPass(o) PROVE Serial'
  BY <1>2 DEF TenMinutesPass
<1>3. ASSUME NEW o \in Order, NEW s \in GatewayStatus, GatewayEvent(o, s) PROVE Serial'
  BY <1>3 DEF GatewayEvent
<1>4. ASSUME NEW h \in Handler, CallbackStep(h) PROVE Serial'
  <2>1. ASSUME NEW o \in Order, NEW s \in GatewayStatus, CallbackRead(h, o, s) PROVE Serial'
    BY <2>1 DEF CallbackRead, NoCallback
  <2>2. CASE CallbackSave(h)
    BY <2>2, BusyType, CallbackOrder DEF CallbackSave, HoldsTx, Callback
  <2>3. CASE StartOrder(h)
    <3> DEFINE p == handler[h].order
    <3>1. /\ handler[h] \in Callback /\ handler[h].pc = "saved" /\ p \in Order \ AutoOrders
      BY <2>3, BusyType, CallbackOrder DEF StartOrder
    <3>2. /\ handler'[h] = [handler[h] EXCEPT !.pc = "written", !.starts = TRUE,
                                             !.fired = FirstStart(h)]
          /\ \A g \in Handler : g # h => handler'[g] = handler[g]
          /\ UNCHANGED <<order, req, undone>>
      BY <2>3 DEF StartOrder
    <3>3. /\ handler'[h].pc = "written" /\ handler'[h].starts /\ handler'[h].order = p
          /\ handler'[h].fired = FirstStart(h)
      BY <3>1, <3>2 DEF Callback
    <3>4. \A g \in Handler : g # h /\ handler[g].pc \in {"saved", "written"} => handler[g].order # p
      BY <3>1
    <3>5. \A g \in Handler : g # h /\ handler[g].pc # "idle" /\ handler[g].fired => handler[g].order # p
      BY <3>4
    <3>6. /\ \A o \in Order : o # p => sent'[o] = sent[o]
          /\ sent'[p] = IF FirstStart(h) THEN sent[p] + 1 ELSE sent[p]
      <4>1. CASE FirstStart(h)
        BY <2>3, <3>1, <4>1 DEF StartOrder, QueueGeneration
      <4>2. CASE ~FirstStart(h)
        BY <2>3, <4>2 DEF StartOrder
      <4>3. QED
        BY <4>1, <4>2
    <3>7. FirstStart(h) => sent[p] = undone[p]
      BY <3>1 DEF FirstStart
    <3> HIDE DEF p
    <3>8. \A g1, g2 \in Handler :
            /\ handler'[g1].pc \in {"saved", "written"} /\ handler'[g2].pc \in {"saved", "written"}
            /\ handler'[g1].order = handler'[g2].order
            => g1 = g2
      <4> SUFFICES ASSUME NEW g1 \in Handler, NEW g2 \in Handler, g1 # g2,
                          handler'[g1].pc \in {"saved", "written"},
                          handler'[g2].pc \in {"saved", "written"}
                   PROVE  handler'[g1].order # handler'[g2].order
        OBVIOUS
      <4>1. CASE g1 = h
        <5>1. handler'[g1].order = p /\ handler'[g2] = handler[g2]
          BY <3>2, <3>3, <4>1
        <5>2. QED
          BY <3>4, <4>1, <5>1
      <4>2. CASE g2 = h
        <5>1. handler'[g2].order = p /\ handler'[g1] = handler[g1]
          BY <3>2, <3>3, <4>2
        <5>2. QED
          BY <3>4, <4>2, <5>1
      <4>3. CASE g1 # h /\ g2 # h
        <5>1. handler'[g1] = handler[g1] /\ handler'[g2] = handler[g2]
          BY <3>2, <4>3
        <5>2. QED
          BY <5>1
      <4>4. QED
        BY <4>1, <4>2, <4>3
    <3>9. \A g \in Handler : handler'[g].pc # "idle" /\ handler'[g].fired =>
            /\ handler'[g].pc = "written" /\ handler'[g].starts
            /\ sent'[handler'[g].order] = undone'[handler'[g].order] + 1
      <4>1. ASSUME NEW g \in Handler, g # h, handler[g].pc # "idle", handler[g].fired
            PROVE  sent'[handler[g].order] = undone[handler[g].order] + 1
        <5>1. handler[g].order \in Order /\ handler[g].order # p
          BY <3>5, <4>1, CallbackOrder
        <5>2. QED
          BY <3>6, <4>1, <5>1
      <4>2. FirstStart(h) => sent'[p] = undone[p] + 1
        BY <3>6, <3>7
      <4>3. ASSUME NEW g \in Handler, handler'[g].pc # "idle", handler'[g].fired
            PROVE  /\ handler'[g].pc = "written" /\ handler'[g].starts
                   /\ sent'[handler'[g].order] = undone'[handler'[g].order] + 1
        <5>1. CASE g = h
          <6>1. /\ handler'[g].pc = "written" /\ handler'[g].starts /\ handler'[g].order = p
                /\ FirstStart(h) /\ undone' = undone
            BY <3>2, <3>3, <4>3, <5>1
          <6>2. QED
            BY <4>2, <6>1
        <5>2. CASE g # h
          <6>1. handler'[g] = handler[g] /\ undone' = undone
            BY <3>2, <5>2
          <6>2. QED
            BY <4>1, <4>3, <5>2, <6>1
        <5>3. QED
          BY <5>1, <5>2
      <4>4. QED
        BY <4>3
    <3>10. \A g \in Handler : handler'[g].pc = "saved" /\ handler'[g].seenOrder = "SUBMITTED" =>
             sent'[handler'[g].order] = undone'[handler'[g].order]
      <4>1. ASSUME NEW g \in Handler, g # h, handler[g].pc = "saved"
            PROVE  handler[g].order \in Order /\ handler[g].order # p
        BY <3>4, <4>1, CallbackOrder
      <4>2. ASSUME NEW g \in Handler, handler'[g].pc = "saved", handler'[g].seenOrder = "SUBMITTED"
            PROVE  sent'[handler'[g].order] = undone'[handler'[g].order]
        <5>1. g # h
          BY <3>3, <4>2
        <5>2. handler'[g] = handler[g] /\ undone' = undone
          BY <3>2, <5>1
        <5>3. handler[g].order \in Order /\ handler[g].order # p
          BY <4>1, <4>2, <5>1, <5>2
        <5>4. QED
          BY <3>6, <4>2, <5>2, <5>3
      <4>3. QED
        BY <4>2
    <3>11. \A o \in AutoOrders :
             /\ undone'[o] = 0 /\ sent'[o] <= 1
             /\ req'[o] \in {"idle", "validated", "refused"} => sent'[o] = 0
      BY <3>1, <3>2, <3>6
    <3>12. ASSUME NEW o \in Order \ AutoOrders
           PROVE  \/ sent'[o] = undone'[o]
                  \/ /\ sent'[o] = undone'[o] + 1
                     /\ \/ order'[o] \in {"STARTED", "FINISHED"}
                        \/ \E g \in Handler : /\ handler'[g].pc # "idle"
                                               /\ handler'[g].order = o /\ handler'[g].fired
      <4>1. CASE o = p /\ FirstStart(h)
        BY <3>2, <3>3, <3>6, <3>7, <4>1
      <4>2. CASE o = p /\ ~FirstStart(h)
        BY <3>2, <3>5, <3>6, <3>1, <4>2
      <4>3. CASE o # p
        <5>1. sent'[o] = sent[o] /\ undone' = undone /\ order' = order
          BY <3>2, <3>6, <4>3
        <5>2. ASSUME NEW g \in Handler, handler[g].order = o PROVE handler'[g] = handler[g]
          <6>1. g # h
            BY <4>3, <5>2 DEF p
          <6>2. QED
            BY <3>2, <6>1
        <5>3. \/ sent[o] = undone[o]
              \/ /\ sent[o] = undone[o] + 1
                 /\ \/ order[o] \in {"STARTED", "FINISHED"}
                    \/ \E g \in Handler : /\ handler[g].pc # "idle"
                                           /\ handler[g].order = o /\ handler[g].fired
          OBVIOUS
        <5>4. QED
          BY <5>1, <5>2, <5>3
      <4>4. QED
        BY <4>1, <4>2, <4>3
    <3>13. QED
      BY ONLY <3>8, <3>9, <3>10, <3>11, <3>12, Zenon DEF Serial
  <2>4. CASE CallbackCommit(h)
    BY <2>4, BusyType, CallbackOrder, SMTT(60) DEF CallbackCommit, Callback, NoCallback
  <2>5. CASE CallbackRollback(h)
    BY <2>5, BusyType, CallbackOrder DEF CallbackRollback, Callback, NoCallback
  <2> QED
    BY <1>4, <2>1, <2>2, <2>3, <2>4, <2>5 DEF CallbackStep
<1>5. ASSUME NEW w \in Worker, TaskStep(w) PROVE Serial'
  <2>1. ASSUME NEW o \in Order, TaskLoad(w, o) PROVE Serial'
    BY <2>1 DEF TaskLoad
  <2>2. CASE TaskReadAccount(w)
    BY <2>2 DEF TaskReadAccount
  <2>3. CASE TaskCommit(w)
    BY <2>3 DEF TaskCommit
  <2>4. CASE TaskFail(w)
    BY <2>4 DEF TaskFail
  <2> QED
    BY <1>5, <2>1, <2>2, <2>3, <2>4 DEF TaskStep
<1>6. CASE UNCHANGED vars
  BY <1>6 DEF vars
<1> QED
  BY <1>1, <1>2, <1>3, <1>4, <1>5, <1>6 DEF Next

LEMMA CountedStep == TypeOK /\ Counted /\ [Next]_vars => Counted'
<1> SUFFICES ASSUME TypeOK, Counted, [Next]_vars, NEW o \in Order
             PROVE  /\ IsFiniteSet(Running(o))'
                    /\ (batches[o] + queue[o] + Cardinality(Running(o)) <= sent[o])'
  BY DEF Counted
<1> USE DEF TypeOK, rowVars, brokerVars
<1> DEFINE Holds == /\ IsFiniteSet(Running(o))'
                    /\ (batches[o] + queue[o] + Cardinality(Running(o)) <= sent[o])'
<1>0. /\ IsFiniteSet(Running(o)) /\ Cardinality(Running(o)) \in Nat
      /\ batches[o] + queue[o] + Cardinality(Running(o)) <= sent[o]
      /\ batches[o] \in Nat /\ queue[o] \in Nat /\ sent[o] \in Nat
  BY FS_CardinalityType DEF Counted
\* Steps that leave the workers alone: a task is queued or nothing changes.
<1>1. ASSUME worker' = worker, batches' = batches,
             \/ queue' = queue /\ sent' = sent
             \/ \E p \in Order : /\ queue' = [queue EXCEPT ![p] = @ + 1]
                                 /\ sent' = [sent EXCEPT ![p] = @ + 1]
      PROVE  Holds
  <2>1. Running(o)' = Running(o)
    BY <1>1 DEF Running
  <2>2. batches'[o] = batches[o] /\ queue'[o] - queue[o] = sent'[o] - sent[o]
    BY <1>0, <1>1
  <2>3. queue'[o] \in Nat /\ sent'[o] \in Nat
    BY <1>0, <1>1
  <2> QED
    BY <1>0, <2>1, <2>2, <2>3
\* A worker takes a task.
<1>2. ASSUME NEW w \in Worker, NEW p \in Order, TaskLoad(w, p) PROVE Holds
  <2>1. /\ sent' = sent /\ batches' = batches /\ worker[w].pc = "idle" /\ queue[p] > 0
        /\ queue' = [queue EXCEPT ![p] = @ - 1]
    BY <1>2 DEF TaskLoad, NoTask
  <2>2. CASE Running(o)' = Running(o)
    BY <1>0, <2>1, <2>2
  <2>3. CASE Running(o)' # Running(o)
    <3>1. p = o /\ Running(o)' = Running(o) \cup {w} /\ w \notin Running(o)
      BY <1>2, <2>1, <2>3 DEF TaskLoad, Running, NoTask
    <3>2. IsFiniteSet(Running(o)') /\ Cardinality(Running(o)') = Cardinality(Running(o)) + 1
      BY <1>0, <3>1, FS_AddElement
    <3>3. queue'[o] = queue[o] - 1
      BY <2>1, <3>1
    <3> QED
      BY <1>0, <2>1, <3>2, <3>3
  <2> QED
    BY <2>2, <2>3
<1>3. ASSUME NEW w \in Worker, TaskReadAccount(w) PROVE Holds
  <2>1. Running(o)' = Running(o) /\ queue' = queue /\ sent' = sent /\ batches' = batches
    BY <1>3, BusyType DEF TaskReadAccount, Running, Task
  <2> QED
    BY <1>0, <2>1
\* A worker ends its task, and at most one batch is issued.
<1>4. ASSUME NEW w \in Worker, TaskCommit(w) \/ TaskFail(w) PROVE Holds
  <2>1. /\ worker[w] \in Task /\ worker[w].pc # "idle" /\ worker' = [worker EXCEPT ![w] = NoTask]
        /\ queue' = queue /\ sent' = sent
    BY <1>4, BusyType DEF TaskCommit, TaskFail
  <2>2. Running(o)' = Running(o) \ {w}
    BY <2>1 DEF Running, NoTask
  <2>3. /\ IsFiniteSet(Running(o)')
        /\ w \in Running(o) => Cardinality(Running(o)') = Cardinality(Running(o)) - 1
        /\ w \notin Running(o) => Running(o)' = Running(o)
    <3>1. /\ IsFiniteSet(Running(o) \ {w})
          /\ w \in Running(o) => Cardinality(Running(o) \ {w}) = Cardinality(Running(o)) - 1
      BY <1>0, FS_RemoveElement, Zenon
    <3> QED
      BY <2>2, <3>1
  <2>4. batches'[o] = batches[o] \/ (w \in Running(o) /\ batches'[o] = batches[o] + 1)
    BY <1>4, <2>1 DEF TaskCommit, TaskFail, Running, Task
  <2> QED
    BY <1>0, <2>1, <2>3, <2>4
<1>5. ASSUME NEW p \in Order, RequestStep(p) \/ TenMinutesPass(p) PROVE Holds
  BY <1>1, <1>5 DEF RequestStep, Validate, Submit, CommitSubmit, AbortRequest, TenMinutesPass, QueueGeneration
<1>6. ASSUME NEW p \in Order, NEW s \in GatewayStatus, GatewayEvent(p, s) PROVE Holds
  BY <1>1, <1>6 DEF GatewayEvent
<1>7. ASSUME NEW h \in Handler, CallbackStep(h) PROVE Holds
  <2>1. CASE StartOrder(h)
    BY <1>1, <2>1, BusyType DEF StartOrder, QueueGeneration, Callback
  <2>2. CASE ~StartOrder(h)
    BY <1>1, <1>7, <2>2 DEF CallbackStep, CallbackRead, CallbackSave, CallbackCommit, CallbackRollback
  <2> QED
    BY <2>1, <2>2
<1>8. CASE UNCHANGED vars
  BY <1>1, <1>8 DEF vars
<1> QED
  BY <1>2, <1>3, <1>4, <1>5, <1>6, <1>7, <1>8 DEF Next, TaskStep

\* No order gets a second batch of e-tickets, but for rolled back callbacks
\* (NoSecondBatch): the lock and the SUBMITTED -> STARTED test suffice.
THEOREM OneBatchPerOrder == Spec => []NoSecondBatch
<1>1. Init => Serial /\ Counted
  <2> SUFFICES ASSUME Init PROVE Serial /\ Counted
    OBVIOUS
  <2>1. Serial
    BY KindAssumption DEF Init, Serial, NoCallback
  <2>2. \A o \in Order : Running(o) = {}
    BY DEF Init, Running, NoTask
  <2>3. Counted
    <3>1. Cardinality({}) = 0 /\ IsFiniteSet({})
      BY FS_EmptySet
    <3>2. \A o \in Order : queue[o] = 0 /\ batches[o] = 0 /\ sent[o] = 0
      BY DEF Init
    <3>3. QED
      BY <2>2, <3>1, <3>2 DEF Counted
  <2> QED
    BY <2>1, <2>3
<1>2. TypeOK /\ Serial /\ Counted => NoSecondBatch
  <2> SUFFICES ASSUME TypeOK, Serial, Counted, NEW o \in Order
               PROVE  batches[o] <= 1 + undone[o]
    BY DEF NoSecondBatch
  <2>1. /\ batches[o] \in Nat /\ queue[o] \in Nat /\ sent[o] \in Nat /\ undone[o] \in Nat
        /\ Cardinality(Running(o)) \in Nat
    BY FS_CardinalityType DEF TypeOK, Counted
  <2>2. batches[o] <= sent[o]
    BY <2>1 DEF Counted
  <2>3. sent[o] <= 1 + undone[o]
    BY <2>1 DEF Serial
  <2> QED
    BY <2>1, <2>2, <2>3
<1> QED
  BY <1>1, <1>2, InitApproved, TypeStep, OriginsStep, SerialStep, CountedStep, PTL DEF Spec

------------------------------------------------------------------------------
(* The box office.                                                          *)

LEMMA OneMoreBatch ==
  ASSUME NEW b \in Nat, NEW q \in Nat
  PROVE  (b + 1) * q = b * q + q
  OBVIOUS

\* A task that commits issues a whole batch, an approval authorises, nothing else shows.
LEMMA OfficeStep == TypeOK /\ Origins /\ Approved /\ [Next]_vars => [Office!Next]_Office!boxVars
<1> SUFFICES ASSUME TypeOK, Origins, Approved, Next
             PROVE  Office!Next \/ UNCHANGED Office!boxVars
  BY DEF vars, Office!boxVars, Authorised, ETickets
<1> DEFINE Quiet == webhook' = webhook /\ batches' = batches
<1>1. Quiet => UNCHANGED Office!boxVars
  BY DEF Office!boxVars, Authorised, ETickets
<1>2. ASSUME NEW o \in Order, RequestStep(o) \/ TenMinutesPass(o) PROVE Quiet
  BY <1>2 DEF RequestStep, Validate, Submit, CommitSubmit, AbortRequest, TenMinutesPass, gatewayVars, rowVars
<1>3. ASSUME NEW h \in Handler, CallbackStep(h) PROVE Quiet
  BY <1>3 DEF CallbackStep, CallbackRead, CallbackSave, StartOrder, CallbackCommit, CallbackRollback,
     gatewayVars, rowVars
<1>4. ASSUME NEW o \in Order, NEW s \in GatewayStatus, GatewayEvent(o, s)
      PROVE  Office!Next \/ UNCHANGED Office!boxVars
  <2>1. /\ webhook' = [webhook EXCEPT ![o] = @ \cup {s}] /\ batches' = batches /\ o \notin AutoOrders
        /\ "approved" \notin webhook[o]
    BY <1>4 DEF GatewayEvent, rowVars
  <2>2. [p \in Order |-> ETickets(p)]' = [p \in Order |-> ETickets(p)]
    BY <2>1 DEF ETickets
  <2>3. CASE s = "approved"
    <3>1. {p \in Order : Authorised(p)}' = {p \in Order : Authorised(p)} \cup {o}
      BY <2>1, <2>3 DEF Authorised, TypeOK
    <3>2. o \notin {p \in Order : Authorised(p)}
      BY <2>1 DEF Authorised
    <3> QED
      BY <2>2, <3>1, <3>2 DEF Office!Next, Office!Authorise
  <2>4. CASE s # "approved"
    <3>1. {p \in Order : Authorised(p)}' = {p \in Order : Authorised(p)}
      BY <2>1, <2>4 DEF Authorised, TypeOK
    <3> QED
      BY <2>2, <3>1 DEF Office!boxVars
  <2> QED
    BY <2>3, <2>4
<1>5. ASSUME NEW w \in Worker, TaskStep(w) PROVE Office!Next \/ UNCHANGED Office!boxVars
  <2>1. CASE TaskCommit(w)
    <3> DEFINE o == worker[w].order
    <3>1. o \in Order /\ Authorised(o)
      BY <2>1, BusyType DEF TaskCommit, Task, Approved
    <3>2. webhook' = webhook /\ batches' = [batches EXCEPT ![o] = @ + 1]
      BY <2>1 DEF TaskCommit, gatewayVars
    <3>3. {p \in Order : Authorised(p)}' = {p \in Order : Authorised(p)}
      BY <3>2 DEF Authorised
    <3>4. [p \in Order |-> ETickets(p)]' =
            [[p \in Order |-> ETickets(p)] EXCEPT ![o] = @ + Quantity[o]]
      <4>1. \A p \in Order : batches[p] \in Nat /\ Quantity[p] \in Nat
        BY QuantityAssumption DEF TypeOK
      <4>2. batches'[o] * Quantity[o] = batches[o] * Quantity[o] + Quantity[o]
        BY <3>1, <3>2, <4>1, OneMoreBatch DEF TypeOK
      <4>3. \A p \in Order \ {o} : batches'[p] = batches[p]
        BY <3>2 DEF TypeOK
      <4> QED
        BY <3>1, <4>2, <4>3 DEF ETickets
    <3> QED
      BY <3>1, <3>3, <3>4 DEF Office!Next, Office!IssueBatch
  <2>2. CASE ~TaskCommit(w)
    BY <1>1, <1>5, <2>2 DEF TaskStep, TaskLoad, TaskReadAccount, TaskFail, gatewayVars, rowVars
  <2> QED
    BY <2>1, <2>2
<1> QED
  BY <1>1, <1>2, <1>3, <1>4, <1>5 DEF Next

\* The pipeline implements the box office (ImplementsBoxOffice): e-tickets come in whole
\* batches, each for an order whose payment is approved.
THEOREM PipelineImplementsBoxOffice == Spec => ImplementsBoxOffice
<1>1. Init => Office!Init
  BY QuantityAssumption DEF Init, Office!Init, Authorised, ETickets
<1> QED
  BY <1>1, InitApproved, TypeStep, OriginsStep, ApprovedStep, OfficeStep, PTL
     DEF Spec, ImplementsBoxOffice, Office!Spec
------------------------------------------------------------------------------
(* Lost updates go one way.  A task saves numbers it computed from numbers    *)
(* that were right when it read them, and e-tickets are never taken back: so  *)
(* what every task has read stays covered by what is issued (CountsCovered).  *)
(* The counters may also have gone down by gone seats, and up by held         *)
(* participants, for reasons that are not in this module.                     *)

CountsCovered(gone, held) ==
  /\ available >= Initial - Issued - gone
  /\ participants <= Issued + held
  /\ balance <= Earned
  /\ \A w \in Worker : worker[w].pc # "idle" =>
       /\ worker[w].seenAvailable >= Initial - Issued - gone
       /\ worker[w].seenParticipants <= Issued + held
       /\ worker[w].seenBalance <= Earned

\* The e-tickets of one order, and what one order has brought, are natural numbers.
LEMMA OrderAmounts ==
  ASSUME TypeOK, NEW o \in Order
  PROVE  /\ Quantity[o] \in Nat /\ Income[o] \in Nat /\ batches[o] \in Nat
         /\ batches[o] * Quantity[o] \in Nat /\ batches[o] * Income[o] \in Nat
<1>1. Quantity[o] \in Nat /\ Income[o] \in Nat /\ batches[o] \in Nat
  BY QuantityAssumption, IncomeAssumption DEF TypeOK
<1>2. \A m, n \in Nat : m * n \in Nat
  OBVIOUS
<1>3. QED
  BY <1>1, <1>2

LEMMA IssuedType == TypeOK => Issued \in Nat /\ Earned \in Nat
<1> SUFFICES ASSUME TypeOK PROVE Issued \in Nat /\ Earned \in Nat
  OBVIOUS
<1>1. \A o \in Order : /\ [p \in Order |-> ETickets(p)][o] \in Nat
                       /\ [p \in Order |-> batches[p] * Income[p]][o] \in Nat
  BY OrderAmounts DEF ETickets
<1>2. QED
  BY <1>1, TotalIsNat, OrderAssumption DEF Issued, Earned

\* One more batch: as many e-tickets more as were ordered, and as much more earned.
LEMMA BatchAdds ==
  ASSUME TypeOK, NEW o \in Order, batches' = [batches EXCEPT ![o] = @ + 1]
  PROVE  Issued' = Issued + Quantity[o] /\ Earned' = Earned + Income[o]
<1> DEFINE tickets == [p \in Order |-> batches[p] * Quantity[p]]
           ticketsAfter == [p \in Order |-> batches'[p] * Quantity[p]]
           money == [p \in Order |-> batches[p] * Income[p]]
           moneyAfter == [p \in Order |-> batches'[p] * Income[p]]
<1>1. batches'[o] = batches[o] + 1 /\ \A p \in Order : p # o => batches'[p] = batches[p]
  BY DEF TypeOK
<1>2. /\ tickets[o] \in Nat /\ ticketsAfter[o] = tickets[o] + Quantity[o]
      /\ money[o] \in Nat /\ moneyAfter[o] = money[o] + Income[o]
  <2>1. \A m, n \in Nat : (m + 1) * n = m * n + n
    OBVIOUS
  <2>2. /\ Quantity[o] \in Nat /\ Income[o] \in Nat /\ batches[o] \in Nat
        /\ tickets[o] \in Nat /\ money[o] \in Nat
    BY OrderAmounts
  <2>3. /\ batches'[o] * Quantity[o] = batches[o] * Quantity[o] + Quantity[o]
        /\ batches'[o] * Income[o] = batches[o] * Income[o] + Income[o]
    BY <1>1, <2>1, <2>2
  <2>4. QED
    BY <2>2, <2>3
<1>3. \A p \in Order : /\ tickets[p] \in Nat /\ ticketsAfter[p] \in Nat
                       /\ money[p] \in Nat /\ moneyAfter[p] \in Nat
                       /\ p # o => tickets[p] = ticketsAfter[p] /\ money[p] = moneyAfter[p]
  BY <1>1, <1>2, OrderAmounts
<1>4. /\ Issued = TotalOf(tickets, Order) /\ Issued' = TotalOf(ticketsAfter, Order)
      /\ Earned = TotalOf(money, Order) /\ Earned' = TotalOf(moneyAfter, Order)
  BY DEF Issued, Earned, ETickets
<1>5. /\ TotalOf(ticketsAfter, Order)
           = TotalOf(tickets, Order) - tickets[o] + ticketsAfter[o]
      /\ TotalOf(moneyAfter, Order) = TotalOf(money, Order) - money[o] + moneyAfter[o]
  <2> HIDE DEF tickets, ticketsAfter, money, moneyAfter
  <2>1. TotalOf(ticketsAfter, Order)
           = TotalOf(tickets, Order) - tickets[o] + ticketsAfter[o]
    BY <1>3, OrderAssumption, TotalOfChange
  <2>2. TotalOf(moneyAfter, Order) = TotalOf(money, Order) - money[o] + moneyAfter[o]
    BY <1>3, OrderAssumption, TotalOfChange
  <2>3. QED
    BY <2>1, <2>2
<1>6. QED
  <2> HIDE DEF tickets, ticketsAfter, money, moneyAfter
  <2>1. Issued \in Nat /\ Earned \in Nat
    BY IssuedType
  <2>2. QED
    BY <1>2, <1>4, <1>5, <2>1, OrderAmounts

\* Steps that leave counters, batches and tasks alone.
LEMMA QuietSteps ==
  ASSUME Next, \A w \in Worker : ~TaskStep(w)
  PROVE  UNCHANGED <<available, participants, balance, batches, worker>>
<1> USE DEF requestVars, rowVars, counterVars, brokerVars, gatewayVars
<1>1. ASSUME NEW o \in Order, RequestStep(o)
      PROVE  UNCHANGED <<available, participants, balance, batches, worker>>
  BY <1>1 DEF RequestStep, Validate, Submit, CommitSubmit, AbortRequest
<1>2. ASSUME NEW h \in Handler, CallbackStep(h)
      PROVE  UNCHANGED <<available, participants, balance, batches, worker>>
  BY <1>2 DEF CallbackStep, CallbackRead, CallbackSave, StartOrder, CallbackCommit,
     CallbackRollback
<1>3. ASSUME NEW o \in Order, NEW s \in GatewayStatus, TenMinutesPass(o) \/ GatewayEvent(o, s)
      PROVE  UNCHANGED <<available, participants, balance, batches, worker>>
  BY <1>3 DEF TenMinutesPass, GatewayEvent
<1>4. ASSUME NEW o \in Order, TenMinutesPass(o)
      PROVE  UNCHANGED <<available, participants, balance, batches, worker>>
  BY <1>4 DEF TenMinutesPass
<1>5. QED
  BY <1>1, <1>2, <1>3, <1>4 DEF Next

LEMMA CoveredStep ==
  ASSUME TypeOK, [Next]_vars, NEW gone \in Nat, NEW held \in Nat, CountsCovered(gone, held)
  PROVE  CountsCovered(gone, held)'
<1> USE DEF requestVars, rowVars, counterVars, brokerVars, gatewayVars
<1>0. Issued \in Nat /\ Earned \in Nat /\ Initial \in Int
  BY IssuedType, InitialAssumption
<1>1. CASE UNCHANGED <<available, participants, balance, batches, worker>>
  BY <1>1 DEF CountsCovered, Issued, Earned, ETickets
<1>2. ASSUME NEW w \in Worker, TaskStep(w) PROVE CountsCovered(gone, held)'
  <2>1. ASSUME NEW o \in Order, TaskLoad(w, o) PROVE CountsCovered(gone, held)'
    <3>1. /\ UNCHANGED <<available, participants, balance, batches>>
          /\ Issued' = Issued /\ Earned' = Earned
          /\ \A v \in Worker : v # w => worker'[v] = worker[v]
      BY <2>1 DEF TaskLoad, TypeOK, Issued, Earned, ETickets
    <3>2. \/ worker'[w] = NoTask
          \/ /\ worker'[w].seenAvailable = available
             /\ worker'[w].seenParticipants = participants /\ worker'[w].seenBalance = 0
      BY <2>1 DEF TaskLoad, TypeOK
    <3>3. QED
      BY <1>0, <3>1, <3>2 DEF CountsCovered, NoTask
  <2>2. CASE TaskReadAccount(w)
    <3>1. worker[w] \in Task
      BY <2>2, BusyType DEF TaskReadAccount
    <3>2. /\ UNCHANGED <<available, participants, balance, batches>>
          /\ Issued' = Issued /\ Earned' = Earned
          /\ \A v \in Worker : v # w => worker'[v] = worker[v]
      BY <2>2 DEF TaskReadAccount, TypeOK, Issued, Earned, ETickets
    <3>3. /\ worker'[w].seenAvailable = worker[w].seenAvailable
          /\ worker'[w].seenParticipants = worker[w].seenParticipants
          /\ worker'[w].seenBalance \in {worker[w].seenBalance, balance}
      BY <2>2, <3>1 DEF TaskReadAccount, TypeOK, Task
    <3>4. worker[w].pc # "idle"
      BY <2>2 DEF TaskReadAccount
    <3>5. QED
      BY <3>2, <3>3, <3>4 DEF CountsCovered
  <2>3. CASE TaskCommit(w)
    <3> DEFINE o == worker[w].order
    <3>1. worker[w] \in Task /\ worker[w].pc # "idle"
      BY <2>3, BusyType DEF TaskCommit
    <3>2. o \in Order /\ Quantity[o] \in Nat /\ Income[o] \in Nat
      BY <3>1, OrderAmounts DEF Task
    <3>3. Issued' = Issued + Quantity[o] /\ Earned' = Earned + Income[o]
      BY <2>3, <3>2, BatchAdds DEF TaskCommit
    <3>4. /\ worker'[w] = NoTask
          /\ \A v \in Worker : v # w => worker'[v] = worker[v]
      BY <2>3 DEF TaskCommit, TypeOK
    <3>5. available' >= worker[w].seenAvailable - Quantity[o]
      <4>1. available' = Remaining(worker[w].seenAvailable, o)
        BY <2>3 DEF TaskCommit
      <4>2. worker[w].seenAvailable \in Int
        BY <3>1 DEF Task
      <4>3. QED
        BY <3>2, <4>1, <4>2 DEF Remaining
    <3>6. participants' = worker[w].seenParticipants + Quantity[o]
      BY <2>3 DEF TaskCommit
    <3>7. balance' = balance \/ balance' = worker[w].seenBalance + Income[o]
      BY <2>3 DEF TaskCommit
    <3>8. /\ worker[w].seenAvailable \in Int /\ worker[w].seenParticipants \in Nat
          /\ worker[w].seenBalance \in Nat /\ balance \in Nat
          /\ available' \in Int
      BY <2>3, <3>1, <3>2 DEF Task, TypeOK, TaskCommit, Remaining
    <3>9. /\ available' >= Initial - Issued' - gone
          /\ participants' <= Issued' + held /\ balance' <= Earned'
      <4> HIDE DEF o
      <4>1. QED
        BY <1>0, <3>1, <3>2, <3>3, <3>5, <3>6, <3>7, <3>8 DEF CountsCovered
    <3>10. ASSUME NEW v \in Worker, worker'[v].pc # "idle"
           PROVE  /\ worker'[v].seenAvailable >= Initial - Issued' - gone
                  /\ worker'[v].seenParticipants <= Issued' + held
                  /\ worker'[v].seenBalance <= Earned'
      <4> HIDE DEF o
      <4>1. v # w /\ worker'[v] = worker[v] /\ worker[v].pc # "idle"
        BY <3>4, <3>10 DEF NoTask
      <4>2. /\ worker[v].seenAvailable \in Int /\ worker[v].seenParticipants \in Nat
            /\ worker[v].seenBalance \in Nat
        BY <4>1, BusyType DEF Task
      <4>3. QED
        BY <1>0, <3>2, <3>3, <4>1, <4>2 DEF CountsCovered
    <3>11. QED
      BY <3>9, <3>10 DEF CountsCovered
  <2>4. CASE TaskFail(w)
    <3>1. /\ UNCHANGED <<available, participants, balance, batches>>
          /\ Issued' = Issued /\ Earned' = Earned
          /\ worker'[w] = NoTask
          /\ \A v \in Worker : v # w => worker'[v] = worker[v]
      BY <2>4 DEF TaskFail, TypeOK, Issued, Earned, ETickets
    <3>2. QED
      BY <3>1 DEF CountsCovered, NoTask
  <2>5. QED
    BY <1>2, <2>1, <2>2, <2>3, <2>4 DEF TaskStep
<1>3. CASE UNCHANGED vars
  BY <1>1, <1>3 DEF vars
<1>4. QED
  BY <1>1, <1>2, <1>3, QuietSteps

LEMMA CoveredInit ==
  ASSUME Init, NEW gone \in Nat, NEW held \in Nat
  PROVE  CountsCovered(gone, held)
<1>1. TypeOK
  BY InitApproved
<1>2. Issued \in Nat /\ Earned \in Nat /\ Initial \in Int
  BY <1>1, IssuedType, InitialAssumption
<1>3. QED
  BY <1>2 DEF Init, CountsCovered, NoTask

\* The task's lost updates never lose a seat: whatever tasks overwrite each other, what
\* available_quantity leaves open and what is issued cover the initial quantity.
THEOREM SeatsNeverLost == Spec => []NoSeatLost
<1>1. Init => TypeOK /\ CountsCovered(0, 0)
  BY CoveredInit, InitApproved
<1>2. TypeOK /\ CountsCovered(0, 0) /\ [Next]_vars => (TypeOK /\ CountsCovered(0, 0))'
  BY TypeStep, CoveredStep
<1>3. TypeOK /\ CountsCovered(0, 0) => NoSeatLost
  BY IssuedType, InitialAssumption DEF CountsCovered, NoSeatLost
<1>4. QED
  BY <1>1, <1>2, <1>3, PTL DEF Spec

\* Nor do they invent anything: the balance and the participants never exceed what batches
\* of e-tickets stand for.
THEOREM NothingEverInvented == Spec => []NothingInvented
<1>1. Init => TypeOK /\ CountsCovered(0, 0)
  BY CoveredInit, InitApproved
<1>2. TypeOK /\ CountsCovered(0, 0) /\ [Next]_vars => (TypeOK /\ CountsCovered(0, 0))'
  BY TypeStep, CoveredStep
<1>3. TypeOK /\ CountsCovered(0, 0) => NothingInvented
  BY IssuedType DEF CountsCovered, NothingInvented
<1>4. QED
  BY <1>1, <1>2, <1>3, PTL DEF Spec

--------------------------------------------------------------------------------
(* That lost updates between online sales and sellers' stock go one way only: the *)
(* ticket's counter never loses a seat, and the event counts nobody who holds no  *)
(* ticket.                                                                        *)
(*                                                                                *)
(* Above it is shown for the tasks, given how many seats have gone elsewhere.     *)
(* Here these are the seats allocated and sold by sellers: numbers that only      *)
(* grow, so what a task had read before they grew stays covered.                  *)

\* The part of SellerStock's types that no online sale disturbs.
StockTypes ==
  /\ allocated \in [Seller -> Nat]
  /\ sold \in [Seller -> Nat]
  /\ job \in [Clerk -> {Stock!NoJob} \cup Stock!Job]

SalesInv == TypeOK /\ StockTypes /\ CountsCovered(Allocated + Sold, Sold)

USE SellersAssumption

LEMMA SoldType ==
  ASSUME StockTypes
  PROVE  Allocated \in Nat /\ Sold \in Nat
BY TotalIsNat DEF StockTypes, Allocated, Sold

LEMMA SalesInvInit == SalesInit => SalesInv
<1> SUFFICES ASSUME SalesInit PROVE SalesInv
  OBVIOUS
<1>1. TypeOK /\ StockTypes
  BY InitApproved DEF SalesInit, Stock!Init, StockTypes
<1>2. PICK g \in Nat, k \in Nat : g = Allocated + Sold /\ k = Sold
  BY <1>1, SoldType
<1>3. CountsCovered(g, k)
  BY CoveredInit DEF SalesInit
<1>4. QED
  BY <1>1, <1>2, <1>3 DEF SalesInv

\* Online sales leave what sellers have as it is.
LEMMA OnlineKeeps ==
  ASSUME SalesInv, OnlineStep
  PROVE  SalesInv'
<1>1. Next /\ UNCHANGED <<allocated, sold, job>>
  BY DEF OnlineStep, sellerVars
<1>2. TypeOK' /\ StockTypes'
  BY <1>1, TypeStep DEF SalesInv, StockTypes
<1>3. PICK g \in Nat, k \in Nat : g = Allocated + Sold /\ k = Sold
  BY SoldType DEF SalesInv
<1>4. CountsCovered(g, k)'
  BY <1>1, <1>3, CoveredStep DEF SalesInv
<1>5. g = (Allocated + Sold)' /\ k = Sold'
  BY <1>1, <1>3 DEF Allocated, Sold
<1>6. CountsCovered(Allocated + Sold, Sold)'
  BY <1>4, <1>5 DEF CountsCovered
<1>7. QED
  BY <1>2, <1>6 DEF SalesInv

\* What a commit of the stock services adds to allocations or sales, it takes from the
\* ticket's counter, if it takes anything.
LEMMA SellerMoves ==
  ASSUME StockTypes, available \in Int, participants \in Nat, SellerStep
  PROVE  /\ StockTypes' /\ available' \in Int /\ participants' \in Nat
         /\ Allocated' >= Allocated /\ Sold' >= Sold
         /\ available' + (Allocated + Sold)' >= available + Allocated + Sold
         /\ participants' - Sold' = participants - Sold
<1> DEFINE Quiet == UNCHANGED <<available, participants, allocated, sold>>
<1>0. Allocated \in Nat /\ Sold \in Nat
  BY SoldType
<1>1. PICK c \in Clerk :
        \/ \E s \in Seller, q \in Lot :
             Stock!AllocateLockTicket(c, s, q) \/ Stock!SellLockStock(c, s, q)
        \/ Stock!Advance(c) \/ Stock!DeadlockAbort(c) \/ Stock!Rollback(c)
  BY DEF SellerStep, Stock!Next
<1>2. ASSUME job[c].pc # "idle"
      PROVE  /\ job[c] \in Stock!Job
             /\ job[c].seller \in Seller /\ job[c].quantity \in Nat
  <2>1. job[c] \in Stock!Job
    BY <1>2 DEF StockTypes, Stock!NoJob
  <2>2. job[c].seller \in Seller /\ job[c].quantity \in Lot
    BY <2>1 DEF Stock!Job
  <2>3. QED
    BY <2>1, <2>2
<1>3. job' \in [Clerk -> {Stock!NoJob} \cup Stock!Job]
  <2>1. job'[c] \in {Stock!NoJob} \cup Stock!Job /\ job' = [job EXCEPT ![c] = job'[c]]
    <3>1. ASSUME NEW s \in Seller, NEW q \in Lot,
                 Stock!AllocateLockTicket(c, s, q) \/ Stock!SellLockStock(c, s, q)
          PROVE  /\ job'[c] \in {Stock!NoJob} \cup Stock!Job
                 /\ job' = [job EXCEPT ![c] = job'[c]]
      BY <3>1 DEF Stock!AllocateLockTicket, Stock!SellLockStock, Stock!Job, StockTypes
    <3>2. CASE Stock!AllocateLockStock(c) \/ Stock!SellLockTicket(c)
      <4>1. job[c] \in Stock!Job
        BY <1>2, <3>2 DEF Stock!AllocateLockStock, Stock!SellLockTicket
      <4>2. [job[c] EXCEPT !.pc = "both"] \in Stock!Job
        BY <4>1 DEF Stock!Job
      <4>3. \/ job' = [job EXCEPT ![c] = [job[c] EXCEPT !.pc = "both"]]
            \/ job' = [job EXCEPT ![c] = Stock!NoJob]
        BY <3>2 DEF Stock!AllocateLockStock, Stock!SellLockTicket
      <4>4. QED
        BY <4>2, <4>3 DEF StockTypes
    <3>3. CASE \/ Stock!AllocateCommit(c) \/ Stock!SellCommit(c) \/ Stock!DeadlockAbort(c)
               \/ Stock!Rollback(c)
      BY <3>3 DEF Stock!AllocateCommit, Stock!SellCommit, Stock!DeadlockAbort, Stock!Rollback,
         StockTypes
    <3>4. QED
      BY <1>1, <3>1, <3>2, <3>3 DEF Stock!Advance
  <2>2. QED
    BY <2>1 DEF StockTypes
<1>4. CASE Quiet
  BY <1>0, <1>3, <1>4 DEF StockTypes, Allocated, Sold
<1>5. CASE Stock!AllocateCommit(c)
  <2>1. PICK s \in Seller, q \in Nat : s = job[c].seller /\ q = job[c].quantity
    BY <1>2, <1>5 DEF Stock!AllocateCommit
  <2>2. /\ allocated' = [allocated EXCEPT ![s] = @ + q] /\ available' = available - q
        /\ UNCHANGED <<sold, participants>>
    BY <1>5, <2>1 DEF Stock!AllocateCommit
  <2>3. Allocated' = Allocated + q
    <3>1. allocated \in [Seller -> Nat]
      BY DEF StockTypes
    <3>2. TotalOf([allocated EXCEPT ![s] = @ + q], Seller) = TotalOf(allocated, Seller) + q
      BY <3>1, TotalOfCounters, ZenonT(30)
    <3>3. QED
      BY <2>2, <3>2 DEF Allocated
  <2>4. Sold' = Sold /\ allocated' \in [Seller -> Nat]
    BY <2>2 DEF Sold, StockTypes
  <2>5. QED
    BY <1>0, <1>3, <2>2, <2>3, <2>4 DEF StockTypes
<1>6. CASE Stock!SellCommit(c)
  <2>1. PICK s \in Seller, q \in Nat : s = job[c].seller /\ q = job[c].quantity
    BY <1>2, <1>6 DEF Stock!SellCommit
  <2>2. /\ sold' = [sold EXCEPT ![s] = @ + q] /\ allocated' = allocated
        /\ available' \in {available, available - q} /\ participants' = participants + q
    BY <1>6, <2>1 DEF Stock!SellCommit
  <2>3. Sold' = Sold + q
    <3>1. sold \in [Seller -> Nat]
      BY DEF StockTypes
    <3>2. TotalOf([sold EXCEPT ![s] = @ + q], Seller) = TotalOf(sold, Seller) + q
      BY <3>1, TotalOfCounters, ZenonT(30)
    <3>3. QED
      BY <2>2, <3>2 DEF Sold
  <2>4. Allocated' = Allocated /\ sold' \in [Seller -> Nat]
    BY <2>2 DEF Allocated, StockTypes
  <2>5. StockTypes'
    BY <1>3, <2>2, <2>4 DEF StockTypes
  <2>6. \/ available' = available
        \/ available' = available - q
    BY <2>2
  <2>7. participants' = participants + q /\ q \in Nat
    BY <2>2
  <2>8. QED
    BY <1>0, <2>3, <2>4, <2>5, <2>6, <2>7
<1>7. CASE ~Stock!AllocateCommit(c) /\ ~Stock!SellCommit(c)
  <2>1. Quiet
    BY <1>1, <1>7 DEF Stock!AllocateLockTicket, Stock!SellLockStock, Stock!Advance,
       Stock!AllocateLockStock, Stock!SellLockTicket, Stock!DeadlockAbort, Stock!Rollback,
       Stock!ticketVars, Stock!stockVars
  <2>2. QED
    BY <1>4, <2>1
<1>8. QED
  BY <1>5, <1>6, <1>7

LEMMA SellersKeep ==
  ASSUME SalesInv, SellerStep
  PROVE  SalesInv'
<1>1. /\ TypeOK /\ StockTypes /\ available \in Int /\ participants \in Nat
      /\ Allocated \in Nat /\ Sold \in Nat
  BY SoldType DEF SalesInv, TypeOK
<1>2. /\ StockTypes' /\ available' \in Int /\ participants' \in Nat
      /\ Allocated' >= Allocated /\ Sold' >= Sold
      /\ available' + (Allocated + Sold)' >= available + Allocated + Sold
      /\ participants' - Sold' = participants - Sold
  BY <1>1, SellerMoves
<1>3. Allocated' \in Nat /\ Sold' \in Nat
  BY <1>2, TotalIsNat DEF StockTypes, Allocated, Sold
<1>4. UNCHANGED <<batches, balance, worker>> /\ Issued' = Issued /\ Earned' = Earned
  BY DEF SellerStep, onlineVars, Issued, Earned, ETickets
<1>5. TypeOK'
  BY <1>1, <1>2 DEF SellerStep, onlineVars, TypeOK
<1>6. CountsCovered(Allocated + Sold, Sold)'
  <2>1. /\ Issued \in Nat /\ Earned \in Nat /\ Initial \in Int
        /\ CountsCovered(Allocated + Sold, Sold)
    BY <1>1, IssuedType, InitialAssumption DEF SalesInv
  <2>2. /\ available' >= Initial - Issued' - (Allocated + Sold)'
        /\ participants' <= Issued' + Sold' /\ balance' <= Earned'
    <3>1. /\ available >= Initial - Issued - (Allocated + Sold)
          /\ participants <= Issued + Sold /\ balance <= Earned
      BY <2>1 DEF CountsCovered
    <3>2. PICK a \in Int, aAfter \in Int, p \in Nat, pAfter \in Nat, i \in Nat,
               x \in Nat, xAfter \in Nat, y \in Nat, yAfter \in Nat :
            /\ a = available /\ aAfter = available' /\ p = participants /\ pAfter = participants'
            /\ i = Issued /\ x = Allocated /\ xAfter = Allocated' /\ y = Sold /\ yAfter = Sold'
      BY <1>1, <1>2, <1>3, <2>1
    <3>3. aAfter >= Initial - i - (xAfter + yAfter)
      <4>1. aAfter + (xAfter + yAfter) >= a + x + y /\ a >= Initial - i - (x + y)
        BY <1>2, <3>1, <3>2
      <4>2. QED
        BY <2>1, <4>1
    <3>4. pAfter <= i + yAfter
      <4>1. pAfter - yAfter = p - y /\ p <= i + y
        BY <1>2, <3>1, <3>2
      <4>2. QED
        BY <4>1
    <3>5. QED
      BY <1>4, <3>1, <3>2, <3>3, <3>4
  <2>3. ASSUME NEW w \in Worker, worker'[w].pc # "idle"
        PROVE  /\ worker'[w].seenAvailable >= Initial - Issued' - (Allocated + Sold)'
               /\ worker'[w].seenParticipants <= Issued' + Sold'
               /\ worker'[w].seenBalance <= Earned'
    <3>1. /\ worker'[w] = worker[w]
          /\ worker[w].seenAvailable \in Int /\ worker[w].seenParticipants \in Nat
      BY <1>1, <1>4, <2>3, BusyType DEF Task
    <3>2. QED
      BY <1>1, <1>2, <1>3, <1>4, <2>1, <2>3, <3>1 DEF CountsCovered
  <2>4. QED
    BY <2>2, <2>3 DEF CountsCovered
<1>7. QED
  BY <1>2, <1>5, <1>6 DEF SalesInv

LEMMA SalesInvStep == SalesInv /\ [SalesNext]_salesVars => SalesInv'
<1> SUFFICES ASSUME SalesInv, [SalesNext]_salesVars PROVE SalesInv'
  OBVIOUS
<1>1. CASE UNCHANGED salesVars
  <2>1. TypeOK' /\ StockTypes'
    BY <1>1, TypeStep DEF SalesInv, salesVars, StockTypes
  <2>2. CountsCovered(Allocated + Sold, Sold)'
    BY <1>1 DEF SalesInv, salesVars, vars, CountsCovered, Issued, Earned, ETickets,
       Allocated, Sold
  <2>3. QED
    BY <2>1, <2>2 DEF SalesInv
<1>2. QED
  BY <1>1, OnlineKeeps, SellersKeep DEF SalesNext

\* Whatever the unlocked task overwrites of what the stock services have committed, no seat
\* is lost and no participant invented, for any orders, sellers, workers and quantities.
THEOREM SalesAlwaysAccounted == SalesSpec => []SalesAccounted
<1>1. SalesInv => SalesAccounted
  <2> SUFFICES ASSUME SalesInv PROVE SalesAccounted
    OBVIOUS
  <2>1. /\ Issued \in Nat /\ Allocated \in Nat /\ Sold \in Nat /\ Initial \in Int
        /\ available \in Int /\ participants \in Nat
    BY IssuedType, SoldType, InitialAssumption DEF SalesInv, TypeOK
  <2>2. QED
    BY <2>1 DEF SalesInv, CountsCovered, SalesAccounted
<1>2. QED
  BY <1>1, SalesInvInit, SalesInvStep, PTL DEF SalesSpec
================================================================================
