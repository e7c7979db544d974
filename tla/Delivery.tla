-------------------------------- MODULE Delivery --------------------------------
(* The sending of e-tickets by mail: a task creates one delivery per e-ticket *)
(* of an order and sends them one after the other; a failed delivery waits    *)
(* for a retry, made by the retry task for all that are due or by the retry   *)
(* endpoint for one.  Retry task and endpoint read the rows first and send    *)
(* later, so a row may have moved on when its turn comes.                     *)
(*                                                                            *)
(* A send is: save SENDING, send the mail, save SENT; what fails on the way,  *)
(* the last save included, goes to mark_as_failed.  A process may die, or     *)
(* lose the database in mark_as_failed, between any two of these steps.       *)
EXTENDS Naturals, FiniteSets, TLC

CONSTANTS
  ETicket,        \* the e-tickets of the order
  MailWorker,     \* processes that send: celery workers, web processes
  MaxRetry,       \* TicketDelivery.max_retry_count
  MaxLosses,      \* bound: saves that fail and processes that die
  MaxCycles       \* bound: sweeps and manual retries

ASSUME MaxRetryAssumption == MaxRetry \in Nat \ {0}

VARIABLES
  delivery,   \* delivery[e]: the row: its status, retry_count and next_retry_at
  mailing,    \* mailing[w]: what a process is doing, its own rows included
  posted,     \* posted[e]: mails that left (history)
  unsaved,    \* unsaved[e]: sent mails whose row could not be saved (history)
  deserted,   \* rows a process died on (history)
  doubled,    \* rows that two processes held at once (history)
  losses, cycles

deliveryVars == <<delivery, mailing, posted, unsaved, deserted, doubled, losses, cycles>>

--------------------------------------------------------------------------------

\* next_retry_at: not set, still to come, or reached.
NotThere   == [status |-> "none", count |-> 0, next |-> "unset"]
NewRow     == [NotThere EXCEPT !.status = "PENDING"]
Resting    == [pc |-> "rest", rows |-> <<>>]
Held(w)    == DOMAIN mailing[w].rows
Holders(e) == {w \in MailWorker : e \in Held(w)}

\* get_pending_retries, and can_retry: what the task and the endpoint will send.
IsPendingRetry(row) == row.status = "RETRY" /\ row.next = "reached"
CanRetry(row) ==
  /\ row.status \in {"FAILED", "RETRY"}
  /\ row.count < MaxRetry
  /\ row.next \in {"unset", "reached"}

\* A process takes the rows it has read, to send them one by one.
Take(w, rows) ==
  /\ mailing[w].pc = "rest" /\ rows # <<>>
  /\ mailing' = [mailing EXCEPT ![w] = [pc |-> "choose", rows |-> rows]]
  /\ doubled' = doubled \cup {e \in DOMAIN rows : Holders(e) # {}}

Without(w, e) == [x \in Held(w) \ {e} |-> mailing[w].rows[x]]
Done(w, e)    ==
  mailing' = [mailing EXCEPT ![w] =
    IF Held(w) = {e} THEN Resting ELSE [pc |-> "choose", rows |-> Without(w, e)]]
Goto(w, pc)   == mailing' = [mailing EXCEPT ![w].pc = pc]
AtMail(w, pc) == mailing[w].pc = pc
Current(w)    == mailing[w].now

\* (Faulty variants: the maximum is forgotten; the status is not among the saved fields.)
FailedForever(row) == [status |-> "RETRY", count |-> row.count + 1, next |-> "to come"]
FailedUnsaved(row) == [status |-> "SENDING", count |-> row.count + 1, next |-> row.next]

\* mark_as_failed: FAILED, or RETRY with a later date while the maximum is not reached.
\* The count is the one in the process's own row.
FailedRow(row) ==
  LET n == row.count + 1
  IN IF n < MaxRetry THEN [status |-> "RETRY", count |-> n, next |-> "to come"]
     ELSE [row EXCEPT !.status = "FAILED", !.count = n]

--------------------------------------------------------------------------------

\* send_tickets_async, send_tickets_for_order, create_delivery_tasks: one transaction.
CreateDeliveries(w) ==
  /\ \A e \in ETicket : delivery[e] = NotThere
  /\ delivery' = [e \in ETicket |-> NewRow]
  /\ Take(w, [e \in ETicket |-> NewRow])
  /\ UNCHANGED <<posted, unsaved, deserted, losses, cycles>>

\* process_pending_retries reads all the rows that are due before it sends any.
RetrySweep(w) ==
  /\ cycles < MaxCycles /\ cycles' = cycles + 1
  /\ LET due == {e \in ETicket : IsPendingRetry(delivery[e])}
     IN Take(w, [e \in due |-> delivery[e]])
  /\ UNCHANGED <<delivery, posted, unsaved, deserted, losses>>

\* retry_delivery: one row, if it can be retried.
ManualRetry(w, e) ==
  /\ CanRetry(delivery[e])
  /\ cycles < MaxCycles /\ cycles' = cycles + 1
  /\ Take(w, [x \in {e} |-> delivery[x]])
  /\ UNCHANGED <<delivery, posted, unsaved, deserted, losses>>

RetryDateComes(e) ==
  /\ delivery[e].next = "to come"
  /\ delivery' = [delivery EXCEPT ![e].next = "reached"]
  /\ UNCHANGED <<mailing, posted, unsaved, deserted, doubled, losses, cycles>>

\* send_ticket_by_email starts: SENDING is saved.
StartSending(w, e) ==
  /\ AtMail(w, "choose") /\ e \in Held(w)
  /\ delivery' = [delivery EXCEPT ![e].status = "SENDING"]
  /\ mailing' = [mailing EXCEPT ![w] = [pc |-> "send", rows |-> @.rows, now |-> e]]
  /\ UNCHANGED <<posted, unsaved, deserted, doubled, losses, cycles>>

SendMail(w) ==
  /\ AtMail(w, "send")
  /\ posted' = [posted EXCEPT ![Current(w)] = @ + 1]
  /\ Goto(w, "sent")
  /\ UNCHANGED <<delivery, unsaved, deserted, doubled, losses, cycles>>

\* The template, the connection or the server raises.
SendFails(w) ==
  /\ AtMail(w, "send")
  /\ Goto(w, "failed")
  /\ UNCHANGED <<delivery, posted, unsaved, deserted, doubled, losses, cycles>>

MarkAsSent(w) ==
  /\ AtMail(w, "sent")
  /\ delivery' = [delivery EXCEPT ![Current(w)].status = "SENT"]
  /\ Done(w, Current(w))
  /\ UNCHANGED <<posted, unsaved, deserted, doubled, losses, cycles>>

\* mark_as_sent raises inside the try: the mail that has left counts as failed.
SaveSentFails(w) ==
  /\ AtMail(w, "sent")
  /\ losses < MaxLosses /\ losses' = losses + 1
  /\ unsaved' = [unsaved EXCEPT ![Current(w)] = @ + 1]
  /\ Goto(w, "failed")
  /\ UNCHANGED <<delivery, posted, deserted, doubled, cycles>>

MarkAsFailed(w) ==
  /\ AtMail(w, "failed")
  /\ delivery' = [delivery EXCEPT ![Current(w)] = FailedRow(mailing[w].rows[Current(w)])]
  /\ Done(w, Current(w))
  /\ UNCHANGED <<posted, unsaved, deserted, doubled, losses, cycles>>

\* The process dies, or mark_as_failed raises: the rest of its rows is left as it is.
Die(w) ==
  /\ ~AtMail(w, "rest")
  /\ losses < MaxLosses /\ losses' = losses + 1
  /\ deserted' = deserted \cup (IF AtMail(w, "choose") THEN {} ELSE {Current(w)})
  /\ mailing' = [mailing EXCEPT ![w] = Resting]
  /\ UNCHANGED <<delivery, posted, unsaved, doubled, cycles>>

--------------------------------------------------------------------------------

DeliveryInit ==
  /\ delivery = [e \in ETicket |-> NotThere]
  /\ mailing = [w \in MailWorker |-> Resting]
  /\ posted = [e \in ETicket |-> 0] /\ unsaved = [e \in ETicket |-> 0]
  /\ deserted = {} /\ doubled = {} /\ losses = 0 /\ cycles = 0

DeliveryNext ==
  \/ \E w \in MailWorker :
        \/ CreateDeliveries(w) \/ RetrySweep(w) \/ SendMail(w) \/ SendFails(w)
        \/ MarkAsSent(w) \/ SaveSentFails(w) \/ MarkAsFailed(w) \/ Die(w)
        \/ \E e \in ETicket : ManualRetry(w, e) \/ StartSending(w, e)
  \/ \E e \in ETicket : RetryDateComes(e)

DeliverySpec == DeliveryInit /\ [][DeliveryNext]_deliveryVars

--------------------------------------------------------------------------------

\* A row that says SENDING is being sent, or was left by a process that died on it: however
\* many processes hold the same row, the last of them saves how it ended.
SendingHasASender ==
  \A e \in ETicket :
    delivery[e].status = "SENDING" => Holders(e) # {} \/ e \in deserted

\* A mail leaves once, and once more for every time its row could not be saved, but no more
\* than max_retry_count times, as long as no two processes held the row: a process that dies
\* leaves a row that is not taken up again.  What waits for a retry has one left.
SerialMailsAreBounded ==
  \A e \in ETicket \ doubled :
    /\ posted[e] <= 1 + unsaved[e] /\ posted[e] <= MaxRetry
    /\ delivery[e].status = "RETRY" => delivery[e].count < MaxRetry

\* Both: however deliveries are retried, one is neither left under way nor sent over and over.
MailsAreSafe == SendingHasASender /\ SerialMailsAreBounded

DeliveryTypeOK ==
  /\ delivery \in [ETicket -> [status : {"none", "PENDING", "SENDING", "SENT", "FAILED", "RETRY"},
                               count : Nat, next : {"unset", "to come", "reached"}]]
  /\ \A w \in MailWorker :
       mailing[w].pc \in {"rest", "choose", "send", "sent", "failed"} /\ Held(w) \subseteq ETicket
  /\ posted \in [ETicket -> Nat] /\ unsaved \in [ETicket -> Nat]
  /\ deserted \subseteq ETicket /\ doubled \subseteq ETicket
  /\ losses \in 0..MaxLosses /\ cycles \in 0..MaxCycles
================================================================================
