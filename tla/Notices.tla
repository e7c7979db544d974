-------------------------------- MODULE Notices --------------------------------
(* What one user is told of a matter of his: an order, a payment, a withdraw, *)
(* a subscription, a highlighting, a membership, a code by mail; and what the *)
(* owner is told of a ticket that is nearly sold out.                         *)
(*                                                                            *)
(* A save queues the notice's task at once, with no more than the row's key,  *)
(* although the transaction the save belongs to may still be rolled back.     *)
(* The task reads the row, inserts a Notification whose status is SUCCESS,    *)
(* hands it to the mailing service and commits.                               *)
EXTENDS Integers, FiniteSets, Bags, TLC

CONSTANTS
  Matter,       \* orders, withdraws, subscriptions, highlightings, memberships, accounts, events
  KindOf,       \* KindOf[m]
  SeatsOf,      \* SeatsOf[m]: seats of an order
  HasDevice,    \* the matters whose user has a registered device
  Seats,        \* Ticket.initial_quantity
  Percentages,  \* at which a ticket is nearly sold out
  Handler,      \* requests and tasks that save the matters
  Clerk,        \* workers of the notices' tasks
  MaxFaults     \* bound: payments that fail, rollbacks, refusals, deaths

ASSUME NoticesAssumption ==
  /\ KindOf \in [Matter -> {"order", "anonymous order", "withdraw", "subscription",
                            "highlighting", "membership", "account", "event"}]
  /\ SeatsOf \in [Matter -> Nat] /\ Seats \in Nat /\ Percentages \subseteq 0..100

VARIABLES
  step,       \* step[m]: how far m has come, in the database
  left,       \* Ticket.available_quantity, of the one ticket that orders are for
  handler,    \* handler[h]: what it has read, and whether it has saved
  waiting,    \* a bag of <<matter, task>>: tasks queued
  clerk,      \* clerk[c]: the task it has taken, and how far it is
  inbox,      \* a bag: rows of status SUCCESS
  failures,   \* a bag: rows of status FAILED
  handed,     \* a bag: messages the mailing service has taken (history)
  doubtful,   \* matters two handlers had read at once, or one of them rolled back (history)
  crossings,  \* crossings[p]: commits that brought the ticket under p percent (history)
  muddled,    \* the ticket was read by two tasks at once, or oversold (history)
  faults

noticesVars == <<step, left, handler, waiting, clerk, inbox, failures, handed, doubtful, crossings,
                 muddled, faults>>

Ready == [pc |-> "ready"]
Fault == faults < MaxFaults /\ faults' = faults + 1
IsOrder(m) == KindOf[m] \in {"order", "anonymous order"}

--------------------------------------------------------------------------------
(* The notices: by which channels, whether by bulk_send, whether in one       *)
(* transaction, how far the matter must have come, whether a device is needed *)

Notice(channels, bulk, atomic, needs, device) ==
  [channels |-> channels, bulk |-> bulk, atomic |-> atomic, needs |-> needs, device |-> device]

All == {"EMAIL", "PUSH", "INBOX"}

InAppEmail       == Notice({"EMAIL"}, FALSE, FALSE, 0, FALSE)
EventForAdmins   == Notice({"EMAIL"}, TRUE, TRUE, 1, FALSE)
TransactionIssue == Notice({"PUSH", "INBOX"}, TRUE, TRUE, 0, TRUE)
OrderReceipt     == Notice({"EMAIL"}, FALSE, TRUE, 0, FALSE)
EndOfOrder       == Notice(All, FALSE, TRUE, 0, FALSE)
EndOfAnonymous   == Notice({}, FALSE, FALSE, 0, FALSE)   \* a mail of its own, and no row
EndOfWithdraw    == Notice(All, FALSE, TRUE, 0, FALSE)
EndOfHighlight   == Notice({"EMAIL", "INBOX"}, FALSE, TRUE, 0, FALSE)
EndOfSubscription == Notice({"EMAIL", "INBOX"}, FALSE, TRUE, 0, FALSE)
NewMembership    == Notice({"EMAIL", "INBOX"}, FALSE, TRUE, 1, FALSE)
NearlySoldOut    == Notice(All, TRUE, TRUE, 0, FALSE)

Task ==
  [mail |-> InAppEmail, admins |-> EventForAdmins, issue |-> TransactionIssue,
   receipt |-> OrderReceipt, end |-> EndOfOrder, anonymous |-> EndOfAnonymous,
   withdraw |-> EndOfWithdraw, highlighting |-> EndOfHighlight,
   subscription |-> EndOfSubscription, membership |-> NewMembership, soldOut |-> NearlySoldOut]

--------------------------------------------------------------------------------
(* What a save queues                                                         *)

Steps(m) == IF IsOrder(m) \/ KindOf[m] = "membership" THEN 2 ELSE 1

\* finalize_other_process
OrderTells(m, n) ==
  CASE n = 1 -> {"receipt"}
    [] OTHER -> IF KindOf[m] = "anonymous order" THEN {"anonymous"} ELSE {"end"}

\* (A faulty variant: what was paid is announced although the payment failed.)
PaymentTellsAnyway(m, paid) ==
  {"issue"} \cup (IF KindOf[m] \in {"subscription", "highlighting"} THEN {KindOf[m]} ELSE {})

\* handle_payment_transaction.  For a withdraw it queues one more task, with the key of the
\* transaction for that of the withdraw, which finds nothing.
PaymentTells(m, paid) ==
  {"issue"} \cup (IF paid /\ KindOf[m] \in {"subscription", "highlighting"} THEN {KindOf[m]} ELSE {})

\* handle_withdraws_transaction, handle_membership_creation, initiate_notification_processes.
RowTells(m, n, paid) ==
  CASE KindOf[m] = "withdraw" -> IF paid THEN {"withdraw"} ELSE {}
    [] KindOf[m] = "membership" -> IF n = 1 THEN {"membership"} ELSE {}
    [] KindOf[m] = "event" -> {"admins"}
    [] KindOf[m] = "account" -> {"mail"}
    [] OTHER -> {}

IsPaidFor(m, n) == n = 1 /\ KindOf[m] \notin {"membership", "event", "account"}

\* The completion of a payment saves its matter too, if it was paid.
Tells(m, n, paid) ==
  (IF IsPaidFor(m, n) THEN PaymentTells(m, paid) ELSE {})
    \cup (IF IsOrder(m) THEN (IF paid THEN OrderTells(m, n) ELSE {}) ELSE RowTells(m, n, paid))

\* (A faulty variant: told whenever few are left.)
IsUnder(before, after, p) == after * 100 <= p * Seats

\* "Check if it is the first time that the available quantity come under the threshold".
Crosses(before, after, p) == after * 100 <= p * Seats /\ p * Seats < before * 100

\* The last step of an order is the e-ticket task's, which takes its seats.
SeatsLeft(h) == IF handler[h].left > 0 THEN handler[h].left - SeatsOf[handler[h].of] ELSE handler[h].left

Alerts(h) ==
  IF IsOrder(handler[h].of) /\ handler[h].to = 2
  THEN {<<p, "soldOut">> : p \in {q \in Percentages :
          Crosses(SeatsLeft(h) + SeatsOf[handler[h].of], SeatsLeft(h), q)}}
  ELSE {}

--------------------------------------------------------------------------------
(* Handlers                                                                   *)

ReadMatter(h, m, paid) ==
  /\ handler[h] = Ready /\ step[m] < Steps(m)
  /\ IF paid THEN UNCHANGED faults ELSE IsPaidFor(m, step[m] + 1) /\ Fault
  /\ handler' = [handler EXCEPT ![h] = [pc |-> "read", of |-> m, to |-> step[m] + 1, paid |-> paid,
                                        left |-> left]]
  /\ doubtful' = doubtful \cup {handler[g].of : g \in {g \in Handler :
                                   handler[g] # Ready /\ handler[g].of = m}}
  /\ muddled' = (muddled \/ (IsOrder(m) /\ step[m] = 1 /\
       (left <= 0 \/ \E g \in Handler : /\ handler[g] # Ready
                                        /\ IsOrder(handler[g].of) /\ handler[g].to = 2)))
  /\ UNCHANGED <<step, left, waiting, clerk, inbox, failures, handed, crossings>>

\* The row is locked until the transaction ends; the notices leave at once.
SaveMatter(h) ==
  /\ handler[h].pc = "read"
  /\ \A g \in Handler : handler[g].pc = "saved" => handler[g].of # handler[h].of
  /\ handler' = [handler EXCEPT ![h].pc = "saved"]
  /\ LET m == handler[h].of
         jobs == ({m} \X Tells(m, handler[h].to, handler[h].paid)) \cup Alerts(h)
     IN waiting' = waiting (+) SetToBag(jobs)
  /\ UNCHANGED <<step, left, clerk, inbox, failures, handed, doubtful, crossings, muddled, faults>>

\* A payment that failed leaves its matter where it was.
CommitMatter(h) ==
  /\ handler[h].pc = "saved"
  /\ handler' = [handler EXCEPT ![h] = Ready]
  /\ LET m == handler[h].of IN
     /\ step' = IF handler[h].paid THEN [step EXCEPT ![m] = handler[h].to] ELSE step
     /\ IF IsOrder(m) /\ handler[h].to = 2
        THEN /\ left' = SeatsLeft(h)
             /\ crossings' = [p \in Percentages |->
                  crossings[p] + IF SeatsLeft(h) * 100 <= p * Seats /\ p * Seats < left * 100
                                 THEN 1 ELSE 0]
        ELSE UNCHANGED <<left, crossings>>
  /\ UNCHANGED <<waiting, clerk, inbox, failures, handed, doubtful, muddled, faults>>

\* An exception after the save, or the handler's death: nothing is kept but what was queued.
RollBackMatter(h) ==
  /\ handler[h].pc = "saved" /\ Fault
  /\ handler' = [handler EXCEPT ![h] = Ready]
  /\ doubtful' = doubtful \cup {handler[h].of}
  /\ muddled' = (muddled \/ (IsOrder(handler[h].of) /\ handler[h].to = 2))
  /\ UNCHANGED <<step, left, waiting, clerk, inbox, failures, handed, crossings>>

--------------------------------------------------------------------------------
(* The notices' tasks                                                         *)

\* A row that is not there raises, a user without a device is not told: the task is over.
TakeNotice(c, j) ==
  /\ clerk[c] = Ready
  /\ waiting' = waiting (-) SetToBag({j})
  /\ LET n == Task[j[2]]
         found == j[2] = "soldOut" \/ (step[j[1]] >= n.needs /\ (n.device => j[1] \in HasDevice))
     IN /\ clerk' = IF found THEN [clerk EXCEPT ![c] = [pc |-> "send", job |-> j]] ELSE clerk
        /\ inbox' = IF found /\ ~n.atomic /\ n.channels # {} THEN inbox (+) SetToBag({j})
                    ELSE inbox
  /\ UNCHANGED <<step, left, handler, failures, handed, doubtful, crossings, muddled, faults>>

\* Notification.send, bulk_send
HandOver(c) ==
  /\ clerk[c].pc = "send"
  /\ handed' = handed (+) SetToBag({clerk[c].job})
  /\ clerk' = [clerk EXCEPT ![c].pc = "commit"]
  /\ UNCHANGED <<step, left, handler, waiting, inbox, failures, doubtful, crossings, muddled, faults>>

\* (A faulty variant: a row that was refused keeps its status.)
RefusedRowKept(c) ==
  /\ inbox' = inbox (+) SetToBag({clerk[c].job})
  /\ UNCHANGED failures

\* The row of a message that was refused: FAILED by send, none by bulk_send, which raises.
RefusedRow(c) ==
  LET j == clerk[c].job
      n == Task[j[2]]
  IN /\ failures' = IF n.bulk \/ n.channels = {} THEN failures ELSE failures (+) SetToBag({j})
     /\ inbox' = IF ~n.atomic /\ n.channels # {} THEN inbox (-) SetToBag({j}) ELSE inbox

Refuse(c) ==
  /\ clerk[c].pc = "send" /\ Fault
  /\ RefusedRow(c)
  /\ clerk' = [clerk EXCEPT ![c] = Ready]
  /\ UNCHANGED <<step, left, handler, waiting, handed, doubtful, crossings, muddled>>

CommitNotice(c) ==
  /\ clerk[c].pc = "commit"
  /\ LET j == clerk[c].job
     IN inbox' = IF Task[j[2]].atomic THEN inbox (+) SetToBag({j}) ELSE inbox
  /\ clerk' = [clerk EXCEPT ![c] = Ready]
  /\ UNCHANGED <<step, left, handler, waiting, failures, handed, doubtful, crossings, muddled, faults>>

\* What had not been committed is not kept.
ClerkDies(c) ==
  /\ clerk[c] # Ready /\ Fault
  /\ clerk' = [clerk EXCEPT ![c] = Ready]
  /\ UNCHANGED <<step, left, handler, waiting, inbox, failures, handed, doubtful, crossings, muddled>>

--------------------------------------------------------------------------------
NoticesInit ==
  /\ \E before \in SUBSET {m \in Matter : IsOrder(m)} :   \* orders started before
       step = [m \in Matter |-> IF m \in before THEN 1 ELSE 0]
  /\ left = Seats
  /\ handler = [h \in Handler |-> Ready] /\ clerk = [c \in Clerk |-> Ready]
  /\ waiting = EmptyBag /\ inbox = EmptyBag /\ failures = EmptyBag /\ handed = EmptyBag
  /\ doubtful = {} /\ crossings = [p \in Percentages |-> 0] /\ muddled = FALSE /\ faults = 0

NoticesNext ==
  \/ \E h \in Handler : \/ \E m \in Matter, paid \in BOOLEAN : ReadMatter(h, m, paid)
                        \/ SaveMatter(h) \/ CommitMatter(h) \/ RollBackMatter(h)
  \/ \E c \in Clerk : \/ \E j \in BagToSet(waiting) : TakeNotice(c, j)
                      \/ HandOver(c) \/ Refuse(c) \/ CommitNotice(c) \/ ClerkDies(c)

NoticesSpec == NoticesInit /\ [][NoticesNext]_noticesVars

--------------------------------------------------------------------------------
(* Properties                                                                 *)

\* How many of a bag's members are j.
Copies(j, B) == IF BagIn(j, B) THEN B[j] ELSE 0

\* NotificationViewSet.for_user: rows of status SUCCESS that have the inbox among their channels.
Listed == {j \in BagToSet(inbox) : "INBOX" \in Task[j[2]].channels}

\* What a user finds in his inbox was handed to the mailing service, although the row is
\* inserted with the status SUCCESS before it is: refusals and deaths notwithstanding.
ListedWasSent == \A j \in Listed : Copies(j, inbox) <= Copies(j, handed)

\* A notice that something has ended is about something that has, or is about to be committed:
\* it takes a rollback after the save to announce what never was.
SerialNoticesAreTrue ==
  \A j \in BagToSet(handed) :
    j[1] \notin Percentages \cup doubtful /\ j[2] \notin {"issue", "mail"} =>
      \/ step[j[1]] >= (IF j[2] \in {"end", "anonymous"} THEN 2 ELSE 1)
      \/ \E h \in Handler : handler[h].pc = "saved" /\ handler[h].of = j[1] /\ handler[h].paid

\* A step of a matter is told once, and the owner hears once for every time a ticket came
\* under a percentage, however often payments failed before.
SerialToldOnceEach ==
  LET told == handed (+) waiting IN
  /\ \A j \in BagToSet(told) :
       j[1] \notin Percentages \cup doubtful /\ j[2] # "issue" => Copies(j, told) <= 1
  /\ ~muddled => \A p \in Percentages :
       Copies(<<p, "soldOut">>, told) <=
         crossings[p] + Cardinality({h \in Handler :
                          handler[h].pc = "saved" /\ <<p, "soldOut">> \in Alerts(h)})

NoticesAreRight == ListedWasSent /\ SerialNoticesAreTrue /\ SerialToldOnceEach

NoticesTypeOK ==
  /\ step \in [Matter -> 0..2] /\ left \in Int
  /\ \A h \in Handler : handler[h].pc \in {"ready", "read", "saved"}
  /\ \A c \in Clerk : clerk[c].pc \in {"ready", "send", "commit"}
  /\ \A b \in {waiting, inbox, failures, handed} :
       IsABag(b) /\ BagToSet(b) \subseteq (Matter \cup Percentages) \X DOMAIN Task
================================================================================
