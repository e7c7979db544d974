------------------------------- MODULE EventAdmin -------------------------------
(* The row of an event, and everyone who writes it: its organizers create,    *)
(* edit, validate and delete it, the e-ticket task and the sellers raise its  *)
(* participant count.                                                         *)
(*                                                                            *)
(* An edit reads the row, and saves the whole of it later; the e-ticket task  *)
(* reads the count with the order, and saves count and tickets in one         *)
(* transaction; a verdict and a direct sale write their own column.  One      *)
(* CheckConstraint stands behind them all: a private event does not take more *)
(* participants than its limit.  An ephemeral event is created apart, and is  *)
(* hidden from the organizers' endpoints by the default manager.              *)
EXTENDS Integers, FiniteSets, TLC

CONSTANTS
  Event,         \* events, by the (name, date) the table keeps unique
  EventWorker,   \* web workers and task workers
  DefaultLimit,  \* the limit an organization may set without a subscription
  Limit,         \* the limits that are asked for
  Quantity,      \* the quantities that are ordered
  MaxStarted,    \* bound: orders of a quantity whose task has not run
  MaxIssued,     \* bound: no order is made once so many e-tickets are issued
  MaxEventCalls  \* bound: edits, verdicts and deletions

ASSUME DefaultLimitAssumption == DefaultLimit \in Nat /\ Limit \subseteq Nat
ASSUME QuantityAssumption == Quantity \subseteq Nat \ {0}

VARIABLES
  event,      \* event[e]: the row, or NoEvent
  ticketed,   \* events that have a ticket
  started,    \* started[e][q]: orders of q tickets whose task has not run
  desk,       \* desk[w]: what a worker is doing, the row it has read included
  issued,     \* issued[e]: e-tickets (history)
  verdict,    \* verdict[e]: the last activation or deactivation (history)
  muddledEv,  \* muddledEv[e]: the columns a stale or a manual value went to (history)
  eventCalls, orphans

eventVars ==
  <<event, ticketed, started, desk, issued, verdict, muddledEv, eventCalls, orphans>>

NoEvent == [kind |-> "none"]
NoDesk  == [pc |-> "free"]
Exists(e) == event[e] # NoEvent

\* (A faulty variant: the manager does not leave the ephemeral events out.)
VisibleEvenEphemeral(e) == Exists(e) /\ ~event[e].deleted

\* Event.objects: active, not soft-deleted, not ephemeral.
VisibleEvent(e) == Exists(e) /\ ~event[e].deleted /\ event[e].kind = "ordinary"

\* ReadOnlyEventViewSet.list for a visitor; the organization's subscription is assumed.
ListedEvent(e) ==
  VisibleEvent(e) /\ event[e].valid /\ event[e].passed /\ ~event[e].private

\* (A faulty variant: the table has no such constraint.)
AnyRowAllowed(row) == TRUE

\* private_event_participant_limit
RowAllowed(row) == row.private => row.count <= row.limit

--------------------------------------------------------------------------------
(* Creation                                                                   *)

NewEvent(kind, private, limit, passed) ==
  [kind |-> kind, private |-> private, limit |-> limit, passed |-> passed,
   valid |-> FALSE, deleted |-> FALSE, count |-> 0, code |-> FALSE, room |-> FALSE]

\* validate_participant_limit
LimitGranted(limit, subscribed) == limit > DefaultLimit => subscribed

\* What is left to do once the row is there; its second save comes first.
InsertEvent(w, e, row, next) ==
  /\ desk[w] = NoDesk /\ event[e] = NoEvent
  /\ event' = [event EXCEPT ![e] = row]
  /\ desk' = [desk EXCEPT ![w] = [pc |-> "again", of |-> e, row |-> row, next |-> next]]
  /\ UNCHANGED <<ticketed, started, issued, verdict, muddledEv, eventCalls, orphans>>

\* create and create_private; the chat room is created by a later write, if it is asked for.
CreateEvent(w, e, private, limit, passed, subscribed, withRoom) ==
  /\ LimitGranted(limit, subscribed)
  /\ InsertEvent(w, e, NewEvent("ordinary", private, limit, passed), IF withRoom THEN "room" ELSE "done")

\* EphemeralEventCreateAPIView: no look at the subscription; the code comes by a later write.
CreateEphemeral(w, e, limit) == InsertEvent(w, e, NewEvent("ephemeral", TRUE, limit, FALSE), "code")

Differing(e, row) ==
  {c \in {"kind", "count", "valid", "deleted"} :
     \/ c = "kind"    /\ row.kind # event[e].kind
     \/ c = "count"   /\ row.count # event[e].count
     \/ c = "valid"   /\ row.valid # event[e].valid
     \/ c = "deleted" /\ row.deleted # event[e].deleted}

WriteRow(e, row) ==
  /\ event' = [event EXCEPT ![e] = row]
  /\ muddledEv' = [muddledEv EXCEPT ![e] = @ \cup Differing(e, row)]

\* instance.save(): the whole row, as it was created.
SaveAgain(w) ==
  /\ desk[w].pc = "again"
  /\ WriteRow(desk[w].of, desk[w].row)
  /\ desk' = [desk EXCEPT ![w] = IF @.next = "done" THEN NoDesk ELSE [pc |-> @.next, of |-> @.of]]
  /\ UNCHANGED <<ticketed, started, issued, verdict, eventCalls, orphans>>

FinishCreation(w) ==
  /\ desk[w].pc \in {"room", "code"}
  /\ event' = IF desk[w].pc = "room" THEN [event EXCEPT ![desk[w].of].room = TRUE]
              ELSE [event EXCEPT ![desk[w].of].code = TRUE]
  /\ desk' = [desk EXCEPT ![w] = NoDesk]
  /\ UNCHANGED <<ticketed, started, issued, verdict, muddledEv, eventCalls, orphans>>

\* The worker dies, or one of its later writes fails: the event stays as it was saved.
DieInCreation(w) ==
  /\ desk[w].pc \in {"again", "room", "code"}
  /\ orphans' = orphans \cup {desk[w].of}
  /\ desk' = [desk EXCEPT ![w] = NoDesk]
  /\ UNCHANGED <<event, ticketed, started, issued, verdict, muddledEv, eventCalls>>

--------------------------------------------------------------------------------
(* WriteOnlyEventViewSet: edit, verdict, deletion                             *)

\* get_object of update and of update_participant_limit.
ReadToEdit(w, e, what) ==
  /\ desk[w] = NoDesk /\ VisibleEvent(e)
  /\ eventCalls < MaxEventCalls /\ eventCalls' = eventCalls + 1
  /\ desk' = [desk EXCEPT ![w] = [pc |-> what, of |-> e, row |-> event[e]]]
  /\ UNCHANGED <<event, ticketed, started, issued, verdict, muddledEv, orphans>>

\* serializer.save: the whole row, or an IntegrityError and nothing.
SaveRow(w, row) ==
  LET e == desk[w].of IN
  /\ desk' = [desk EXCEPT ![w] = NoDesk]
  /\ IF RowAllowed(row)
     THEN WriteRow(e, row)
     ELSE UNCHANGED <<event, muddledEv>>
  /\ UNCHANGED <<ticketed, started, issued, verdict, eventCalls, orphans>>

\* EventCreationSerializer leaves the count, the passage of validation and, where neither date
\* nor hour is sent, is_ephemeral open.  The limit is looked at against the subscription only
\* if it is sent.
SaveEdit(w, kind, private, passed, limit, count, subscribed) ==
  /\ desk[w].pc = "edit"
  /\ limit # desk[w].row.limit => LimitGranted(limit, subscribed)
  /\ SaveRow(w, [desk[w].row EXCEPT !.kind = kind, !.private = private, !.passed = passed,
                                    !.limit = limit, !.count = count])

\* update_participant_limit passes no organization on: a limit that needs one raises.
SaveLimit(w, limit) ==
  /\ desk[w].pc = "limit"
  /\ LimitGranted(limit, FALSE)
  /\ SaveRow(w, [desk[w].row EXCEPT !.limit = limit])

Judge(e, columns, how) ==
  /\ VisibleEvent(e)
  /\ eventCalls < MaxEventCalls /\ eventCalls' = eventCalls + 1
  /\ event' = [event EXCEPT ![e] = columns]
  /\ verdict' = [verdict EXCEPT ![e] = how]
  /\ UNCHANGED <<ticketed, started, desk, issued, muddledEv, orphans>>

Activate(e) ==
  Judge(e, [event[e] EXCEPT !.valid = TRUE, !.passed = TRUE], "activated")

\* (A faulty variant: the event has to pass validation again.)
DeactivateValidation(e) == Judge(e, [event[e] EXCEPT !.passed = FALSE], "deactivated")

Deactivate(e) == Judge(e, [event[e] EXCEPT !.valid = FALSE], "deactivated")

\* Soft deletion; the row stays, for the orders that point to it.
DestroyEvent(e) == Judge(e, [event[e] EXCEPT !.deleted = TRUE], "destroyed")

\* TicketSerializer.validate_event
AddTicket(e) ==
  /\ VisibleEvent(e) /\ event[e].valid /\ event[e].passed
  /\ ticketed' = ticketed \cup {e}
  /\ UNCHANGED <<event, started, desk, issued, verdict, muddledEv, eventCalls, orphans>>

--------------------------------------------------------------------------------
(* Sales                                                                      *)

\* The payment of an order starts it, and nobody has looked at the limit: OrderViewSet.start,
\* which does, raises on Order.valid before it writes.
StartOrder(e, q) ==
  /\ e \in ticketed /\ issued[e] < MaxIssued
  /\ started[e][q] < MaxStarted
  /\ started' = [started EXCEPT ![e][q] = @ + 1]
  /\ UNCHANGED <<event, ticketed, desk, issued, verdict, muddledEv, eventCalls, orphans>>

\* generate_etickets_for_order reads the event with the order, before its transaction.
TaskRead(w, e, q) ==
  /\ desk[w] = NoDesk /\ started[e][q] > 0
  /\ started' = [started EXCEPT ![e][q] = @ - 1]
  /\ desk' = [desk EXCEPT ![w] = [pc |-> "task", of |-> e, q |-> q, count |-> event[e].count]]
  /\ UNCHANGED <<event, ticketed, issued, verdict, muddledEv, eventCalls, orphans>>

\* The count goes up from the value that was read.  If the constraint refuses it, the
\* e-tickets are rolled back with it and the order stays STARTED.
TaskCommit(w) ==
  /\ desk[w].pc = "task"
  /\ LET e   == desk[w].of
         row == [event[e] EXCEPT !.count = desk[w].count + desk[w].q]
     IN IF RowAllowed(row)
        THEN /\ event' = [event EXCEPT ![e] = row]
             /\ issued' = [issued EXCEPT ![e] = @ + desk[w].q]
             /\ muddledEv' = [muddledEv EXCEPT ![e] =
                               IF desk[w].count = event[e].count THEN @ ELSE @ \cup {"count"}]
        ELSE UNCHANGED <<event, issued, muddledEv>>
  /\ desk' = [desk EXCEPT ![w] = NoDesk]
  /\ UNCHANGED <<ticketed, started, verdict, eventCalls, orphans>>

\* record_direct_sale: an UPDATE of the count, in the transaction that creates the e-tickets.
DirectSale(e, q) ==
  /\ e \in ticketed /\ issued[e] < MaxIssued
  /\ LET row == [event[e] EXCEPT !.count = @ + q]
     IN RowAllowed(row) /\ event' = [event EXCEPT ![e] = row]
  /\ issued' = [issued EXCEPT ![e] = @ + q]
  /\ UNCHANGED <<ticketed, started, desk, verdict, muddledEv, eventCalls, orphans>>

--------------------------------------------------------------------------------
EventInit ==
  /\ event = [e \in Event |-> NoEvent]
  /\ ticketed = {} /\ orphans = {}
  /\ started = [e \in Event |-> [q \in Quantity |-> 0]]
  /\ desk = [w \in EventWorker |-> NoDesk]
  /\ issued = [e \in Event |-> 0]
  /\ verdict = [e \in Event |-> "none"]
  /\ muddledEv = [e \in Event |-> {}]
  /\ eventCalls = 0

\* A call that is refused changes nothing: who asks for more than the default is subscribed.
Subscribed(limit) == limit > DefaultLimit

EventNext ==
  \/ \E w \in EventWorker, e \in Event :
       \/ \E private, passed, withRoom \in BOOLEAN, limit \in Limit :
            CreateEvent(w, e, private, limit, passed, Subscribed(limit), withRoom)
       \/ \E limit \in Limit : CreateEphemeral(w, e, limit)
       \/ \E what \in {"edit", "limit"} : ReadToEdit(w, e, what)
       \/ \E q \in Quantity : TaskRead(w, e, q)
  \/ \E w \in EventWorker :
       \/ SaveAgain(w) \/ FinishCreation(w) \/ DieInCreation(w) \/ TaskCommit(w)
       \/ \E limit \in Limit : SaveLimit(w, limit)
       \/ /\ desk[w].pc = "edit"
          /\ LET row == desk[w].row IN
             \/ \E private, passed \in BOOLEAN, limit \in Limit, count \in {0, row.count} :
                  SaveEdit(w, row.kind, private, passed, limit, count, Subscribed(limit))
             \/ SaveEdit(w, "ephemeral", row.private, row.passed, row.limit, row.count, FALSE)
  \/ \E e \in Event : Activate(e) \/ Deactivate(e) \/ DestroyEvent(e) \/ AddTicket(e)
  \/ \E e \in Event, q \in Quantity : StartOrder(e, q) \/ DirectSale(e, q)

EventSpec == EventInit /\ [][EventNext]_eventVars

--------------------------------------------------------------------------------
(* Properties                                                                 *)

\* No more e-tickets are issued for a private event than its limit allows, as long as its
\* count was neither written by hand nor from a stale row: however many orders were paid for,
\* and however the limit and the privacy are edited meanwhile.
SerialTicketsWithinLimit ==
  \A e \in Event :
    Exists(e) /\ event[e].private /\ "count" \notin muddledEv[e] => issued[e] <= event[e].limit

\* An event that visitors are shown was activated by the last verdict, and was not deleted,
\* whatever was edited before or since: only an edit that had read the row before a verdict
\* or a deletion and saved it after puts an event back before the public.
SerialListedWasApproved ==
  \A e \in Event :
    ListedEvent(e) /\ muddledEv[e] \cap {"valid", "deleted"} = {} => verdict[e] = "activated"

\* An event that was created ephemeral stays apart: never activated, never listed, never sold,
\* without a chat room; and it has its access code as soon as its creation is over, unless that
\* was cut.  (An edit can make any event ephemeral: that one keeps its room and its sales.)
EphemeralStaysApart ==
  \A e \in Event :
    Exists(e) /\ event[e].kind = "ephemeral" /\ "kind" \notin muddledEv[e] =>
      /\ ~event[e].valid /\ ~event[e].room /\ e \notin ticketed /\ issued[e] = 0
      /\ \/ event[e].code \/ e \in orphans
         \/ \E w \in EventWorker : desk[w].pc \in {"again", "code"} /\ desk[w].of = e

\* All three: an event sells no more than its limit, is shown when it was approved, and an
\* ephemeral one stays apart.
EventsSound == SerialTicketsWithinLimit /\ SerialListedWasApproved /\ EphemeralStaysApart

EventTypeOK ==
  /\ \A e \in Event : Exists(e) =>
       /\ event[e].kind \in {"ordinary", "ephemeral"} /\ event[e].limit \in Nat
       /\ event[e].count \in Nat /\ event[e].private \in BOOLEAN
  /\ issued \in [Event -> Nat] /\ started \in [Event -> [Quantity -> Nat]]
  /\ ticketed \subseteq Event /\ eventCalls \in 0..MaxEventCalls
================================================================================
