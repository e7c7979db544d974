------------------------------- MODULE TicketShelf -------------------------------
(* The tickets of one event, as the organizers put them on sale and edit      *)
(* them, against the generation task that takes from them.                    *)
(*                                                                            *)
(* An edit saves the whole row it read, the count included; the task saves    *)
(* the count it computed from what it read.  Every save of a ticket, the      *)
(* task's as well, ends with a signal that compares the ticket's expiry with  *)
(* that of the event object at hand, and moves the event's if it is earlier.  *)
EXTENDS Integers, FiniteSets, TLC

CONSTANTS
  TicketClass,   \* tickets of the event
  TillWorker,    \* web workers and task workers
  OnSale,        \* quantities put on sale; -1 is without limit
  Expiry,        \* expiry dates of tickets
  FirstExpiry,   \* the event's: a day after it begins
  OrderSize,     \* tickets of an order
  MaxOrdered,    \* bound: orders of a ticket
  MaxShelfCalls  \* bound: creations, edits and deletions

ASSUME ShelfAssumption ==
  OnSale \subseteq Int /\ Expiry \subseteq Nat /\ FirstExpiry \in Nat /\ OrderSize \in Nat \ {0}

VARIABLES
  shelf,        \* shelf[t]: the Ticket row, or NoTicket
  eventExpiry,  \* expiry_date of the event
  till,         \* till[w]: what a worker has read and is about to write
  ordered,      \* ordered[t]: paid orders whose task has not begun
  madeOf,       \* madeOf[t]: e-tickets (history)
  ordersOf,     \* ordersOf[t]: orders in all (history)
  putOnSale,    \* putOnSale[t]: what the last creation or edit made the total (history)
  staleCount,   \* tickets whose row was saved from a stale or a rival reading (history)
  staleExpiry,  \* a signal was cut off, or the event's expiry saved from a stale reading
  shelfCalls

shelfVars == <<shelf, eventExpiry, till, ordered, madeOf, ordersOf, putOnSale, staleCount,
               staleExpiry, shelfCalls>>

NoTicket == [here |-> FALSE]
NoTill   == [pc |-> "free"]
OnShelf(t) == shelf[t].here /\ ~shelf[t].deleted

CountShelfCall == shelfCalls < MaxShelfCalls /\ shelfCalls' = shelfCalls + 1

--------------------------------------------------------------------------------
(* WriteOnlyTicketViewSet                                                     *)

\* (A faulty variant: every save takes the quantity left from the initial one.)
SavedFromInitial(old, new) ==
  [new EXCEPT !.initial = IF old.here THEN @ ELSE new.available,
              !.available = IF old.here THEN new.initial ELSE @]

\* Ticket.save: initial_quantity is set when the row is new.
SavedTicket(old, new) == [new EXCEPT !.initial = IF old.here THEN @ ELSE new.available]

\* The serializer has read the event, to validate it, before the row is saved.
BeginCreate(w, t, quantity, expiry) ==
  /\ till[w] = NoTill /\ ~shelf[t].here /\ CountShelfCall
  /\ ~\E v \in TillWorker : till[v].pc = "save" /\ till[v].of = t   \* t names the row to come
  /\ till' = [till EXCEPT ![w] =
       [pc |-> "save", of |-> t, seen |-> NoTicket, eventSeen |-> eventExpiry,
        row |-> [here |-> TRUE, available |-> quantity, initial |-> 0, expiry |-> expiry,
                 deleted |-> FALSE]]]
  /\ UNCHANGED <<shelf, eventExpiry, ordered, madeOf, ordersOf, putOnSale, staleCount, staleExpiry>>

\* get_object of update; both quantities and the expiry are open to the client.
BeginEdit(w, t, available, initial, expiry) ==
  /\ till[w] = NoTill /\ OnShelf(t) /\ CountShelfCall
  /\ till' = [till EXCEPT ![w] =
       [pc |-> "save", of |-> t, seen |-> shelf[t], eventSeen |-> eventExpiry,
        row |-> [shelf[t] EXCEPT !.available = available, !.initial = initial,
                                 !.expiry = expiry]]]
  /\ UNCHANGED <<shelf, eventExpiry, ordered, madeOf, ordersOf, putOnSale, staleCount, staleExpiry>>

SaveTicket(w) ==
  /\ till[w].pc = "save"
  /\ LET t == till[w].of
         row == SavedTicket(till[w].seen, till[w].row)
     IN /\ shelf' = [shelf EXCEPT ![t] = row]
        /\ putOnSale' = [putOnSale EXCEPT ![t] = madeOf[t] + till[w].row.available]
        /\ staleCount' = IF shelf[t] = till[w].seen THEN staleCount ELSE staleCount \cup {t}
        /\ till' = [till EXCEPT ![w] =
             [pc |-> "signal", expiry |-> row.expiry, eventSeen |-> till[w].eventSeen]]
  /\ UNCHANGED <<eventExpiry, ordered, madeOf, ordersOf, staleExpiry, shelfCalls>>

\* Soft deletion writes its own column; it is a save of the ticket like the others.
DestroyTicket(w, t) ==
  /\ till[w] = NoTill /\ OnShelf(t) /\ CountShelfCall
  /\ shelf' = [shelf EXCEPT ![t].deleted = TRUE]
  /\ till' = [till EXCEPT ![w] = [pc |-> "deleted", expiry |-> shelf[t].expiry]]
  /\ UNCHANGED <<eventExpiry, ordered, madeOf, ordersOf, putOnSale, staleCount, staleExpiry>>

--------------------------------------------------------------------------------
(* update_event_expiry_datetime, on every save of a ticket                    *)

\* (A faulty variant: the event's expiry follows the last ticket's, earlier or later.)
Follows(w) == till[w].expiry # till[w].eventSeen

Stretches(w) == till[w].expiry > till[w].eventSeen

Stretch(w) ==
  /\ eventExpiry' = IF Stretches(w) THEN till[w].expiry ELSE eventExpiry
  /\ staleExpiry' = (staleExpiry \/ till[w].eventSeen # eventExpiry)

\* Nobody has read the event of a ticket that is deleted: the signal does.
ReadItsEvent(w) ==
  /\ till[w].pc = "deleted"
  /\ till' = [till EXCEPT ![w] =
       [pc |-> "signal", expiry |-> till[w].expiry, eventSeen |-> eventExpiry]]
  /\ UNCHANGED <<shelf, eventExpiry, ordered, madeOf, ordersOf, putOnSale, staleCount, staleExpiry,
                 shelfCalls>>

Signal(w) ==
  /\ till[w].pc = "signal"
  /\ Stretch(w)
  /\ till' = [till EXCEPT ![w] = NoTill]
  /\ UNCHANGED <<shelf, ordered, madeOf, ordersOf, putOnSale, staleCount, shelfCalls>>

\* The worker dies between the two saves.
DieBeforeSignal(w) ==
  /\ till[w].pc \in {"deleted", "signal"}
  /\ staleExpiry' = TRUE
  /\ till' = [till EXCEPT ![w] = NoTill]
  /\ UNCHANGED <<shelf, eventExpiry, ordered, madeOf, ordersOf, putOnSale, staleCount, shelfCalls>>

\* An edit of the event: its expiry is not among the fields, and is saved as it was read.
ReadEvent(w) ==
  /\ till[w] = NoTill /\ CountShelfCall
  /\ till' = [till EXCEPT ![w] = [pc |-> "event", eventSeen |-> eventExpiry]]
  /\ UNCHANGED <<shelf, eventExpiry, ordered, madeOf, ordersOf, putOnSale, staleCount, staleExpiry>>

SaveEvent(w) ==
  /\ till[w].pc = "event"
  /\ eventExpiry' = till[w].eventSeen
  /\ staleExpiry' = (staleExpiry \/ till[w].eventSeen # eventExpiry)
  /\ till' = [till EXCEPT ![w] = NoTill]
  /\ UNCHANGED <<shelf, ordered, madeOf, ordersOf, putOnSale, staleCount, shelfCalls>>

--------------------------------------------------------------------------------
(* Orders and their task                                                      *)

\* OrderItemSerializer.validate: looks, and reserves nothing.
OrderTicket(t) ==
  /\ OnShelf(t) /\ ordersOf[t] < MaxOrdered
  /\ shelf[t].available = -1 \/ shelf[t].available >= OrderSize
  /\ ordered' = [ordered EXCEPT ![t] = @ + 1]
  /\ ordersOf' = [ordersOf EXCEPT ![t] = @ + 1]
  /\ UNCHANGED <<shelf, eventExpiry, till, madeOf, putOnSale, staleCount, staleExpiry, shelfCalls>>

TakeOrder(w, t) ==
  /\ till[w] = NoTill /\ ordered[t] > 0
  /\ ordered' = [ordered EXCEPT ![t] = @ - 1]
  /\ till' = [till EXCEPT ![w] =
       [pc |-> "task", of |-> t, available |-> shelf[t].available, expiry |-> shelf[t].expiry,
        eventSeen |-> eventExpiry]]
  /\ UNCHANGED <<shelf, eventExpiry, madeOf, ordersOf, putOnSale, staleCount, staleExpiry,
                 shelfCalls>>

Left(available) == IF available > 0 THEN available - OrderSize ELSE available

\* The e-tickets, the count and the signal of its save commit together.
IssueOrder(w) ==
  /\ till[w].pc = "task"
  /\ LET t == till[w].of
     IN /\ shelf' = [shelf EXCEPT ![t].available = Left(till[w].available)]
        /\ madeOf' = [madeOf EXCEPT ![t] = @ + OrderSize]
        /\ staleCount' = IF shelf[t].available = till[w].available THEN staleCount
                         ELSE staleCount \cup {t}
  /\ Stretch(w)
  /\ till' = [till EXCEPT ![w] = NoTill]
  /\ UNCHANGED <<ordered, ordersOf, putOnSale, shelfCalls>>

--------------------------------------------------------------------------------
ShelfInit ==
  /\ shelf = [t \in TicketClass |-> NoTicket] /\ eventExpiry = FirstExpiry
  /\ till = [w \in TillWorker |-> NoTill]
  /\ ordered = [t \in TicketClass |-> 0] /\ madeOf = [t \in TicketClass |-> 0]
  /\ ordersOf = [t \in TicketClass |-> 0] /\ putOnSale = [t \in TicketClass |-> 0]
  /\ staleCount = {} /\ staleExpiry = FALSE /\ shelfCalls = 0

ShelfNext ==
  \/ \E w \in TillWorker :
       \/ SaveTicket(w) \/ ReadItsEvent(w) \/ Signal(w) \/ DieBeforeSignal(w)
       \/ ReadEvent(w) \/ SaveEvent(w) \/ IssueOrder(w)
       \/ \E t \in TicketClass :
            \/ TakeOrder(w, t) \/ DestroyTicket(w, t)
            \/ \E quantity \in OnSale, expiry \in Expiry : BeginCreate(w, t, quantity, expiry)
            \/ /\ OnShelf(t)
               /\ \E available \in OnSale \cup {shelf[t].available},
                     initial \in {0, shelf[t].initial},
                     expiry \in Expiry :
                    BeginEdit(w, t, available, initial, expiry)
  \/ \E t \in TicketClass : OrderTicket(t)

ShelfSpec == ShelfInit /\ [][ShelfNext]_shelfVars

--------------------------------------------------------------------------------
(* Properties                                                                 *)

\* What is left of a ticket is what was last put on sale less the e-tickets made since, when
\* nobody saved the row from a reading that another save had outrun: deletions, edits and
\* orders that were checked and not reserved notwithstanding.
SerialCountAddsUp ==
  \A t \in TicketClass :
    shelf[t].here /\ t \notin staleCount /\ shelf[t].available > 0 =>
      shelf[t].available = putOnSale[t] - madeOf[t]

\* The event does not expire before its tickets, or the signal that moves it far enough is
\* still to come: it takes a signal cut off, or two savers that had read the event at once.
SerialExpiryCovers ==
  ~staleExpiry =>
    \A t \in TicketClass :
      OnShelf(t) => \/ shelf[t].expiry <= eventExpiry
                    \/ \E w \in TillWorker :
                         till[w].pc = "signal" /\ till[w].expiry >= shelf[t].expiry

\* Both: what is on sale is counted right, and lasts no longer than its event.
ShelfSound == SerialCountAddsUp /\ SerialExpiryCovers

ShelfTypeOK ==
  /\ \A t \in TicketClass : shelf[t].here => shelf[t].available \in Int /\ shelf[t].expiry \in Expiry
  /\ eventExpiry \in Nat /\ madeOf \in [TicketClass -> Nat] /\ ordered \in [TicketClass -> Nat]
================================================================================
