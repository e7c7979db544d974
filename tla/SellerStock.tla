----------------------------- MODULE SellerStock -----------------------------
(****************************************************************************)
(* The stock of a ticket that a super-seller hands out to its sellers:      *)
(* allocate_ticket_stock and sell_tickets_by_seller, each one database      *)
(* transaction that locks rows as it goes (PostgreSQL, READ COMMITTED).     *)
(*                                                                          *)
(* The two lock the same rows in opposite orders: an allocation the ticket, *)
(* then the seller's stock; a sale the stock, then, through select_related, *)
(* the ticket.  The event's row is locked along with the ticket's, and the  *)
(* two count as one row here.                                               *)
(****************************************************************************)
EXTENDS Integers, Sums

CONSTANTS
  Seller,   \* the sellers of one super-seller
  Clerk,    \* web workers that answer allocation and sale requests
  Lot,      \* the quantities requests are about
  Initial   \* Ticket.initial_quantity; -1 is "unlimited"

ASSUME SellerAssumption       == IsFiniteSet(Seller)
ASSUME LotAssumption          == Lot \subseteq Nat \ {0}
ASSUME StockInitialAssumption == Initial \in Nat \cup {-1}

VARIABLES
  available,    \* Ticket.available_quantity
  participants, \* Event.participant_count
  stocked,      \* the sellers that have a TicketStock row
  allocated,    \* allocated[s]: TicketStock.total_allocated
  sold,         \* sold[s]: TicketStock.total_sold
  job           \* job[c]: the request clerk c is answering

ticketVars == <<available, participants>>
stockVars  == <<stocked, allocated, sold>>

stockSpecVars == <<available, participants, stocked, allocated, sold, job>>

NoJob == [pc |-> "idle"]
Job   == [pc : {"ticket", "stock", "both"}, kind : {"allocate", "sell"}, seller : Seller,
          quantity : Lot]

Init ==
  /\ available    = Initial
  /\ participants = 0
  /\ stocked      = {}
  /\ allocated    = [s \in Seller |-> 0]
  /\ sold         = [s \in Seller |-> 0]
  /\ job          = [c \in Clerk |-> NoJob]

\* TicketStock.available_quantity
InStock(s) == allocated[s] - sold[s]

\* Row locks are held to the end of the transaction.
HoldsTicket(c)   == job[c].pc \in {"ticket", "both"}
HoldsStock(c, s) == job[c].pc \in {"stock", "both"} /\ job[c].seller = s

\* (A faulty variant: only sales wait for the ticket's row.)
TicketFreeOfSales == \A c \in Clerk : ~(HoldsTicket(c) /\ job[c].kind = "sell")

TicketFree   == \A c \in Clerk : ~HoldsTicket(c)
StockFree(s) == \A c \in Clerk : ~HoldsStock(c, s)

------------------------------------------------------------------------------
(* allocate_ticket_stock                                                    *)

\* The ticket is locked and what is left of it is checked; -1 is less than any lot.
AllocateLockTicket(c, s, q) ==
  /\ job[c] = NoJob
  /\ TicketFree
  /\ available >= q
  /\ job' = [job EXCEPT ![c] = [pc |-> "ticket", kind |-> "allocate", seller |-> s,
                                quantity |-> q]]
  /\ UNCHANGED <<ticketVars, stockVars>>

\* get_or_create of the seller's stock, locked.
AllocateLockStock(c) ==
  /\ job[c].pc = "ticket"
  /\ StockFree(job[c].seller)
  /\ job' = [job EXCEPT ![c].pc = "both"]
  /\ UNCHANGED <<ticketVars, stockVars>>

\* Both counters move by F() expressions.
AllocateCommit(c) ==
  LET s == job[c].seller
      q == job[c].quantity
  IN /\ job[c].pc = "both" /\ job[c].kind = "allocate"
     /\ stocked'   = stocked \cup {s}
     /\ allocated' = [allocated EXCEPT ![s] = @ + q]
     /\ available' = available - q
     /\ job'       = [job EXCEPT ![c] = NoJob]
     /\ UNCHANGED <<participants, sold>>

------------------------------------------------------------------------------
(* sell_tickets_by_seller                                                   *)

\* A seller without a stock row for the ticket is refused.
SellLockStock(c, s, q) ==
  /\ job[c] = NoJob
  /\ s \in stocked
  /\ StockFree(s)
  /\ job' = [job EXCEPT ![c] = [pc |-> "stock", kind |-> "sell", seller |-> s,
                                quantity |-> q]]
  /\ UNCHANGED <<ticketVars, stockVars>>

\* (Faulty variants: one of the two quantities is not looked at.)
InStockOnly(s, q)  == InStock(s) >= q
InTicketOnly(s, q) == Initial = -1 \/ available >= q

Sellable(s, q) == InStock(s) >= q /\ (Initial = -1 \/ available >= q)

\* (A faulty variant: a sale that cannot be served is not refused.)
SellLockTicketNoRefusal(c) ==
  /\ job[c].pc = "stock"
  /\ TicketFree /\ Sellable(job[c].seller, job[c].quantity)
  /\ job' = [job EXCEPT ![c].pc = "both"]
  /\ UNCHANGED <<ticketVars, stockVars>>

\* With both rows locked the two quantities are checked; a refusal ends the transaction.
SellLockTicket(c) ==
  /\ job[c].pc = "stock"
  /\ TicketFree
  /\ job' = [job EXCEPT ![c] = IF Sellable(job[c].seller, job[c].quantity)
                               THEN [@ EXCEPT !.pc = "both"] ELSE NoJob]
  /\ UNCHANGED <<ticketVars, stockVars>>

\* (A faulty variant: the counter of the stock is not saved.)
SellCommitUnrecorded(c) ==
  /\ job[c].pc = "both" /\ job[c].kind = "sell"
  /\ available'    = IF Initial = -1 THEN available ELSE available - job[c].quantity
  /\ participants' = participants + job[c].quantity
  /\ job'          = [job EXCEPT ![c] = NoJob]
  /\ UNCHANGED stockVars

\* The order, its transaction and its e-tickets are created in the same transaction;
\* what was taken from the ticket at allocation is taken from it again.
SellCommit(c) ==
  LET s == job[c].seller
      q == job[c].quantity
  IN /\ job[c].pc = "both" /\ job[c].kind = "sell"
     /\ sold'         = [sold EXCEPT ![s] = @ + q]
     /\ available'    = IF Initial = -1 THEN available ELSE available - q
     /\ participants' = participants + q
     /\ job'          = [job EXCEPT ![c] = NoJob]
     /\ UNCHANGED <<stocked, allocated>>

------------------------------------------------------------------------------
\* An allocation and a sale of one seller that wait for each other.
Deadlocked(c, d) ==
  /\ job[c].pc = "ticket" /\ job[d].pc = "stock"
  /\ job[c].seller = job[d].seller

\* PostgreSQL (external) aborts one of them; the request answers with an error.
DeadlockAbort(c) ==
  /\ \E d \in Clerk : Deadlocked(c, d) \/ Deadlocked(d, c)
  /\ job' = [job EXCEPT ![c] = NoJob]
  /\ UNCHANGED <<ticketVars, stockVars>>

\* An exception before the commit, or the death of the web worker.
Rollback(c) ==
  /\ job[c] # NoJob
  /\ job' = [job EXCEPT ![c] = NoJob]
  /\ UNCHANGED <<ticketVars, stockVars>>

Advance(c) == AllocateLockStock(c) \/ AllocateCommit(c) \/ SellLockTicket(c) \/ SellCommit(c)

Next == \E c \in Clerk :
  \/ \E s \in Seller, q \in Lot : AllocateLockTicket(c, s, q) \/ SellLockStock(c, s, q)
  \/ Advance(c) \/ DeadlockAbort(c) \/ Rollback(c)

Spec == Init /\ [][Next]_stockSpecVars

\* Row locks are granted to their waiters in turn, and a deadlock is always detected.
Fairness == \A c \in Clerk : SF_stockSpecVars(Advance(c)) /\ WF_stockSpecVars(DeadlockAbort(c))

FairSpec == Spec /\ Fairness

------------------------------------------------------------------------------
(* Properties.                                                              *)

TypeOK ==
  /\ available \in (IF Initial = -1 THEN {-1} ELSE 0..Initial)
  /\ participants \in Nat
  /\ stocked \subseteq Seller
  /\ allocated \in [Seller -> Nat]
  /\ sold \in [Seller -> Nat]
  /\ job \in [Clerk -> {NoJob} \cup Job]

\* "La quantité vendue ne peut pas dépasser la quantité allouée" (TicketStock.clean), which
\* no save enforces: it takes the locks of both services to keep it under any interleaving
\* of sales and allocations, aborted ones included.
SoldWithinAllocation == \A s \in Seller : sold[s] <= allocated[s]

\* Sellers are never allocated more than there is: allocate_ticket_stock locks the ticket
\* "pour empêcher la surallocation concurrente".  (Online sales, which take no lock, are
\* not part of this module.)
Allocated        == TotalOf(allocated, Seller)
NoOverallocation == Initial # -1 => Allocated <= Initial

\* No request is stuck: locks taken in opposite orders are always got out of.
RequestsEnd == \A c \in Clerk : job[c].pc # "idle" ~> job[c].pc = "idle"
==============================================================================
