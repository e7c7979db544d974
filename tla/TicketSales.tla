----------------------------- MODULE TicketSales ------------------------------
(****************************************************************************)
(* Both ways a ticket leaves the shop: online, by OrderPipeline, and by way *)
(* of a super-seller's stock, by SellerStock.  They share one Ticket row    *)
(* (available) and one Event row (participants).                            *)
(*                                                                          *)
(* The stock services lock these rows and move available_quantity by F()    *)
(* expressions; the generation task saves what it had read before.  All the *)
(* task ever waits for is a row lock held when it writes.                   *)
(****************************************************************************)
EXTENDS OrderPipeline

CONSTANTS Seller, Clerk, Lot

ASSUME SellersAssumption == IsFiniteSet(Seller) /\ Lot \subseteq Nat \ {0}

VARIABLES stocked, allocated, sold, job

Stock == INSTANCE SellerStock

salesVars == <<vars, stocked, allocated, sold, job>>

SalesInit == Init /\ Stock!Init

\* What both parts write is in neither of these.
onlineVars == <<req, order, tx, updatedAt, distributed, balance, batches, couponUses, queue,
                webhook, handler, worker, receipt, endNotice, sent, undone, missed,
                deliveries>>
sellerVars == <<stocked, allocated, sold, job>>

\* A task's commit saves the ticket and the event: it waits for whoever locks them.
OnlineStep == Next /\ (batches' # batches => Stock!TicketFree) /\ UNCHANGED sellerVars
SellerStep == Stock!Next /\ UNCHANGED onlineVars

SalesNext == OnlineStep \/ SellerStep
SalesSpec == SalesInit /\ [][SalesNext]_salesVars

------------------------------------------------------------------------------
\* allocate_ticket_stock locks the ticket "pour empêcher la surallocation concurrente": what
\* sellers have been given never exceeds what there was, whatever is sold online meanwhile.
AllocationsBounded == Stock!NoOverallocation

\* Lost updates of the unlocked task go one way only, whatever allocations and sales it
\* overwrites: the ticket's counter has never lost a seat that no e-ticket, allocation or
\* sale stands for, and the event never counts a participant that holds no ticket.
Allocated      == TotalOf(allocated, Seller)
Sold           == TotalOf(sold, Seller)
SalesAccounted ==
  /\ available >= Initial - Issued - Allocated - Sold
  /\ participants <= Issued + Sold
==============================================================================
