-------------------------- MODULE SellerStockProofs ---------------------------
(****************************************************************************)
(* That no seller sells more than it was allocated, and that all of them     *)
(* together are not allocated more than there is, for any number of         *)
(* sellers, web workers and lots.                                           *)
(*                                                                          *)
(* What a request has checked stays true until its commit because of the    *)
(* row locks it holds, so the invariant speaks of both: each row is locked  *)
(* by one request at most (OneHolder), a request holds the rows of its kind *)
(* (Phases), and what it checked under them still holds (Checked).          *)
(****************************************************************************)
EXTENDS SellerStock, SumLemmas, TLAPS

OneHolder ==
  /\ \A c, d \in Clerk : HoldsTicket(c) /\ HoldsTicket(d) => c = d
  /\ \A c, d \in Clerk : \A s \in Seller : HoldsStock(c, s) /\ HoldsStock(d, s) => c = d

Phases ==
  \A c \in Clerk : /\ job[c].pc = "ticket" => job[c].kind = "allocate"
                   /\ job[c].pc = "stock"  => job[c].kind = "sell"

Checked ==
  \A c \in Clerk :
    /\ HoldsTicket(c) /\ job[c].kind = "allocate" => available >= job[c].quantity
    /\ job[c].pc = "both" /\ job[c].kind = "sell" => Sellable(job[c].seller, job[c].quantity)

StockInv == TypeOK /\ OneHolder /\ Phases /\ Checked /\ SoldWithinAllocation

USE LotAssumption, StockInitialAssumption

\* A request that is under way has its fields.
LEMMA JobType ==
  ASSUME TypeOK, NEW c \in Clerk, job[c] # NoJob
  PROVE  /\ job[c] \in Job
         /\ job[c].seller \in Seller
         /\ job[c].quantity \in Lot /\ job[c].quantity \in Nat /\ job[c].quantity > 0
<1>1. job[c] \in Job
  BY DEF TypeOK
<1>2. job[c].seller \in Seller /\ job[c].quantity \in Lot
  BY <1>1 DEF Job
<1>3. \A q \in Lot : q \in Nat /\ q > 0
  OBVIOUS
<1>4. QED
  BY <1>1, <1>2, <1>3

\* The invariant holds initially.
LEMMA StockInit == Init => StockInv
BY DEF Init, StockInv, TypeOK, OneHolder, Phases, Checked, SoldWithinAllocation,
       HoldsTicket, HoldsStock, NoJob, InStock

\* A request that ends without a commit leaves the invariant.
LEMMA EndStep ==
  ASSUME StockInv, NEW c \in Clerk, job' = [job EXCEPT ![c] = NoJob],
         UNCHANGED <<ticketVars, stockVars>>
  PROVE  StockInv'
<1>1. TypeOK'
  BY DEF StockInv, TypeOK, ticketVars, stockVars
<1>2. job'[c] = NoJob /\ \A d \in Clerk : d # c => job'[d] = job[d]
  BY DEF StockInv, TypeOK
<1>3. OneHolder'
  BY <1>2 DEF StockInv, OneHolder, HoldsTicket, HoldsStock, NoJob
<1>4. Phases'
  BY <1>2 DEF StockInv, Phases, NoJob
<1>5. Checked'
  BY <1>2 DEF StockInv, Checked, HoldsTicket, NoJob, Sellable, InStock, ticketVars, stockVars
<1>6. SoldWithinAllocation'
  BY DEF StockInv, SoldWithinAllocation, stockVars
<1>7. QED
  BY <1>1, <1>3, <1>4, <1>5, <1>6 DEF StockInv

\* A request takes the lock on the ticket's row, having checked what is left.
LEMMA AllocateLockTicketStep ==
  ASSUME StockInv, NEW c \in Clerk, NEW s \in Seller, NEW q \in Lot,
         AllocateLockTicket(c, s, q)
  PROVE  StockInv'
<1> USE DEF AllocateLockTicket, ticketVars, stockVars
<1>1. TypeOK'
  BY DEF StockInv, TypeOK, Job
<1>2. /\ job'[c].pc = "ticket" /\ job'[c].kind = "allocate" /\ job'[c].quantity = q
      /\ \A d \in Clerk : d # c => job'[d] = job[d]
  BY DEF StockInv, TypeOK
<1>3. OneHolder'
  BY <1>2 DEF StockInv, OneHolder, HoldsTicket, HoldsStock, TicketFree
<1>4. Phases'
  BY <1>2 DEF StockInv, Phases
<1>5. Checked'
  BY <1>2 DEF StockInv, Checked, HoldsTicket, Sellable, InStock
<1>6. SoldWithinAllocation'
  BY DEF StockInv, SoldWithinAllocation
<1>7. QED
  BY <1>1, <1>3, <1>4, <1>5, <1>6 DEF StockInv

\* An allocation takes the lock on the seller's stock as well.
LEMMA AllocateLockStockStep ==
  ASSUME StockInv, NEW c \in Clerk, AllocateLockStock(c)
  PROVE  StockInv'
<1> USE DEF AllocateLockStock, ticketVars, stockVars
<1>0. job[c] \in Job
  BY JobType DEF StockInv, NoJob
<1>1. TypeOK'
  BY <1>0 DEF StockInv, TypeOK, Job
<1>2. /\ job'[c] = [job[c] EXCEPT !.pc = "both"]
      /\ job[c].kind = "allocate"
      /\ \A d \in Clerk : d # c => job'[d] = job[d]
  BY DEF StockInv, TypeOK, Phases
<1>2a. /\ job'[c].pc = "both" /\ job'[c].kind = "allocate"
       /\ job'[c].seller = job[c].seller /\ job'[c].quantity = job[c].quantity
  BY <1>0, <1>2 DEF Job
<1>3. OneHolder'
  BY <1>2, <1>2a DEF StockInv, OneHolder, HoldsTicket, HoldsStock, StockFree
<1>4. Phases'
  BY <1>2, <1>2a DEF StockInv, Phases
<1>5. Checked'
  BY <1>2, <1>2a DEF StockInv, Checked, HoldsTicket, Sellable, InStock
<1>6. SoldWithinAllocation'
  BY DEF StockInv, SoldWithinAllocation
<1>7. QED
  BY <1>1, <1>3, <1>4, <1>5, <1>6 DEF StockInv

\* An allocation ends: nobody else has checked the ticket meanwhile, and a stock grows.
LEMMA AllocateCommitStep ==
  ASSUME StockInv, NEW c \in Clerk, AllocateCommit(c)
  PROVE  StockInv'
<1> DEFINE s == job[c].seller
           q == job[c].quantity
<1> USE DEF AllocateCommit
<1>0. job[c] # NoJob /\ s \in Seller /\ q \in Nat /\ q > 0
  BY JobType DEF StockInv, NoJob
<1>1. available >= q /\ Initial # -1 /\ available \in 0..Initial
  BY <1>0 DEF StockInv, Checked, HoldsTicket, TypeOK
<1>2. TypeOK'
  BY <1>0, <1>1 DEF StockInv, TypeOK
<1>3. job'[c] = NoJob /\ \A d \in Clerk : d # c => job'[d] = job[d]
  BY DEF StockInv, TypeOK
<1>4. OneHolder'
  BY <1>3 DEF StockInv, OneHolder, HoldsTicket, HoldsStock, NoJob
<1>5. Phases'
  BY <1>3 DEF StockInv, Phases, NoJob
<1>6. \A d \in Clerk : ~HoldsTicket(d)'
  BY <1>3 DEF StockInv, OneHolder, HoldsTicket, NoJob
<1>7. Checked'
  BY <1>6 DEF Checked, HoldsTicket
<1>8. SoldWithinAllocation'
  BY <1>0 DEF StockInv, SoldWithinAllocation, TypeOK
<1>9. QED
  BY <1>2, <1>4, <1>5, <1>7, <1>8 DEF StockInv

\* A sale takes the lock on its seller's stock.
LEMMA SellLockStockStep ==
  ASSUME StockInv, NEW c \in Clerk, NEW s \in Seller, NEW q \in Lot, SellLockStock(c, s, q)
  PROVE  StockInv'
<1> USE DEF SellLockStock, ticketVars, stockVars
<1>1. TypeOK'
  BY DEF StockInv, TypeOK, Job
<1>2. /\ job'[c].pc = "stock" /\ job'[c].kind = "sell" /\ job'[c].seller = s
      /\ \A d \in Clerk : d # c => job'[d] = job[d]
  BY DEF StockInv, TypeOK
<1>3. OneHolder'
  BY <1>2 DEF StockInv, OneHolder, HoldsTicket, HoldsStock, StockFree
<1>4. Phases'
  BY <1>2 DEF StockInv, Phases
<1>5. Checked'
  BY <1>2 DEF StockInv, Checked, HoldsTicket, Sellable, InStock
<1>6. SoldWithinAllocation'
  BY DEF StockInv, SoldWithinAllocation
<1>7. QED
  BY <1>1, <1>3, <1>4, <1>5, <1>6 DEF StockInv

\* A sale takes the lock on the ticket's row too, or is refused.
LEMMA SellLockTicketStep ==
  ASSUME StockInv, NEW c \in Clerk, SellLockTicket(c)
  PROVE  StockInv'
<1> USE DEF SellLockTicket
<1>1. CASE ~Sellable(job[c].seller, job[c].quantity)
  BY <1>1, EndStep
<1>2. CASE Sellable(job[c].seller, job[c].quantity)
  <2> USE DEF ticketVars, stockVars
  <2>0. job[c] \in Job
    BY JobType DEF StockInv, NoJob
  <2>1. job' = [job EXCEPT ![c] = [job[c] EXCEPT !.pc = "both"]]
    BY <1>2
  <2>2. TypeOK'
    BY <2>0, <2>1 DEF StockInv, TypeOK, Job
  <2>3. /\ job'[c] = [job[c] EXCEPT !.pc = "both"]
        /\ job[c].kind = "sell"
        /\ \A d \in Clerk : d # c => job'[d] = job[d]
    BY <2>1 DEF StockInv, TypeOK, Phases
  <2>4. /\ job'[c].pc = "both" /\ job'[c].kind = "sell"
        /\ job'[c].seller = job[c].seller /\ job'[c].quantity = job[c].quantity
    BY <2>0, <2>3 DEF Job
  <2>5. OneHolder'
    BY <2>3, <2>4 DEF StockInv, OneHolder, HoldsTicket, HoldsStock, TicketFree
  <2>6. Phases'
    BY <2>3, <2>4 DEF StockInv, Phases
  <2>7. Checked'
    BY <1>2, <2>3, <2>4 DEF StockInv, Checked, HoldsTicket, Sellable, InStock
  <2>8. SoldWithinAllocation'
    BY DEF StockInv, SoldWithinAllocation
  <2>9. QED
    BY <2>2, <2>5, <2>6, <2>7, <2>8 DEF StockInv
<1>3. QED
  BY <1>1, <1>2

\* A sale ends: its check still holds, and nobody else has checked the same rows.
LEMMA SellCommitStep ==
  ASSUME StockInv, NEW c \in Clerk, SellCommit(c)
  PROVE  StockInv'
<1> DEFINE s == job[c].seller
           q == job[c].quantity
<1> USE DEF SellCommit
<1>0. job[c] # NoJob /\ s \in Seller /\ q \in Nat /\ q > 0
  BY JobType DEF StockInv, NoJob
<1>1. Sellable(s, q)
  BY DEF StockInv, Checked
<1>2. TypeOK'
  BY <1>0, <1>1, SMTT(30) DEF StockInv, TypeOK, Sellable
<1>3. job'[c] = NoJob /\ \A d \in Clerk : d # c => job'[d] = job[d]
  BY DEF StockInv, TypeOK
<1>4. OneHolder'
  BY <1>3 DEF StockInv, OneHolder, HoldsTicket, HoldsStock, NoJob
<1>5. Phases'
  BY <1>3 DEF StockInv, Phases, NoJob
<1>6. \A d \in Clerk : ~HoldsTicket(d)'
  BY <1>3 DEF StockInv, OneHolder, HoldsTicket, NoJob
<1>7. Checked'
  BY <1>6 DEF Checked, HoldsTicket
<1>8. SoldWithinAllocation'
  BY <1>0, <1>1 DEF StockInv, SoldWithinAllocation, TypeOK, Sellable, InStock
<1>9. QED
  BY <1>2, <1>4, <1>5, <1>7, <1>8 DEF StockInv

\* Every step leaves the invariant.
LEMMA StockStep == StockInv /\ [Next]_stockSpecVars => StockInv'
<1>1. SUFFICES ASSUME StockInv, [Next]_stockSpecVars PROVE StockInv'
  OBVIOUS
<1>2. CASE UNCHANGED stockSpecVars
  BY <1>1, <1>2 DEF stockSpecVars, StockInv, TypeOK, OneHolder, Phases, Checked,
     SoldWithinAllocation, HoldsTicket, HoldsStock, Sellable, InStock
<1>3. CASE Next
  <2>1. PICK c \in Clerk :
          \/ \E s \in Seller, q \in Lot : AllocateLockTicket(c, s, q) \/ SellLockStock(c, s, q)
          \/ Advance(c) \/ DeadlockAbort(c) \/ Rollback(c)
    BY <1>3 DEF Next
  <2>2. CASE \E s \in Seller, q \in Lot : AllocateLockTicket(c, s, q) \/ SellLockStock(c, s, q)
    BY <1>1, <2>2, AllocateLockTicketStep, SellLockStockStep
  <2>3. CASE Advance(c)
    BY <1>1, <2>3, AllocateLockStockStep, AllocateCommitStep, SellLockTicketStep,
       SellCommitStep DEF Advance
  <2>4. CASE DeadlockAbort(c) \/ Rollback(c)
    BY <1>1, <2>4, EndStep DEF DeadlockAbort, Rollback
  <2>5. QED
    BY <2>1, <2>2, <2>3, <2>4
<1>4. QED
  BY <1>1, <1>2, <1>3

\* In every behaviour each counter keeps its range: the ticket's never goes below zero,
\* whatever allocations and sales interleave (both services check it under its lock).
THEOREM StockTypeCorrect == Spec => []TypeOK
<1>1. StockInv => TypeOK
  BY DEF StockInv
<1>2. QED
  BY <1>1, StockInit, StockStep, PTL DEF Spec

\* No interleaving of allocations, sales, refusals and aborts lets a seller sell more than
\* it was allocated (sell_tickets_by_seller checks it under the lock of the stock's row).
THEOREM NoSellerOversells == Spec => []SoldWithinAllocation
<1>1. StockInv => SoldWithinAllocation
  BY DEF StockInv
<1>2. QED
  BY <1>1, StockInit, StockStep, PTL DEF Spec
------------------------------------------------------------------------------
(* That sellers are never allocated more than there is.  Every seat is in one *)
(* place: left on the ticket, given to a seller, or sold and taken from the   *)
(* ticket once more.                                                          *)

SeatsAccounted ==
  Initial # -1 => available + TotalOf(allocated, Seller) + TotalOf(sold, Seller) = Initial

LEMMA SeatsInit == Init => SeatsAccounted
<1> SUFFICES ASSUME Init PROVE SeatsAccounted
  OBVIOUS
<1>1. TotalOf(allocated, Seller) = 0 /\ TotalOf(sold, Seller) = 0
  BY TotalOfNothing DEF Init
<1>2. QED
  BY <1>1 DEF Init, SeatsAccounted

\* Nothing but a commit moves a seat.
LEMMA SeatsStep == StockInv /\ SeatsAccounted /\ [Next]_stockSpecVars => SeatsAccounted'
<1> SUFFICES ASSUME StockInv, SeatsAccounted, [Next]_stockSpecVars PROVE SeatsAccounted'
  OBVIOUS
<1> USE DEF StockInv
<1>0. allocated \in [Seller -> Nat] /\ sold \in [Seller -> Nat]
  BY DEF TypeOK
<1>1. CASE UNCHANGED <<available, allocated, sold>>
  BY <1>1 DEF SeatsAccounted
<1>2. ASSUME NEW c \in Clerk, AllocateCommit(c) PROVE SeatsAccounted'
  <2>1. PICK s \in Seller, q \in Nat : s = job[c].seller /\ q = job[c].quantity
    BY <1>2, JobType DEF AllocateCommit, NoJob
  <2>2. allocated' = [allocated EXCEPT ![s] = @ + q] /\ available' = available - q /\ sold' = sold
    BY <1>2, <2>1 DEF AllocateCommit
  <2>3. TotalOf(allocated', Seller) = TotalOf(allocated, Seller) + q
    <3>1. TotalOf([allocated EXCEPT ![s] = @ + q], Seller) = TotalOf(allocated, Seller) + q
      BY <1>0, SellerAssumption, TotalOfCounters, ZenonT(30)
    <3>2. QED
      BY <2>2, <3>1
  <2>4. available \in Int /\ TotalOf(allocated, Seller) \in Nat /\ TotalOf(sold, Seller) \in Nat
    BY <1>0, SellerAssumption, TotalIsNat DEF TypeOK
  <2>5. QED
    BY <2>2, <2>3, <2>4 DEF SeatsAccounted
<1>3. ASSUME NEW c \in Clerk, SellCommit(c) PROVE SeatsAccounted'
  <2>1. PICK s \in Seller, q \in Nat : s = job[c].seller /\ q = job[c].quantity
    BY <1>3, JobType DEF SellCommit, NoJob
  <2>2. /\ sold' = [sold EXCEPT ![s] = @ + q] /\ allocated' = allocated
        /\ Initial # -1 => available' = available - q
    BY <1>3, <2>1 DEF SellCommit
  <2>3. TotalOf(sold', Seller) = TotalOf(sold, Seller) + q
    <3>1. TotalOf([sold EXCEPT ![s] = @ + q], Seller) = TotalOf(sold, Seller) + q
      BY <1>0, SellerAssumption, TotalOfCounters, ZenonT(30)
    <3>2. QED
      BY <2>2, <3>1
  <2>4. available \in Int /\ TotalOf(allocated, Seller) \in Nat /\ TotalOf(sold, Seller) \in Nat
    BY <1>0, SellerAssumption, TotalIsNat DEF TypeOK
  <2>5. QED
    BY <2>2, <2>3, <2>4 DEF SeatsAccounted
<1>4. QED
  <2>1. CASE UNCHANGED stockSpecVars
    BY <1>1, <2>1 DEF stockSpecVars
  <2>2. ASSUME NEW c \in Clerk, ~AllocateCommit(c), ~SellCommit(c),
               \/ \E s \in Seller, q \in Lot : AllocateLockTicket(c, s, q) \/ SellLockStock(c, s, q)
               \/ Advance(c) \/ DeadlockAbort(c) \/ Rollback(c)
        PROVE  SeatsAccounted'
    BY <1>1, <2>2 DEF AllocateLockTicket, SellLockStock, Advance, AllocateLockStock, SellLockTicket,
       DeadlockAbort, Rollback, ticketVars, stockVars
  <2>3. QED
    BY <1>2, <1>3, <2>1, <2>2 DEF Next

\* However allocations and sales interleave, abort and wait for each other, sellers are
\* never allocated more than there is: allocate_ticket_stock checks what is left under the
\* ticket's lock, and whatever is sold is taken from the ticket again.
THEOREM NeverOverallocated == Spec => []NoOverallocation
<1>1. StockInv /\ SeatsAccounted => NoOverallocation
  <2> SUFFICES ASSUME StockInv, SeatsAccounted, Initial # -1 PROVE Allocated <= Initial
    BY DEF NoOverallocation
  <2>1. /\ available \in 0..Initial
        /\ allocated \in [Seller -> Nat] /\ sold \in [Seller -> Nat]
    BY DEF StockInv, TypeOK
  <2>2. TotalOf(allocated, Seller) \in Nat /\ TotalOf(sold, Seller) \in Nat
    BY <2>1, SellerAssumption, TotalIsNat
  <2>3. QED
    BY <2>1, <2>2 DEF SeatsAccounted, Allocated
<1>2. StockInv /\ SeatsAccounted /\ [Next]_stockSpecVars => (StockInv /\ SeatsAccounted)'
  BY StockStep, SeatsStep
<1>3. QED
  BY <1>1, <1>2, StockInit, SeatsInit, PTL DEF Spec
==============================================================================
