------------------------------ MODULE StockAlerts ------------------------------
(* The signals of TicketStock: a super-seller is to hear when what his          *)
(* sellers still have for an event runs low, a seller when his own stock does.  *)
(*                                                                              *)
(* A stock is saved inside the transaction of a sale or an allocation, and the  *)
(* handlers run with it: they see the transaction's own change and what the     *)
(* others have committed.  That the super-seller was told is kept for an hour   *)
(* in the cache, outside of every transaction; the settings name no cache, so   *)
(* each web process has Django's local one, which it loses when it restarts.    *)
(* Both notifications are still to be written: what is modelled is when they    *)
(* are called.                                                                  *)
EXTENDS Integers, FiniteSetsExt

CONSTANTS
  StockHolder,   \* sellers of one super-seller, each with a stock of a ticket of his own
  LowForSeller,  \* LOW_STOCK_THRESHOLD_SELLER
  LowInTotal,    \* LOW_STOCK_THRESHOLD_SUPER_SELLER
  StockMoves,    \* what one transaction adds to a stock (sales take)
  StockClerk,    \* web processes, each with a cache of its own
  MaxStockMoves, \* bound: transactions
  MaxHours       \* bound: the times that a process's key is forgotten

ASSUME StockAlertsAssumption ==
  /\ LowForSeller \in Nat /\ LowInTotal \in Nat
  /\ MaxStockMoves \in Nat /\ MaxHours \in Nat /\ StockMoves \subseteq Int

VARIABLES
  onHand,        \* onHand[s]: total_allocated - total_sold, as committed; -1: no row yet
  moving,        \* moving[c]: the transaction clerk c is in
  notified,      \* notified[c]: low_stock_notif_... is in the cache of process c
  \* Observation only, but for moves and hours, which bound the runs.
  moves, hours,  \* hours[c]: times that process c forgot its key
  superTold,     \* superTold[c]: calls of notify_super_seller_low_stock since then
  sellerTold,    \* sellers for whom notify_low_stock was called
  lastMover,     \* the process that committed last, if it saved since it forgot its key
  together       \* two transactions were open at once

alertVars ==
  <<onHand, moving, notified, moves, hours, superTold, sellerTold, lastMover, together>>

NoStockRow == -1
NobodyMoved == "nobody"
NotMoving  == [pc |-> "none"]
InTotal(stock) == LET Left(s) == stock[s] IN
  MapThenSumSet(Left, {s \in DOMAIN stock : stock[s] # NoStockRow})

Moving == {c \in StockClerk : moving[c] # NotMoving}

\* What the transaction of clerk c sees once it has saved.
AsSeen(c) == [onHand EXCEPT ![moving[c].of] = moving[c].left]

\* The row is locked; the first allocation makes it, and saves it again like any other.
LockStock(c, s, n) ==
  LET left == (IF onHand[s] = NoStockRow THEN 0 ELSE onHand[s]) + n IN
  /\ moving[c] = NotMoving /\ moves < MaxStockMoves
  /\ \A d \in Moving : moving[d].of # s
  /\ left >= 0 /\ (onHand[s] = NoStockRow => n > 0)
  /\ moving' = [moving EXCEPT ![c] = [pc |-> "save", of |-> s, left |-> left, hour |-> hours[c]]]
  /\ moves' = moves + 1
  /\ together' = (together \/ Moving # {})
  /\ UNCHANGED <<onHand, notified, hours, superTold, sellerTold, lastMover>>

\* Both services save total_sold, or total_allocated, as an F expression.
SavedAsExpression == TRUE

\* check_stock_levels (pre_save): it gives up on an expression.
WarnsSeller(before, after) ==
  /\ ~SavedAsExpression
  /\ before > LowForSeller /\ LowForSeller >= after

\* (A faulty variant: the threshold itself is not low.)
BelowThreshold(n) == n < LowInTotal

RunsLow(n) == n <= LowInTotal

\* check_super_seller_total_stock (post_save): the sum, and a look into the cache.
SaveStock(c) ==
  /\ moving[c].pc = "save"
  /\ moving' = [moving EXCEPT ![c].hour = hours[c], ![c].pc =
       IF RunsLow(InTotal(AsSeen(c))) /\ ~notified[c] THEN "notify" ELSE "end"]
  /\ sellerTold' = IF WarnsSeller(onHand[moving[c].of], moving[c].left)
                   THEN sellerTold \cup {moving[c].of} ELSE sellerTold
  /\ UNCHANGED <<onHand, notified, moves, hours, superTold, lastMover, together>>

\* (A faulty variant: the key is not set.)
NotifyEachTime(c) ==
  /\ moving[c].pc = "notify"
  /\ superTold' = [superTold EXCEPT ![c] = @ + 1]
  /\ moving' = [moving EXCEPT ![c].pc = "end"]
  /\ UNCHANGED <<onHand, notified, moves, hours, sellerTold, lastMover, together>>

NotifyAndCache(c) ==
  /\ moving[c].pc = "notify"
  /\ superTold' = [superTold EXCEPT ![c] = @ + 1]
  /\ notified' = [notified EXCEPT ![c] = TRUE]
  /\ moving' = [moving EXCEPT ![c].pc = "end"]
  /\ UNCHANGED <<onHand, moves, hours, sellerTold, lastMover, together>>

CommitMove(c) ==
  /\ moving[c].pc = "end"
  /\ onHand' = AsSeen(c)
  /\ lastMover' = IF moving[c].hour = hours[c] THEN c ELSE NobodyMoved
  /\ moving' = [moving EXCEPT ![c] = NotMoving]
  /\ UNCHANGED <<notified, moves, hours, superTold, sellerTold, together>>

\* What follows in the transaction fails: the row is as it was, the cache is not.
RollBackMove(c) ==
  /\ moving[c].pc \in {"save", "end"}
  /\ moving' = [moving EXCEPT ![c] = NotMoving]
  /\ UNCHANGED <<onHand, notified, moves, hours, superTold, sellerTold, lastMover, together>>

\* cache.set(..., 3600): the hour is over, or the process has been restarted.
ForgetNotified(c) ==
  /\ notified[c] /\ hours[c] < MaxHours
  /\ notified' = [notified EXCEPT ![c] = FALSE] /\ hours' = [hours EXCEPT ![c] = @ + 1]
  /\ superTold' = [superTold EXCEPT ![c] = 0]
  /\ lastMover' = IF lastMover = c THEN NobodyMoved ELSE lastMover
  /\ UNCHANGED <<onHand, moving, moves, sellerTold, together>>

StockAlertsInit ==
  /\ onHand = [s \in StockHolder |-> NoStockRow]
  /\ moving = [c \in StockClerk |-> NotMoving]
  /\ notified = [c \in StockClerk |-> FALSE]
  /\ hours = [c \in StockClerk |-> 0] /\ superTold = [c \in StockClerk |-> 0]
  /\ moves = 0 /\ sellerTold = {} /\ lastMover = NobodyMoved /\ together = FALSE

StockAlertsNext ==
  \/ \E c \in StockClerk :
       \/ \E s \in StockHolder, n \in StockMoves : LockStock(c, s, n)
       \/ SaveStock(c) \/ NotifyAndCache(c) \/ CommitMove(c) \/ RollBackMove(c)
       \/ ForgetNotified(c)

StockAlertsSpec == StockAlertsInit /\ [][StockAlertsNext]_alertVars

--------------------------------------------------------------------------------
\* Transactions one after the other: whenever one is committed that leaves little, the
\* super-seller has been told of it, or of an earlier one, within the hour and by the same
\* process, whatever was rolled back before; and each process tells him once an hour (two
\* processes tell him twice).  Of two transactions at once each may miss what the other has
\* not committed, and neither tells.
SerialToldOfLowStock ==
  ~together =>
    /\ Moving = {} /\ lastMover # NobodyMoved /\ InTotal(onHand) <= LowInTotal
         => notified[lastMover]
    /\ \A c \in StockClerk : superTold[c] <= 1

StockAlertsTypeOK ==
  /\ onHand \in [StockHolder -> Int]
  /\ \A c \in StockClerk : moving[c].pc \in {"none", "save", "notify", "end"}
  /\ sellerTold \subseteq StockHolder
================================================================================
