------------------------- MODULE OrganizationAccount -------------------------
(****************************************************************************)
(* The money of an organization: sales credit its financial account, a      *)
(* withdraw asks the payout gateway to send some of it, and the gateway's   *)
(* callbacks debit the account.                                             *)
(*                                                                          *)
(* Creating a withdraw is one database transaction that talks to the        *)
(* gateway half way; a callback is one too, and it holds the withdraw's row *)
(* from its first save to its end.  The account is read and saved as a      *)
(* whole, without a lock: what it holds in between is overwritten.          *)
(****************************************************************************)
EXTENDS Integers, Sums

CONSTANTS
  Payout,          \* the withdraws that may be asked for
  PayoutAmount,    \* PayoutAmount[p]
  MinimalWithdraw, \* Variable MINIMAL_AMOUNT_REQUIRED_FOR_WITHDRAW
  CallbackWorker,  \* web workers that answer the gateway's callbacks
  Sale,            \* orders whose income is distributed to the organization
  SaleIncome,      \* SaleIncome[s]
  MaxAccepted      \* bound: callbacks handled for one withdraw

ASSUME AccountRowsAssumption  == IsFiniteSet(Payout) /\ IsFiniteSet(Sale)
ASSUME PayoutAmountAssumption == PayoutAmount \in [Payout -> Nat \ {0}]
ASSUME SaleIncomeAssumption   == SaleIncome \in [Sale -> Nat]
ASSUME MinimalAssumption      == MinimalWithdraw \in Nat /\ MaxAccepted \in Nat

VARIABLES
  fund,         \* OrganizationFinancialAccount.balance
  withdraw,     \* withdraw[p]: Withdraw.status as committed
  payoutTx,     \* payoutTx[p]: status of the WITHDRAW transaction as committed
  asking,       \* asking[p]: how far the request that creates p has come
  payout,       \* payout[p]: what became of p at the gateway
  callback,     \* callback[c]: the callback worker c is answering
  crediting,    \* crediting[s]: how far the distribution of sale s has come
  \* Observation only: no action reads them, except accepted, which bounds the runs.
  accepted,     \* accepted[p]: callbacks handled for p
  debits,       \* debits[p]: times the account was debited for p
  overlapped    \* two requests have worked on the same row at once

accountVars == <<fund, withdraw, payoutTx, asking, payout, callback, crediting,
                 accepted, debits, overlapped>>

WithdrawStatus == {"none", "PROCESSING", "FINISHED", "FAILED"}
PayoutTxStatus == {"none", "PENDING", "RESOLVED", "FAILED"}
NoAnswer       == [pc |-> "waiting"]

AccountTypeOK ==
  /\ fund \in Int
  /\ withdraw \in [Payout -> WithdrawStatus]
  /\ payoutTx \in [Payout -> PayoutTxStatus]
  /\ asking \in [Payout -> {"idle", "checked", "disbursed", "answered"}]
  /\ payout \in [Payout -> {"none", "disbursed", "sent", "failed"}]
  /\ callback \in [CallbackWorker ->
       {NoAnswer} \cup [pc : {"found", "held", "read"}, payout : Payout, seen : Int]]
  /\ crediting \in [Sale -> [pc : {"unpaid", "read", "done"}, seen : Int]]
  /\ accepted \in [Payout -> Nat]
  /\ debits \in [Payout -> Nat]
  /\ overlapped \in BOOLEAN

AccountInit ==
  /\ fund       = 0
  /\ withdraw   = [p \in Payout |-> "none"]
  /\ payoutTx   = [p \in Payout |-> "none"]
  /\ asking     = [p \in Payout |-> "idle"]
  /\ payout     = [p \in Payout |-> "none"]
  /\ callback   = [c \in CallbackWorker |-> NoAnswer]
  /\ crediting  = [s \in Sale |-> [pc |-> "unpaid", seen |-> 0]]
  /\ accepted   = [p \in Payout |-> 0]
  /\ debits     = [p \in Payout |-> 0]
  /\ overlapped = FALSE

\* Transaction.completed
TxCompleted(p) == payoutTx[p] \in {"RESOLVED", "FAILED"}

\* Somebody has read the account and not saved it yet.
SomebodySaves ==
  \/ \E c \in CallbackWorker : callback[c].pc = "read"
  \/ \E s \in Sale : crediting[s].pc = "read"

\* Somebody is answering a callback for p.
SomebodyAnswers(p) ==
  \E c \in CallbackWorker : callback[c] # NoAnswer /\ callback[c].payout = p

------------------------------------------------------------------------------
(* WithdrawViewSet.create and WithdrawSerializer                            *)

\* Nothing is set aside: other withdraws still open count for nothing here.
BeginWithdraw(p) ==
  /\ asking[p] = "idle"
  /\ PayoutAmount[p] >= MinimalWithdraw
  /\ fund > PayoutAmount[p]
  /\ asking' = [asking EXCEPT ![p] = "checked"]
  /\ UNCHANGED <<fund, withdraw, payoutTx, payout, callback, crediting, accepted, debits,
                 overlapped>>

\* Withdraw.process finds the gateway unavailable: the request ends with an error.
InitializeFails(p) ==
  /\ asking[p] = "checked"
  /\ asking' = [asking EXCEPT ![p] = "answered"]
  /\ UNCHANGED <<fund, withdraw, payoutTx, payout, callback, crediting, accepted, debits,
                 overlapped>>

\* Withdraw.process and disburse: the payout is on its way, uncommitted here.
Disburse(p) ==
  /\ asking[p] = "checked"
  /\ asking' = [asking EXCEPT ![p] = "disbursed"]
  /\ payout' = [payout EXCEPT ![p] = "disbursed"]
  /\ UNCHANGED <<fund, withdraw, payoutTx, callback, crediting, accepted, debits, overlapped>>

CommitWithdraw(p) ==
  /\ asking[p] = "disbursed"
  /\ asking'   = [asking EXCEPT ![p] = "answered"]
  /\ withdraw' = [withdraw EXCEPT ![p] = "PROCESSING"]
  /\ payoutTx' = [payoutTx EXCEPT ![p] = "PENDING"]
  /\ UNCHANGED <<fund, payout, callback, crediting, accepted, debits, overlapped>>

\* An error after the disbursement: the database forgets what the gateway does not.
ForgetWithdraw(p) ==
  /\ asking[p] = "disbursed"
  /\ asking' = [asking EXCEPT ![p] = "answered"]
  /\ UNCHANGED <<fund, withdraw, payoutTx, payout, callback, crediting, accepted, debits,
                 overlapped>>

------------------------------------------------------------------------------
(* The gateway, and withdraws_callbacks                                     *)

GatewaySettles(p) ==
  /\ payout[p] = "disbursed"
  /\ \E result \in {"sent", "failed"} : payout' = [payout EXCEPT ![p] = result]
  /\ UNCHANGED <<fund, withdraw, payoutTx, asking, callback, crediting, accepted, debits,
                 overlapped>>

Settled(p) == payout[p] \in {"sent", "failed"}

\* (A faulty variant: nobody looks whether the transaction is completed.)
FindTransactionAnyway(c, p) ==
  /\ callback[c] = NoAnswer
  /\ Settled(p) /\ accepted[p] < MaxAccepted
  /\ payoutTx[p] # "none"
  /\ callback' = [callback EXCEPT ![c] = [pc |-> "found", payout |-> p, seen |-> 0]]
  /\ accepted' = [accepted EXCEPT ![p] = @ + 1]
  /\ overlapped' = (overlapped \/ SomebodyAnswers(p))
  /\ UNCHANGED <<fund, withdraw, payoutTx, asking, payout, crediting, debits>>

\* The gateway may call as often as it likes.  A transaction that is not there (yet), or
\* is completed, is answered with an error.
FindTransaction(c, p) ==
  /\ callback[c] = NoAnswer
  /\ Settled(p) /\ accepted[p] < MaxAccepted
  /\ payoutTx[p] # "none" /\ ~TxCompleted(p)
  /\ callback' = [callback EXCEPT ![c] = [pc |-> "found", payout |-> p, seen |-> 0]]
  /\ accepted' = [accepted EXCEPT ![p] = @ + 1]
  /\ overlapped' = (overlapped \/ SomebodyAnswers(p))
  /\ UNCHANGED <<fund, withdraw, payoutTx, asking, payout, crediting, debits>>

WithdrawFree(p) ==
  \A c \in CallbackWorker : ~(callback[c].pc \in {"held", "read"} /\ callback[c].payout = p)

\* (A faulty variant: the withdraw is left as it is.)
SaveFailureOfTransaction(c) ==
  /\ callback[c].pc = "found"
  /\ payout[callback[c].payout] = "failed"
  /\ payoutTx' = [payoutTx EXCEPT ![callback[c].payout] = "FAILED"]
  /\ callback' = [callback EXCEPT ![c] = NoAnswer]
  /\ UNCHANGED <<fund, withdraw, asking, payout, crediting, accepted, debits, overlapped>>

\* A failed payout: both rows are saved and the account is left alone.
SaveFailure(c) ==
  /\ callback[c].pc = "found"
  /\ LET p == callback[c].payout IN
     /\ payout[p] = "failed"
     /\ withdraw' = [withdraw EXCEPT ![p] = "FAILED"]
     /\ payoutTx' = [payoutTx EXCEPT ![p] = "FAILED"]
  /\ callback' = [callback EXCEPT ![c] = NoAnswer]
  /\ UNCHANGED <<fund, asking, payout, crediting, accepted, debits, overlapped>>

\* A payout that was sent: the withdraw is saved first, and keeps others waiting.
HoldWithdraw(c) ==
  /\ callback[c].pc = "found"
  /\ payout[callback[c].payout] = "sent"
  /\ WithdrawFree(callback[c].payout)
  /\ callback' = [callback EXCEPT ![c].pc = "held"]
  /\ UNCHANGED <<fund, withdraw, payoutTx, asking, payout, crediting, accepted, debits,
                 overlapped>>

\* Withdraw.update_user_financial_account reads the account ...
ReadAccount(c) ==
  /\ callback[c].pc = "held"
  /\ callback' = [callback EXCEPT ![c].pc = "read", ![c].seen = fund]
  /\ overlapped' = (overlapped \/ SomebodySaves)
  /\ UNCHANGED <<fund, withdraw, payoutTx, asking, payout, crediting, accepted, debits>>

\* ... and saves it; the transaction commits with both rows.
DebitAndCommit(c) ==
  /\ callback[c].pc = "read"
  /\ LET p == callback[c].payout IN
     /\ fund'     = callback[c].seen - PayoutAmount[p]
     /\ withdraw' = [withdraw EXCEPT ![p] = "FINISHED"]
     /\ payoutTx' = [payoutTx EXCEPT ![p] = "RESOLVED"]
     /\ debits'   = [debits EXCEPT ![p] = @ + 1]
  /\ callback' = [callback EXCEPT ![c] = NoAnswer]
  /\ UNCHANGED <<asking, payout, crediting, accepted, overlapped>>

------------------------------------------------------------------------------
(* Order.distribute_the_income                                              *)

ReadForIncome(s) ==
  /\ crediting[s].pc = "unpaid"
  /\ crediting' = [crediting EXCEPT ![s] = [pc |-> "read", seen |-> fund]]
  /\ overlapped' = (overlapped \/ SomebodySaves)
  /\ UNCHANGED <<fund, withdraw, payoutTx, asking, payout, callback, accepted, debits>>

CreditIncome(s) ==
  /\ crediting[s].pc = "read"
  /\ fund' = crediting[s].seen + SaleIncome[s]
  /\ crediting' = [crediting EXCEPT ![s].pc = "done"]
  /\ UNCHANGED <<withdraw, payoutTx, asking, payout, callback, accepted, debits, overlapped>>

------------------------------------------------------------------------------
AccountNext ==
  \/ \E p \in Payout : \/ BeginWithdraw(p) \/ InitializeFails(p) \/ Disburse(p)
                       \/ CommitWithdraw(p) \/ ForgetWithdraw(p) \/ GatewaySettles(p)
                       \/ \E c \in CallbackWorker : FindTransaction(c, p)
  \/ \E c \in CallbackWorker : SaveFailure(c) \/ HoldWithdraw(c) \/ ReadAccount(c)
                               \/ DebitAndCommit(c)
  \/ \E s \in Sale : ReadForIncome(s) \/ CreditIncome(s)

AccountSpec == AccountInit /\ [][AccountNext]_accountVars

------------------------------------------------------------------------------
Incomes == TotalOf(SaleIncome, {s \in Sale : crediting[s].pc = "done"})
Costs   == TotalOf(PayoutAmount, {p \in Payout : payoutTx[p] = "RESOLVED"})

\* As long as nobody read the account while somebody else was about to save it, and no
\* two callbacks for one withdraw were answered at once, the balance is the incomes
\* distributed less the payouts resolved: a callback that comes again is turned away, one
\* for a withdraw whose creation was rolled back finds nothing, a failed payout costs
\* nothing.
SerialBooksBalance == ~overlapped => fund = Incomes - Costs

\* However many callbacks race, the account is debited only for a payout that the gateway
\* sent and a committed withdraw stands for, and then both rows say so.
DebitsArePayouts ==
  \A p \in Payout :
    /\ debits[p] > 0 => payout[p] = "sent" /\ withdraw[p] = "FINISHED"
    /\ withdraw[p] = "FINISHED" <=> payoutTx[p] = "RESOLVED"
    /\ withdraw[p] = "FAILED"   <=> payoutTx[p] = "FAILED"

\* The check before saving ("TRANSACTION_ALREADY_COMPLETED") is meant to see to it that a
\* payout is accounted for once, however often the gateway calls.
DebitedOnce == \A p \in Payout : debits[p] <= 1
==============================================================================
