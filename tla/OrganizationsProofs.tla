-------------------------- MODULE OrganizationsProofs --------------------------
(* Five parts: that the account of an organization is debited only for payouts  *)
(* that were sent and that its books balance; that nobody has more access to an *)
(* organization than was asked for him; that what it pays for is paid for once; *)
(* that a discount keeps to prices and limits; and that its edits and coupons   *)
(* keep to what was checked when it was made.                                   *)
(*                                                                              *)
(* A callback that is being answered was let in because its transaction was     *)
(* there, and for good: the rows of a withdraw appear when its creation is      *)
(* committed, which happens once.  What the gateway answered does not change    *)
(* any more, so callbacks for one withdraw all write the same: whichever saves  *)
(* last, the rows agree with each other and with the gateway.                   *)
EXTENDS Organizations, OrganizationAccount, SumLemmas, PaidServices, Discounts,
        FiniteSetTheorems, Catalogue, SequenceTheorems, TLAPS

\* The rows of p are not there before its creation is committed.
CreatedOnce(p) ==
  /\ asking[p] # "answered" => payoutTx[p] = "none"
  /\ asking[p] \in {"idle", "checked"} => payout[p] = "none"
  /\ payoutTx[p] = "none" <=> withdraw[p] = "none"
  /\ payoutTx[p] = "none" => debits[p] = 0

\* Who answers a callback has found the transaction, and knows what the gateway did.
AnswersGateway(c) ==
  callback[c] # NoAnswer =>
    LET p == callback[c].payout IN
    /\ payoutTx[p] # "none" /\ Settled(p)
    /\ callback[c].pc \in {"held", "read"} => payout[p] = "sent"

RowsAgree(p) ==
  /\ debits[p] > 0 => payout[p] = "sent" /\ withdraw[p] = "FINISHED"
  /\ withdraw[p] = "FINISHED" <=> payoutTx[p] = "RESOLVED"
  /\ withdraw[p] = "FAILED"   <=> payoutTx[p] = "FAILED"
  /\ payoutTx[p] = "RESOLVED" => payout[p] = "sent"
  /\ payoutTx[p] = "FAILED"   => payout[p] = "failed"

AccountInv ==
  /\ AccountTypeOK
  /\ \A p \in Payout : CreatedOnce(p) /\ RowsAgree(p)
  /\ \A c \in CallbackWorker : AnswersGateway(c)

USE PayoutAmountAssumption, SaleIncomeAssumption

LEMMA AccountInvInit == AccountInit => AccountInv
<1> SUFFICES ASSUME AccountInit PROVE AccountInv
  OBVIOUS
<1>1. crediting \in [Sale -> [pc : {"unpaid", "read", "done"}, seen : Int]]
  BY DEF AccountInit
<1>2. callback \in [CallbackWorker ->
        {NoAnswer} \cup [pc : {"found", "held", "read"}, payout : Payout, seen : Int]]
  BY DEF AccountInit
<1>3. AccountTypeOK
  <2>0. fund \in Int
    BY DEF AccountInit
  <2>1. overlapped \in BOOLEAN
    BY Zenon DEF AccountInit
  <2>2. /\ withdraw \in [Payout -> WithdrawStatus] /\ payoutTx \in [Payout -> PayoutTxStatus]
        /\ asking \in [Payout -> {"idle", "checked", "disbursed", "answered"}]
        /\ payout \in [Payout -> {"none", "disbursed", "sent", "failed"}]
    BY DEF AccountInit, WithdrawStatus, PayoutTxStatus
  <2>3. accepted \in [Payout -> Nat] /\ debits \in [Payout -> Nat]
    BY DEF AccountInit
  <2>4. QED
    BY <1>1, <1>2, <2>0, <2>1, <2>2, <2>3 DEF AccountTypeOK
<1>4. \A p \in Payout : CreatedOnce(p) /\ RowsAgree(p)
  BY DEF AccountInit, CreatedOnce, RowsAgree
<1>5. \A c \in CallbackWorker : AnswersGateway(c)
  BY DEF AccountInit, AnswersGateway
<1>6. QED
  BY <1>3, <1>4, <1>5 DEF AccountInv

\* A callback that is being answered has its fields.
LEMMA CallbackFields ==
  ASSUME AccountTypeOK, NEW c \in CallbackWorker, callback[c].pc \in {"found", "held", "read"}
  PROVE  /\ callback[c] # NoAnswer
         /\ callback[c].payout \in Payout /\ callback[c].seen \in Int
         /\ callback[c] \in [pc : {"found", "held", "read"}, payout : Payout, seen : Int]
BY DEF AccountTypeOK, NoAnswer

\* Creating a withdraw, and what the gateway makes of it.
LEMMA CreationKeepsInv ==
  ASSUME AccountInv, NEW p \in Payout,
         \/ BeginWithdraw(p) \/ InitializeFails(p) \/ Disburse(p)
         \/ CommitWithdraw(p) \/ ForgetWithdraw(p) \/ GatewaySettles(p)
  PROVE  AccountInv'
<1> USE DEF AccountInv, AccountTypeOK, WithdrawStatus, PayoutTxStatus, CreatedOnce, RowsAgree,
            AnswersGateway, Settled
<1>1. CASE BeginWithdraw(p)
  BY <1>1 DEF BeginWithdraw
<1>2. CASE InitializeFails(p)
  BY <1>2 DEF InitializeFails
<1>3. CASE Disburse(p)
  BY <1>3 DEF Disburse
<1>4. CASE CommitWithdraw(p)
  BY <1>4 DEF CommitWithdraw
<1>5. CASE ForgetWithdraw(p)
  BY <1>5 DEF ForgetWithdraw
<1>6. CASE GatewaySettles(p)
  BY <1>6 DEF GatewaySettles
<1>7. QED
  BY <1>1, <1>2, <1>3, <1>4, <1>5, <1>6

\* Letting a callback in, and holding what it writes.
LEMMA FindingKeepsInv ==
  ASSUME AccountInv, NEW c \in CallbackWorker,
         \/ \E p \in Payout : FindTransaction(c, p)
         \/ HoldWithdraw(c) \/ ReadAccount(c)
  PROVE  AccountInv'
<1> USE DEF AccountInv, CreatedOnce, RowsAgree, AnswersGateway, Settled
<1>1. ASSUME NEW p \in Payout, FindTransaction(c, p) PROVE AccountInv'
  <2>1. AccountTypeOK'
    BY <1>1 DEF FindTransaction, AccountTypeOK
  <2>2. \A d \in CallbackWorker : AnswersGateway(d)'
    BY <1>1 DEF FindTransaction, AccountTypeOK, NoAnswer
  <2>3. QED
    BY <1>1, <2>1, <2>2 DEF FindTransaction
<1>2. CASE HoldWithdraw(c)
  <2>1. callback[c] \in [pc : {"found", "held", "read"}, payout : Payout, seen : Int]
    BY <1>2, CallbackFields DEF HoldWithdraw
  <2>2. AccountTypeOK'
    BY <1>2, <2>1 DEF HoldWithdraw, AccountTypeOK
  <2>3. \A d \in CallbackWorker : AnswersGateway(d)'
    BY <1>2, <2>1, CallbackFields DEF HoldWithdraw, AccountTypeOK, NoAnswer
  <2>4. QED
    BY <1>2, <2>2, <2>3 DEF HoldWithdraw
<1>3. CASE ReadAccount(c)
  <2> DEFINE answer == [callback[c] EXCEPT !.pc = "read", !.seen = fund]
  <2>1. /\ callback[c] \in [pc : {"found", "held", "read"}, payout : Payout, seen : Int]
        /\ callback[c] # NoAnswer /\ callback[c].pc = "held" /\ fund \in Int
    BY <1>3, CallbackFields DEF ReadAccount, AccountTypeOK
  <2>2. /\ answer \in [pc : {"found", "held", "read"}, payout : Payout, seen : Int]
        /\ answer.payout = callback[c].payout
    BY <2>1
  <2>3. callback' = [callback EXCEPT ![c] = answer]
    BY <1>3 DEF ReadAccount
  <2>4. UNCHANGED <<fund, withdraw, payoutTx, asking, payout, crediting, accepted, debits>>
        /\ overlapped' \in BOOLEAN
    BY <1>3 DEF ReadAccount, AccountTypeOK
  <2> HIDE DEF answer
  <2>5. AccountTypeOK'
    BY <2>2, <2>3, <2>4 DEF AccountTypeOK
  <2>6. callback'[c] = answer /\ \A d \in CallbackWorker : d # c => callback'[d] = callback[d]
    BY <2>3 DEF AccountTypeOK
  <2>7. \A d \in CallbackWorker : AnswersGateway(d)'
    BY <2>1, <2>2, <2>4, <2>6
  <2>8. QED
    BY <2>4, <2>5, <2>7
<1>4. QED
  BY <1>1, <1>2, <1>3

\* Saving what the gateway answered.
LEMMA SavingKeepsInv ==
  ASSUME AccountInv, NEW c \in CallbackWorker, SaveFailure(c) \/ DebitAndCommit(c)
  PROVE  AccountInv'
<1> DEFINE p == callback[c].payout
<1> USE DEF AccountInv, CreatedOnce, RowsAgree, AnswersGateway, Settled
<1>1. CASE SaveFailure(c)
  <2>1. p \in Payout /\ payoutTx[p] # "none" /\ payout[p] = "failed" /\ ~(debits[p] > 0)
    BY <1>1, CallbackFields DEF SaveFailure
  <2>2. AccountTypeOK'
    BY <1>1, <2>1 DEF SaveFailure, AccountTypeOK, WithdrawStatus, PayoutTxStatus, NoAnswer
  <2>3. \A q \in Payout : (CreatedOnce(q) /\ RowsAgree(q))'
    BY <1>1, <2>1 DEF SaveFailure, AccountTypeOK
  <2>4. \A d \in CallbackWorker : AnswersGateway(d)'
    BY <1>1, <2>1 DEF SaveFailure, AccountTypeOK, NoAnswer
  <2>5. QED
    BY <2>2, <2>3, <2>4
<1>2. CASE DebitAndCommit(c)
  <2>1. /\ p \in Payout /\ payoutTx[p] # "none" /\ payout[p] = "sent"
        /\ callback[c].seen \in Int /\ PayoutAmount[p] \in Nat
    BY <1>2, CallbackFields DEF DebitAndCommit
  <2>2. AccountTypeOK'
    BY <1>2, <2>1 DEF DebitAndCommit, AccountTypeOK, WithdrawStatus, PayoutTxStatus, NoAnswer
  <2>3. \A q \in Payout : (CreatedOnce(q) /\ RowsAgree(q))'
    BY <1>2, <2>1 DEF DebitAndCommit, AccountTypeOK
  <2>4. \A d \in CallbackWorker : AnswersGateway(d)'
    BY <1>2, <2>1 DEF DebitAndCommit, AccountTypeOK, NoAnswer
  <2>5. QED
    BY <2>2, <2>3, <2>4
<1>3. QED
  BY <1>1, <1>2

\* Incomes touch the balance alone.
LEMMA IncomeKeepsInv ==
  ASSUME AccountInv, NEW s \in Sale, ReadForIncome(s) \/ CreditIncome(s)
  PROVE  AccountInv'
<1> USE DEF AccountInv, CreatedOnce, RowsAgree, AnswersGateway, Settled
<1>1. CASE ReadForIncome(s)
  <2>1. AccountTypeOK'
    BY <1>1 DEF ReadForIncome, AccountTypeOK, SomebodySaves
  <2>2. QED
    BY <1>1, <2>1 DEF ReadForIncome
<1>2. CASE CreditIncome(s)
  <2>1. SaleIncome[s] \in Nat /\ crediting[s].seen \in Int
    BY DEF AccountTypeOK
  <2>2. AccountTypeOK'
    BY <1>2, <2>1 DEF CreditIncome, AccountTypeOK
  <2>3. QED
    BY <1>2, <2>2 DEF CreditIncome
<1>3. QED
  BY <1>1, <1>2

LEMMA AccountInvNext == AccountInv /\ [AccountNext]_accountVars => AccountInv'
<1> SUFFICES ASSUME AccountInv, [AccountNext]_accountVars PROVE AccountInv'
  OBVIOUS
<1>1. CASE UNCHANGED accountVars
  BY <1>1 DEF accountVars, AccountInv, AccountTypeOK, CreatedOnce, RowsAgree, AnswersGateway,
              Settled
<1>2. CASE AccountNext
  BY <1>2, CreationKeepsInv, FindingKeepsInv, SavingKeepsInv, IncomeKeepsInv DEF AccountNext
<1>3. QED
  BY <1>1, <1>2

\* Every variable keeps its type, the balances read by requests in progress included.
THEOREM AccountTypeCorrect == AccountSpec => []AccountTypeOK
<1>1. AccountInv => AccountTypeOK
  BY DEF AccountInv
<1>2. QED
  BY <1>1, AccountInvInit, AccountInvNext, PTL DEF AccountSpec

\* However often and however concurrently the gateway calls back (withdraws_callbacks), the
\* account is debited only for a payout it sent, of a withdraw that was committed, and the
\* withdraw and its transaction never disagree.
THEOREM AccountDebitsArePayouts == AccountSpec => []DebitsArePayouts
<1>1. AccountInv => DebitsArePayouts
  BY DEF AccountInv, RowsAgree, DebitsArePayouts
<1>2. QED
  BY <1>1, AccountInvInit, AccountInvNext, PTL DEF AccountSpec

--------------------------------------------------------------------------------
(* That the books balance as long as requests do not overlap.  Then at most one  *)
(* of them is between its reading of the account and its save, and what it has   *)
(* read is still there; and no transaction is resolved under the callback that   *)
(* is about to resolve it, so no payout is debited twice.                        *)

OneAtATime ==
  /\ \A c \in CallbackWorker : callback[c].pc = "read" => callback[c].seen = fund
  /\ \A s \in Sale : crediting[s].pc = "read" => crediting[s].seen = fund
  /\ \A c, d \in CallbackWorker : callback[c].pc = "read" /\ callback[d].pc = "read" => c = d
  /\ \A s, t \in Sale : crediting[s].pc = "read" /\ crediting[t].pc = "read" => s = t
  /\ \A c \in CallbackWorker, s \in Sale : ~(callback[c].pc = "read" /\ crediting[s].pc = "read")

OneForEach ==
  /\ \A c, d \in CallbackWorker :
       callback[c] # NoAnswer /\ callback[d] # NoAnswer /\ callback[c].payout = callback[d].payout
         => c = d
  /\ \A c \in CallbackWorker :
       callback[c] # NoAnswer => payoutTx[callback[c].payout] = "PENDING"

Balanced   == fund = Incomes - Costs
BooksInv   == ~overlapped => Balanced /\ OneAtATime /\ OneForEach

LEMMA BooksTypes ==
  ASSUME AccountTypeOK
  PROVE  Incomes \in Nat /\ Costs \in Nat
<1>1. /\ IsFiniteSet({s \in Sale : crediting[s].pc = "done"})
      /\ IsFiniteSet({p \in Payout : payoutTx[p] = "RESOLVED"})
  BY AccountRowsAssumption, FS_Subset
<1>2. QED
  BY <1>1, TotalIsNat DEF Incomes, Costs

LEMMA BooksInit == AccountInit => BooksInv
<1> SUFFICES ASSUME AccountInit PROVE BooksInv
  OBVIOUS
<1>1. /\ {s \in Sale : crediting[s].pc = "done"} = {}
      /\ {p \in Payout : payoutTx[p] = "RESOLVED"} = {}
  BY DEF AccountInit
<1>2. Incomes = 0 /\ Costs = 0
  BY <1>1, TotalOfNothing DEF Incomes, Costs
<1>3. QED
  BY <1>2 DEF AccountInit, BooksInv, Balanced, OneAtATime, OneForEach, NoAnswer

\* Who creates a withdraw, or answers for the gateway, touches neither the account nor a
\* transaction that a callback is about.
LEMMA CreationKeepsBooks ==
  ASSUME AccountInv, BooksInv, NEW p \in Payout,
         \/ BeginWithdraw(p) \/ InitializeFails(p) \/ Disburse(p)
         \/ CommitWithdraw(p) \/ ForgetWithdraw(p) \/ GatewaySettles(p)
  PROVE  BooksInv'
<1> USE DEF AccountInv
<1>1. UNCHANGED <<fund, callback, crediting, overlapped>>
  BY DEF BeginWithdraw, InitializeFails, Disburse, CommitWithdraw, ForgetWithdraw, GatewaySettles
<1>2. \/ payoutTx' = payoutTx
      \/ payoutTx[p] = "none" /\ payoutTx' = [payoutTx EXCEPT ![p] = "PENDING"]
  BY DEF BeginWithdraw, InitializeFails, Disburse, CommitWithdraw, ForgetWithdraw, GatewaySettles,
         CreatedOnce
<1>3. \A q \in Payout : /\ payoutTx'[q] = "RESOLVED" <=> payoutTx[q] = "RESOLVED"
                        /\ payoutTx[q] = "PENDING" => payoutTx'[q] = "PENDING"
  BY <1>2 DEF AccountTypeOK
<1>4. {q \in Payout : payoutTx'[q] = "RESOLVED"} = {q \in Payout : payoutTx[q] = "RESOLVED"}
  BY <1>3
<1>5. Incomes' = Incomes /\ Costs' = Costs
  BY <1>1, <1>4 DEF Incomes, Costs
<1>6. \A c \in CallbackWorker : callback[c] # NoAnswer => callback[c].payout \in Payout
  BY DEF AccountTypeOK
<1>7. QED
  BY <1>1, <1>3, <1>5, <1>6 DEF BooksInv, Balanced, OneAtATime, OneForEach

\* A callback is let in, or gets hold of the withdraw.
LEMMA FindingKeepsBooks ==
  ASSUME AccountInv, BooksInv, NEW c \in CallbackWorker,
         (\E p \in Payout : FindTransaction(c, p)) \/ HoldWithdraw(c)
  PROVE  BooksInv'
<1> USE DEF AccountInv
<1>1. UNCHANGED <<fund, payoutTx, crediting>> /\ Incomes' = Incomes /\ Costs' = Costs
  BY DEF FindTransaction, HoldWithdraw, Incomes, Costs
<1>2. ASSUME NEW p \in Payout, FindTransaction(c, p), ~overlapped' PROVE BooksInv'
  <2>1. ~overlapped /\ ~SomebodyAnswers(p)
    BY <1>2 DEF FindTransaction
  <2>2. /\ callback'[c].pc = "found" /\ callback'[c].payout = p
        /\ \A d \in CallbackWorker : d # c => callback'[d] = callback[d]
    BY <1>2 DEF FindTransaction, AccountTypeOK
  <2>3. payoutTx[p] = "PENDING"
    BY <1>2 DEF FindTransaction, TxCompleted, AccountTypeOK, PayoutTxStatus
  <2>4. OneForEach'
    BY <1>1, <2>1, <2>2, <2>3 DEF BooksInv, OneForEach, SomebodyAnswers
  <2>5. OneAtATime'
    BY <1>1, <2>1, <2>2 DEF BooksInv, OneAtATime
  <2>6. QED
    BY <1>1, <2>1, <2>4, <2>5 DEF BooksInv, Balanced
<1>3. ASSUME HoldWithdraw(c), ~overlapped' PROVE BooksInv'
  <2>1. ~overlapped
    BY <1>3 DEF HoldWithdraw
  <2>2. callback[c] \in [pc : {"found", "held", "read"}, payout : Payout, seen : Int]
    BY <1>3, CallbackFields DEF HoldWithdraw
  <2>3. /\ callback'[c].pc = "held" /\ callback'[c].payout = callback[c].payout
        /\ callback[c] # NoAnswer
        /\ \A d \in CallbackWorker : d # c => callback'[d] = callback[d]
    BY <1>3, <2>2, CallbackFields DEF HoldWithdraw, AccountTypeOK
  <2>4. OneForEach'
    BY <1>1, <2>1, <2>3 DEF BooksInv, OneForEach
  <2>5. OneAtATime'
    BY <1>1, <2>1, <2>3 DEF BooksInv, OneAtATime
  <2>6. QED
    BY <1>1, <2>1, <2>4, <2>5 DEF BooksInv, Balanced
<1>4. QED
  BY <1>2, <1>3 DEF BooksInv

\* The account is read: nobody else is about to save it, or the requests overlap.
LEMMA ReadingKeepsBooks ==
  ASSUME AccountInv, BooksInv, ~overlapped',
         \/ \E c \in CallbackWorker : ReadAccount(c)
         \/ \E s \in Sale : ReadForIncome(s)
  PROVE  BooksInv'
<1> USE DEF AccountInv
<1>1. ~overlapped /\ ~SomebodySaves /\ UNCHANGED <<fund, payoutTx>> /\ Costs' = Costs
  BY DEF ReadAccount, ReadForIncome, Costs
<1>2. ASSUME NEW c \in CallbackWorker, ReadAccount(c) PROVE BooksInv'
  <2>1. /\ callback[c] \in [pc : {"found", "held", "read"}, payout : Payout, seen : Int]
        /\ callback[c] # NoAnswer
    BY <1>2, CallbackFields DEF ReadAccount
  <2>2. /\ callback'[c].payout = callback[c].payout /\ callback'[c].seen = fund
        /\ \A d \in CallbackWorker : d # c => callback'[d] = callback[d]
        /\ crediting' = crediting /\ Incomes' = Incomes
    BY <1>2, <2>1 DEF ReadAccount, AccountTypeOK, Incomes
  <2>3. OneForEach'
    BY <1>1, <2>1, <2>2 DEF BooksInv, OneForEach
  <2>4. OneAtATime'
    BY <1>1, <2>2 DEF BooksInv, OneAtATime, SomebodySaves
  <2>5. QED
    BY <1>1, <2>2, <2>3, <2>4 DEF BooksInv, Balanced
<1>3. ASSUME NEW s \in Sale, ReadForIncome(s) PROVE BooksInv'
  <2>1. /\ crediting[s].pc = "unpaid" /\ callback' = callback
        /\ crediting'[s].pc = "read" /\ crediting'[s].seen = fund
        /\ \A t \in Sale : t # s => crediting'[t] = crediting[t]
    BY <1>3 DEF ReadForIncome, AccountTypeOK
  <2>2. {t \in Sale : crediting'[t].pc = "done"} = {t \in Sale : crediting[t].pc = "done"}
    BY <2>1
  <2>3. Incomes' = Incomes
    BY <2>2 DEF Incomes
  <2>4. OneForEach'
    BY <1>1, <2>1 DEF BooksInv, OneForEach
  <2>5. OneAtATime'
    BY <1>1, <2>1 DEF BooksInv, OneAtATime, SomebodySaves
  <2>6. QED
    BY <1>1, <2>3, <2>4, <2>5 DEF BooksInv, Balanced
<1>4. QED
  BY <1>2, <1>3

\* A callback ends: the transaction it was about was pending and is so no more.
LEMMA SavingKeepsBooks ==
  ASSUME AccountInv, BooksInv, ~overlapped', NEW c \in CallbackWorker,
         SaveFailure(c) \/ DebitAndCommit(c)
  PROVE  BooksInv'
<1> USE DEF AccountInv
<1>1. PICK p \in Payout : p = callback[c].payout
  BY CallbackFields DEF SaveFailure, DebitAndCommit
<1>2. /\ ~overlapped /\ callback[c] # NoAnswer /\ payoutTx[p] = "PENDING"
      /\ UNCHANGED <<crediting, overlapped>> /\ Incomes' = Incomes
  <2>1. UNCHANGED <<crediting, overlapped>> /\ Incomes' = Incomes
    BY DEF SaveFailure, DebitAndCommit, Incomes
  <2>2. callback[c] # NoAnswer
    BY CallbackFields DEF SaveFailure, DebitAndCommit
  <2>3. ~overlapped
    BY <2>1
  <2>4. QED
    BY <1>1, <2>1, <2>2, <2>3 DEF BooksInv, OneForEach
<1>3. /\ callback'[c] = NoAnswer /\ \A d \in CallbackWorker : d # c => callback'[d] = callback[d]
      /\ \A q \in Payout : q # p => payoutTx'[q] = payoutTx[q]
  BY <1>1 DEF SaveFailure, DebitAndCommit, AccountTypeOK
<1>4. OneForEach'
  BY <1>1, <1>2, <1>3 DEF BooksInv, OneForEach, AccountTypeOK
<1>5. CASE SaveFailure(c)
  <2>1. fund' = fund /\ payoutTx'[p] = "FAILED"
    BY <1>1, <1>5 DEF SaveFailure, AccountTypeOK
  <2>2. {q \in Payout : payoutTx'[q] = "RESOLVED"} = {q \in Payout : payoutTx[q] = "RESOLVED"}
    BY <1>2, <1>3, <2>1
  <2>3. Balanced'
    BY <1>2, <2>1, <2>2 DEF BooksInv, Balanced, Costs
  <2>4. OneAtATime'
    BY <1>2, <1>3, <2>1 DEF BooksInv, OneAtATime, NoAnswer
  <2>5. QED
    BY <1>4, <2>3, <2>4 DEF BooksInv
<1>6. CASE DebitAndCommit(c)
  <2> DEFINE resolved == {q \in Payout : payoutTx[q] = "RESOLVED"}
  <2>1. fund' = fund - PayoutAmount[p] /\ payoutTx'[p] = "RESOLVED"
    BY <1>1, <1>2, <1>6 DEF DebitAndCommit, AccountTypeOK, BooksInv, OneAtATime
  <2>2. /\ {q \in Payout : payoutTx'[q] = "RESOLVED"} = resolved \cup {p}
        /\ p \notin resolved
    BY <1>2, <1>3, <2>1
  <2>3. IsFiniteSet(resolved)
    BY AccountRowsAssumption, FS_Subset
  <2>4. TotalOf(PayoutAmount, resolved \cup {p}) = TotalOf(PayoutAmount, resolved) + PayoutAmount[p]
    <3>1. p \notin resolved /\ PayoutAmount[p] \in Nat /\ \A q \in resolved : PayoutAmount[q] \in Nat
      BY <2>2
    <3> HIDE DEF resolved
    <3>2. QED
      BY <2>3, <3>1, TotalWithPart
  <2>5. Costs' = Costs + PayoutAmount[p]
    BY <2>2, <2>4 DEF Costs
  <2>6. Balanced'
    <3>1. PayoutAmount[p] \in Nat /\ Incomes \in Nat /\ Costs \in Nat
      BY BooksTypes
    <3>2. QED
      BY <1>2, <2>1, <2>5, <3>1 DEF BooksInv, Balanced
  <2>7. OneAtATime'
    BY <1>2, <1>3, <1>6 DEF BooksInv, OneAtATime, NoAnswer, DebitAndCommit
  <2>8. QED
    BY <1>4, <2>6, <2>7 DEF BooksInv
<1>7. QED
  BY <1>5, <1>6

\* An income is credited: one sale more has been paid.
LEMMA CreditKeepsBooks ==
  ASSUME AccountInv, BooksInv, ~overlapped', NEW s \in Sale, CreditIncome(s)
  PROVE  BooksInv'
<1> USE DEF AccountInv
<1> DEFINE paid == {t \in Sale : crediting[t].pc = "done"}
<1>1. /\ ~overlapped /\ crediting[s].pc = "read" /\ fund' = fund + SaleIncome[s]
      /\ UNCHANGED <<payoutTx, callback>> /\ Costs' = Costs
  BY DEF CreditIncome, BooksInv, OneAtATime, Costs
<1>2. crediting'[s].pc = "done" /\ \A t \in Sale : t # s => crediting'[t] = crediting[t]
  BY DEF CreditIncome, AccountTypeOK
<1>3. {t \in Sale : crediting'[t].pc = "done"} = paid \cup {s} /\ s \notin paid
  BY <1>1, <1>2
<1>4. IsFiniteSet(paid)
  BY AccountRowsAssumption, FS_Subset
<1>5. TotalOf(SaleIncome, paid \cup {s}) = TotalOf(SaleIncome, paid) + SaleIncome[s]
  <2>1. s \notin paid /\ SaleIncome[s] \in Nat /\ \A t \in paid : SaleIncome[t] \in Nat
    BY <1>3
  <2> HIDE DEF paid
  <2>2. QED
    BY <1>4, <2>1, TotalWithPart
<1>6. Incomes' = Incomes + SaleIncome[s]
  BY <1>3, <1>5 DEF Incomes
<1>7. Balanced'
  <2>1. SaleIncome[s] \in Nat /\ Incomes \in Nat /\ Costs \in Nat
    BY BooksTypes
  <2>2. QED
    BY <1>1, <1>6, <2>1 DEF BooksInv, Balanced
<1>8. OneForEach'
  BY <1>1 DEF BooksInv, OneForEach
<1>9. OneAtATime'
  BY <1>1, <1>2 DEF BooksInv, OneAtATime
<1>10. QED
  BY <1>7, <1>8, <1>9 DEF BooksInv

LEMMA BooksNext == AccountInv /\ BooksInv /\ [AccountNext]_accountVars => BooksInv'
<1> SUFFICES ASSUME AccountInv, BooksInv, [AccountNext]_accountVars PROVE BooksInv'
  OBVIOUS
<1>1. CASE UNCHANGED accountVars
  BY <1>1 DEF accountVars, BooksInv, Balanced, OneAtATime, OneForEach, Incomes, Costs
<1>2. CASE overlapped'
  BY <1>2 DEF BooksInv
<1>3. CASE AccountNext /\ ~overlapped'
  BY <1>3, CreationKeepsBooks, FindingKeepsBooks, ReadingKeepsBooks, SavingKeepsBooks,
     CreditKeepsBooks DEF AccountNext
<1>4. QED
  BY <1>1, <1>2, <1>3

\* Requests that do not overlap leave the balance at the incomes distributed less the payouts
\* resolved, for any number of sales, withdraws and callbacks (distribute_the_income,
\* update_user_financial_account): only a stale reading or a second callback can spoil it.
THEOREM AccountBooksBalance == AccountSpec => []SerialBooksBalance
<1>1. BooksInv => SerialBooksBalance
  BY DEF BooksInv, Balanced, SerialBooksBalance
<1>2. AccountInv /\ BooksInv /\ [AccountNext]_accountVars => (AccountInv /\ BooksInv)'
  BY AccountInvNext, BooksNext
<1>3. QED
  BY <1>1, <1>2, AccountInvInit, BooksInit, PTL DEF AccountSpec

--------------------------------------------------------------------------------
(* Roles.  A request that is about to give a role carries the primary key of    *)
(* the membership it was about, and <<key, role>> has been asked for: when the  *)
(* membership has gone, another one of the same user has another key.           *)

AskedFor(pk, roles) == \A r \in roles : <<pk, r>> \in asked

\* What a request in progress will do to a membership.
MayCreate(w) ==
  handling[w].pc = "create" => handling[w].user \in User /\ handling[w].role \in OrganizationRole

MayGrant(w) ==
  handling[w].pc = "grant" =>
    /\ handling[w].user \in User /\ handling[w].pk \in Nat
    /\ handling[w].role \in OrganizationRole
    /\ AskedFor(handling[w].pk, {handling[w].role})

MayChange(w) ==
  handling[w].pc = "roles" =>
    /\ handling[w] = [pc |-> "roles", user |-> handling[w].user, pk |-> handling[w].pk,
                      what |-> handling[w].what, todo |-> handling[w].todo,
                      owner |-> handling[w].owner]
    /\ handling[w].user \in User /\ handling[w].pk \in Nat
    /\ handling[w].todo \subseteq OrganizationRole
    /\ handling[w].what = "ADD" => AskedFor(handling[w].pk, handling[w].todo)

RolesType ==
  /\ membership \in [User -> [pk : Nat, roles : SUBSET OrganizationRole]]
  /\ handling = [w \in WebWorker |-> handling[w]]
  /\ lastPk \in Nat

RolesInv ==
  /\ RolesType
  /\ \A u \in User : AskedFor(membership[u].pk, membership[u].roles)
  /\ \A w \in WebWorker : MayCreate(w) /\ MayGrant(w) /\ MayChange(w)

LEMMA RolesInit == OrgInit => RolesInv
BY DEF OrgInit, RolesInv, RolesType, NoMembership, Free, AskedFor, MayCreate, MayGrant, MayChange

\* The actions that have nothing to do with members, and the end of a request.
LEMMA OthersKeepRoles ==
  ASSUME RolesInv, NEW w \in WebWorker,
         \/ SaveOrganization(w) \/ CreateFollow(w)
         \/ \E u \in User : BeginFollow(w, u) \/ BeginDestroy(w, u)
         \/ \E u \in User, active \in BOOLEAN : BeginUpdate(w, u, active)
  PROVE  RolesInv'
<1>1. UNCHANGED <<membership, lastPk, asked>>
  BY DEF SaveOrganization, CreateFollow, BeginFollow, BeginDestroy, BeginUpdate
<1>2. \E job : handling' = [handling EXCEPT ![w] = job] /\ job.pc \in {"free", "save", "follow"}
  <2>1. CASE SaveOrganization(w) \/ CreateFollow(w)
    BY <2>1 DEF SaveOrganization, CreateFollow, Finish, Free
  <2>2. ASSUME NEW u \in User, BeginFollow(w, u)
        PROVE  handling' = [handling EXCEPT ![w] = [pc |-> "follow", user |-> u]]
    BY <2>2 DEF BeginFollow, Start
  <2>3. ASSUME NEW u \in User, \/ BeginDestroy(w, u)
                              \/ \E active \in BOOLEAN : BeginUpdate(w, u, active)
        PROVE  \E row : handling' = [handling EXCEPT ![w] = [pc |-> "save", row |-> row]]
    BY <2>3 DEF BeginDestroy, BeginUpdate, Start
  <2>4. CASE \E u \in User : BeginFollow(w, u)
    <3>1. PICK u \in User : BeginFollow(w, u)
      BY <2>4
    <3> DEFINE job == [pc |-> "follow", user |-> u]
    <3>2. job.pc = "follow" /\ handling' = [handling EXCEPT ![w] = job]
      BY <2>2, <3>1
    <3> HIDE DEF job
    <3>3. QED
      BY <3>2
  <2>5. CASE \E u \in User : \/ BeginDestroy(w, u)
                             \/ \E active \in BOOLEAN : BeginUpdate(w, u, active)
    <3>1. PICK row : handling' = [handling EXCEPT ![w] = [pc |-> "save", row |-> row]]
      BY <2>3, <2>5
    <3> DEFINE job == [pc |-> "save", row |-> row]
    <3>2. job.pc = "save" /\ handling' = [handling EXCEPT ![w] = job]
      BY <3>1
    <3> HIDE DEF job
    <3>3. QED
      BY <3>2
  <2>6. QED
    BY <2>1, <2>4, <2>5
<1>3. \A v \in WebWorker : (MayCreate(v) /\ MayGrant(v) /\ MayChange(v))'
  BY <1>1, <1>2 DEF RolesInv, MayCreate, MayGrant, MayChange, AskedFor
<1>4. QED
  BY <1>1, <1>2, <1>3 DEF RolesInv, RolesType, AskedFor

\* Adding a member: the membership is made without a role, and gets the one asked for.
LEMMA AddingKeepsRoles ==
  ASSUME RolesInv, NEW w \in WebWorker,
         \/ \E by \in User, u \in User, r \in OrganizationRole : BeginAddMember(w, by, u, r)
         \/ CreateMembership(w) \/ GrantFirstRole(w)
  PROVE  RolesInv'
<1> USE DEF RolesInv, RolesType
<1>1. ASSUME NEW by \in User, NEW u \in User, NEW r \in OrganizationRole,
             BeginAddMember(w, by, u, r)
      PROVE  RolesInv'
  BY <1>1 DEF BeginAddMember, Start, AskedFor, MayCreate, MayGrant, MayChange
<1>2. CASE CreateMembership(w)
  <2> DEFINE u == handling[w].user
             r == handling[w].role
  <2>1. u \in User /\ r \in OrganizationRole
    BY <1>2 DEF CreateMembership, MayCreate
  <2>2. CASE IsMember(u)
    <3>1. UNCHANGED <<membership, lastPk, asked>> /\ handling' = [handling EXCEPT ![w] = Free]
      BY <1>2, <2>2 DEF CreateMembership, Finish
    <3>2. QED
      BY <3>1 DEF AskedFor, MayCreate, MayGrant, MayChange, Free
  <2>3. CASE ~IsMember(u)
    <3>1. /\ lastPk' = lastPk + 1
          /\ membership' = [membership EXCEPT ![u] = [pk |-> lastPk', roles |-> {}]]
          /\ handling' = [handling EXCEPT ![w] = [pc |-> "grant", user |-> u, role |-> r,
                                                  pk |-> lastPk']]
          /\ asked' = asked \cup {<<lastPk', r>>}
      BY <1>2, <2>3 DEF CreateMembership
    <3>2. RolesType'
      <4>1. lastPk' \in Nat
        BY <3>1
      <4>2. [pk |-> lastPk', roles |-> {}] \in [pk : Nat, roles : SUBSET OrganizationRole]
        BY <4>1
      <4>3. membership' \in [User -> [pk : Nat, roles : SUBSET OrganizationRole]]
        BY <2>1, <3>1, <4>2
      <4>4. QED
        BY <3>1, <4>1, <4>3
    <3>3. \A v \in User : AskedFor(membership[v].pk, membership[v].roles)'
      BY <2>1, <3>1 DEF AskedFor
    <3>4. \A v \in WebWorker : (MayCreate(v) /\ MayGrant(v) /\ MayChange(v))'
      BY <2>1, <3>1, <3>2 DEF AskedFor, MayCreate, MayGrant, MayChange
    <3>5. QED
      BY <3>2, <3>3, <3>4
  <2>4. QED
    BY <2>2, <2>3
<1>3. CASE GrantFirstRole(w)
  <2> DEFINE u == handling[w].user
             r == handling[w].role
  <2>1. /\ u \in User /\ r \in OrganizationRole
        /\ <<handling[w].pk, r>> \in asked
    BY <1>3 DEF GrantFirstRole, MayGrant, AskedFor
  <2>2. /\ UNCHANGED <<lastPk, asked>> /\ handling' = [handling EXCEPT ![w] = Free]
        /\ \/ membership' = membership
           \/ /\ membership[u].pk = handling[w].pk
              /\ membership' = [membership EXCEPT ![u].roles = @ \cup {r}]
    BY <1>3 DEF GrantFirstRole, Finish
  <2>3. membership' \in [User -> [pk : Nat, roles : SUBSET OrganizationRole]]
    BY <2>1, <2>2
  <2>4. \A v \in User : AskedFor(membership[v].pk, membership[v].roles)'
    BY <2>1, <2>2 DEF AskedFor
  <2>5. \A v \in WebWorker : handling'[v] = handling[v] \/ handling'[v].pc = "free"
    BY <2>2 DEF Free
  <2>6. \A v \in WebWorker : (MayCreate(v) /\ MayGrant(v) /\ MayChange(v))'
    BY <2>2, <2>5 DEF AskedFor, MayCreate, MayGrant, MayChange
  <2>7. QED
    BY <2>2, <2>3, <2>4, <2>6
<1>4. QED
  BY <1>1, <1>2, <1>3

\* Giving and taking roles.  Without the membership nothing is given, and an INSERT of it
\* has no role.
LEMMA ChangingKeepsRoles ==
  ASSUME RolesInv, NEW w \in WebWorker,
         \/ \E by \in User, u \in User, what \in {"ADD", "REMOVE"},
               roles \in SUBSET OrganizationRole : BeginManageRoles(w, by, u, what, roles)
         \/ ChangeRole(w) \/ SaveMembership(w)
  PROVE  RolesInv'
<1> USE DEF RolesInv, RolesType
<1>1. ASSUME NEW by \in User, NEW u \in User, NEW what \in {"ADD", "REMOVE"},
             NEW roles \in SUBSET OrganizationRole, BeginManageRoles(w, by, u, what, roles)
      PROVE  RolesInv'
  <2>1. /\ UNCHANGED <<membership, lastPk>>
        /\ handling' = [handling EXCEPT ![w] =
             [pc |-> "roles", user |-> u, pk |-> membership[u].pk, what |-> what,
              todo |-> roles, owner |-> organization.owner]]
        /\ asked \subseteq asked'
        /\ what = "ADD" => \A r \in roles : <<membership[u].pk, r>> \in asked'
    BY <1>1 DEF BeginManageRoles, Start
  <2>2. membership[u].pk \in Nat
    OBVIOUS
  <2>3. MayChange(w)'
    BY <2>1, <2>2 DEF MayChange, AskedFor
  <2>4. MayCreate(w)' /\ MayGrant(w)'
    BY <2>1 DEF MayCreate, MayGrant
  <2>5. \A v \in WebWorker : v # w => (MayCreate(v) /\ MayGrant(v) /\ MayChange(v))'
    BY <2>1 DEF MayCreate, MayGrant, MayChange, AskedFor
  <2>6. QED
    BY <2>1, <2>3, <2>4, <2>5 DEF AskedFor
<1>2. CASE ChangeRole(w)
  <2> DEFINE u == handling[w].user
  <2>1. PICK r \in handling[w].todo :
          /\ membership' =
               IF membership[u].pk # handling[w].pk THEN membership
               ELSE IF handling[w].what = "ADD"
               THEN [membership EXCEPT ![u].roles = @ \cup {r}]
               ELSE [membership EXCEPT ![u].roles = @ \ {r}]
          /\ IF membership[u].pk # handling[w].pk /\ handling[w].what = "ADD" THEN Finish(w)
             ELSE handling' = [handling EXCEPT ![w].todo = @ \ {r}]
    BY <1>2 DEF ChangeRole
  <2>2. /\ MayChange(w) /\ handling[w].pc = "roles" /\ UNCHANGED <<lastPk, asked>>
        /\ u \in User /\ r \in OrganizationRole
    BY <1>2 DEF ChangeRole, MayChange
  <2>3. membership' \in [User -> [pk : Nat, roles : SUBSET OrganizationRole]]
    BY <2>1, <2>2
  <2>4. \A v \in User : AskedFor(membership[v].pk, membership[v].roles)'
    BY <2>1, <2>2 DEF AskedFor, MayChange
  <2>5. /\ handling' = [v \in WebWorker |-> handling'[v]]
        /\ \A v \in WebWorker : v # w => handling'[v] = handling[v]
        /\ \/ handling'[w] = Free
           \/ handling'[w] = [handling[w] EXCEPT !.todo = @ \ {r}]
    BY <2>1 DEF Finish
  <2>6. MayCreate(w)' /\ MayGrant(w)' /\ MayChange(w)'
    BY <2>2, <2>5 DEF MayCreate, MayGrant, MayChange, AskedFor, Free
  <2>7. \A v \in WebWorker : v # w => (MayCreate(v) /\ MayGrant(v) /\ MayChange(v))'
    BY <2>2, <2>5 DEF MayCreate, MayGrant, MayChange, AskedFor
  <2>8. QED
    BY <2>2, <2>3, <2>4, <2>5, <2>6, <2>7
<1>3. CASE SaveMembership(w)
  <2> DEFINE u == handling[w].user
  <2>1. /\ UNCHANGED <<lastPk, asked>> /\ handling' = [handling EXCEPT ![w] = Free]
        /\ \/ membership' = membership
           \/ membership' = [membership EXCEPT ![u] = [pk |-> handling[w].pk, roles |-> {}]]
    BY <1>3 DEF SaveMembership, Finish
  <2>2. u \in User /\ handling[w].pk \in Nat
    BY <1>3 DEF SaveMembership, MayChange
  <2>3. membership' \in [User -> [pk : Nat, roles : SUBSET OrganizationRole]]
    BY <2>1, <2>2
  <2>4. \A v \in User : AskedFor(membership[v].pk, membership[v].roles)'
    BY <2>1, <2>2 DEF AskedFor
  <2>5. QED
    BY <2>1, <2>3, <2>4 DEF AskedFor, MayCreate, MayGrant, MayChange, Free
<1>4. QED
  BY <1>1, <1>2, <1>3

LEMMA RemovingKeepsRoles ==
  ASSUME RolesInv, NEW by \in User, NEW u \in User, RemoveMember(by, u)
  PROVE  RolesInv'
BY DEF RolesInv, RolesType, RemoveMember, NoMembership, AskedFor, MayCreate, MayGrant, MayChange

LEMMA RolesNext == RolesInv /\ [OrgNext]_orgVars => RolesInv'
<1> SUFFICES ASSUME RolesInv, [OrgNext]_orgVars PROVE RolesInv'
  OBVIOUS
<1>1. CASE UNCHANGED orgVars
  BY <1>1 DEF orgVars, RolesInv, RolesType, AskedFor, MayCreate, MayGrant, MayChange
<1>2. ASSUME NEW u \in User, \/ \E active \in BOOLEAN : CreateOrganization(u, active)
                             \/ Unfollow(u)
      PROVE  RolesInv'
  <2>1. UNCHANGED <<membership, lastPk, asked, handling>>
    BY <1>2 DEF CreateOrganization, Unfollow
  <2>2. QED
    BY <2>1 DEF RolesInv, RolesType, AskedFor, MayCreate, MayGrant, MayChange
<1>3. QED
  BY <1>1, <1>2, OthersKeepRoles, AddingKeepsRoles, ChangingKeepsRoles, RemovingKeepsRoles DEF OrgNext

\* Whoever has access to an organization was given roles enough by requests about the very
\* membership he has (add_member, manage_membership_roles, OrganizationMembership.save),
\* whatever requests are under way when a member is removed and added again.
THEOREM AccessWasAsked == OrgSpec => []RolesWereAsked
<1>1. ASSUME RolesInv PROVE RolesWereAsked
  <2> SUFFICES ASSUME NEW u \in User, NEW weight \in {1, 2}, HasAccess(u, weight)
               PROVE  WeightOf({r \in OrganizationRole : <<membership[u].pk, r>> \in asked})
                        >= weight
    BY DEF RolesWereAsked
  <2> DEFINE Given   == membership[u].roles
             Granted == {r \in OrganizationRole : <<membership[u].pk, r>> \in asked}
             worth   == [r \in OrganizationRole |-> Weight(r)]
  <2>1. Given \subseteq Granted
    BY <1>1 DEF RolesInv, RolesType, AskedFor
  <2>2. IsFiniteSet(Granted)
    <3>1. OrganizationRole = {"Member"} \cup {"Coordinator"}
      BY DEF OrganizationRole
    <3>2. IsFiniteSet(OrganizationRole)
      BY <3>1, FS_AddElement, FS_Singleton
    <3>3. QED
      BY <3>2, FS_Subset
  <2>3. \A r \in Granted : worth[r] \in Nat /\ worth[r] <= worth[r]
    BY DEF Weight
  <2> HIDE DEF Given, Granted, worth
  <2>4. TotalOf(worth, Given) <= TotalOf(worth, Granted)
    BY <2>1, <2>2, <2>3, TotalGrows
  <2>5. TotalOf(worth, Given) \in Nat /\ TotalOf(worth, Granted) \in Nat
    <3>1. IsFiniteSet(Given)
      BY <2>1, <2>2, FS_Subset
    <3>2. QED
      BY <3>1, <2>1, <2>2, <2>3, TotalIsNat
  <2>6. TotalOf(worth, Given) >= weight
    BY DEF HasAccess, TotalWeight, WeightOf, Given, worth
  <2>7. TotalOf(worth, Granted) >= weight
    BY <2>4, <2>5, <2>6
  <2>8. QED
    BY <2>7 DEF WeightOf, Granted, worth
<1>2. QED
  BY <1>1, RolesInit, RolesNext, PTL DEF OrgSpec

--------------------------------------------------------------------------------
(* That what an organization pays for is paid for once, and that an event is    *)
(* shown in front by a row that was paid for; for any subscriptions, days,      *)
(* highlightings and callbacks.                                                 *)
(*                                                                              *)
(* In order, one subscription at most waits for its payment; it begins after    *)
(* all that are paid, since subscribe_until is not before the end of any        *)
(* (Period, InOrder).  The task's stale rows have other days only after an      *)
(* edit, and saving them is noticed.  Alone with a payment, a callback knows    *)
(* its status (HighlightOK).                                                    *)

PlanRow  == [created : {TRUE}, deleted : BOOLEAN, active : BOOLEAN, start : Int, end : Int]
PlanRows == UNION {[S -> PlanRow] : S \in SUBSET Plan}
Answer   == [pc : {"read"}, of : Plan \cup Spot, seen : {"IN_PROGRESS", "FAILED"}]
Sweeping == {r \in [pc : {"running"}, todo : SUBSET Plan, save : SUBSET Plan, rows : PlanRows] :
               DOMAIN r.rows = r.todo \cup r.save}

PaidTypes ==
  /\ today \in Nat /\ subscribeUntil \in Int /\ muddled \in BOOLEAN
  /\ plan \in [Plan -> {NoPlan} \cup PlanRow]
  /\ highlight \in {NoHighlight} \cup [spot : Spot, active : BOOLEAN]
  /\ payment \in [Plan \cup Spot -> {"none", "IN_PROGRESS", "PAID", "RESOLVED", "FAILED"}]
  /\ hook \in [HookWorker -> {NoHook} \cup Answer]
  /\ sweep \in {NoSweep} \cup Sweeping

\* A subscription and its payment are made together, before the task reads them.
PlanWithPayment(s) ==
  /\ plan[s].created <=> payment[s] # "none"
  /\ sweep # NoSweep /\ s \in sweep.todo \cup sweep.save => plan[s].created

\* A callback is about a payment that was begun.
Begun(w) == hook[w].pc = "read" => payment[hook[w].of] # "none"

\* The one callback that is about payment k knows what its status is.
HighlightOK(k) ==
  k \notin crossed =>
    /\ \A v, w \in HookWorker : HookAnswers(v, k) /\ HookAnswers(w, k) => v = w
    /\ \A w \in HookWorker : HookAnswers(w, k) => hook[w].seen = payment[k]
    /\ highlight # NoHighlight /\ highlight.spot = k /\ highlight.active => PaymentMade(k)

\* One subscription at most waits for its payment; it begins after all that are paid.
InOrder(s, t) ==
  /\ payment[s] = "IN_PROGRESS" /\ payment[t] = "IN_PROGRESS" => s = t
  /\ payment[s] = "IN_PROGRESS" /\ PaymentMade(t) => plan[t].end < plan[s].start
  /\ PaymentMade(s) /\ PaymentMade(t) /\ s # t => ~Overlap(s, t)
Period(s) ==
  /\ payment[s] # "none" => plan[s].start <= plan[s].end
  /\ PaymentMade(s) => plan[s].end <= subscribeUntil
Periods == (\A s \in Plan : Period(s)) /\ (\A s, t \in Plan : InOrder(s, t))

PaidInv ==
  /\ PaidTypes
  /\ \A s \in Plan : PlanWithPayment(s)
  /\ \A w \in HookWorker : Begun(w)
  /\ \A k \in Spot : HighlightOK(k)
  /\ ~muddled => Periods

USE PlanDaysAssumption, PlansAreNotSpots

\* No subscription, no payment, no callback.
LEMMA PaidInvInit == PaidInit => PaidInv
<1> SUFFICES ASSUME PaidInit PROVE PaidInv
  OBVIOUS
<1>1. PaidTypes
  <2>0. today = 0 /\ subscribeUntil = -1 /\ muddled = FALSE
    BY DEF PaidInit
  <2>1. today \in Nat /\ subscribeUntil \in Int /\ muddled \in BOOLEAN
    <3>1. -1 \in Int
      OBVIOUS
    <3>2. subscribeUntil \in Int
      BY <2>0, <3>1
    <3> QED BY <2>0, <3>2
  <2>2. highlight \in {NoHighlight} \cup [spot : Spot, active : BOOLEAN] /\ sweep \in {NoSweep} \cup Sweeping
    BY DEF PaidInit
  <2>3. plan \in [Plan -> {NoPlan} \cup PlanRow] /\ hook \in [HookWorker -> {NoHook} \cup Answer]
    BY DEF PaidInit
  <2>4. payment \in [Plan \cup Spot -> {"none", "IN_PROGRESS", "PAID", "RESOLVED", "FAILED"}]
    BY DEF PaidInit
  <2> QED BY <2>1, <2>2, <2>3, <2>4 DEF PaidTypes
<1>2. ASSUME NEW s \in Plan PROVE PlanWithPayment(s)
  BY DEF PaidInit, PlanWithPayment, NoPlan
<1>3. ASSUME NEW k \in Spot PROVE HighlightOK(k)
  BY DEF PaidInit, HighlightOK, HookAnswers, NoHook
<1>4. Periods
  BY DEF PaidInit, Periods, Period, InOrder, PaymentMade
<1>5. \A w \in HookWorker : Begun(w)
  BY DEF PaidInit, Begun, NoHook
<1> QED BY <1>1, <1>2, <1>3, <1>4, <1>5 DEF PaidInv

\* What the rows are made of.
LEMMA PlanIsThere ==
  ASSUME PaidTypes, NEW s \in Plan
  PROVE  /\ plan[s].created => plan[s] \in PlanRow
         /\ plan[s] # NoPlan => plan[s].created /\ plan[s] \in PlanRow
         /\ Visible(s) => plan[s].created
<1>1. plan[s] = NoPlan \/ plan[s] \in PlanRow
  BY DEF PaidTypes
<1>2. ~NoPlan.created
  BY DEF NoPlan
<1>3. \A r \in PlanRow : r.created
  BY DEF PlanRow
<1> QED BY <1>1, <1>2, <1>3, Zenon DEF Visible

\* Neither a date nor a payment of a subscription changes.
LEMMA SameDates ==
  ASSUME Periods, subscribeUntil' = subscribeUntil,
         \A s \in Plan : /\ payment'[s] = payment[s]
                         /\ payment[s] # "none" =>
                              plan'[s].start = plan[s].start /\ plan'[s].end = plan[s].end
  PROVE  Periods'
<1>1. ASSUME NEW s \in Plan PROVE Period(s)'
  BY DEF Periods, Period, PaymentMade
<1>2. ASSUME NEW s \in Plan, NEW t \in Plan PROVE InOrder(s, t)'
  BY DEF Periods, InOrder, PaymentMade, Overlap
<1> QED BY <1>1, <1>2 DEF Periods

\* Nothing about highlightings and their payments changes.
LEMMA SameSpots ==
  ASSUME \A k \in Spot : HighlightOK(k), UNCHANGED <<highlight, hook, crossed>>,
         \A k \in Spot : payment'[k] = payment[k]
  PROVE  \A k \in Spot : HighlightOK(k)'
BY DEF HighlightOK, HookAnswers, PaymentMade

\* A payment that was begun is not forgotten.
LEMMA StillBegun ==
  ASSUME PaidInv,
         \A x \in Plan \cup Spot : payment[x] # "none" => payment'[x] # "none",
         \A w \in HookWorker : hook'[w] = hook[w] \/ hook'[w] = NoHook
  PROVE  \A w \in HookWorker : Begun(w)'
<1> SUFFICES ASSUME NEW w \in HookWorker, hook'[w].pc = "read" PROVE payment'[hook'[w].of] # "none"
  BY DEF Begun
<1>1. hook'[w] = hook[w] /\ hook[w] \in Answer
  BY DEF PaidInv, PaidTypes, NoHook
<1>2. hook[w].of \in Plan \cup Spot
  BY <1>1 DEF Answer
<1> QED BY <1>1, <1>2 DEF PaidInv, Begun

\* A day goes by: only today and what is too late change.
LEMMA NextDayInv ==
  ASSUME PaidInv, NextDay
  PROVE  PaidInv'
<1>1. UNCHANGED <<plan, subscribeUntil, highlight, payment, hook, sweep, muddled, crossed>> /\ today' = today + 1
  BY DEF NextDay
<1>2. PaidTypes' /\ \A s \in Plan : PlanWithPayment(s)'
  BY <1>1 DEF PaidInv, PaidTypes, PlanWithPayment
<1> QED BY <1>1, <1>2, SameSpots, SameDates, StillBegun DEF PaidInv

\* SubscriptionCreationSerializer: the new row begins after all that are paid.
LEMMA NewPlanInv ==
  ASSUME PaidInv, NEW s \in Plan, NEW active \in BOOLEAN, NEW status \in {"IN_PROGRESS", "RESOLVED"},
         plan[s] = NoPlan, NewPlan(s, active), payment' = [payment EXCEPT ![s] = status],
         status = "IN_PROGRESS" => subscribeUntil' = subscribeUntil,
         status = "RESOLVED" => subscribeUntil' = StartDate + PlanDays[s],
         muddled' = (muddled \/ SomePlanIsOpen),
         UNCHANGED <<today, highlight, hook, sweep, crossed>>
  PROVE  PaidInv'
<1> DEFINE row == [created |-> TRUE, deleted |-> FALSE, active |-> active,
                   start |-> StartDate, end |-> StartDate + PlanDays[s]]
<1>1. /\ StartDate \in Int /\ today <= StartDate /\ subscribeUntil < StartDate
      /\ PlanDays[s] \in Nat /\ StartDate + PlanDays[s] \in Int
  BY DEF PaidInv, PaidTypes, StartDate
<1>2. row \in PlanRow /\ row.start = StartDate /\ row.end = StartDate + PlanDays[s] /\ row.created
  BY <1>1 DEF PlanRow
<1>3. plan' = [plan EXCEPT ![s] = row]
  BY DEF NewPlan
<1> HIDE DEF row
<1>4. /\ plan' \in [Plan -> {NoPlan} \cup PlanRow] /\ plan'[s] = row
      /\ \A t \in Plan \ {s} : plan'[t] = plan[t]
  BY <1>2, <1>3 DEF PaidInv, PaidTypes
<1>5. /\ payment'[s] = status /\ \A x \in (Plan \cup Spot) \ {s} : payment'[x] = payment[x]
      /\ payment' \in [Plan \cup Spot -> {"none", "IN_PROGRESS", "PAID", "RESOLVED", "FAILED"}]
  BY DEF PaidInv, PaidTypes
<1>6. PaidTypes'
  BY <1>1, <1>4, <1>5 DEF PaidInv, PaidTypes
<1>7. ASSUME NEW t \in Plan PROVE PlanWithPayment(t)'
  BY <1>2, <1>4, <1>5 DEF PaidInv, PlanWithPayment, NoPlan
<1>8. \A k \in Spot : HighlightOK(k)'
  BY <1>5, SameSpots DEF PaidInv
<1>9. ASSUME ~muddled' PROVE Periods'
  <2>1. Periods /\ \A t \in Plan : payment[t] # "IN_PROGRESS"
    BY <1>9 DEF PaidInv, SomePlanIsOpen
  <2>2. ASSUME NEW t \in Plan \ {s}, payment[t] # "none"
        PROVE  plan[t].start \in Int /\ plan[t].end \in Int
    BY <2>2, PlanIsThere DEF PaidInv, PlanWithPayment, PlanRow
  <2>3. ASSUME NEW t \in Plan \ {s}, PaymentMade(t) PROVE plan[t].end < StartDate
    <3>1. plan[t].end \in Int /\ plan[t].end <= subscribeUntil
      BY <2>1, <2>2, <2>3 DEF Periods, Period, PaymentMade
    <3> QED BY <1>1, <3>1 DEF PaidInv, PaidTypes
  <2>4. \A t \in Plan \ {s} : PaymentMade(t)' <=> PaymentMade(t)
    BY <1>5 DEF PaymentMade
  <2>5. subscribeUntil' \in Int /\ subscribeUntil <= subscribeUntil'
    BY <1>1 DEF PaidInv, PaidTypes
  <2>6. ASSUME NEW t \in Plan PROVE Period(t)'
    <3>1. CASE t = s
      BY <1>1, <1>2, <1>4, <1>5, <3>1 DEF Period, PaymentMade
    <3>2. CASE t # s
      <4>1. Period(t)
        BY <2>1 DEF Periods
      <4>2. payment'[t] # "none" => plan'[t].start <= plan'[t].end
        BY <1>4, <1>5, <3>2, <4>1 DEF Period
      <4>3. PaymentMade(t)' => plan'[t].end <= subscribeUntil'
        BY <1>4, <2>2, <2>4, <2>5, <3>2, <4>1 DEF Period, PaymentMade, PaidInv, PaidTypes
      <4> QED BY <4>2, <4>3 DEF Period
    <3> QED BY <3>1, <3>2
  <2>7. ASSUME NEW t \in Plan, NEW u \in Plan PROVE InOrder(t, u)'
    <3>0. InOrder(t, u)
      BY <2>1 DEF Periods
    <3>1. CASE t # s /\ u # s
      BY <1>4, <1>5, <3>0, <3>1 DEF InOrder, Overlap, PaymentMade
    <3>2. CASE t = s /\ u = s
      BY <1>5, <3>2 DEF InOrder, PaymentMade
    <3>3. CASE t = s /\ u # s
      <4>1. PaymentMade(u)' => plan'[u].end < plan'[s].start
        BY <1>2, <1>4, <2>3, <2>4, <3>3
      <4>2. PaymentMade(u)' => ~Overlap(s, u)'
        BY <1>1, <1>2, <1>4, <2>2, <2>4, <3>3, <4>1 DEF Overlap, PaymentMade
      <4> QED BY <1>5, <2>1, <3>3, <4>1, <4>2 DEF InOrder
    <3>4. CASE t # s /\ u = s
      <4>1. PaymentMade(t)' => plan'[t].end < plan'[s].start
        BY <1>2, <1>4, <2>3, <2>4, <3>4
      <4>2. PaymentMade(t)' => ~Overlap(t, s)'
        BY <1>1, <1>2, <1>4, <2>2, <2>4, <3>4, <4>1 DEF Overlap, PaymentMade
      <4> QED BY <1>5, <2>1, <3>4, <4>1, <4>2 DEF InOrder
    <3> QED BY <3>1, <3>2, <3>3, <3>4
  <2> QED BY <2>6, <2>7 DEF Periods
<1> QED BY <1>5, <1>6, <1>7, <1>8, <1>9, StillBegun DEF PaidInv

\* A subscription is asked for, to be paid or paid at once.
LEMMA SubscribeInv ==
  ASSUME PaidInv, NEW s \in Plan, Subscribe(s) \/ SubscribeResolved(s)
  PROVE  PaidInv'
<1>1. CASE Subscribe(s)
  BY <1>1, NewPlanInv DEF Subscribe
<1>2. CASE SubscribeResolved(s)
  BY <1>2, NewPlanInv DEF SubscribeResolved
<1> QED BY <1>1, <1>2

\* A row of a subscription is saved: the dates are the same, or it is noticed.
LEMMA PlanSavedInv ==
  ASSUME PaidInv, NEW s \in Plan, NEW row \in PlanRow, plan[s].created,
         plan' = [plan EXCEPT ![s] = row], muddled' \in BOOLEAN,
         ~muddled' => ~muddled /\ row.start = plan[s].start /\ row.end = plan[s].end,
         UNCHANGED <<today, subscribeUntil, highlight, payment, hook, crossed>>,
         sweep' \in {NoSweep} \cup Sweeping,
         sweep' # NoSweep => /\ sweep # NoSweep
                             /\ sweep'.todo \cup sweep'.save \subseteq sweep.todo \cup sweep.save
  PROVE  PaidInv'
<1>1. /\ plan'[s] = row /\ row.created /\ \A t \in Plan \ {s} : plan'[t] = plan[t]
      /\ plan' \in [Plan -> {NoPlan} \cup PlanRow]
  BY DEF PaidInv, PaidTypes, PlanRow
<1>2. PaidTypes'
  BY <1>1 DEF PaidInv, PaidTypes
<1>3. ASSUME NEW t \in Plan PROVE PlanWithPayment(t)'
  <2>1. PlanWithPayment(t)
    BY DEF PaidInv
  <2> QED BY <1>1, <2>1 DEF PlanWithPayment
<1>4. ~muddled' => Periods'
  BY <1>1, SameDates DEF PaidInv
<1>5. \A k \in Spot : HighlightOK(k)'
  BY SameSpots DEF PaidInv
<1> QED BY <1>2, <1>3, <1>4, <1>5, StillBegun DEF PaidInv

\* A subscription is deleted, or edited: new dates are noticed.
LEMMA EditedInv ==
  ASSUME PaidInv, NEW s \in Plan,
         \/ DestroySubscription(s)
         \/ \E start, end \in {today, MaxDay}, active \in BOOLEAN : UpdateSubscription(s, start, end, active)
  PROVE  PaidInv'
<1>1. /\ plan[s].created /\ plan[s] \in PlanRow /\ sweep \in {NoSweep} \cup Sweeping
  BY PlanIsThere DEF DestroySubscription, UpdateSubscription, PaidInv, PaidTypes
<1>2. CASE DestroySubscription(s)
  <2> DEFINE row == [plan[s] EXCEPT !.deleted = TRUE]
  <2>1. row \in PlanRow /\ row.start = plan[s].start /\ row.end = plan[s].end
    BY <1>1 DEF PlanRow
  <2>2. plan' = [plan EXCEPT ![s] = row] /\ UNCHANGED <<today, subscribeUntil, highlight, payment, hook, sweep, muddled, crossed>>
    BY <1>2 DEF DestroySubscription
  <2> HIDE DEF row
  <2> QED BY <1>1, <2>1, <2>2, PlanSavedInv DEF PaidInv, PaidTypes
<1>3. ASSUME NEW start \in {today, MaxDay}, NEW end \in {today, MaxDay}, NEW active \in BOOLEAN,
             UpdateSubscription(s, start, end, active)
      PROVE  PaidInv'
  <2> DEFINE row == [plan[s] EXCEPT !.start = start, !.end = end, !.active = active]
  <2>0. start \in Int /\ end \in Int
    BY MaxDayAssumption DEF PaidInv, PaidTypes
  <2>1. row \in PlanRow /\ row.start = start /\ row.end = end
    BY <1>1, <2>0 DEF PlanRow
  <2>2. /\ plan' = [plan EXCEPT ![s] = row]
        /\ muddled' = (muddled \/ start # plan[s].start \/ end # plan[s].end)
        /\ UNCHANGED <<today, subscribeUntil, highlight, payment, hook, sweep, crossed>>
    <3>1. plan' = [plan EXCEPT ![s].start = start, ![s].end = end, ![s].active = active]
      BY <1>3 DEF UpdateSubscription
    <3>2. plan' = [plan EXCEPT ![s] = row]
      BY <3>1, Zenon
    <3>3. /\ muddled' = (muddled \/ start # plan[s].start \/ end # plan[s].end)
          /\ UNCHANGED <<today, subscribeUntil, highlight, payment, hook, sweep, crossed>>
      BY <1>3, Zenon DEF UpdateSubscription
    <3> QED BY <3>2, <3>3
  <2> HIDE DEF row
  <2> QED BY <1>1, <2>1, <2>2, PlanSavedInv DEF PaidInv, PaidTypes
<1> QED BY <1>2, <1>3

\* What the task has left to do after a step.
LEMMA SweepGoesOnOK ==
  ASSUME NEW todo \in SUBSET Plan, NEW save \in SUBSET Plan, NEW rows,
         \A s \in todo \cup save : rows[s] \in PlanRow, SweepGoesOn(todo, save, rows)
  PROVE  /\ sweep' \in {NoSweep} \cup Sweeping
         /\ sweep' # NoSweep =>
              /\ sweep'.todo \cup sweep'.save = todo \cup save
              /\ \A s \in todo \cup save : sweep'.rows[s] = rows[s]
<1> DEFINE all == todo \cup save
           some == [s \in all |-> rows[s]]
           running == [pc |-> "running", todo |-> todo, save |-> save, rows |-> some]
<1>1. some \in [all -> PlanRow] /\ all \in SUBSET Plan /\ DOMAIN some = all /\ \A s \in all : some[s] = rows[s]
  OBVIOUS
<1>2. some \in PlanRows
  BY <1>1 DEF PlanRows
<1>3. sweep' = IF all = {} THEN NoSweep ELSE running
  BY Zenon DEF SweepGoesOn
<1> HIDE DEF some
<1>4. running \in Sweeping /\ running.todo = todo /\ running.save = save /\ running.rows = some
  BY <1>1, <1>2 DEF Sweeping
<1> HIDE DEF running, all
<1> QED BY <1>1, <1>3, <1>4 DEF all

\* The rows of the task are rows of subscriptions.
LEMMA SweepRowsOK ==
  ASSUME PaidInv, sweep # NoSweep
  PROVE  /\ sweep \in Sweeping /\ sweep.todo \in SUBSET Plan /\ sweep.save \in SUBSET Plan
         /\ \A s \in sweep.todo \cup sweep.save :
              sweep.rows[s] \in PlanRow /\ plan[s].created
<1>1. sweep \in Sweeping
  BY DEF PaidInv, PaidTypes
<1>2. /\ sweep.todo \in SUBSET Plan /\ sweep.save \in SUBSET Plan
      /\ sweep.rows \in PlanRows /\ DOMAIN sweep.rows = sweep.todo \cup sweep.save
  BY <1>1 DEF Sweeping
<1>3. \A s \in sweep.todo \cup sweep.save : sweep.rows[s] \in PlanRow
  BY <1>2 DEF PlanRows
<1> QED BY <1>1, <1>2, <1>3 DEF PaidInv, PlanWithPayment

\* The task has looked at a row, or has taken all of them.
LEMMA SweepSteps ==
  ASSUME PaidInv, UNCHANGED <<today, plan, subscribeUntil, highlight, payment, hook, muddled, crossed>>,
         sweep' \in {NoSweep} \cup Sweeping,
         sweep' # NoSweep =>
           /\ sweep'.todo \cup sweep'.save \subseteq Plan
           /\ \A s \in sweep'.todo \cup sweep'.save : plan[s].created
  PROVE  PaidInv'
<1>1. PaidTypes' /\ \A s \in Plan : PlanWithPayment(s)'
  BY DEF PaidInv, PaidTypes, PlanWithPayment
<1> QED BY <1>1, SameSpots, SameDates, StillBegun DEF PaidInv

\* The task reads all the subscriptions.
LEMMA SweepStartInv ==
  ASSUME PaidInv, SweepStart
  PROVE  PaidInv'
<1> DEFINE seen == {s \in Plan : Visible(s)}
           none == {}
<1>1. /\ SweepGoesOn(seen, none, plan)
      /\ UNCHANGED <<today, plan, subscribeUntil, highlight, payment, hook, muddled, crossed>>
  BY DEF SweepStart
<1>2. seen \in SUBSET Plan /\ \A s \in seen : plan[s].created /\ plan[s] \in PlanRow
  BY PlanIsThere DEF PaidInv
<1>0. none \in SUBSET Plan /\ seen \cup none = seen
  OBVIOUS
<1> HIDE DEF seen, none
<1>3. /\ sweep' \in {NoSweep} \cup Sweeping
      /\ sweep' # NoSweep =>
           /\ sweep'.todo \cup sweep'.save = seen
           /\ \A s \in seen : sweep'.rows[s] = plan[s]
  <2>1. SweepGoesOn(seen, none, plan) /\ \A s \in seen \cup none : plan[s] \in PlanRow
    BY <1>0, <1>1, <1>2
  <2>2. /\ sweep' \in {NoSweep} \cup Sweeping
        /\ sweep' # NoSweep =>
             /\ sweep'.todo \cup sweep'.save = seen \cup none
             /\ \A s \in seen \cup none : sweep'.rows[s] = plan[s]
    BY <1>0, <1>2, <2>1, SweepGoesOnOK
  <2> QED BY <1>0, <2>2
<1> QED BY <1>1, <1>2, <1>3, SweepSteps

\* The task computes the status of one of its rows.
LEMMA SweepCheckInv ==
  ASSUME PaidInv, NEW s \in Plan, SweepCheck(s)
  PROVE  PaidInv'
<1> DEFINE computed == ComputedStatus(s)
           rows == [sweep.rows EXCEPT ![s].active = computed]
<1>1. /\ sweep # NoSweep /\ s \in sweep.todo
      /\ \/ SweepGoesOn(sweep.todo \ {s}, sweep.save \cup {s}, rows)
         \/ SweepGoesOn(sweep.todo \ {s}, sweep.save, sweep.rows)
      /\ UNCHANGED <<today, plan, subscribeUntil, highlight, payment, hook, muddled, crossed>>
  BY DEF SweepCheck
<1>2. /\ sweep.todo \in SUBSET Plan /\ sweep.save \in SUBSET Plan
      /\ \A t \in sweep.todo \cup sweep.save :
           sweep.rows[t] \in PlanRow /\ plan[t].created
      /\ DOMAIN sweep.rows = sweep.todo \cup sweep.save
  BY <1>1, SweepRowsOK DEF Sweeping
<1>3. computed \in BOOLEAN
  BY DEF ComputedStatus, PaymentMade, Covers
<1>4. /\ rows[s] \in PlanRow
      /\ \A t \in sweep.todo \cup sweep.save : t # s => rows[t] = sweep.rows[t]
  <2>1. rows[s] = [sweep.rows[s] EXCEPT !.active = computed]
    BY <1>1, <1>2
  <2>2. \A t \in sweep.todo \cup sweep.save : t # s => rows[t] = sweep.rows[t]
    BY <1>2
  <2>3. ASSUME NEW r \in PlanRow, NEW a \in BOOLEAN
        PROVE  [r EXCEPT !.active = a] \in PlanRow
    BY DEF PlanRow
  <2> HIDE DEF rows, computed
  <2> QED BY <1>1, <1>2, <1>3, <2>1, <2>2, <2>3
<1>5. \A t \in sweep.todo \cup sweep.save : rows[t] \in PlanRow
  BY <1>1, <1>2, <1>4
<1> HIDE DEF rows
<1>6. CASE SweepGoesOn(sweep.todo \ {s}, sweep.save \cup {s}, rows)
  <2> DEFINE todo == sweep.todo \ {s}
             save == sweep.save \cup {s}
  <2>1. todo \in SUBSET Plan /\ save \in SUBSET Plan /\ todo \cup save = sweep.todo \cup sweep.save
    BY <1>1, <1>2
  <2>2. SweepGoesOn(todo, save, rows)
    BY <1>6
  <2> HIDE DEF todo, save
  <2>3. /\ sweep' \in {NoSweep} \cup Sweeping
        /\ sweep' # NoSweep =>
             /\ sweep'.todo \cup sweep'.save = todo \cup save
             /\ \A t \in todo \cup save : sweep'.rows[t] = rows[t]
    BY <1>5, <2>1, <2>2, SweepGoesOnOK
  <2> QED BY <1>1, <1>2, <1>5, <2>1, <2>3, SweepSteps
<1>7. CASE SweepGoesOn(sweep.todo \ {s}, sweep.save, sweep.rows)
  <2> DEFINE todo == sweep.todo \ {s}
  <2>1. todo \in SUBSET Plan /\ todo \cup sweep.save \subseteq sweep.todo \cup sweep.save
    BY <1>1, <1>2
  <2>2. SweepGoesOn(todo, sweep.save, sweep.rows)
    BY <1>7
  <2> HIDE DEF todo
  <2>3. /\ sweep' \in {NoSweep} \cup Sweeping
        /\ sweep' # NoSweep =>
             /\ sweep'.todo \cup sweep'.save = todo \cup sweep.save
             /\ \A t \in todo \cup sweep.save : sweep'.rows[t] = sweep.rows[t]
    BY <1>2, <2>1, <2>2, SweepGoesOnOK
  <2> QED BY <1>1, <1>2, <2>1, <2>3, SweepSteps
<1> QED BY <1>1, <1>6, <1>7

\* The task saves a row as it was read: a date that was edited since is noticed.
LEMMA SweepSaveInv ==
  ASSUME PaidInv, NEW s \in Plan, SweepSave(s)
  PROVE  PaidInv'
<1>1. PICK row \in PlanRow : row = sweep.rows[s] /\ plan[s].created
  BY SweepRowsOK DEF SweepSave
<1>2. /\ sweep # NoSweep /\ plan' = [plan EXCEPT ![s] = row]
      /\ SweepGoesOn(sweep.todo, sweep.save \ {s}, sweep.rows)
      /\ muddled' = (muddled \/ plan[s].start # row.start \/ plan[s].end # row.end)
      /\ UNCHANGED <<today, subscribeUntil, highlight, payment, hook, crossed>>
  BY <1>1 DEF SweepSave
<1> DEFINE save == sweep.save \ {s}
<1>3. /\ sweep.todo \in SUBSET Plan /\ save \in SUBSET Plan /\ save \subseteq sweep.save
      /\ \A t \in sweep.todo \cup save : sweep.rows[t] \in PlanRow
  BY <1>2, SweepRowsOK
<1>4. SweepGoesOn(sweep.todo, save, sweep.rows)
  BY <1>2
<1> HIDE DEF save
<1>5. /\ sweep' \in {NoSweep} \cup Sweeping
      /\ sweep' # NoSweep =>
           /\ sweep'.todo \cup sweep'.save = sweep.todo \cup save
           /\ \A t \in sweep.todo \cup save : sweep'.rows[t] = sweep.rows[t]
  BY <1>3, <1>4, SweepGoesOnOK
<1> QED BY <1>1, <1>2, <1>3, <1>5, PlanSavedInv DEF PaidInv, PaidTypes

\* Only the highlighting and the payments change that are not subscriptions'.
LEMMA OnlySpots ==
  ASSUME PaidInv, UNCHANGED <<today, plan, subscribeUntil, sweep>>, muddled' \in BOOLEAN,
         muddled => muddled', \A s \in Plan : payment'[s] = payment[s]
  PROVE  (\A s \in Plan : PlanWithPayment(s)') /\ (~muddled' => Periods')
BY SameDates DEF PaidInv, PlanWithPayment

\* A highlighting is asked for: nobody can have read its payment yet.
LEMMA CreateHighlightingInv ==
  ASSUME PaidInv, NEW k \in Spot, NEW fromAdmin \in BOOLEAN, NEW resolve \in BOOLEAN,
         CreateHighlighting(k, fromAdmin, resolve)
  PROVE  PaidInv'
<1> DEFINE status == IF resolve THEN "RESOLVED" ELSE "IN_PROGRESS"
           row == [spot |-> k, active |-> resolve]
<1>1. /\ payment[k] = "none" /\ highlight' = row /\ payment' = [payment EXCEPT ![k] = status]
      /\ UNCHANGED <<today, plan, subscribeUntil, hook, sweep, muddled, crossed>>
  BY DEF CreateHighlighting
<1>2. status \in {"RESOLVED", "IN_PROGRESS"} /\ (resolve => status = "RESOLVED")
  OBVIOUS
<1> HIDE DEF status
<1>3. row \in [spot : Spot, active : BOOLEAN] /\ row.spot = k /\ (row.active <=> resolve)
  OBVIOUS
<1> HIDE DEF row
<1>4. /\ payment' \in [Plan \cup Spot -> {"none", "IN_PROGRESS", "PAID", "RESOLVED", "FAILED"}]
      /\ payment'[k] = status /\ \A x \in Plan \cup Spot : x # k => payment'[x] = payment[x]
  BY <1>1, <1>2 DEF PaidInv, PaidTypes
<1>5. \A s \in Plan : payment'[s] = payment[s]
  BY <1>4
<1>6. PaidTypes'
  BY <1>1, <1>3, <1>4 DEF PaidInv, PaidTypes
<1>7. ASSUME NEW x \in Spot PROVE HighlightOK(x)'
  <2>1. HighlightOK(x)
    BY DEF PaidInv
  <2>2. CASE x = k
    <3>1. x \notin crossed => \A w \in HookWorker : ~HookAnswers(w, x)
      <4> SUFFICES ASSUME x \notin crossed, NEW w \in HookWorker, HookAnswers(w, x) PROVE FALSE
        OBVIOUS
      <4>1. hook[w] \in Answer
        BY DEF PaidInv, PaidTypes, HookAnswers, NoHook
      <4> QED BY <1>1, <2>1, <2>2, <4>1 DEF HighlightOK, Answer
    <3> QED BY <1>1, <1>2, <1>3, <1>4, <2>2, <3>1 DEF HighlightOK, HookAnswers, PaymentMade
  <2>3. CASE x # k
    BY <1>1, <1>3, <1>4, <2>1, <2>3 DEF HighlightOK, HookAnswers, PaymentMade
  <2> QED BY <2>2, <2>3
<1> QED BY <1>1, <1>2, <1>4, <1>5, <1>6, <1>7, OnlySpots, StillBegun DEF PaidInv, PaidTypes

\* A highlighting is deleted for good.
LEMMA DestroyHighlightingInv ==
  ASSUME PaidInv, NEW fromAdmin \in BOOLEAN, DestroyHighlighting(fromAdmin)
  PROVE  PaidInv'
<1>1. /\ highlight' = NoHighlight
      /\ UNCHANGED <<today, plan, subscribeUntil, payment, hook, sweep, muddled, crossed>>
  BY DEF DestroyHighlighting
<1>2. PaidTypes'
  BY <1>1 DEF PaidInv, PaidTypes
<1>3. \A k \in Spot : HighlightOK(k)'
  BY <1>1 DEF PaidInv, HighlightOK, HookAnswers, PaymentMade
<1> QED BY <1>1, <1>2, <1>3, OnlySpots, StillBegun DEF PaidInv, PaidTypes

\* A callback reads its transaction, alone with it or not.
LEMMA HookReadInv ==
  ASSUME PaidInv, NEW w \in HookWorker, NEW x \in Plan \cup Spot, HookRead(w, x)
  PROVE  PaidInv'
<1> DEFINE answer == [pc |-> "read", of |-> x, seen |-> payment[x]]
<1>1. /\ hook[w] = NoHook /\ payment[x] # "none" /\ ~PaymentMade(x)
      /\ hook' = [hook EXCEPT ![w] = answer]
      /\ crossed' = IF \E v \in HookWorker : HookAnswers(v, x) THEN crossed \cup {x} ELSE crossed
      /\ UNCHANGED <<today, plan, subscribeUntil, highlight, payment, sweep, muddled>>
  BY DEF HookRead
<1>2. answer \in Answer /\ answer.pc = "read" /\ answer.of = x /\ answer.seen = payment[x]
  BY <1>1 DEF PaidInv, PaidTypes, PaymentMade, Answer
<1> HIDE DEF answer
<1>3. /\ hook' \in [HookWorker -> {NoHook} \cup Answer]
      /\ hook'[w] = answer /\ \A v \in HookWorker : v # w => hook'[v] = hook[v]
  BY <1>1, <1>2 DEF PaidInv, PaidTypes
<1>4. PaidTypes'
  BY <1>1, <1>3 DEF PaidInv, PaidTypes
<1>5. ASSUME NEW k \in Spot PROVE HighlightOK(k)'
  <2>1. HighlightOK(k)
    BY DEF PaidInv
  <2>2. k \notin crossed' => k \notin crossed /\ (k = x => \A v \in HookWorker : ~HookAnswers(v, k))
    BY <1>1
  <2>3. \A v \in HookWorker : HookAnswers(v, k)' <=> (IF v = w THEN x = k ELSE HookAnswers(v, k))
    BY <1>2, <1>3 DEF HookAnswers
  <2> QED BY <1>1, <1>2, <1>3, <2>1, <2>2, <2>3 DEF HighlightOK, PaymentMade
<1>6. ASSUME NEW v \in HookWorker PROVE Begun(v)'
  BY <1>1, <1>2, <1>3 DEF PaidInv, Begun
<1> QED BY <1>1, <1>4, <1>5, <1>6, OnlySpots DEF PaidInv, PaidTypes

\* A callback is over; it has saved the status of payment x, or has not.
LEMMA HookEnds ==
  ASSUME PaidInv, NEW w \in HookWorker, NEW x \in Plan \cup Spot, HookAnswers(w, x),
         hook' = [hook EXCEPT ![w] = NoHook], crossed' = crossed,
         \A k \in Spot : k # x => payment'[k] = payment[k],
         highlight' = highlight \/ (highlight # NoHighlight /\ highlight.spot = x
                                      /\ highlight'.spot = x),
         x \in Spot \ crossed /\ HighlightOK(x) /\ highlight' # NoHighlight
           /\ highlight'.spot = x /\ highlight'.active => PaymentMade(x)'
  PROVE  /\ hook' \in [HookWorker -> {NoHook} \cup Answer]
         /\ \A v \in HookWorker : hook'[v] = hook[v] \/ hook'[v] = NoHook
         /\ \A k \in Spot : HighlightOK(k)'
<1>1. /\ hook' \in [HookWorker -> {NoHook} \cup Answer]
      /\ hook'[w] = NoHook /\ \A v \in HookWorker : v # w => hook'[v] = hook[v]
  BY DEF PaidInv, PaidTypes
<1>2. \A k \in Spot, v \in HookWorker : HookAnswers(v, k)' <=> v # w /\ HookAnswers(v, k)
  BY <1>1 DEF HookAnswers, NoHook
<1>3. ASSUME NEW k \in Spot PROVE HighlightOK(k)'
  <2>1. HighlightOK(k)
    BY DEF PaidInv
  <2>2. CASE k = x
    BY <1>2, <2>1, <2>2 DEF HighlightOK
  <2>3. CASE k # x
    BY <1>1, <1>2, <2>1, <2>3 DEF HighlightOK, PaymentMade
  <2> QED BY <2>2, <2>3
<1> QED BY <1>1, <1>3

\* A subscription is paid: it was the only one to wait, and begins after the others.
LEMMA HookSubscriptionInv ==
  ASSUME PaidInv, NEW w \in HookWorker, NEW s \in Plan, NEW verdict \in {"PAID", "FAILED"},
         HookSubscription(w, s, verdict)
  PROVE  PaidInv'
<1> DEFINE made == verdict = "PAID"
           row == [plan[s] EXCEPT !.active = made]
<1>1. /\ HookAnswers(w, s) /\ Visible(s)
      /\ payment' = [payment EXCEPT ![s] = verdict] /\ hook' = [hook EXCEPT ![w] = NoHook]
      /\ plan' = [plan EXCEPT ![s] = row]
      /\ subscribeUntil' = IF made THEN plan[s].end ELSE subscribeUntil
      /\ muddled' = (muddled \/ payment[s] # "IN_PROGRESS")
      /\ UNCHANGED <<today, highlight, sweep, crossed>>
  BY DEF HookSubscription, SavePayment
<1>2. plan[s].created /\ plan[s] \in PlanRow /\ plan[s].start \in Int /\ plan[s].end \in Int /\ made \in BOOLEAN
  BY <1>1, PlanIsThere DEF PaidInv, PlanRow
<1>3. row \in PlanRow /\ row.created /\ row.start = plan[s].start /\ row.end = plan[s].end
  BY <1>2 DEF PlanRow
<1> HIDE DEF row
<1>4. /\ plan' \in [Plan -> {NoPlan} \cup PlanRow] /\ plan'[s] = row
      /\ \A t \in Plan \ {s} : plan'[t] = plan[t]
  BY <1>1, <1>3 DEF PaidInv, PaidTypes
<1>5. /\ payment'[s] = verdict /\ \A x \in (Plan \cup Spot) \ {s} : payment'[x] = payment[x]
      /\ payment' \in [Plan \cup Spot -> {"none", "IN_PROGRESS", "PAID", "RESOLVED", "FAILED"}]
  BY <1>1 DEF PaidInv, PaidTypes
<1>6. /\ hook' \in [HookWorker -> {NoHook} \cup Answer] /\ \A k \in Spot : HighlightOK(k)'
      /\ \A v \in HookWorker : hook'[v] = hook[v] \/ hook'[v] = NoHook
  BY <1>1, <1>5, HookEnds
<1>7. subscribeUntil' \in Int /\ PaidTypes'
  BY <1>1, <1>2, <1>4, <1>5, <1>6 DEF PaidInv, PaidTypes
<1>8. ASSUME NEW t \in Plan PROVE PlanWithPayment(t)'
  <2>1. PlanWithPayment(t)
    BY DEF PaidInv
  <2> QED BY <1>1, <1>2, <1>3, <1>4, <1>5, <2>1 DEF PlanWithPayment
<1>9. ASSUME ~muddled' PROVE Periods'
  <2>1. Periods /\ payment[s] = "IN_PROGRESS"
    BY <1>1, <1>9 DEF PaidInv
  <2>2. /\ \A t \in Plan : plan'[t].start = plan[t].start /\ plan'[t].end = plan[t].end
        /\ \A t \in Plan \ {s} : (PaymentMade(t)' <=> PaymentMade(t)) /\ payment[t] # "IN_PROGRESS"
    BY <1>3, <1>4, <1>5, <2>1 DEF Periods, InOrder, PaymentMade
  <2>3. PaymentMade(s)' <=> made
    BY <1>5 DEF PaymentMade
  <2>4. \A t \in Plan : PaymentMade(t) => plan[t].start \in Int /\ plan[t].end \in Int /\ plan[t].end < plan[s].start
    <3> TAKE t \in Plan
    <3> HAVE PaymentMade(t)
    <3>1. plan[t] \in PlanRow
      BY PlanIsThere DEF PaidInv, PlanWithPayment, PaymentMade
    <3> QED BY <2>1, <3>1 DEF Periods, InOrder, PlanRow
  <2>5. plan[s].start <= plan[s].end
    BY <2>1 DEF Periods, Period
  <2>6. ASSUME NEW t \in Plan PROVE Period(t)'
    <3>0. Period(t)
      BY <2>1 DEF Periods
    <3>1. CASE t = s
      BY <1>1, <2>2, <2>3, <2>5, <3>1, <1>2 DEF Period
    <3>2. CASE t # s
      <4>1. payment'[t] # "none" => plan'[t].start <= plan'[t].end
        BY <1>5, <2>2, <3>0, <3>2 DEF Period
      <4>2. PaymentMade(t)' => plan'[t].end <= subscribeUntil'
        BY <1>1, <1>2, <2>2, <2>4, <2>5, <3>0, <3>2 DEF Period
      <4> QED BY <4>1, <4>2 DEF Period
    <3> QED BY <3>1, <3>2
  <2>7. ASSUME NEW t \in Plan, NEW u \in Plan PROVE InOrder(t, u)'
    <3>0. InOrder(t, u)
      BY <2>1 DEF Periods
    <3>1. payment'[t] # "IN_PROGRESS"
      BY <1>5, <2>2
    <3>2. ASSUME PaymentMade(t)', PaymentMade(u)', t # u PROVE ~Overlap(t, u)'
      <4>1. CASE t # s /\ u # s
        BY <2>2, <3>0, <3>2, <4>1 DEF InOrder, Overlap
      <4>2. CASE t = s
        BY <1>2, <2>2, <2>4, <3>2, <4>2 DEF Overlap
      <4>3. CASE u = s
        BY <1>2, <2>2, <2>4, <3>2, <4>3 DEF Overlap
      <4> QED BY <4>1, <4>2, <4>3
    <3> QED BY <3>1, <3>2 DEF InOrder
  <2> QED BY <2>6, <2>7 DEF Periods
<1> QED BY <1>5, <1>6, <1>7, <1>8, <1>9, StillBegun DEF PaidInv

\* The payment of the event's own row is saved, and switches it.
LEMMA HookHighlightingInv ==
  ASSUME PaidInv, NEW w \in HookWorker, NEW k \in Spot, NEW verdict \in {"PAID", "FAILED"},
         HookHighlighting(w, k, verdict)
  PROVE  PaidInv'
<1> DEFINE made == verdict = "PAID"
           row == [highlight EXCEPT !.active = made]
<1>1. /\ HookAnswers(w, k) /\ highlight.spot = k /\ highlight' = row
      /\ payment' = [payment EXCEPT ![k] = verdict] /\ hook' = [hook EXCEPT ![w] = NoHook]
      /\ UNCHANGED <<today, plan, subscribeUntil, sweep, muddled, crossed>>
  BY DEF HookHighlighting, SavePayment
<1>2. highlight \in [spot : Spot, active : BOOLEAN] /\ highlight # NoHighlight
  BY <1>1 DEF PaidInv, PaidTypes, NoHighlight
<1>3. row \in [spot : Spot, active : BOOLEAN] /\ row.spot = k /\ (row.active <=> made)
  BY <1>1, <1>2
<1> HIDE DEF row
<1>4. /\ payment'[k] = verdict /\ \A x \in (Plan \cup Spot) \ {k} : payment'[x] = payment[x]
      /\ payment' \in [Plan \cup Spot -> {"none", "IN_PROGRESS", "PAID", "RESOLVED", "FAILED"}]
  BY <1>1 DEF PaidInv, PaidTypes
<1>5. /\ hook' \in [HookWorker -> {NoHook} \cup Answer] /\ \A x \in Spot : HighlightOK(x)'
      /\ \A v \in HookWorker : hook'[v] = hook[v] \/ hook'[v] = NoHook
  <2>1. highlight'.active => PaymentMade(k)'
    BY <1>1, <1>3, <1>4 DEF PaymentMade
  <2> QED BY <1>1, <1>2, <1>3, <1>4, <2>1, HookEnds
<1>6. PaidTypes' /\ \A s \in Plan : payment'[s] = payment[s]
  BY <1>1, <1>3, <1>4, <1>5 DEF PaidInv, PaidTypes
<1> QED BY <1>1, <1>4, <1>5, <1>6, OnlySpots, StillBegun DEF PaidInv, PaidTypes

\* A callback finds no row, and is rolled back.
LEMMA HookFindsNothingInv ==
  ASSUME PaidInv, NEW w \in HookWorker, NEW x \in Plan \cup Spot, HookFindsNothing(w, x)
  PROVE  PaidInv'
<1>1. /\ HookAnswers(w, x) /\ hook' = [hook EXCEPT ![w] = NoHook]
      /\ UNCHANGED <<today, plan, subscribeUntil, highlight, payment, sweep, muddled, crossed>>
  BY DEF HookFindsNothing
<1>2. /\ hook' \in [HookWorker -> {NoHook} \cup Answer] /\ \A k \in Spot : HighlightOK(k)'
      /\ \A v \in HookWorker : hook'[v] = hook[v] \/ hook'[v] = NoHook
  BY <1>1, HookEnds DEF HighlightOK, PaymentMade
<1>3. PaidTypes'
  BY <1>1, <1>2 DEF PaidInv, PaidTypes
<1> QED BY <1>1, <1>2, <1>3, OnlySpots, StillBegun DEF PaidInv, PaidTypes

\* A payment that was read failed is saved again: what it was for is not switched on.
LEMMA HookLateInv ==
  ASSUME PaidInv, NEW w \in HookWorker, NEW x \in Plan \cup Spot, NEW verdict \in {"PAID", "FAILED"},
         HookLate(w, x, verdict)
  PROVE  PaidInv'
<1>1. /\ HookAnswers(w, x) /\ hook[w].seen # "IN_PROGRESS" /\ muddled' = TRUE
      /\ payment' = [payment EXCEPT ![x] = verdict] /\ hook' = [hook EXCEPT ![w] = NoHook]
      /\ UNCHANGED <<today, plan, subscribeUntil, highlight, sweep, crossed>>
  BY DEF HookLate, HookSignals, SavePayment
<1>2. hook[w].seen = "FAILED"
  BY <1>1 DEF PaidInv, PaidTypes, HookAnswers, NoHook, Answer
<1>3. /\ payment'[x] = verdict /\ \A y \in (Plan \cup Spot) \ {x} : payment'[y] = payment[y]
      /\ payment' \in [Plan \cup Spot -> {"none", "IN_PROGRESS", "PAID", "RESOLVED", "FAILED"}]
  BY <1>1 DEF PaidInv, PaidTypes
<1>4. x \in Spot \ crossed /\ HighlightOK(x) =>
        ~(highlight # NoHighlight /\ highlight.spot = x /\ highlight.active)
  BY <1>1, <1>2 DEF HighlightOK, PaymentMade
<1>5. /\ hook' \in [HookWorker -> {NoHook} \cup Answer] /\ \A k \in Spot : HighlightOK(k)'
      /\ \A v \in HookWorker : hook'[v] = hook[v] \/ hook'[v] = NoHook
  BY <1>1, <1>3, <1>4, HookEnds
<1>6. PaidTypes'
  BY <1>1, <1>3, <1>5 DEF PaidInv, PaidTypes
<1>7. ASSUME NEW s \in Plan PROVE PlanWithPayment(s)'
  <2>1. PlanWithPayment(s) /\ (s = x => payment[s] # "none")
    <3>1. s = x => payment[s] # "none"
      BY <1>1 DEF PaidInv, Begun, HookAnswers
    <3> QED BY <3>1 DEF PaidInv
  <2> QED BY <1>1, <1>3, <2>1 DEF PlanWithPayment
<1> QED BY <1>1, <1>3, <1>5, <1>6, <1>7, StillBegun DEF PaidInv

\* Every step preserves the invariant.
LEMMA PaidInvNext ==
  ASSUME PaidInv, [PaidNext]_paidVars
  PROVE  PaidInv'
<1>1. ASSUME NEW s \in Plan,
             \/ Subscribe(s) \/ SubscribeResolved(s) \/ DestroySubscription(s)
             \/ SweepCheck(s) \/ SweepSave(s)
             \/ \E start, end \in {today, MaxDay}, active \in BOOLEAN : UpdateSubscription(s, start, end, active)
      PROVE  PaidInv'
  BY <1>1, SubscribeInv, EditedInv, SweepCheckInv, SweepSaveInv
<1>2. ASSUME NEW fromAdmin \in BOOLEAN, NEW resolve \in BOOLEAN, NEW k \in Spot,
             CreateHighlighting(k, fromAdmin, resolve) \/ DestroyHighlighting(fromAdmin)
      PROVE  PaidInv'
  BY <1>2, CreateHighlightingInv, DestroyHighlightingInv
<1>3. ASSUME NEW w \in HookWorker, NEW x \in Plan \cup Spot, HookRead(w, x) \/ HookFindsNothing(w, x)
      PROVE  PaidInv'
  BY <1>3, HookReadInv, HookFindsNothingInv
<1>4. ASSUME NEW w \in HookWorker, NEW verdict \in {"PAID", "FAILED"},
             \/ \E s \in Plan : HookSubscription(w, s, verdict)
             \/ \E k \in Spot : HookHighlighting(w, k, verdict)
             \/ \E x \in Plan \cup Spot : HookLate(w, x, verdict)
      PROVE  PaidInv'
  BY <1>4, HookSubscriptionInv, HookHighlightingInv, HookLateInv
<1>5. CASE UNCHANGED paidVars
  <2>1. PaidTypes' /\ (\A s \in Plan : PlanWithPayment(s)') /\ (\A w \in HookWorker : Begun(w)')
    BY <1>5 DEF paidVars, PaidInv, PaidTypes, PlanWithPayment, Begun
  <2> QED BY <1>5, <2>1, SameSpots, SameDates DEF paidVars, PaidInv
<1>6. CASE \E fromAdmin \in BOOLEAN : DestroyHighlighting(fromAdmin)
  BY <1>6, DestroyHighlightingInv
<1> QED BY <1>1, <1>2, <1>3, <1>4, <1>5, <1>6, NextDayInv, SweepStartInv DEF PaidNext

\* The invariant says what is promised of paid services.
LEMMA PaidInvMeans == PaidInv => PaidServicesSound
<1> SUFFICES ASSUME PaidInv PROVE PaidServicesSound
  OBVIOUS
<1>1. ~muddled => ~PaidPeriodsOverlap
  BY DEF PaidInv, Periods, InOrder, PaidPeriodsOverlap
<1>2. SerialHighlightIsPaidFor
  <2> SUFFICES ASSUME highlight # NoHighlight, highlight.active, highlight.spot \notin crossed
               PROVE  PaymentMade(highlight.spot)
    BY DEF SerialHighlightIsPaidFor
  <2>1. highlight.spot \in Spot
    BY DEF PaidInv, PaidTypes
  <2> QED BY <2>1 DEF PaidInv, HighlightOK
<1> QED BY <1>1, <1>2 DEF PaidServicesSound, OrderlyPeriods

\* SubscriptionCreationSerializer, update_status and the callbacks: no day is paid for twice unless
\* something happened out of order; and an event is shown in front by a row whose own payment was
\* made, unless two callbacks were about it at once; for any subscriptions, days, edits,
\* highlightings, callbacks and failures.
THEOREM PaidForOnce == PaidSpec => []PaidServicesSound
<1>1. PaidSpec => []PaidInv
  BY PaidInvInit, PaidInvNext, PTL DEF PaidSpec
<1> QED BY <1>1, PaidInvMeans, PTL

--------------------------------------------------------------------------------
(* That a discount neither raises a price nor is had more often than its limit  *)
(* lets through; for any purchases, costs, methods, values and limits.          *)
(*                                                                              *)
(* As long as purchases come one after the other, those that were reduced and   *)
(* settled have been counted, and the one under way knows the count (OneByOne): *)
(* so when the limit is looked at, all that had the discount are in the count.  *)

Reading  == [pc : {"found"}, seen : Nat]
Counting == [pc : {"counting", "counted", "using"}, seen : Nat, uses : Nat]
Simple   == [pc : {"new", "open", "granted", "settled"}]

DiscountTypes ==
  /\ usagesCount \in Nat /\ couponUses \in Nat /\ consumerUses \in [Consumer -> Nat]
  /\ purchase \in [Purchase -> Simple \cup Reading \cup Counting]
  /\ charged \in [Purchase -> Nat] /\ concurrent \in BOOLEAN
  /\ reduced \in SUBSET Purchase /\ IsFiniteSet(reduced)

\* Who has a reduced price has ordered.
ReducedOpen(p) == p \in reduced => purchase[p].pc \in {"open", "using", "settled"}

\* Reduced and settled.
OverNow == {p \in reduced : ~UnderWay(p)}

\* Purchases one after the other: one at most is under way, the count it has read is the count,
\* what was had is counted, and the limit was looked at.
OneByOne ==
  /\ \A p, q \in Purchase : UnderWay(p) /\ UnderWay(q) => p = q
  /\ \A p \in Purchase : purchase[p].pc \in {"found", "counting", "counted", "using"} =>
       purchase[p].seen = usagesCount
  /\ Cardinality(OverNow) <= usagesCount
  /\ UsageLimit > 0 => Cardinality(reduced) <= UsageLimit + 1

DiscountInv ==
  /\ DiscountTypes /\ PriceNeverRaised
  /\ \A p \in Purchase : ReducedOpen(p)
  /\ ~concurrent => OneByOne

USE CostAssumption, MethodAssumption, ValueAssumption

\* A share of at most 99 hundredths, rounded up, is not more than the whole.
LEMMA ShareOfCost ==
  ASSUME NEW cost \in Nat, NEW factor \in 0..99
  PROVE  (cost * factor + 99) \div 100 \in 0..cost
<1>1. cost * factor \in Nat
  OBVIOUS
<1>2. cost * factor <= cost * 99
  OBVIOUS
<1>3. PICK n \in Nat : n = cost * factor
  BY <1>1
<1>4. n <= cost * 99
  BY <1>2, <1>3
<1>5. (n + 99) \div 100 \in 0..cost
  BY <1>4
<1> QED BY <1>3, <1>5

\* Whatever the method, the price of a coupon is within the cost.
LEMMA CouponPriceWithin ==
  ASSUME NEW cost \in Nat
  PROVE  CouponPrice(cost) \in 0..cost
<1>1. CASE Method = "PERCENTAGE"
  <2>1. 100 - Value \in 0..99
    BY <1>1
  <2>2. CouponPrice(cost) = (cost * (100 - Value) + 99) \div 100
    BY <1>1 DEF CouponPrice, DiscountedValue
  <2> QED BY <2>1, <2>2, ShareOfCost
<1>2. CASE Method = "FIXED"
  BY <1>2 DEF CouponPrice, DiscountedValue, AtLeastZero
<1>3. CASE Method = "FREE_SHIPPING"
  BY <1>3 DEF CouponPrice, DiscountedValue
<1> QED BY <1>1, <1>2, <1>3

\* No purchase, no use, every price is what it is.
LEMMA DiscountInvInit == DiscountInit => DiscountInv
<1> SUFFICES ASSUME DiscountInit PROVE DiscountInv
  OBVIOUS
<1>1. DiscountTypes
  BY FS_EmptySet DEF DiscountInit, DiscountTypes, NotBegun, Simple
<1>2. PriceNeverRaised /\ \A p \in Purchase : ReducedOpen(p)
  BY DEF DiscountInit, PriceNeverRaised, ReducedOpen
<1>3. OverNow = {} /\ Cardinality({}) = 0
  BY FS_EmptySet DEF DiscountInit, OverNow
<1>4. OneByOne
  BY <1>3 DEF DiscountInit, OneByOne, UnderWay, NotBegun
<1> QED BY <1>1, <1>2, <1>4 DEF DiscountInv

\* What a step does to the jobs: purchase p goes on, the others stay.
LEMMA OneGoesOn ==
  ASSUME DiscountTypes, NEW p \in Purchase, NEW job \in Simple \cup Reading \cup Counting,
         purchase' = [purchase EXCEPT ![p] = job]
  PROVE  /\ purchase' \in [Purchase -> Simple \cup Reading \cup Counting]
         /\ purchase'[p] = job /\ \A q \in Purchase \ {p} : purchase'[q] = purchase[q]
         /\ UnderWay(p)' <=> job.pc \notin {"new", "settled"}
         /\ \A q \in Purchase \ {p} : UnderWay(q)' <=> UnderWay(q)
BY DEF DiscountTypes, UnderWay

\* Nothing is reduced and nothing counted: a purchase begins, reads, or is settled at its price.
LEMMA NothingCounted ==
  ASSUME DiscountInv, NEW p \in Purchase, NEW job \in Simple \cup Reading \cup Counting,
         purchase' = [purchase EXCEPT ![p] = job],
         consumerUses' \in [Consumer -> Nat],
         UNCHANGED <<usagesCount, couponUses, charged>>,
         concurrent' \in BOOLEAN, ~concurrent' => ~concurrent,
         ~concurrent' => \A q \in Purchase \ {p} : ~UnderWay(q),
         job.pc \in {"found", "counting", "counted", "using"} /\ ~concurrent' => job.seen = usagesCount,
         \/ reduced' = reduced /\ (p \in reduced => /\ job.pc \in {"open", "using", "settled"}
                                                    /\ job.pc = "settled" => ~UnderWay(p))
         \/ reduced' = reduced \ {p}
  PROVE  DiscountInv'
<1>1. /\ purchase' \in [Purchase -> Simple \cup Reading \cup Counting]
      /\ purchase'[p] = job /\ \A q \in Purchase \ {p} : purchase'[q] = purchase[q]
      /\ UnderWay(p)' <=> job.pc \notin {"new", "settled"}
      /\ \A q \in Purchase \ {p} : UnderWay(q)' <=> UnderWay(q)
  BY OneGoesOn DEF DiscountInv
<1>2. /\ reduced' \in SUBSET reduced /\ reduced \in SUBSET Purchase /\ IsFiniteSet(reduced)
      /\ IsFiniteSet(reduced') /\ Cardinality(reduced') <= Cardinality(reduced)
  BY FS_Subset DEF DiscountInv, DiscountTypes
<1>3. DiscountTypes' /\ PriceNeverRaised' /\ \A q \in Purchase : ReducedOpen(q)'
  BY <1>1, <1>2 DEF DiscountInv, DiscountTypes, PriceNeverRaised, ReducedOpen
<1>4. ASSUME ~concurrent' PROVE OneByOne'
  <2>1. OneByOne
    BY <1>4 DEF DiscountInv
  <2>2. \A q, r \in Purchase : UnderWay(q)' /\ UnderWay(r)' => q = r
    BY <1>1, <1>4
  <2>3. \A q \in Purchase : purchase'[q].pc \in {"found", "counting", "counted", "using"} =>
          purchase'[q].seen = usagesCount'
    BY <1>1, <1>4, <2>1 DEF OneByOne
  <2>4. OverNow' \in SUBSET OverNow
    BY <1>1, <1>2 DEF OverNow, DiscountInv, ReducedOpen
  <2>5. IsFiniteSet(OverNow) /\ Cardinality(OverNow) \in Nat /\ Cardinality(OverNow') \in Nat
        /\ Cardinality(OverNow') <= Cardinality(OverNow)
    <3>1. OverNow \in SUBSET reduced
      BY DEF OverNow
    <3> QED BY <1>2, <2>4, <3>1, FS_Subset, FS_CardinalityType
  <2>6. Cardinality(OverNow') <= usagesCount'
    BY <2>1, <2>5 DEF OneByOne, DiscountInv, DiscountTypes
  <2>7. UsageLimit > 0 => Cardinality(reduced') <= UsageLimit + 1
    BY <1>2, <2>1, FS_CardinalityType DEF OneByOne
  <2> QED BY <2>2, <2>3, <2>6, <2>7 DEF OneByOne
<1> QED BY <1>3, <1>4 DEF DiscountInv

\* The price of purchase p is reduced: the limit let it through.
LEMMA Reduces ==
  ASSUME DiscountInv, NEW p \in Purchase, p \notin reduced, UnderLimit,
         purchase' = [purchase EXCEPT ![p] = [pc |-> "open"]],
         charged' = [charged EXCEPT ![p] = CouponPrice(Cost[p])], reduced' = reduced \cup {p},
         UNCHANGED <<usagesCount, consumerUses, couponUses>>,
         concurrent' \in BOOLEAN, ~concurrent' => ~concurrent,
         ~concurrent' => \A q \in Purchase \ {p} : ~UnderWay(q)
  PROVE  DiscountInv'
<1> DEFINE job == [pc |-> "open"]
<1>0. job \in Simple \cup Reading \cup Counting /\ job.pc = "open"
  BY DEF Simple
<1> HIDE DEF job
<1>1. /\ purchase' \in [Purchase -> Simple \cup Reading \cup Counting]
      /\ purchase'[p] = job /\ \A q \in Purchase \ {p} : purchase'[q] = purchase[q]
      /\ UnderWay(p)' /\ \A q \in Purchase \ {p} : UnderWay(q)' <=> UnderWay(q)
  BY <1>0, OneGoesOn DEF DiscountInv, job
<1>2. CouponPrice(Cost[p]) \in 0..Cost[p]
  BY CouponPriceWithin
<1>3. /\ reduced' \in SUBSET Purchase /\ IsFiniteSet(reduced')
      /\ Cardinality(reduced) \in Nat /\ Cardinality(reduced') = Cardinality(reduced) + 1
  BY FS_AddElement, FS_CardinalityType DEF DiscountInv, DiscountTypes
<1>4. charged' \in [Purchase -> Nat] /\ PriceNeverRaised'
  BY <1>2 DEF DiscountInv, DiscountTypes, PriceNeverRaised
<1>5. DiscountTypes' /\ \A q \in Purchase : ReducedOpen(q)'
  BY <1>0, <1>1, <1>3, <1>4 DEF DiscountInv, DiscountTypes, ReducedOpen
<1>6. ASSUME ~concurrent' PROVE OneByOne'
  <2>1. OneByOne
    BY <1>6 DEF DiscountInv
  <2>2. \A q, r \in Purchase : UnderWay(q)' /\ UnderWay(r)' => q = r
    BY <1>1, <1>6
  <2>3. \A q \in Purchase : purchase'[q].pc \in {"found", "counting", "counted", "using"} =>
          purchase'[q].seen = usagesCount'
    BY <1>0, <1>1, <2>1 DEF OneByOne
  <2>4. OverNow = reduced
    BY <1>6 DEF OverNow, DiscountInv, DiscountTypes
  <2>5. OverNow' = reduced
    BY <1>1, <1>6 DEF OverNow, DiscountInv, DiscountTypes
  <2>6. Cardinality(reduced) <= usagesCount
    BY <2>1, <2>4 DEF OneByOne
  <2>7. UsageLimit > 0 => Cardinality(reduced') <= UsageLimit + 1
    BY <1>3, <2>6 DEF UnderLimit, DiscountInv, DiscountTypes
  <2> QED BY <2>2, <2>3, <2>5, <2>6, <2>7 DEF OneByOne
<1> QED BY <1>4, <1>5, <1>6 DEF DiscountInv

\* A use is counted, from the count that was read: of purchase p on its way, or done with.
LEMMA Counts ==
  ASSUME DiscountInv, NEW p \in Purchase, NEW job \in Simple, job.pc \in {"granted", "settled"},
         purchase' = [purchase EXCEPT ![p] = job], UnderWay(p),
         purchase[p].pc \in {"counted", "using"}, usagesCount' = purchase[p].seen + 1,
         purchase[p].pc = "using" \/ p \notin reduced,
         consumerUses' \in [Consumer -> Nat], couponUses' \in Nat,
         job.pc = "granted" => p \notin reduced,
         UNCHANGED <<charged, reduced, concurrent>>
  PROVE  DiscountInv'
<1>1. /\ purchase' \in [Purchase -> Simple \cup Reading \cup Counting]
      /\ purchase'[p] = job /\ \A q \in Purchase \ {p} : purchase'[q] = purchase[q]
      /\ \A q \in Purchase \ {p} : UnderWay(q)' <=> UnderWay(q)
  BY OneGoesOn DEF DiscountInv
<1>2. purchase[p].seen \in Nat /\ usagesCount' \in Nat
  <2>1. purchase[p] \in Counting
    BY DEF DiscountInv, DiscountTypes, Simple, Reading
  <2> QED BY <2>1 DEF Counting
<1>3. DiscountTypes' /\ PriceNeverRaised' /\ \A q \in Purchase : ReducedOpen(q)'
  BY <1>1, <1>2 DEF DiscountInv, DiscountTypes, PriceNeverRaised, ReducedOpen
<1>4. ASSUME ~concurrent' PROVE OneByOne'
  <2>1. OneByOne
    BY <1>4 DEF DiscountInv
  <2>2. \A q \in Purchase \ {p} : ~UnderWay(q)
    BY <2>1 DEF OneByOne
  <2>3. \A q, r \in Purchase : UnderWay(q)' /\ UnderWay(r)' => q = r
    BY <1>1, <2>2
  <2>4. \A q \in Purchase : purchase'[q].pc \notin {"found", "counting", "counted", "using"}
    BY <1>1, <2>2 DEF UnderWay
  <2>5. usagesCount' = usagesCount + 1 /\ usagesCount \in Nat
    BY <2>1 DEF OneByOne, DiscountInv, DiscountTypes
  <2>6. OverNow \in SUBSET reduced /\ OverNow' \in SUBSET (OverNow \cup {p}) /\ IsFiniteSet(reduced)
    BY <1>1 DEF OverNow, DiscountInv, DiscountTypes
  <2>7. IsFiniteSet(OverNow) /\ Cardinality(OverNow) \in Nat
    BY <2>6, FS_Subset, FS_CardinalityType
  <2>8. /\ IsFiniteSet(OverNow \cup {p})
        /\ Cardinality(OverNow \cup {p}) \in Nat /\ Cardinality(OverNow \cup {p}) <= Cardinality(OverNow) + 1
    <3>1. /\ IsFiniteSet(OverNow \cup {p})
          /\ Cardinality(OverNow \cup {p}) =
               IF p \in OverNow THEN Cardinality(OverNow) ELSE Cardinality(OverNow) + 1
      BY <2>7, FS_AddElement, Zenon
    <3> QED BY <2>7, <3>1
  <2>9. Cardinality(OverNow') \in Nat /\ Cardinality(OverNow') <= Cardinality(OverNow \cup {p})
    BY <2>6, <2>8, FS_Subset, FS_CardinalityType
  <2>10. Cardinality(OverNow') <= usagesCount'
    BY <2>1, <2>5, <2>7, <2>8, <2>9 DEF OneByOne
  <2> QED BY <2>1, <2>3, <2>4, <2>10 DEF OneByOne
<1> QED BY <1>3, <1>4 DEF DiscountInv

\* What a purchase that begins finds, and notices.
LEMMA Begins ==
  ASSUME DiscountInv, NEW p \in Purchase, NEW job, Begin(p, job)
  PROVE  /\ purchase' = [purchase EXCEPT ![p] = job] /\ p \notin reduced /\ ~UnderWay(p)
         /\ concurrent' \in BOOLEAN /\ (~concurrent' => ~concurrent)
         /\ (~concurrent' => \A q \in Purchase \ {p} : ~UnderWay(q))
<1>1. purchase[p].pc = "new" /\ purchase' = [purchase EXCEPT ![p] = job]
  BY DEF Begin, NotBegun
<1>2. p \notin reduced /\ ~UnderWay(p)
  BY <1>1 DEF DiscountInv, ReducedOpen, UnderWay
<1>3. concurrent \in BOOLEAN /\ concurrent' = (concurrent \/ \E q \in Purchase : UnderWay(q))
  BY DEF Begin, DiscountInv, DiscountTypes
<1>4. concurrent' \in BOOLEAN /\ (~concurrent' => ~concurrent)
  BY <1>3
<1>5. ~concurrent' => \A q \in Purchase \ {p} : ~UnderWay(q)
  BY <1>3, Zenon
<1> QED BY <1>1, <1>2, <1>4, <1>5

\* An order begins: at its price, with a coupon, or with a discount found for it.
LEMMA OrdersInv ==
  ASSUME DiscountInv, NEW p \in Purchase,
         OrderAtFullPrice(p) \/ OrderWithCoupon(p) \/ FindAutomatic(p)
  PROVE  DiscountInv'
<1> DEFINE open == [pc |-> "open"]
           found == [pc |-> "found", seen |-> usagesCount]
<1>0. /\ open \in Simple /\ open.pc = "open"
      /\ found \in Reading /\ found.pc = "found" /\ found.seen = usagesCount
  BY DEF Simple, Reading, DiscountInv, DiscountTypes
<1>c. consumerUses \in [Consumer -> Nat]
  BY DEF DiscountInv, DiscountTypes
<1>1. CASE OrderAtFullPrice(p)
  <2>1. Begin(p, open) /\ UNCHANGED <<usagesCount, consumerUses, couponUses, charged, reduced>>
    BY <1>1 DEF OrderAtFullPrice
  <2> HIDE DEF open
  <2> QED BY <1>0, <1>c, <2>1, Begins, NothingCounted
<1>2. CASE OrderWithCoupon(p)
  BY <1>2, Begins, Reduces DEF OrderWithCoupon, IsAvailable
<1>3. CASE FindAutomatic(p)
  <2>1. Begin(p, found) /\ UNCHANGED <<usagesCount, consumerUses, couponUses, charged, reduced>>
    BY <1>3 DEF FindAutomatic
  <2> HIDE DEF found
  <2> QED BY <1>0, <1>c, <2>1, Begins, NothingCounted
<1> QED BY <1>1, <1>2, <1>3

\* What a purchase on its way knows: it is alone unless that was noticed.
LEMMA OnItsWay ==
  ASSUME DiscountInv, NEW p \in Purchase, UnderWay(p)
  PROVE  /\ ~concurrent => \A q \in Purchase \ {p} : ~UnderWay(q)
         /\ purchase[p].pc \in {"found", "counting", "counted", "using"} =>
              /\ purchase[p].seen \in Nat /\ (~concurrent => purchase[p].seen = usagesCount)
         /\ purchase[p].pc = "found" => purchase[p] \in Reading
         /\ purchase[p].pc \in {"counting", "counted", "using"} => purchase[p] \in Counting
         /\ consumerUses \in [Consumer -> Nat] /\ Buyer[p] \in Consumer /\ Organizer \in Consumer
<1>1. purchase[p] \in Simple \cup Reading \cup Counting
  BY DEF DiscountInv, DiscountTypes
<1>2. /\ purchase[p].pc = "found" => purchase[p] \in Reading
      /\ purchase[p].pc \in {"counting", "counted", "using"} => purchase[p] \in Counting
  BY <1>1 DEF Simple, Reading, Counting
<1>3. purchase[p].pc \in {"found", "counting", "counted", "using"} => purchase[p].seen \in Nat
  BY <1>2 DEF Reading, Counting
<1>4. ASSUME ~concurrent
      PROVE  /\ \A q \in Purchase \ {p} : ~UnderWay(q)
             /\ purchase[p].pc \in {"found", "counting", "counted", "using"} => purchase[p].seen = usagesCount
  BY <1>4 DEF DiscountInv, OneByOne
<1> QED BY <1>2, <1>3, <1>4 DEF DiscountInv, DiscountTypes, Consumer

\* Counters are read, the buyer's row is counted, a payment comes or fails.
LEMMA ReadsInv ==
  ASSUME DiscountInv, NEW p \in Purchase,
         \/ ReadConsumer(p) \/ CountConsumer(p) \/ PayWithoutCoupon(p) \/ PaymentFails(p) \/ ReadCoupon(p)
  PROVE  DiscountInv'
<1>0. UnderWay(p) /\ concurrent' = concurrent /\ concurrent \in BOOLEAN
  BY DEF ReadConsumer, CountConsumer, PayWithoutCoupon, PaymentFails, ReadCoupon, UnderWay, DiscountInv,
         DiscountTypes
<1> DEFINE counting == [pc |-> "counting", seen |-> purchase[p].seen, uses |-> consumerUses[Buyer[p]]]
           settled == [pc |-> "settled"]
           using == [pc |-> "using", seen |-> usagesCount, uses |-> couponUses]
<1>1. CASE ReadConsumer(p)
  <2>1. /\ purchase[p].pc = "found" /\ purchase' = [purchase EXCEPT ![p] = counting]
        /\ UNCHANGED <<usagesCount, consumerUses, couponUses, charged, reduced>>
    BY <1>1 DEF ReadConsumer
  <2>2. counting \in Counting /\ counting.pc = "counting" /\ counting.seen = purchase[p].seen
    BY <1>0, <2>1, OnItsWay DEF Counting
  <2>3. p \notin reduced
    BY <2>1 DEF DiscountInv, ReducedOpen
  <2> HIDE DEF counting
  <2> QED BY <1>0, <2>1, <2>2, <2>3, OnItsWay, NothingCounted
<1>2. CASE CountConsumer(p)
  <2>1. PICK job \in Counting : job = [purchase[p] EXCEPT !.pc = "counted"] /\ job.pc = "counted"
                                   /\ job.seen = purchase[p].seen
    <3>1. purchase[p] \in Counting
      BY <1>0, <1>2, OnItsWay DEF CountConsumer
    <3>2. ASSUME NEW j \in Counting
          PROVE  LET k == [j EXCEPT !.pc = "counted"]
                 IN k \in Counting /\ k.pc = "counted" /\ k.seen = j.seen
      BY DEF Counting
    <3> QED BY <3>1, <3>2
  <2>2. /\ purchase[p].pc = "counting" /\ purchase' = [purchase EXCEPT ![p] = job]
        /\ UNCHANGED <<usagesCount, couponUses, charged, reduced>>
    BY <1>2, <2>1 DEF CountConsumer
  <2>3. purchase[p].uses \in Nat
    BY <1>0, <2>2, OnItsWay DEF Counting
  <2>4. consumerUses' \in [Consumer -> Nat]
    BY <1>0, <1>2, <2>3, OnItsWay DEF CountConsumer
  <2>5. p \notin reduced
    BY <2>2 DEF DiscountInv, ReducedOpen
  <2> QED BY <1>0, <2>1, <2>2, <2>4, <2>5, OnItsWay, NothingCounted
<1>3. settled \in Simple /\ settled.pc = "settled"
  BY DEF Simple
<1>4. CASE PayWithoutCoupon(p)
  <2>1. /\ purchase' = [purchase EXCEPT ![p] = settled] /\ p \notin reduced
        /\ UNCHANGED <<usagesCount, consumerUses, couponUses, charged, reduced>>
    BY <1>4 DEF PayWithoutCoupon
  <2> HIDE DEF settled
  <2> QED BY <1>0, <1>3, <2>1, OnItsWay, NothingCounted
<1>5. CASE PaymentFails(p)
  <2>1. /\ purchase' = [purchase EXCEPT ![p] = settled] /\ reduced' = reduced \ {p}
        /\ UNCHANGED <<usagesCount, consumerUses, couponUses, charged>>
    BY <1>5 DEF PaymentFails
  <2> HIDE DEF settled
  <2> QED BY <1>0, <1>3, <2>1, OnItsWay, NothingCounted
<1>6. CASE ReadCoupon(p)
  <2>1. /\ purchase' = [purchase EXCEPT ![p] = using]
        /\ UNCHANGED <<usagesCount, consumerUses, couponUses, charged, reduced>>
    BY <1>6 DEF ReadCoupon
  <2>2. using \in Counting /\ using.pc = "using" /\ using.seen = usagesCount
    BY DEF DiscountInv, DiscountTypes, Counting
  <2> HIDE DEF using
  <2> QED BY <1>0, <2>1, <2>2, OnItsWay, NothingCounted
<1> QED BY <1>1, <1>2, <1>4, <1>5, <1>6

\* use_discount counts the discount's own uses, from what was read.
LEMMA CountsInv ==
  ASSUME DiscountInv, NEW p \in Purchase, CountDiscount(p) \/ UseCoupon(p)
  PROVE  DiscountInv'
<1>0. UnderWay(p)
  BY DEF CountDiscount, UseCoupon, UnderWay
<1> DEFINE granted == [pc |-> "granted"]
           settled == [pc |-> "settled"]
<1>1. granted \in Simple /\ settled \in Simple /\ granted.pc = "granted" /\ settled.pc = "settled"
  BY DEF Simple
<1>2. CASE CountDiscount(p)
  <2>1. /\ purchase[p].pc = "counted" /\ usagesCount' = purchase[p].seen + 1
        /\ purchase' = [purchase EXCEPT ![p] = granted]
        /\ UNCHANGED <<consumerUses, couponUses, charged, reduced, concurrent>>
    BY <1>2 DEF CountDiscount
  <2>2. p \notin reduced /\ consumerUses \in [Consumer -> Nat] /\ couponUses \in Nat
    BY <2>1 DEF DiscountInv, DiscountTypes, ReducedOpen
  <2> HIDE DEF granted
  <2> QED BY <1>0, <1>1, <2>1, <2>2, Counts
<1>3. CASE UseCoupon(p)
  <2>1. /\ purchase[p].pc = "using" /\ usagesCount' = purchase[p].seen + 1
        /\ purchase' = [purchase EXCEPT ![p] = settled]
        /\ couponUses' = (IF p \in Automatic THEN couponUses ELSE purchase[p].uses + 1)
        /\ consumerUses' = [consumerUses EXCEPT ![Organizer] = @ + 1]
        /\ UNCHANGED <<charged, reduced, concurrent>>
    BY <1>3 DEF UseCoupon
  <2>2. purchase[p].uses \in Nat
    BY <1>0, <2>1, OnItsWay DEF Counting
  <2>3. couponUses' \in Nat /\ consumerUses' \in [Consumer -> Nat]
    BY <2>1, <2>2, <1>0, OnItsWay DEF DiscountInv, DiscountTypes
  <2> HIDE DEF settled
  <2> QED BY <1>0, <1>1, <2>1, <2>3, Counts
<1> QED BY <1>2, <1>3

\* The coupon of an automatic discount is checked once more.
LEMMA OpenAutomaticInv ==
  ASSUME DiscountInv, NEW p \in Purchase, OpenAutomatic(p)
  PROVE  DiscountInv'
<1> DEFINE open == [pc |-> "open"]
<1>1. /\ purchase[p].pc = "granted" /\ purchase' = [purchase EXCEPT ![p] = open]
      /\ UNCHANGED <<usagesCount, consumerUses, couponUses, concurrent>>
  BY DEF OpenAutomatic
<1>2. UnderWay(p) /\ p \notin reduced /\ concurrent \in BOOLEAN
  BY <1>1 DEF UnderWay, DiscountInv, DiscountTypes, ReducedOpen
<1>3. CASE IsAvailable(p)
  <2>1. /\ UnderLimit /\ charged' = [charged EXCEPT ![p] = CouponPrice(Cost[p])]
        /\ reduced' = reduced \cup {p}
    BY <1>3 DEF OpenAutomatic, IsAvailable
  <2>2. ~concurrent' => ~concurrent /\ \A q \in Purchase \ {p} : ~UnderWay(q)
    BY <1>1, <1>2, OnItsWay
  <2> QED BY <1>1, <1>2, <2>1, <2>2, Reduces
<1>4. CASE ~IsAvailable(p)
  <2>1. UNCHANGED <<charged, reduced>>
    BY <1>4 DEF OpenAutomatic
  <2>2. open \in Simple /\ open.pc = "open"
    BY DEF Simple
  <2> HIDE DEF open
  <2> QED BY <1>1, <1>2, <2>1, <2>2, OnItsWay, NothingCounted
<1> QED BY <1>3, <1>4

\* Every step preserves the invariant.
LEMMA DiscountInvNext ==
  ASSUME DiscountInv, [DiscountNext]_discountVars
  PROVE  DiscountInv'
<1>1. ASSUME NEW p \in Purchase,
             \/ OrderAtFullPrice(p) \/ OrderWithCoupon(p) \/ FindAutomatic(p)
             \/ ReadConsumer(p) \/ CountConsumer(p) \/ CountDiscount(p) \/ OpenAutomatic(p)
             \/ PayWithoutCoupon(p) \/ PaymentFails(p) \/ ReadCoupon(p) \/ UseCoupon(p)
      PROVE  DiscountInv'
  BY <1>1, OrdersInv, ReadsInv, CountsInv, OpenAutomaticInv
<1>2. CASE UNCHANGED discountVars
  <2>1. UNCHANGED OverNow
    BY <1>2 DEF discountVars, OverNow, UnderWay
  <2> QED BY <1>2, <2>1 DEF discountVars, DiscountInv, DiscountTypes, PriceNeverRaised, ReducedOpen,
                            OneByOne, UnderWay
<1> QED BY <1>1, <1>2 DEF DiscountNext

\* apply_best_automatic_discount, the checks and update_coupon_related_to_transaction_usage: a
\* discount never raises a price nor makes it negative, and purchases that come one after the other
\* have it once more than its limit at most; for any costs, buyers, methods, values and limits.
THEOREM DiscountsStaySound == DiscountSpec => []DiscountsSound
<1>1. DiscountInv => DiscountsSound
  BY DEF DiscountInv, OneByOne, DiscountsSound, SerialUsesWithinLimit
<1>2. DiscountSpec => []DiscountInv
  BY DiscountInvInit, DiscountInvNext, PTL DEF DiscountSpec
<1> QED BY <1>1, <1>2, PTL

--------------------------------------------------------------------------------
(* That a discount goes on fitting what was checked when it was made, and that  *)
(* its answers are prices; for any forms, clerks, conditions and prices.        *)
(*                                                                              *)
(* Who edits a row has read it, and has checked its form: what it knows of the  *)
(* row is still so while it is alone with it, since saves of others are edits   *)
(* (JobKnows, OneEditor).  Who counts coupons is alone with the count as long   *)
(* as no two do (OneCounter).  The value of a rule is what its type lets it be  *)
(* (ValueFits): that is why a price is never raised.                            *)

Editing  == {"edit", "usage", "values", "tweak", "use"}
Wanting  == {"edit", "usage", "values"}
DealRows ==
  [target : {"TICKET", "SUBSCRIPTION"}, org : BOOLEAN, limit : Int, minimal : Int,
   from : Seq(Int), until : Seq(Int), dynamic : BOOLEAN, auto : BOOLEAN, uses : Nat]
RuleRows ==
  [uses : {"USER", "ORGANIZATION"}, max : Int, type : {"PERCENTAGE", "FIXED", "FREE_SHIPPING"},
   value : Seq(Int)]
WishRows ==
  [target : {"TICKET", "SUBSCRIPTION"}, org : BOOLEAN,
   type : {"PERCENTAGE", "FIXED", "FREE_SHIPPING"}, value : Seq(Int), max : Int, limit : Int,
   minimal : Int, from : Seq(Int), until : Seq(Int), dynamic : BOOLEAN, auto : BOOLEAN,
   conds : SUBSET Condition]
ValueTypes == {"PERCENTAGE", "FIXED", "FREE_SHIPPING"}
WishJobs  == [pc : Wanting, seen : DealRows, wish : Wish]
TweakJobs == [pc : {"tweak"}, seen : DealRows, tweak : Tweak]
UseJobs   == [pc : {"use"}, seen : DealRows]
ShortJobs == [pc : {"idle", "coupon"}]
Jobs      == ShortJobs \cup UseJobs \cup TweakJobs \cup WishJobs

\* The values of a rule are those its type may have.
ValueFits(r) ==
  /\ r.type = "PERCENTAGE" => r.value # <<>> /\ 0 <= r.value[1] /\ r.value[1] <= 100
  /\ r.type = "FREE_SHIPPING" => r.value = <<>>

CatalogueTypes ==
  /\ deal \in DealRows \cup {NoDeal} /\ (Exists => rule \in RuleRows /\ ValueFits(rule))
  /\ clerk \in [Clerk -> Jobs] /\ codes \in Nat /\ counted \in Nat
  /\ ~Exists => counted = 0 /\ codes = 0

\* What an edit under way has checked, and what it still knows of the row.
JobKnows(c) ==
  /\ clerk[c].pc # "idle" => Exists
  /\ clerk[c].pc \in Editing =>
       /\ clerk[c].seen.dynamic = deal.dynamic
       /\ "retargeted" \notin strayed => clerk[c].seen.target = deal.target
       /\ "together" \notin strayed => clerk[c].seen.uses = deal.uses
  /\ clerk[c].pc \in Wanting =>
       /\ clerk[c].wish.type # "FREE_SHIPPING"
       /\ MaximumFits(clerk[c].wish) /\ PercentageFits(clerk[c].wish)
  /\ clerk[c].pc \in {"usage", "values"} /\ "together" \notin strayed =>
       rule.max = clerk[c].wish.max

OneEditor ==
  "together" \notin strayed =>
    \A c, d \in Clerk : clerk[c].pc \in Editing /\ clerk[d].pc \in Editing => c = d

OneCounter ==
  "twoCoupons" \notin strayed =>
    /\ \A c, d \in Clerk : clerk[c].pc = "coupon" /\ clerk[d].pc = "coupon" => c = d
    /\ \A c \in Clerk : clerk[c].pc = "coupon" /\ deal.dynamic => codes <= 1

CatalogueInv ==
  /\ CatalogueTypes /\ (\A c \in Clerk : JobKnows(c)) /\ OneEditor /\ OneCounter
  /\ CatalogueSound

\* The value of a form, when it is there, is a number.
LEMMA ValueIsThere ==
  ASSUME NEW v \in Seq(Int), v # <<>>
  PROVE  v[1] \in Int
<1>1. Len(v) # 0
  BY EmptySeq
<1> QED BY <1>1

\* A sequence of one number has it.
LEMMA OneValue ==
  ASSUME NEW n \in Int
  PROVE  <<n>> \in Seq(Int) /\ <<n>> # <<>> /\ <<n>>[1] = n
OBVIOUS

\* What is asked for is a form with its fields.
LEMMA FormsAreRows == Wish \subseteq WishRows
BY CatalogueAssumption DEF WishRows

\* The fields of a form.
LEMMA WishFields ==
  ASSUME NEW w \in WishRows
  PROVE  /\ w.target \in {"TICKET", "SUBSCRIPTION"} /\ w.org \in BOOLEAN
         /\ w.type \in {"PERCENTAGE", "FIXED", "FREE_SHIPPING"} /\ w.value \in Seq(Int)
         /\ w.max \in Int /\ w.limit \in Int /\ w.minimal \in Int
         /\ w.from \in Seq(Int) /\ w.until \in Seq(Int)
         /\ w.dynamic \in BOOLEAN /\ w.auto \in BOOLEAN
BY DEF WishRows

\* What is stored of a percentage is one.
LEMMA PercentStored ==
  ASSUME NEW n \in Int, 0 < n, n <= 100 * 100
  PROVE  Truncated(n) \in Int /\ 0 <= Truncated(n) /\ Truncated(n) <= 100
<1>1. n \div 100 \in Int /\ 0 <= n \div 100 /\ n \div 100 <= 100
  OBVIOUS
<1> QED BY <1>1 DEF Truncated

\* What is stored of a value that fits its type fits it too.
LEMMA StoredFits ==
  ASSUME NEW w \in WishRows, PercentageFits(w)
  PROVE  /\ Stored(w.value) \in Seq(Int)
         /\ w.type = "PERCENTAGE" =>
              Stored(w.value) # <<>> /\ 0 <= Stored(w.value)[1] /\ Stored(w.value)[1] <= 100
<1>1. w.value \in Seq(Int)
  BY WishFields
<1>2. CASE w.value = <<>>
  BY <1>2, WishFields DEF Stored, PercentageFits
<1>3. CASE w.value # <<>>
  <2>1. PICK n \in Int : n = w.value[1]
    BY <1>1, <1>3, ValueIsThere
  <2>2. Truncated(n) \in Int
    BY DEF Truncated
  <2>3. Stored(w.value) = <<Truncated(n)>>
    BY <1>3, <2>1 DEF Stored
  <2>4. w.type = "PERCENTAGE" => 0 < n /\ n <= 100 * 100
    BY <2>1 DEF PercentageFits
  <2>5. w.type = "PERCENTAGE" => 0 <= Truncated(n) /\ Truncated(n) <= 100
    BY <2>4, PercentStored
  <2> QED BY <2>2, <2>3, <2>4, <2>5, OneValue
<1> QED BY <1>2, <1>3

\* The fields of a job.
LEMMA JobFields ==
  ASSUME CatalogueTypes, NEW c \in Clerk
  PROVE  /\ clerk[c] \in Jobs
         /\ clerk[c].pc \in {"idle", "coupon"} \cup Editing
         /\ clerk[c].pc = "idle" <=> clerk[c] = Idle
         /\ clerk[c].pc \in Editing => clerk[c].seen \in DealRows
         /\ clerk[c].pc \in Wanting => clerk[c] \in WishJobs /\ clerk[c].wish \in Wish
         /\ clerk[c].pc = "tweak" => clerk[c].tweak \in Tweak
<1>1. clerk[c] \in Jobs
  BY DEF CatalogueTypes
<1>2. CASE clerk[c] \in ShortJobs
  BY <1>2 DEF ShortJobs, Idle, Editing, Wanting, Jobs
<1> HIDE DEF DealRows
<1>3. CASE clerk[c] \in UseJobs
  BY <1>3 DEF UseJobs, Idle, Editing, Wanting, Jobs
<1>4. CASE clerk[c] \in TweakJobs
  BY <1>4 DEF TweakJobs, Idle, Editing, Wanting, Jobs
<1>5. CASE clerk[c] \in WishJobs
  BY <1>5 DEF WishJobs, Idle, Editing, Wanting, Jobs
<1> QED BY <1>1, <1>2, <1>3, <1>4, <1>5 DEF Jobs

\* A clerk goes on with a job, and the others stay.
LEMMA OneTakesUp ==
  ASSUME CatalogueTypes, NEW c \in Clerk, NEW job \in Jobs, TakeUp(c, job)
  PROVE  /\ clerk' \in [Clerk -> Jobs] /\ clerk'[c] = job
         /\ \A d \in Clerk \ {c} : clerk'[d] = clerk[d]
BY DEF CatalogueTypes, TakeUp

\* A row that exists has its fields.
LEMMA DealFields ==
  ASSUME CatalogueTypes, Exists
  PROVE  deal \in DealRows /\ rule \in RuleRows /\ ValueFits(rule)
BY DEF CatalogueTypes, Exists

\* A row is not the absence of one.
LEMMA RowsExist ==
  ASSUME NEW row \in DealRows
  PROVE  row # NoDeal
BY DEF DealRows, NoDeal

\* Nobody edits together with c, unless that is noticed.
LEMMA Alone ==
  ASSUME NEW c \in Clerk, Stray(Rival(c) # {}, "together")
  PROVE  /\ "together" \notin strayed' =>
              "together" \notin strayed /\ \A d \in Clerk \ {c} : clerk[d].pc \notin Editing
         /\ \A m \in {"retargeted", "twoCoupons", "tweaked", "unnamed", "halfway"} :
              m \in strayed' <=> m \in strayed
BY DEF Stray, Rival, Editing

\* Before the first discount.
LEMMA CatalogueInvInit == CatalogueInit => CatalogueInv
<1> SUFFICES ASSUME CatalogueInit PROVE CatalogueInv
  OBVIOUS
<1>1. ~Exists /\ \A c \in Clerk : clerk[c].pc = "idle"
  BY DEF CatalogueInit, Exists, Idle
<1>2. CatalogueTypes
  BY <1>1 DEF CatalogueInit, CatalogueTypes, Jobs, ShortJobs, Idle
<1>3. (\A c \in Clerk : JobKnows(c)) /\ OneEditor /\ OneCounter
  BY <1>1 DEF JobKnows, OneEditor, OneCounter, Editing, Wanting
<1>4. CatalogueSound
  BY <1>1 DEF CatalogueInit, CatalogueSound, SerialUsesKept, SerialMaximumFits, RulesFitTarget,
              QuoteIsSane, SerialTwoCodes
<1> QED BY <1>2, <1>3, <1>4 DEF CatalogueInv

\* What a form that is accepted makes: a row and rules that fit each other.
LEMMA FormMakes ==
  ASSUME NEW w \in WishRows, NEW org \in BOOLEAN, NEW target \in {"TICKET", "SUBSCRIPTION"},
         MaximumFits(w), PercentageFits(w), ConditionsFit(w, target)
  PROVE  /\ NewDeal(w, org, target) \in DealRows
         /\ RulesOf(w, target) \in RuleRows /\ ValueFits(RulesOf(w, target))
         /\ NewDeal(w, org, target).uses = 0 /\ NewDeal(w, org, target).target = target
         /\ RulesOf(w, target).uses = ConsumerFor(target)
         /\ LET r == RulesOf(w, target)
                d == NewDeal(w, org, target)
            IN r.max # 0 /\ d.limit # 0 => r.max <= d.limit
         /\ \A k \in w.conds : k.kind \in KindsFor(target)
<1>1. NewDeal(w, org, target) \in DealRows
  BY WishFields DEF NewDeal, DealRows
<1>2. /\ StoredValue(w) \in Seq(Int)
      /\ w.type = "PERCENTAGE" =>
           StoredValue(w) # <<>> /\ 0 <= StoredValue(w)[1] /\ StoredValue(w)[1] <= 100
  BY StoredFits DEF StoredValue
<1>3. ConsumerFor(target) \in {"USER", "ORGANIZATION"}
  BY DEF ConsumerFor
<1>4. RulesOf(w, target) \in RuleRows
  BY <1>2, <1>3, WishFields DEF RulesOf, RuleRows
<1>5. ValueFits(RulesOf(w, target))
  BY <1>2 DEF RulesOf, ValueFits, StoredValue
<1>6. /\ NewDeal(w, org, target).uses = 0 /\ NewDeal(w, org, target).target = target
      /\ NewDeal(w, org, target).limit = w.limit
      /\ RulesOf(w, target).uses = ConsumerFor(target) /\ RulesOf(w, target).max = w.max
  BY DEF NewDeal, RulesOf
<1> QED BY <1>1, <1>4, <1>5, <1>6 DEF MaximumFits, ConditionsFit

\* A discount is made.
LEMMA MakesInv ==
  ASSUME CatalogueInv, ~Exists, NEW w \in WishRows, NEW org \in BOOLEAN,
         NEW target \in {"TICKET", "SUBSCRIPTION"},
         MaximumFits(w), PercentageFits(w), ConditionsFit(w, target), Make(w, org, target)
  PROVE  CatalogueInv'
<1>1. PICK row \in DealRows, r \in RuleRows :
        /\ deal' = row /\ rule' = r /\ ValueFits(r) /\ row.uses = 0 /\ row.target = target
        /\ r.uses = ConsumerFor(target) /\ (r.max # 0 /\ row.limit # 0 => r.max <= row.limit)
        /\ \A k \in conds' : k.kind \in KindsFor(target)
  BY FormMakes DEF Make
<1>2. UNCHANGED <<clerk, codes, counted, quoted, strayed>>
  BY DEF Make, Apart
<1>3. Exists'
  BY <1>1, RowsExist DEF Exists
<1>4. \A c \in Clerk : clerk[c].pc = "idle"
  BY DEF CatalogueInv, JobKnows
<1>5. CatalogueTypes'
  BY <1>1, <1>2, <1>3 DEF CatalogueTypes, CatalogueInv
<1>6. (\A c \in Clerk : JobKnows(c)') /\ OneEditor' /\ OneCounter'
  BY <1>2, <1>3, <1>4 DEF JobKnows, OneEditor, OneCounter, Editing, Wanting
<1>7. counted = 0 /\ codes = 0
  BY DEF CatalogueInv, CatalogueTypes
<1>8. SerialUsesKept' /\ SerialMaximumFits' /\ SerialTwoCodes'
  BY <1>1, <1>2, <1>7 DEF SerialUsesKept, SerialMaximumFits, SerialTwoCodes
<1>9. RulesFitTarget'
  BY <1>1 DEF RulesFitTarget
<1>10. QuoteIsSane'
  BY <1>2 DEF CatalogueInv, CatalogueSound, QuoteIsSane
<1> QED BY <1>5, <1>6, <1>8, <1>9, <1>10 DEF CatalogueInv, CatalogueSound

\* Both forms that make a discount.
LEMMA FormsInv ==
  ASSUME CatalogueInv, NEW w \in Wish, AdminMakes(w) \/ OrganizationMakes(w)
  PROVE  CatalogueInv'
<1>1. w \in WishRows
  BY FormsAreRows
<1>2. CASE AdminMakes(w)
  BY <1>1, <1>2, MakesInv, WishFields DEF AdminMakes
<1>3. CASE OrganizationMakes(w)
  <2>1. PICK v \in WishRows : /\ v = [w EXCEPT !.dynamic = TRUE, !.auto = FALSE]
                              /\ v.max = w.max /\ v.limit = w.limit /\ v.type = w.type
                              /\ v.value = w.value /\ v.conds = w.conds
    <3> DEFINE v == [w EXCEPT !.dynamic = TRUE, !.auto = FALSE]
    <3>1. v \in WishRows
      BY <1>1 DEF WishRows
    <3>2. /\ v.max = w.max /\ v.limit = w.limit /\ v.type = w.type
          /\ v.value = w.value /\ v.conds = w.conds
      BY <1>1 DEF WishRows
    <3> QED BY <3>1, <3>2
  <2>2. Make(v, TRUE, "TICKET") /\ ~Exists
    BY <1>3, <2>1 DEF OrganizationMakes
  <2>3. MaximumFits(v) /\ PercentageFits(v) /\ ConditionsFit(v, "TICKET")
    BY <1>3, <2>1 DEF OrganizationMakes, MaximumFits, PercentageFits, ConditionsFit
  <2> QED BY <2>2, <2>3, MakesInv
<1> QED BY <1>2, <1>3

\* A clerk reads the row, for an edit or a use.
LEMMA ReadsRowInv ==
  ASSUME CatalogueInv, NEW c \in Clerk, NEW job \in Jobs, IsFree(c), Exists, TakeUp(c, job),
         job.pc \in {"edit", "tweak", "use"}, job.seen = deal,
         job.pc = "edit" => /\ job.wish.type # "FREE_SHIPPING"
                            /\ MaximumFits(job.wish) /\ PercentageFits(job.wish),
         Stray(Rival(c) # {}, "together"), UNCHANGED <<deal, rule, conds>>, Apart
  PROVE  CatalogueInv'
<1>1. /\ clerk' \in [Clerk -> Jobs] /\ clerk'[c] = job
      /\ \A d \in Clerk \ {c} : clerk'[d] = clerk[d]
  BY OneTakesUp DEF CatalogueInv
<1>2. /\ "together" \notin strayed' =>
           "together" \notin strayed /\ \A d \in Clerk \ {c} : clerk[d].pc \notin Editing
      /\ \A m \in {"retargeted", "twoCoupons", "tweaked", "unnamed", "halfway"} :
           m \in strayed' <=> m \in strayed
  BY Alone
<1>3. UNCHANGED <<codes, counted, quoted>> /\ (Exists' <=> Exists)
  BY DEF Apart, Exists
<1>4. clerk[c].pc = "idle"
  BY DEF IsFree, Idle
<1>5. CatalogueTypes'
  BY <1>1, <1>3 DEF CatalogueInv, CatalogueTypes
<1>6. JobKnows(c)'
  BY <1>1, <1>3 DEF JobKnows, Wanting, MaximumFits, PercentageFits
<1>7. ASSUME NEW d \in Clerk \ {c} PROVE JobKnows(d)'
  BY <1>1, <1>2, <1>3 DEF CatalogueInv, JobKnows, MaximumFits, PercentageFits
<1>8. OneEditor'
  BY <1>1, <1>2 DEF OneEditor
<1>9. OneCounter'
  BY <1>1, <1>2, <1>3 DEF CatalogueInv, OneCounter
<1>10. SerialMaximumFits'
  BY <1>1, <1>2, <1>3, <1>4 DEF CatalogueInv, CatalogueSound, SerialMaximumFits
<1>11. SerialUsesKept' /\ RulesFitTarget' /\ QuoteIsSane' /\ SerialTwoCodes'
  BY <1>2, <1>3 DEF CatalogueInv, CatalogueSound, SerialUsesKept, RulesFitTarget, QuoteIsSane,
                    SerialTwoCodes
<1> QED BY <1>5, <1>6, <1>7, <1>8, <1>9, <1>10, <1>11 DEF CatalogueInv, CatalogueSound

\* An edit, a single-field edit and a use begin by reading the row.
LEMMA BeginsInv ==
  ASSUME CatalogueInv, NEW c \in Clerk,
         \/ \E w \in Wish : BeginBlocUpdate(c, w)
         \/ \E t \in Tweak : BeginTweak(c, t)
         \/ BeginUse(c)
  PROVE  CatalogueInv'
<1>0. Exists => deal \in DealRows
  BY DealFields DEF CatalogueInv
<1>1. ASSUME NEW w \in Wish, BeginBlocUpdate(c, w) PROVE CatalogueInv'
  <2> DEFINE job == [pc |-> "edit", seen |-> deal, wish |-> w]
  <2>1. /\ job.pc = "edit" /\ job.seen = deal /\ job.wish = w
        /\ IsFree(c) /\ Exists /\ TakeUp(c, job) /\ Stray(Rival(c) # {}, "together")
        /\ UNCHANGED <<deal, rule, conds>> /\ Apart
        /\ w.type # "FREE_SHIPPING" /\ MaximumFits(w) /\ PercentageFits(w)
    BY <1>1 DEF BeginBlocUpdate
  <2>2. job \in Jobs
    BY <1>0, <2>1 DEF Jobs, WishJobs, Wanting
  <2> HIDE DEF job
  <2> QED BY <2>1, <2>2, ReadsRowInv
<1>2. ASSUME NEW t \in Tweak, BeginTweak(c, t) PROVE CatalogueInv'
  <2> DEFINE job == [pc |-> "tweak", seen |-> deal, tweak |-> t]
  <2>1. /\ job.pc = "tweak" /\ job.seen = deal
        /\ IsFree(c) /\ Exists /\ TakeUp(c, job) /\ Stray(Rival(c) # {}, "together")
        /\ UNCHANGED <<deal, rule, conds>> /\ Apart
    BY <1>2 DEF BeginTweak
  <2>2. job \in Jobs
    BY <1>0, <2>1 DEF Jobs, TweakJobs
  <2> HIDE DEF job
  <2> QED BY <2>1, <2>2, ReadsRowInv
<1>3. CASE BeginUse(c)
  <2> DEFINE job == [pc |-> "use", seen |-> deal]
  <2>1. /\ job.pc = "use" /\ job.seen = deal
        /\ IsFree(c) /\ Exists /\ TakeUp(c, job) /\ Stray(Rival(c) # {}, "together")
        /\ UNCHANGED <<deal, rule, conds>> /\ Apart
    BY <1>3 DEF BeginUse
  <2>2. job \in Jobs
    BY <1>0, <2>1 DEF Jobs, UseJobs
  <2> HIDE DEF job
  <2> QED BY <2>1, <2>2, ReadsRowInv
<1> QED BY <1>1, <1>2, <1>3

\* A rule is saved: the clerk's edit goes on.
LEMMA RuleSavedInv ==
  ASSUME CatalogueInv, NEW c \in Clerk, clerk[c].pc \in {"edit", "usage"},
         NEW job \in WishJobs, clerk' = [clerk EXCEPT ![c] = job],
         job.pc \in {"usage", "values"}, job.seen = clerk[c].seen, job.wish = clerk[c].wish,
         NEW r \in RuleRows, rule' = r, ValueFits(r), r.uses = rule.uses,
         clerk[c].pc = "edit" => r.max = clerk[c].wish.max,
         clerk[c].pc = "usage" => r.max = rule.max,
         UNCHANGED <<deal, conds, strayed>>, Apart
  PROVE  CatalogueInv'
<1>0. job \in Jobs
  BY DEF Jobs
<1>1. /\ clerk' \in [Clerk -> Jobs] /\ clerk'[c] = job
      /\ \A d \in Clerk \ {c} : clerk'[d] = clerk[d]
  BY <1>0, OneTakesUp DEF CatalogueInv, TakeUp
<1>2. UNCHANGED <<codes, counted, quoted>> /\ (Exists' <=> Exists)
  BY DEF Apart, Exists
<1>3. CatalogueTypes'
  BY <1>1, <1>2 DEF CatalogueInv, CatalogueTypes
<1>4. JobKnows(c)'
  BY <1>1, <1>2 DEF CatalogueInv, JobKnows, Editing, Wanting, MaximumFits, PercentageFits
<1>5. "together" \notin strayed => \A d \in Clerk \ {c} : clerk[d].pc \notin Editing
  BY DEF CatalogueInv, OneEditor, Editing
<1>6. ASSUME NEW d \in Clerk \ {c} PROVE JobKnows(d)'
  BY <1>1, <1>2, <1>5 DEF CatalogueInv, JobKnows, Editing, MaximumFits, PercentageFits
<1>7. OneEditor'
  BY <1>1, <1>5 DEF OneEditor
<1>8. OneCounter'
  BY <1>1, <1>2 DEF CatalogueInv, OneCounter
<1>9. SerialMaximumFits'
  BY <1>1 DEF SerialMaximumFits
<1>10. SerialUsesKept' /\ RulesFitTarget' /\ QuoteIsSane' /\ SerialTwoCodes'
  BY <1>2 DEF CatalogueInv, CatalogueSound, SerialUsesKept, RulesFitTarget, QuoteIsSane,
              SerialTwoCodes
<1> QED BY <1>3, <1>4, <1>6, <1>7, <1>8, <1>9, <1>10 DEF CatalogueInv, CatalogueSound

\* The two saves of an organization's edit that write a rule.
LEMMA SavesRuleInv ==
  ASSUME CatalogueInv, NEW c \in Clerk, SaveUsageRule(c) \/ SaveValidationRule(c)
  PROVE  CatalogueInv'
<1>1. /\ clerk[c].pc \in {"edit", "usage"} /\ UNCHANGED <<deal, conds, strayed>> /\ Apart
  BY DEF SaveUsageRule, SaveValidationRule
<1>2. clerk[c] \in WishJobs /\ clerk[c].wish \in WishRows
  BY <1>1, JobFields, FormsAreRows DEF CatalogueInv, Wanting
<1>3. /\ Exists /\ MaximumFits(clerk[c].wish) /\ PercentageFits(clerk[c].wish)
      /\ clerk[c].wish.type # "FREE_SHIPPING"
  BY <1>1 DEF CatalogueInv, JobKnows, Wanting
<1>4. rule \in RuleRows /\ ValueFits(rule)
  BY <1>3, DealFields DEF CatalogueInv
<1>5. ASSUME NEW pc \in {"usage", "values"}
      PROVE  LET job == [clerk[c] EXCEPT !.pc = pc] IN
             /\ job \in WishJobs /\ job.pc = pc
             /\ job.seen = clerk[c].seen /\ job.wish = clerk[c].wish
  BY <1>2 DEF WishJobs, Wanting
<1>6. CASE SaveUsageRule(c)
  <2>1. clerk[c].wish.max \in Int
    BY <1>2, WishFields
  <2> DEFINE r == [rule EXCEPT !.max = clerk[c].wish.max]
  <2>2. /\ r.max = clerk[c].wish.max /\ r.uses = rule.uses
        /\ r.type = rule.type /\ r.value = rule.value
    BY <1>4 DEF RuleRows
  <2>3. r \in RuleRows
    BY <1>4, <2>1 DEF RuleRows
  <2>4. rule' = r
    BY <1>6 DEF SaveUsageRule
  <2> HIDE DEF r
  <2>5. ValueFits(r)
    BY <1>4, <2>2 DEF ValueFits
  <2>6. PICK job \in WishJobs : /\ job = [clerk[c] EXCEPT !.pc = "usage"] /\ job.pc = "usage"
                                /\ job.seen = clerk[c].seen /\ job.wish = clerk[c].wish
    BY <1>5
  <2>7. clerk[c].pc = "edit" /\ clerk' = [clerk EXCEPT ![c] = job]
    BY <1>6, <2>6 DEF SaveUsageRule
  <2> QED BY <1>1, <2>2, <2>3, <2>4, <2>5, <2>6, <2>7, RuleSavedInv
<1>7. CASE SaveValidationRule(c)
  <2>1. /\ Stored(clerk[c].wish.value) \in Seq(Int)
        /\ clerk[c].wish.type \in {"PERCENTAGE", "FIXED", "FREE_SHIPPING"}
        /\ clerk[c].wish.type = "PERCENTAGE" =>
             /\ Stored(clerk[c].wish.value) # <<>>
             /\ 0 <= Stored(clerk[c].wish.value)[1] /\ Stored(clerk[c].wish.value)[1] <= 100
    BY <1>2, <1>3, StoredFits, WishFields
  <2> DEFINE r == [rule EXCEPT !.type = clerk[c].wish.type, !.value = Stored(clerk[c].wish.value)]
  <2>2. /\ r.max = rule.max /\ r.uses = rule.uses
        /\ r.type = clerk[c].wish.type /\ r.value = Stored(clerk[c].wish.value)
    BY <1>4 DEF RuleRows
  <2>3. r \in RuleRows
    BY <1>4, <2>1 DEF RuleRows
  <2>4. rule' = r
    BY <1>7 DEF SaveValidationRule
  <2> HIDE DEF r
  <2>5. ValueFits(r)
    BY <1>3, <2>1, <2>2 DEF ValueFits
  <2>6. PICK job \in WishJobs : /\ job = [clerk[c] EXCEPT !.pc = "values"] /\ job.pc = "values"
                                /\ job.seen = clerk[c].seen /\ job.wish = clerk[c].wish
    BY <1>5
  <2>7. clerk[c].pc = "usage" /\ clerk' = [clerk EXCEPT ![c] = job]
    BY <1>7, <2>6 DEF SaveValidationRule
  <2> QED BY <1>1, <2>2, <2>3, <2>4, <2>5, <2>6, <2>7, RuleSavedInv
<1> QED BY <1>6, <1>7

\* The row is saved, by an edit or a use: what was read was the row, or that was noticed.
LEMMA RowSavedInv ==
  ASSUME CatalogueInv, NEW c \in Clerk, clerk[c].pc \in Editing, TakeUp(c, Idle),
         NEW row \in DealRows, deal' = row, row.dynamic = deal.dynamic,
         "retargeted" \notin strayed' => row.target = deal.target,
         "together" \notin strayed' => row.uses = counted',
         counted' \in Nat,
         \A m \in strayed : m \in strayed',
         /\ strayed' \cap {"together", "tweaked", "unnamed", "halfway"} = {}
            /\ (\A d \in Clerk \ {c} : clerk[d].pc \notin {"usage", "values"})
            /\ rule.max # 0 /\ row.limit # 0 => rule.max <= row.limit,
         UNCHANGED <<rule, conds, codes, quoted>>
  PROVE  CatalogueInv'
<1>0. Exists /\ Exists' /\ Idle \in Jobs /\ Idle.pc = "idle"
  <2>1. Exists /\ Idle \in Jobs /\ Idle.pc = "idle"
    BY DEF CatalogueInv, JobKnows, Editing, Idle, Jobs, ShortJobs
  <2> QED BY <2>1, RowsExist DEF Exists
<1>1. /\ clerk' \in [Clerk -> Jobs] /\ clerk'[c] = Idle
      /\ \A d \in Clerk \ {c} : clerk'[d] = clerk[d]
  BY <1>0, OneTakesUp DEF CatalogueInv
<1>2. "together" \notin strayed => \A d \in Clerk \ {c} : clerk[d].pc \notin Editing
  BY DEF CatalogueInv, OneEditor
<1>3. CatalogueTypes'
  BY <1>0, <1>1 DEF CatalogueInv, CatalogueTypes
<1>4. ASSUME NEW d \in Clerk \ {c} PROVE JobKnows(d)'
  BY <1>0, <1>1, <1>2 DEF CatalogueInv, JobKnows, Editing, MaximumFits, PercentageFits
<1>5. JobKnows(c)'
  BY <1>0, <1>1 DEF JobKnows, Editing, Wanting
<1>6. OneEditor'
  BY <1>0, <1>1, <1>2 DEF OneEditor, Editing
<1>7. OneCounter'
  BY <1>0, <1>1 DEF CatalogueInv, OneCounter
<1>8. SerialMaximumFits'
  BY <1>1 DEF SerialMaximumFits
<1>9. SerialUsesKept' /\ QuoteIsSane'
  BY DEF CatalogueInv, CatalogueSound, SerialUsesKept, QuoteIsSane
<1>10. RulesFitTarget' /\ SerialTwoCodes'
  BY <1>0 DEF CatalogueInv, CatalogueSound, RulesFitTarget, SerialTwoCodes
<1> QED BY <1>3, <1>4, <1>5, <1>6, <1>7, <1>8, <1>9, <1>10 DEF CatalogueInv, CatalogueSound

\* A row with the fields of an organization's form is for tickets, and has the counter it had.
LEMMA OverlaidRow ==
  ASSUME NEW row \in DealRows, NEW w \in WishRows
  PROVE  /\ Overlaid(row, w) \in DealRows /\ Overlaid(row, w).target = "TICKET"
         /\ Overlaid(row, w).dynamic = row.dynamic /\ Overlaid(row, w).uses = row.uses
         /\ w.limit # 0 => Overlaid(row, w).limit = w.limit
<1>1. PICK limit \in Int : limit = (IF w.limit = 0 THEN row.limit ELSE w.limit)
  BY WishFields DEF DealRows
<1> DEFINE new == [row EXCEPT !.target = "TICKET", !.limit = limit, !.minimal = w.minimal,
                              !.from = w.from, !.until = w.until]
<1>2. Overlaid(row, w) = new
  BY <1>1 DEF Overlaid
<1>3. new \in DealRows
  BY WishFields DEF DealRows
<1>4. new.target = "TICKET" /\ new.limit = limit
  BY DEF DealRows
<1>5. new.dynamic = row.dynamic /\ new.uses = row.uses
  BY DEF DealRows
<1> HIDE DEF new
<1> QED BY <1>1, <1>2, <1>3, <1>4, <1>5

\* A row whose single fields are edited keeps its target and its counter.
LEMMA TweakedRow ==
  ASSUME NEW row \in DealRows, NEW t \in Tweak
  PROVE  LET new == [row EXCEPT !.limit = t.limit, !.minimal = t.minimal,
                                !.from = t.from, !.until = t.until]
         IN /\ new \in DealRows /\ new.target = row.target
            /\ new.dynamic = row.dynamic /\ new.uses = row.uses
<1> DEFINE new == [row EXCEPT !.limit = t.limit, !.minimal = t.minimal,
                              !.from = t.from, !.until = t.until]
<1>1. PICK x \in [limit : Int, minimal : Int, from : Seq(Int), until : Seq(Int)] : x = t
  BY CatalogueAssumption
<1>2. t.limit \in Int /\ t.minimal \in Int /\ t.from \in Seq(Int) /\ t.until \in Seq(Int)
  BY <1>1
<1>3. new \in DealRows
  BY <1>2 DEF DealRows
<1>4. new.target = row.target /\ new.dynamic = row.dynamic /\ new.uses = row.uses
  BY DEF DealRows
<1> QED BY <1>3, <1>4

\* A row with another count.
LEMMA CountedRow ==
  ASSUME NEW row \in DealRows, NEW n \in Nat
  PROVE  LET new == [row EXCEPT !.uses = n] IN
         /\ new \in DealRows /\ new.target = row.target /\ new.dynamic = row.dynamic
         /\ new.limit = row.limit /\ new.uses = n
<1> DEFINE new == [row EXCEPT !.uses = n]
<1>1. new \in DealRows
  BY DEF DealRows
<1>2. new.target = row.target /\ new.dynamic = row.dynamic /\ new.limit = row.limit /\ new.uses = n
  BY DEF DealRows
<1> QED BY <1>1, <1>2

\* The three saves of the row.
LEMMA SavesRowInv ==
  ASSUME CatalogueInv, NEW c \in Clerk, SaveDeal(c) \/ SaveTweak(c) \/ SaveUse(c)
  PROVE  CatalogueInv'
<1>1. clerk[c].pc \in Editing /\ UNCHANGED <<rule, conds, codes, quoted>> /\ TakeUp(c, Idle)
  BY DEF SaveDeal, SaveTweak, SaveUse, Editing, Apart
<1>2. /\ Exists /\ deal \in DealRows
      /\ clerk[c].seen \in DealRows /\ clerk[c].seen.dynamic = deal.dynamic
      /\ "retargeted" \notin strayed => clerk[c].seen.target = deal.target
      /\ "together" \notin strayed => clerk[c].seen.uses = deal.uses
  BY <1>1, JobFields, DealFields DEF CatalogueInv, JobKnows, Editing
<1>3. counted \in Nat /\ ("together" \notin strayed => deal.uses = counted)
  BY <1>2 DEF CatalogueInv, CatalogueTypes, CatalogueSound, SerialUsesKept
<1>4. CASE SaveDeal(c)
  <2>1. clerk[c].pc = "values" /\ counted' = counted
    BY <1>4 DEF SaveDeal, Apart
  <2>2. clerk[c].wish \in WishRows
    BY <2>1, JobFields, FormsAreRows DEF CatalogueInv, Wanting
  <2>3. PICK row \in DealRows :
          /\ deal' = row /\ row.target = "TICKET" /\ row.dynamic = clerk[c].seen.dynamic
          /\ row.uses = clerk[c].seen.uses
          /\ clerk[c].wish.limit # 0 => row.limit = clerk[c].wish.limit
    BY <1>2, <1>4, <2>2, OverlaidRow DEF SaveDeal
  <2>4. /\ \A m \in strayed : m \in strayed'
        /\ clerk[c].seen.target # "TICKET" => "retargeted" \in strayed'
        /\ clerk[c].wish.limit = 0 => "unnamed" \in strayed'
    BY <1>4 DEF SaveDeal
  <2>5. /\ MaximumFits(clerk[c].wish)
        /\ "together" \notin strayed => rule.max = clerk[c].wish.max
    BY <2>1 DEF CatalogueInv, JobKnows, Wanting
  <2>6. strayed' \cap {"together", "tweaked", "unnamed", "halfway"} = {} =>
          (rule.max # 0 /\ row.limit # 0 => rule.max <= row.limit)
    BY <2>3, <2>4, <2>5 DEF MaximumFits
  <2>7. "retargeted" \notin strayed' => row.target = deal.target
    BY <1>2, <2>3, <2>4
  <2>8. "together" \notin strayed' => row.uses = counted'
    BY <1>2, <1>3, <2>1, <2>3, <2>4
  <2> QED BY <1>1, <1>2, <1>3, <2>1, <2>3, <2>4, <2>6, <2>7, <2>8, RowSavedInv
<1>5. CASE SaveTweak(c)
  <2>1. clerk[c].pc = "tweak" /\ strayed' = strayed \cup {"tweaked"} /\ counted' = counted
    BY <1>5 DEF SaveTweak, Apart
  <2>2. clerk[c].tweak \in Tweak
    BY <2>1, JobFields DEF CatalogueInv
  <2>3. PICK row \in DealRows :
          /\ deal' = row /\ row.target = clerk[c].seen.target
          /\ row.dynamic = clerk[c].seen.dynamic /\ row.uses = clerk[c].seen.uses
    <3>1. PICK seen \in DealRows, t \in Tweak : seen = clerk[c].seen /\ t = clerk[c].tweak
      BY <1>2, <2>2
    <3>2. PICK row \in DealRows :
            /\ row = [seen EXCEPT !.limit = t.limit, !.minimal = t.minimal,
                                  !.from = t.from, !.until = t.until]
            /\ row.target = seen.target /\ row.dynamic = seen.dynamic /\ row.uses = seen.uses
      BY TweakedRow
    <3> QED BY <1>5, <3>1, <3>2 DEF SaveTweak
  <2> QED BY <1>1, <1>2, <1>3, <2>1, <2>3, RowSavedInv
<1>6. CASE SaveUse(c)
  <2>1. /\ clerk[c].pc = "use" /\ strayed' = strayed /\ counted' = counted + 1
        /\ deal' = [deal EXCEPT !.uses = clerk[c].seen.uses + 1]
    BY <1>6 DEF SaveUse
  <2>2. clerk[c].seen.uses \in Nat
    BY <1>2 DEF DealRows
  <2>3. PICK row \in DealRows :
          /\ deal' = row /\ row.target = deal.target /\ row.dynamic = deal.dynamic
          /\ row.limit = deal.limit /\ row.uses = clerk[c].seen.uses + 1
    <3>1. PICK n \in Nat : n = clerk[c].seen.uses + 1
      BY <2>2
    <3> DEFINE row == [deal EXCEPT !.uses = n]
    <3>2. row \in DealRows
      BY <1>2, <3>1, CountedRow
    <3>3. /\ row.target = deal.target /\ row.dynamic = deal.dynamic
          /\ row.limit = deal.limit /\ row.uses = n
      BY <1>2, <3>1, CountedRow
    <3>4. deal' = row
      BY <2>1, <3>1
    <3> HIDE DEF row
    <3> QED BY <3>1, <3>2, <3>3, <3>4
  <2>4. "together" \notin strayed' => row.uses = counted'
    BY <1>2, <1>3, <2>1, <2>3
  <2>5. strayed' \cap {"together", "tweaked", "unnamed", "halfway"} = {}
          /\ (\A d \in Clerk \ {c} : clerk[d].pc \notin {"usage", "values"})
          /\ rule.max # 0 /\ row.limit # 0 => rule.max <= row.limit
    BY <1>2, <2>1, <2>3 DEF CatalogueInv, CatalogueSound, SerialMaximumFits
  <2> QED BY <1>1, <1>2, <1>3, <2>1, <2>3, <2>4, <2>5, RowSavedInv
<1> QED BY <1>4, <1>5, <1>6

\* A clerk is done, or dies: it leaves what it has not saved, and the first of two saves.
LEMMA DiesInv ==
  ASSUME CatalogueInv, NEW c \in Clerk, ClerkDies(c)
  PROVE  CatalogueInv'
<1>0. Idle \in Jobs /\ Idle.pc = "idle"
  BY DEF Idle, Jobs, ShortJobs
<1>1. /\ clerk' \in [Clerk -> Jobs] /\ clerk'[c] = Idle
      /\ \A d \in Clerk \ {c} : clerk'[d] = clerk[d]
  BY <1>0, OneTakesUp DEF CatalogueInv, ClerkDies
<1>2. UNCHANGED <<deal, rule, conds, codes, counted, quoted>> /\ (Exists' <=> Exists)
  BY DEF ClerkDies, Apart, Exists
<1>3. /\ \A m \in {"together", "retargeted", "twoCoupons", "tweaked", "unnamed"} :
           m \in strayed' <=> m \in strayed
      /\ "halfway" \notin strayed' =>
           "halfway" \notin strayed /\ clerk[c].pc \notin {"usage", "values"}
  BY DEF ClerkDies, Stray
<1>4. CatalogueTypes'
  BY <1>1, <1>2 DEF CatalogueInv, CatalogueTypes
<1>5. ASSUME NEW d \in Clerk \ {c} PROVE JobKnows(d)'
  BY <1>1, <1>2, <1>3 DEF CatalogueInv, JobKnows, MaximumFits, PercentageFits
<1>6. JobKnows(c)'
  BY <1>0, <1>1 DEF JobKnows, Editing, Wanting
<1>7. OneEditor'
  BY <1>0, <1>1, <1>3 DEF CatalogueInv, OneEditor, Editing
<1>8. OneCounter'
  BY <1>0, <1>1, <1>2, <1>3 DEF CatalogueInv, OneCounter
<1>9. SerialMaximumFits'
  BY <1>1, <1>2, <1>3 DEF CatalogueInv, CatalogueSound, SerialMaximumFits
<1>10. SerialUsesKept' /\ RulesFitTarget' /\ QuoteIsSane' /\ SerialTwoCodes'
  BY <1>2, <1>3 DEF CatalogueInv, CatalogueSound, SerialUsesKept, RulesFitTarget, QuoteIsSane,
                    SerialTwoCodes
<1> QED BY <1>4, <1>5, <1>6, <1>7, <1>8, <1>9, <1>10 DEF CatalogueInv, CatalogueSound

\* The coupons are counted: alone, one at most is there or the discount is not dynamic.
LEMMA CountsCodesInv ==
  ASSUME CatalogueInv, NEW c \in Clerk, CountCodes(c)
  PROVE  CatalogueInv'
<1> DEFINE job == [pc |-> "coupon"]
<1>0. job \in Jobs /\ job.pc = "coupon"
  BY DEF Jobs, ShortJobs
<1>1. /\ clerk' \in [Clerk -> Jobs] /\ clerk'[c] = job
      /\ \A d \in Clerk \ {c} : clerk'[d] = clerk[d]
  BY <1>0, OneTakesUp DEF CatalogueInv, CountCodes
<1> HIDE DEF job
<1>2. /\ UNCHANGED <<deal, rule, conds, codes, counted, quoted>> /\ (Exists' <=> Exists) /\ Exists
      /\ ~deal.dynamic \/ codes <= 1
  BY DEF CountCodes, MayHaveAnother, Apart, Exists
<1>3. /\ \A m \in {"together", "retargeted", "halfway", "tweaked", "unnamed"} :
           m \in strayed' <=> m \in strayed
      /\ "twoCoupons" \notin strayed' =>
           "twoCoupons" \notin strayed /\ \A d \in Clerk : clerk[d].pc # "coupon"
  BY DEF CountCodes, Stray
<1>4. CatalogueTypes'
  BY <1>1, <1>2 DEF CatalogueInv, CatalogueTypes
<1>5. ASSUME NEW d \in Clerk \ {c} PROVE JobKnows(d)'
  BY <1>1, <1>2, <1>3 DEF CatalogueInv, JobKnows, MaximumFits, PercentageFits
<1>6. JobKnows(c)'
  BY <1>0, <1>1, <1>2 DEF JobKnows, Editing, Wanting
<1>7. OneEditor'
  BY <1>0, <1>1, <1>3 DEF CatalogueInv, OneEditor, Editing
<1>8. OneCounter'
  BY <1>0, <1>1, <1>2, <1>3 DEF CatalogueInv, OneCounter
<1>9. clerk[c].pc = "idle"
  BY DEF CountCodes, IsFree, Idle
<1>10. SerialMaximumFits'
  BY <1>1, <1>2, <1>3, <1>9 DEF CatalogueInv, CatalogueSound, SerialMaximumFits
<1>11. SerialUsesKept' /\ RulesFitTarget' /\ QuoteIsSane' /\ SerialTwoCodes'
  BY <1>2, <1>3 DEF CatalogueInv, CatalogueSound, SerialUsesKept, RulesFitTarget, QuoteIsSane,
                    SerialTwoCodes
<1> QED BY <1>4, <1>5, <1>6, <1>7, <1>8, <1>10, <1>11 DEF CatalogueInv, CatalogueSound

\* A coupon is saved that was alone when it was counted.
LEMMA SavesCodeInv ==
  ASSUME CatalogueInv, NEW c \in Clerk, SaveCode(c)
  PROVE  CatalogueInv'
<1>0. Idle \in Jobs /\ Idle.pc = "idle"
  BY DEF Idle, Jobs, ShortJobs
<1>1. /\ clerk' \in [Clerk -> Jobs] /\ clerk'[c] = Idle
      /\ \A d \in Clerk \ {c} : clerk'[d] = clerk[d]
  BY <1>0, OneTakesUp DEF CatalogueInv, SaveCode
<1>2. /\ UNCHANGED <<deal, rule, conds, counted, quoted, strayed>> /\ (Exists' <=> Exists)
      /\ clerk[c].pc = "coupon" /\ codes' = codes + 1 /\ codes \in Nat
  BY DEF SaveCode, Exists, CatalogueInv, CatalogueTypes
<1>3. Exists
  BY <1>2 DEF CatalogueInv, JobKnows
<1>4. CatalogueTypes'
  BY <1>1, <1>2, <1>3 DEF CatalogueInv, CatalogueTypes
<1>5. ASSUME NEW d \in Clerk \ {c} PROVE JobKnows(d)'
  BY <1>1, <1>2 DEF CatalogueInv, JobKnows, MaximumFits, PercentageFits
<1>6. JobKnows(c)'
  BY <1>0, <1>1 DEF JobKnows, Editing, Wanting
<1>7. OneEditor'
  BY <1>0, <1>1, <1>2 DEF CatalogueInv, OneEditor, Editing
<1>8. "twoCoupons" \notin strayed =>
        /\ \A d \in Clerk \ {c} : clerk[d].pc # "coupon"
        /\ deal.dynamic => codes <= 1
  BY <1>2 DEF CatalogueInv, OneCounter
<1>9. OneCounter'
  BY <1>0, <1>1, <1>2, <1>8 DEF OneCounter
<1>10. SerialMaximumFits'
  BY <1>1, <1>2 DEF CatalogueInv, CatalogueSound, SerialMaximumFits
<1>11. SerialUsesKept' /\ RulesFitTarget' /\ QuoteIsSane'
  BY <1>2 DEF CatalogueInv, CatalogueSound, SerialUsesKept, RulesFitTarget, QuoteIsSane
<1>12. SerialTwoCodes'
  BY <1>2, <1>8 DEF SerialTwoCodes
<1> QED BY <1>4, <1>5, <1>6, <1>7, <1>9, <1>10, <1>11, <1>12 DEF CatalogueInv, CatalogueSound

\* Conditions come and go, an organization adds a coupon, a day ends: no clerk goes on.
LEMMA RowStaysInv ==
  ASSUME CatalogueInv, UNCHANGED <<deal, rule, clerk, counted>>,
         codes' \in Nat, ~Exists => codes' = codes,
         codes' # codes => "twoCoupons" \in strayed',
         \A m \in strayed : m \in strayed',
         Exists /\ "retargeted" \notin strayed'
           /\ (\A k \in conds : k.kind \in KindsFor(deal.target)) =>
           \A k \in conds' : k.kind \in KindsFor(deal.target),
         QuoteIsSane'
  PROVE  CatalogueInv'
<1>1. Exists' <=> Exists
  BY DEF Exists
<1>2. CatalogueTypes'
  BY <1>1 DEF CatalogueInv, CatalogueTypes
<1>3. ASSUME NEW c \in Clerk PROVE JobKnows(c)'
  BY <1>1 DEF CatalogueInv, JobKnows, MaximumFits, PercentageFits
<1>4. OneEditor' /\ OneCounter'
  BY DEF CatalogueInv, OneEditor, OneCounter
<1>5. SerialMaximumFits'
  BY <1>1 DEF CatalogueInv, CatalogueSound, SerialMaximumFits
<1>6. SerialUsesKept' /\ RulesFitTarget' /\ SerialTwoCodes'
  BY <1>1 DEF CatalogueInv, CatalogueSound, SerialUsesKept, RulesFitTarget, SerialTwoCodes
<1> QED BY <1>2, <1>3, <1>4, <1>5, <1>6 DEF CatalogueInv, CatalogueSound

\* Conditions are added, edited and deleted: they keep to the kinds of the target.
LEMMA ConditionsInv ==
  ASSUME CatalogueInv, NEW k \in Condition,
         \/ AddCondition(k) \/ AddOrganizationCondition(k) \/ DestroyCondition(k)
         \/ \E new \in Condition : EditCondition(k, new)
  PROVE  CatalogueInv'
<1>1. /\ UNCHANGED <<deal, rule, clerk, codes, counted, quoted>>
      /\ \A m \in strayed : m \in strayed'
  BY DEF AddCondition, AddOrganizationCondition, DestroyCondition, EditCondition, Apart, Stray
<1>2. QuoteIsSane' /\ codes' \in Nat
  BY <1>1 DEF CatalogueInv, CatalogueTypes, CatalogueSound, QuoteIsSane
<1>3. ASSUME "retargeted" \notin strayed', \A j \in conds : j.kind \in KindsFor(deal.target)
      PROVE  \A j \in conds' : j.kind \in KindsFor(deal.target)
  <2>1. CASE AddCondition(k) \/ DestroyCondition(k) \/ \E new \in Condition : EditCondition(k, new)
    BY <1>3, <2>1 DEF AddCondition, DestroyCondition, EditCondition
  <2>2. CASE AddOrganizationCondition(k)
    BY <1>3, <2>2 DEF AddOrganizationCondition, Stray
  <2> QED BY <2>1, <2>2
<1> QED BY <1>1, <1>2, <1>3, RowStaysInv

\* An organization adds a coupon, or a day ends.
LEMMA CodesAndDaysInv ==
  ASSUME CatalogueInv, AddOrganizationCode \/ NextMorning
  PROVE  CatalogueInv'
<1>1. codes \in Nat
  BY DEF CatalogueInv, CatalogueTypes
<1>2. QuoteIsSane'
  BY DEF AddOrganizationCode, NextMorning, CatalogueInv, CatalogueSound, QuoteIsSane
<1>3. CASE AddOrganizationCode
  BY <1>1, <1>2, <1>3, RowStaysInv DEF AddOrganizationCode
<1>4. CASE NextMorning
  BY <1>1, <1>2, <1>4, RowStaysInv DEF NextMorning
<1> QED BY <1>3, <1>4

\* A share of at most a hundred hundredths, rounded up, is not more than the whole.
LEMMA ShareOfPrice ==
  ASSUME NEW cost \in Nat, NEW v \in Int, 0 <= v, v <= 100
  PROVE  RoundedUp(cost * (100 - v)) \in 0..cost
<1>0. PICK factor \in Nat : factor = 100 - v /\ factor <= 100
  OBVIOUS
<1>1. cost * factor \in Nat
  OBVIOUS
<1>2. cost * factor <= cost * 100
  BY <1>0
<1>3. PICK n \in Nat : n = cost * factor
  BY <1>1
<1>4. n <= cost * 100
  BY <1>2, <1>3
<1>5. (n + 99) \div 100 \in 0..cost
  BY <1>4
<1> QED BY <1>0, <1>3, <1>5 DEF RoundedUp

\* A reduced price is between nothing and the cost, unless the amount is negative.
LEMMA ReducedWithin ==
  ASSUME CatalogueTypes, Exists, rule.value # <<>>, NEW cost \in Nat,
         ~(rule.type = "FIXED" /\ rule.value[1] < 0)
  PROVE  ReducedTo(cost) \in 0..cost
<1>1. /\ rule.type \in {"PERCENTAGE", "FIXED"} /\ rule.value[1] \in Int
      /\ rule.type = "PERCENTAGE" => 0 <= rule.value[1] /\ rule.value[1] <= 100
  BY DealFields, ValueIsThere DEF RuleRows, ValueFits
<1>2. PICK v \in Int : v = rule.value[1]
  BY <1>1
<1>3. CASE rule.type = "PERCENTAGE"
  <2>1. 0 <= v /\ v <= 100
    BY <1>1, <1>2, <1>3
  <2>3. PICK n \in 0..cost : n = RoundedUp(cost * (100 - v))
    BY <2>1, ShareOfPrice
  <2>4. ReducedTo(cost) = AtLeastNothing(n)
    BY <1>2, <1>3, <2>3 DEF ReducedTo
  <2> QED BY <2>3, <2>4 DEF AtLeastNothing
<1>4. CASE rule.type = "FIXED"
  <2>1. ReducedTo(cost) = AtLeastNothing(cost - v) /\ v >= 0
    BY <1>2, <1>4 DEF ReducedTo
  <2> QED BY <2>1 DEF AtLeastNothing
<1> QED BY <1>1, <1>3, <1>4

\* What a buyer is told is a price.
LEMMA QuotesInv ==
  ASSUME CatalogueInv, NEW i \in DOMAIN Item, NEW a \in DOMAIN Asker,
         CheckAvailability(i, a) \/ CheckAutomatic(i, a)
  PROVE  CatalogueInv'
<1>1. /\ UNCHANGED <<deal, rule, conds, codes, clerk, counted, strayed>> /\ Exists /\ codes \in Nat
  BY DEF CheckAvailability, CheckAutomatic, CatalogueInv, CatalogueTypes
<1>2. Price[i] \in Nat
  BY CatalogueAssumption
<1>3. QuoteIsSane'
  <2>1. CASE CheckAvailability(i, a)
    <3>1. /\ quoted'.reduced = <<ReducedTo(Price[i])>> /\ quoted'.item = i
          /\ quoted'.fixed = (rule.type = "FIXED") /\ quoted'.value = rule.value[1]
          /\ rule.value # <<>>
      BY <2>1 DEF CheckAvailability
    <3>2. ~(quoted'.fixed /\ quoted'.value < 0) => ReducedTo(Price[i]) \in 0..Price[i]
      BY <1>1, <1>2, <3>1, ReducedWithin DEF CatalogueInv
    <3> QED BY <3>1, <3>2 DEF QuoteIsSane
  <2>2. CASE CheckAutomatic(i, a)
    <3>1. quoted'.reduced = <<Price[i]>> /\ quoted'.item = i
      BY <2>2 DEF CheckAutomatic
    <3> QED BY <1>2, <3>1 DEF QuoteIsSane
  <2> QED BY <2>1, <2>2
<1> QED BY <1>1, <1>3, RowStaysInv

\* A discount is deleted while nobody edits it.
LEMMA DestroysInv ==
  ASSUME CatalogueInv, DestroyDeal
  PROVE  CatalogueInv'
<1>1. /\ deal' = NoDeal /\ codes' = 0 /\ counted' = 0 /\ UNCHANGED <<clerk, quoted>> /\ ~Exists'
      /\ \A c \in Clerk : clerk[c].pc = "idle"
  BY DEF DestroyDeal, Exists, IsFree, Idle
<1>2. CatalogueTypes'
  BY <1>1 DEF CatalogueInv, CatalogueTypes
<1>3. (\A c \in Clerk : JobKnows(c)') /\ OneEditor' /\ OneCounter'
  BY <1>1 DEF JobKnows, OneEditor, OneCounter, Editing, Wanting
<1>4. CatalogueSound'
  BY <1>1 DEF CatalogueInv, CatalogueSound, SerialUsesKept, SerialMaximumFits, RulesFitTarget,
              QuoteIsSane, SerialTwoCodes
<1> QED BY <1>2, <1>3, <1>4 DEF CatalogueInv

\* Every step keeps the invariant.
LEMMA CatalogueInvNext ==
  ASSUME CatalogueInv, [CatalogueNext]_catalogueVars
  PROVE  CatalogueInv'
<1>1. CASE NextMorning \/ AddOrganizationCode
  BY <1>1, CodesAndDaysInv
<1>2. CASE DestroyDeal
  BY <1>2, DestroysInv
<1>3. ASSUME NEW w \in Wish, AdminMakes(w) \/ OrganizationMakes(w) PROVE CatalogueInv'
  BY <1>3, FormsInv
<1>4. ASSUME NEW k \in Condition,
             \/ AddCondition(k) \/ AddOrganizationCondition(k) \/ DestroyCondition(k)
             \/ \E new \in Condition : EditCondition(k, new)
      PROVE  CatalogueInv'
  BY <1>4, ConditionsInv
<1>5. ASSUME NEW i \in DOMAIN Item, NEW a \in DOMAIN Asker,
             CheckAvailability(i, a) \/ CheckAutomatic(i, a)
      PROVE  CatalogueInv'
  BY <1>5, QuotesInv
<1>6. ASSUME NEW c \in Clerk, SaveUsageRule(c) \/ SaveValidationRule(c) PROVE CatalogueInv'
  BY <1>6, SavesRuleInv
<1>7. ASSUME NEW c \in Clerk, SaveDeal(c) \/ SaveTweak(c) \/ SaveUse(c) PROVE CatalogueInv'
  BY <1>7, SavesRowInv
<1>8. ASSUME NEW c \in Clerk, ClerkDies(c) \/ CountCodes(c) \/ SaveCode(c) PROVE CatalogueInv'
  BY <1>8, DiesInv, CountsCodesInv, SavesCodeInv
<1>9. ASSUME NEW c \in Clerk,
             \/ \E w \in Wish : BeginBlocUpdate(c, w)
             \/ \E t \in Tweak : BeginTweak(c, t)
             \/ BeginUse(c)
      PROVE  CatalogueInv'
  BY <1>9, BeginsInv
<1>10. CASE UNCHANGED catalogueVars
  <2>1. UNCHANGED <<deal, rule, clerk, counted, codes, strayed, conds, quoted>>
    BY <1>10 DEF catalogueVars
  <2>2. QuoteIsSane' /\ codes \in Nat
    BY <2>1 DEF CatalogueInv, CatalogueTypes, CatalogueSound, QuoteIsSane
  <2> QED BY <2>1, <2>2, RowStaysInv
<1> QED BY <1>1, <1>2, <1>3, <1>4, <1>5, <1>6, <1>7, <1>8, <1>9, <1>10 DEF CatalogueNext

\* CreateDiscountSerializer, bloc_update, CouponSerializer and check_availability: the counter of
\* uses is never put back, one consumer's maximum stays within the limit of all and the conditions
\* of a discount fit its target, unless something happened that the forms do not exclude; a buyer
\* is told a price between nothing and the cost; for any forms, clerks, prices and conditions.
THEOREM CatalogueStaysSound == CatalogueSpec => []CatalogueSound
<1>1. CatalogueSpec => []CatalogueInv
  BY CatalogueInvInit, CatalogueInvNext, PTL DEF CatalogueSpec
<1>2. CatalogueInv => CatalogueSound
  BY DEF CatalogueInv
<1> QED BY <1>1, <1>2, PTL
================================================================================
