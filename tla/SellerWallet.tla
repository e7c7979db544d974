----------------------------- MODULE SellerWallet -----------------------------
(****************************************************************************)
(* A seller's wallet, and the withdrawals that reserve, release and take    *)
(* its money.                                                               *)
(*                                                                          *)
(* Every operation of the wallet computes from the values of the instance   *)
(* it was called on and saves the fields it has changed, without a lock.    *)
(* Rejecting and completing a withdrawal are sequences of such saves, each  *)
(* committed by itself; processing one is a single transaction, but of      *)
(* values that were read for the whole batch when it began.                 *)
(*                                                                          *)
(* This models what the withdrawal code does once a request passes its      *)
(* first tests.  At this commit Seller.can_sell, the second of them, is not *)
(* defined, request.seller is set by nothing, and no beat schedule names    *)
(* the tasks: the withdrawals wait for these, the adjustments are in use.   *)
(****************************************************************************)
EXTENDS Integers, Sums

CONSTANTS
  Withdrawal,        \* the withdrawals that may be asked for
  WithdrawalAmount,  \* WithdrawalAmount[w]
  ByBank,            \* those whose method is BANK_TRANSFER
  BySuperSeller,     \* the seller's organization is a super-seller
  MinWithdrawal,     \* MIN_WITHDRAWAL_AMOUNT
  MaxRetryCount,     \* max_retry_count
  Adjustment,        \* amounts an administrator may add or take
  MoneyWorker,       \* web workers
  SmallAmount,       \* max_amount of auto_approve_small_withdrawals
  Batch,             \* runs of the tasks
  MaxJobs            \* bound: requests the web workers take up

ASSUME WithdrawalAssumption ==
  /\ IsFiniteSet(Withdrawal) /\ WithdrawalAmount \in [Withdrawal -> Nat \ {0}]
  /\ ByBank \subseteq Withdrawal /\ BySuperSeller \in BOOLEAN
  /\ MinWithdrawal \in Nat /\ MaxRetryCount \in Nat /\ MaxJobs \in Nat
  /\ SmallAmount \in Nat
  /\ Adjustment \subseteq Int

VARIABLES
  wallet,        \* the SellerWallet row
  withdrawal,    \* withdrawal[w]: status and retry_count of the SellerWithdrawal row
  working,       \* working[h]: what web worker h is in the middle of
  batch,         \* batch[b]: the rows run b has loaded and not done with yet
  \* Observation only, but for jobs, which bounds the runs.
  jobs,          \* requests taken up so far
  taken,         \* what adjustments have taken
  entangled,     \* somebody worked with values that somebody else was about to change
  strayed        \* a withdrawal that had ended was taken up again, or one half paid

walletVars == <<wallet, withdrawal, working, batch, jobs, taken, entangled, strayed>>

WithdrawalStatus ==
  {"none", "PENDING", "APPROVED", "PROCESSING", "COMPLETED", "FAILED", "REJECTED", "CANCELLED"}
Ended   == {"COMPLETED", "FAILED", "REJECTED", "CANCELLED"}
NotRead == [balance |-> 0, pending |-> -1]
AtRest == [pc |-> "idle"]

WalletType == [balance : Int, pending : Int, earned : Int, withdrawn : Int]

WalletInit ==
  /\ wallet      = [balance |-> 0, pending |-> 0, earned |-> 0, withdrawn |-> 0]
  /\ withdrawal  = [w \in Withdrawal |-> [status |-> "none", retries |-> 0]]
  /\ working     = [h \in MoneyWorker |-> AtRest]
  /\ batch       = [b \in Batch |-> << >>]
  /\ jobs        = 0
  /\ taken       = 0
  /\ entangled   = FALSE
  /\ strayed     = FALSE

SomebodyWorks ==
  (\E h \in MoneyWorker : working[h] # AtRest) \/ (\E b \in Batch : batch[b] # << >>)

TakeUp(h, job) ==
  /\ working[h] = AtRest /\ jobs < MaxJobs
  /\ working' = [working EXCEPT ![h] = job]
  /\ jobs' = jobs + 1
  /\ entangled' = (entangled \/ SomebodyWorks)
LayDown(h) == working' = [working EXCEPT ![h] = AtRest]
Amount(h)  == WithdrawalAmount[working[h].of]

------------------------------------------------------------------------------
(* What the wallet's methods make of an instance                            *)

\* (A faulty variant: nobody looks what is pending.)
PendingAlwaysCovers(v, n) == TRUE

\* release_pending and confirm_withdrawal raise unless
PendingCovers(v, n) == v.pending >= n
\* reserve_for_withdrawal and debit raise unless
BalanceCovers(v, n) == v.balance >= n

\* (A faulty variant: what is released stays pending.)
ReleasedAndKept(v, n) == [v EXCEPT !.balance = @ + n]

Reserved(v, n)  == [v EXCEPT !.balance = @ - n, !.pending = @ + n]
Released(v, n)  == [v EXCEPT !.balance = @ + n, !.pending = @ - n]
Confirmed(v, n) == [v EXCEPT !.pending = @ - n, !.withdrawn = @ + n]
\* debit(WITHDRAWAL)
Debited(v, n)   == [v EXCEPT !.balance = @ - n, !.withdrawn = @ + n]

\* save(update_fields=[...])
SaveFields(v, fields) == [f \in DOMAIN wallet |-> IF f \in fields THEN v[f] ELSE wallet[f]]

------------------------------------------------------------------------------
(* SellerWalletService.adjust_wallet                                        *)

ReadForAdjustment(h, n) ==
  /\ n # 0
  /\ n < 0 => BalanceCovers(wallet, -n)
  /\ TakeUp(h, [pc |-> "adjust", by |-> n, seen |-> wallet])
  /\ UNCHANGED <<wallet, withdrawal, batch, taken, strayed>>

SaveAdjustment(h) ==
  /\ working[h].pc = "adjust"
  /\ LET v == working[h].seen  n == working[h].by IN
     /\ wallet' = IF n > 0
                  THEN SaveFields([v EXCEPT !.balance = @ + n, !.earned = @ + n],
                                  {"balance", "earned"})
                  ELSE SaveFields([v EXCEPT !.balance = @ + n], {"balance"})
     /\ taken' = IF n > 0 THEN taken ELSE taken - n
  /\ LayDown(h)
  /\ UNCHANGED <<withdrawal, batch, jobs, entangled, strayed>>

------------------------------------------------------------------------------
(* SellerWithdrawalService.create_withdrawal_request, one transaction       *)

\* WithdrawalCreateSerializer: a phone for mobile money, the account for a bank transfer.
Detail == {"payment_phone", "bank_account_name", "bank_account_number", "bank_name"}
FormIsComplete(w, given) ==
  IF w \in ByBank THEN Detail \ {"payment_phone"} \subseteq given ELSE "payment_phone" \in given

ReadForRequest(h, w) ==
  /\ withdrawal[w].status = "none"
  /\ WithdrawalAmount[w] >= MinWithdrawal
  /\ \E given \in SUBSET Detail : FormIsComplete(w, given)
  /\ BalanceCovers(wallet, WithdrawalAmount[w])
  /\ w \in ByBank => BySuperSeller
  /\ \A g \in MoneyWorker : working[g].pc = "request" => working[g].of # w
  /\ TakeUp(h, [pc |-> "request", of |-> w, seen |-> wallet])
  /\ UNCHANGED <<wallet, withdrawal, batch, taken, strayed>>

CommitRequest(h) ==
  /\ working[h].pc = "request"
  /\ wallet' = SaveFields(Reserved(working[h].seen, Amount(h)), {"balance", "pending"})
  /\ withdrawal' = [withdrawal EXCEPT ![working[h].of].status = "PENDING"]
  /\ LayDown(h)
  /\ UNCHANGED <<batch, jobs, taken, entangled, strayed>>

------------------------------------------------------------------------------
(* WithdrawalViewSet: approve, reject, complete.  urls.py routes these, the *)
(* request, cancel and what only reads: the create, update and destroy that *)
(* a ModelViewSet inherits have no address.                                 *)

\* Approving and rejecting look at the status that was read; completing looks at nothing.
LoadWithdrawal(h, w, op) ==
  /\ withdrawal[w].status # "none"
  /\ op \in {"APPROVED", "REJECTED"} => withdrawal[w].status = "PENDING"
  /\ TakeUp(h, [pc |-> "loaded", of |-> w, op |-> op])
  /\ strayed' = (strayed \/ withdrawal[w].status \in Ended)
  /\ UNCHANGED <<wallet, withdrawal, batch, taken>>

\* cancel: whatever has not been completed and is not being processed, what was rejected,
\* failed or cancelled before included.
LoadForCancel(h, w) ==
  /\ withdrawal[w].status \notin {"none", "COMPLETED", "PROCESSING"}
  /\ TakeUp(h, [pc |-> "loaded", of |-> w, op |-> "CANCELLED"])
  /\ strayed' = (strayed \/ withdrawal[w].status \in Ended)
  /\ UNCHANGED <<wallet, withdrawal, batch, taken>>

\* The status is saved before any money moves.
SaveStatus(h) ==
  /\ working[h].pc = "loaded"
  /\ withdrawal' = [withdrawal EXCEPT ![working[h].of].status = working[h].op]
  /\ IF working[h].op = "APPROVED" THEN LayDown(h)
     ELSE working' = [working EXCEPT ![h].pc = "saved"]
  /\ UNCHANGED <<wallet, batch, jobs, taken, entangled, strayed>>

\* The wallet is read; without enough pending the request ends with an error, half done.
ReadWallet(h) ==
  /\ working[h].pc = "saved"
  /\ IF PendingCovers(wallet, Amount(h))
     THEN working' = [working EXCEPT ![h] = [pc   |-> IF @.op = "COMPLETED" THEN "confirm"
                                                      ELSE "release",
                                             of   |-> @.of,
                                             seen |-> wallet]]
     ELSE LayDown(h)
  /\ UNCHANGED <<wallet, withdrawal, batch, jobs, taken, entangled, strayed>>

SaveRelease(h) ==
  /\ working[h].pc = "release"
  /\ wallet' = SaveFields(Released(working[h].seen, Amount(h)), {"balance", "pending"})
  /\ LayDown(h)
  /\ UNCHANGED <<withdrawal, batch, jobs, taken, entangled, strayed>>

SaveConfirmation(h) ==
  /\ working[h].pc = "confirm"
  /\ LET v == Confirmed(working[h].seen, Amount(h)) IN
     /\ wallet' = SaveFields(v, {"pending", "withdrawn"})
     /\ working' = [working EXCEPT ![h].pc = "debit", ![h].seen = v]
  /\ UNCHANGED <<withdrawal, batch, jobs, taken, entangled, strayed>>

\* The balance, which the reservation has lowered already, is debited too, or the request
\* ends with an error.
SaveDebit(h) ==
  /\ working[h].pc = "debit"
  /\ wallet' = IF BalanceCovers(working[h].seen, Amount(h))
               THEN SaveFields(Debited(working[h].seen, Amount(h)), {"balance", "withdrawn"})
               ELSE wallet
  /\ LayDown(h)
  /\ UNCHANGED <<withdrawal, batch, jobs, taken, entangled, strayed>>

------------------------------------------------------------------------------
(* The tasks: process_pending_withdrawals, retry_failed_withdrawals,        *)
(* process_single_withdrawal and auto_approve_small_withdrawals             *)

WithStatus(s) == {w \in Withdrawal : withdrawal[w].status = s}

Loaded(w, op, seen) == [op |-> op, seen |-> seen, status |-> withdrawal[w].status,
                        retries |-> withdrawal[w].retries]

\* select_related("seller__wallet"): every row comes with the wallet as it is now.
LoadBatch(b) ==
  LET approved == WithStatus("APPROVED") IN
  /\ batch[b] = << >>
  /\ approved # {}
  /\ batch' = [batch EXCEPT ![b] = [w \in approved |-> Loaded(w, "process", wallet)]]
  /\ entangled' = (entangled \/ SomebodyWorks \/ Cardinality(approved) > 1)
  /\ UNCHANGED <<wallet, withdrawal, working, jobs, taken, strayed>>

\* One withdrawal, whatever its status; its wallet is read when it is needed.
LoadSingle(b, w) ==
  /\ batch[b] = << >>
  /\ withdrawal[w].status # "none" /\ jobs < MaxJobs
  /\ jobs' = jobs + 1
  /\ batch' = [batch EXCEPT ![b] = [v \in {w} |-> Loaded(w, "process", NotRead)]]
  /\ entangled' = (entangled \/ SomebodyWorks)
  /\ strayed' = (strayed \/ withdrawal[w].status \in Ended)
  /\ UNCHANGED <<wallet, withdrawal, working, taken>>

ReadWalletOfSingle(b, w) ==
  /\ w \in DOMAIN batch[b] /\ batch[b][w].seen = NotRead /\ batch[b][w].op = "process"
  /\ batch' = [batch EXCEPT ![b][w].seen = wallet]
  /\ UNCHANGED <<wallet, withdrawal, working, jobs, taken, entangled, strayed>>

LoadSmall(b) ==
  LET small == {w \in WithStatus("PENDING") : WithdrawalAmount[w] <= SmallAmount} IN
  /\ batch[b] = << >>
  /\ small # {}
  /\ batch' = [batch EXCEPT ![b] = [w \in small |-> Loaded(w, "approve", NotRead)]]
  /\ entangled' = (entangled \/ SomebodyWorks)
  /\ UNCHANGED <<wallet, withdrawal, working, jobs, taken, strayed>>

ToProcess(b, w) ==
  /\ w \in DOMAIN batch[b]
  /\ batch[b][w].op = "process" /\ batch[b][w].seen # NotRead

DoneWith(b, w) ==
  batch' = [batch EXCEPT ![b] = [u \in DOMAIN @ \ {w} |-> @[u]]]

\* The status that is looked at is the one that was loaded.
AutoApprove(b, w) ==
  /\ w \in DOMAIN batch[b] /\ batch[b][w].op = "approve"
  /\ withdrawal' = [withdrawal EXCEPT ![w].status = "APPROVED"]
  /\ DoneWith(b, w)
  /\ UNCHANGED <<wallet, working, jobs, taken, entangled, strayed>>

\* mark_as_processing raises unless the row was approved when it was loaded; after it,
\* mark_as_completed confirms what is pending and then debits the balance.
IsConfirmed(r, n) == r.status = "APPROVED" /\ PendingCovers(r.seen, n)
IsDebited(r, n)   == IsConfirmed(r, n) /\ BalanceCovers(r.seen, n)
AfterAttempt(r, n) == IF IsConfirmed(r, n) THEN Confirmed(r.seen, n) ELSE r.seen

\* A bank transfer waits for an administrator.
ProcessBankTransfer(b, w) ==
  /\ ToProcess(b, w) /\ w \in ByBank
  /\ batch[b][w].status = "APPROVED"
  /\ withdrawal' = [withdrawal EXCEPT ![w].status = "PROCESSING"]
  /\ DoneWith(b, w)
  /\ UNCHANGED <<wallet, working, jobs, taken, entangled, strayed>>

ProcessMobileMoney(b, w) ==
  /\ ToProcess(b, w) /\ w \notin ByBank
  /\ LET n == WithdrawalAmount[w] IN
     /\ IsDebited(batch[b][w], n)
     /\ wallet' = SaveFields(Debited(AfterAttempt(batch[b][w], n), n),
                              {"balance", "pending", "withdrawn"})
  /\ withdrawal' = [withdrawal EXCEPT ![w].status = "COMPLETED"]
  /\ DoneWith(b, w)
  /\ UNCHANGED <<working, jobs, taken, entangled, strayed>>

\* mark_as_failed within the same transaction: whatever was confirmed stays so, and the
\* withdrawal is approved again, to be retried, even if it had never been approved.
ProcessingRetries(b, w) ==
  /\ ToProcess(b, w) /\ w \notin ByBank
  /\ LET n == WithdrawalAmount[w]
         r == batch[b][w]
     IN /\ ~IsDebited(r, n) /\ r.retries + 1 < MaxRetryCount
        /\ wallet' = IF IsConfirmed(r, n)
                     THEN SaveFields(AfterAttempt(r, n), {"pending", "withdrawn"})
                     ELSE wallet
        /\ withdrawal' = [withdrawal EXCEPT ![w] = [status |-> "APPROVED",
                                                    retries |-> r.retries + 1]]
        /\ strayed' = (strayed \/ IsConfirmed(r, n))
  /\ DoneWith(b, w)
  /\ UNCHANGED <<working, jobs, taken, entangled>>

\* The last attempt, and any failure of a bank transfer: the amount is released, if enough
\* is still pending.  If not, the exception rolls everything back.
ProcessingFails(b, w) ==
  /\ ToProcess(b, w)
  /\ LET n == WithdrawalAmount[w]
         r == batch[b][w]
         v == AfterAttempt(r, n)
     IN /\ IF w \in ByBank THEN r.status # "APPROVED"
           ELSE ~IsDebited(r, n) /\ r.retries + 1 >= MaxRetryCount
        /\ IF PendingCovers(v, n)
           THEN /\ wallet' = SaveFields(Released(v, n), {"balance", "pending", "withdrawn"})
                /\ withdrawal' = [withdrawal EXCEPT ![w] =
                                    [status |-> "FAILED", retries |-> r.retries + 1]]
                /\ strayed' = (strayed \/ IsConfirmed(r, n))
           ELSE UNCHANGED <<wallet, withdrawal, strayed>>
  /\ DoneWith(b, w)
  /\ UNCHANGED <<working, jobs, taken, entangled>>

------------------------------------------------------------------------------
WalletNext ==
  \/ \E h \in MoneyWorker :
       \/ \E n \in Adjustment : ReadForAdjustment(h, n)
       \/ \E w \in Withdrawal :
            \/ ReadForRequest(h, w)
            \/ \E op \in {"APPROVED", "REJECTED", "COMPLETED"} : LoadWithdrawal(h, w, op)
            \/ LoadForCancel(h, w)
       \/ SaveAdjustment(h) \/ CommitRequest(h) \/ SaveStatus(h) \/ ReadWallet(h)
       \/ SaveRelease(h) \/ SaveConfirmation(h) \/ SaveDebit(h)
  \/ \E b \in Batch :
       \/ LoadBatch(b) \/ LoadSmall(b)
       \/ \E w \in Withdrawal :
            \/ LoadSingle(b, w) \/ ReadWalletOfSingle(b, w) \/ AutoApprove(b, w)
            \/ ProcessBankTransfer(b, w) \/ ProcessMobileMoney(b, w)
            \/ ProcessingRetries(b, w) \/ ProcessingFails(b, w)

WalletSpec == WalletInit /\ [][WalletNext]_walletVars

------------------------------------------------------------------------------
\* Checks and saves are apart, and yet no interleaving drives the wallet below nothing:
\* whatever is saved was computed from values that covered it.
NeverOverdrawn == wallet.balance >= 0 /\ wallet.pending >= 0

\* Requests one after the other, however often they fail half way: what the wallet holds,
\* what it has reserved and what it says was withdrawn add up to what was put in, less
\* what was taken out again.
SerialWalletAddsUp ==
  ~entangled =>
    wallet.balance + wallet.pending + wallet.withdrawn = wallet.earned - taken

\* get_stats: the amounts by status.
AmountWith(statuses) ==
  TotalOf(WithdrawalAmount, {w \in Withdrawal : withdrawal[w].status \in statuses})
TotalPending == AmountWith({"PENDING", "APPROVED", "PROCESSING"})

\* What the wallet has reserved is what the statistics call pending, the amount of the
\* withdrawals that are still open: as long as requests come one after the other, none takes
\* up a withdrawal that had ended (nothing forbids it), and none is paid by half.
SerialReservedIsOpen ==
  ~entangled /\ ~strayed /\ ~SomebodyWorks => wallet.pending = TotalPending

\* Both: no money appears or vanishes, and none stays reserved for nothing.
SerialWalletBalances == SerialWalletAddsUp /\ SerialReservedIsOpen
==============================================================================
