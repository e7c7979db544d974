-------------------------- MODULE SellerWalletProofs ---------------------------
(* That no interleaving of requests and tasks drives a seller's wallet below    *)
(* nothing, and that its books balance if they come one after the other; for    *)
(* any number of workers, runs, withdrawals and amounts.                        *)
(*                                                                              *)
(* Nothing is locked, so what a worker has read may be long out of date when he *)
(* saves.  The argument does not need it to be fresh: every instance that       *)
(* anybody holds was a sound wallet when it was read, and covers what its       *)
(* holder is about to take (Jobs, Rows).  A save writes some fields of such an  *)
(* instance over a sound row, which leaves a sound row.                         *)
EXTENDS SellerWallet, SumLemmas, TLAPS

SoundWallet == {v \in WalletType : v.balance >= 0 /\ v.pending >= 0}

Adjusting  == {j \in [pc : {"adjust"}, by : Int, seen : SoundWallet] :
                 j.by < 0 => j.seen.balance >= -j.by}
Requesting == {j \in [pc : {"request"}, of : Withdrawal, seen : SoundWallet] :
                 j.seen.balance >= WithdrawalAmount[j.of]}
Deciding   == [pc : {"loaded", "saved"}, of : Withdrawal,
               op : {"APPROVED", "REJECTED", "COMPLETED", "CANCELLED"}]
Holding    == {j \in [pc : {"release", "confirm"}, of : Withdrawal, seen : SoundWallet] :
                 j.seen.pending >= WithdrawalAmount[j.of]}
Debiting   == [pc : {"debit"}, of : Withdrawal, seen : SoundWallet]

Jobs == {AtRest} \cup Adjusting \cup Requesting \cup Deciding \cup Holding \cup Debiting

Row  == [op : {"process", "approve"}, seen : SoundWallet \cup {NotRead},
         status : WithdrawalStatus, retries : Nat]
Rows == UNION {[S -> Row] : S \in SUBSET Withdrawal}

WalletInv ==
  /\ wallet \in SoundWallet
  /\ withdrawal \in [Withdrawal -> [status : WithdrawalStatus, retries : Nat]]
  /\ working \in [MoneyWorker -> Jobs]
  /\ batch \in [Batch -> Rows]

USE WithdrawalAssumption

\* What is saved over a sound row from a sound instance is a sound row.
LEMMA SaveKeepsSound ==
  ASSUME wallet \in SoundWallet, NEW v \in SoundWallet, NEW fields
  PROVE  SaveFields(v, fields) \in SoundWallet
BY DEF SoundWallet, WalletType, SaveFields

\* An instance with other values in one field, or in two.
LEMMA FieldChanges ==
  ASSUME NEW v \in WalletType, NEW n \in Int
  PROVE  /\ LET u == [v EXCEPT !.balance = n]
            IN u \in WalletType /\ u.balance = n /\ u.pending = v.pending
         /\ LET u == [v EXCEPT !.pending = n]
            IN u \in WalletType /\ u.balance = v.balance /\ u.pending = n
         /\ LET u == [v EXCEPT !.earned = n]
            IN u \in WalletType /\ u.balance = v.balance /\ u.pending = v.pending
         /\ LET u == [v EXCEPT !.withdrawn = n]
            IN u \in WalletType /\ u.balance = v.balance /\ u.pending = v.pending
BY DEF WalletType

LEMMA FieldsChange ==
  ASSUME NEW v \in WalletType, NEW n \in Int, NEW m \in Int
  PROVE  /\ LET u == [[v EXCEPT !.balance = n] EXCEPT !.pending = m]
            IN u \in WalletType /\ u.balance = n /\ u.pending = m
         /\ LET u == [[v EXCEPT !.balance = n] EXCEPT !.withdrawn = m]
            IN u \in WalletType /\ u.balance = n /\ u.pending = v.pending
         /\ LET u == [[v EXCEPT !.pending = n] EXCEPT !.withdrawn = m]
            IN u \in WalletType /\ u.balance = v.balance /\ u.pending = n
         /\ LET u == [[v EXCEPT !.balance = n] EXCEPT !.earned = m]
            IN u \in WalletType /\ u.balance = n /\ u.pending = v.pending
<1>0. LET u == [v EXCEPT !.pending = n]
      IN u \in WalletType /\ u.balance = v.balance /\ u.pending = n
  BY FieldChanges
<1>1. PICK a \in WalletType : /\ a = [v EXCEPT !.balance = n]
                              /\ a.balance = n /\ a.pending = v.pending
  BY FieldChanges, ZenonT(30)
<1>2. PICK p \in WalletType : /\ p = [v EXCEPT !.pending = n]
                              /\ p.balance = v.balance /\ p.pending = n
  BY <1>0
<1>3. /\ LET u == [a EXCEPT !.pending = m]
         IN u \in WalletType /\ u.balance = n /\ u.pending = m
      /\ LET u == [a EXCEPT !.withdrawn = m]
         IN u \in WalletType /\ u.balance = n /\ u.pending = v.pending
      /\ LET u == [a EXCEPT !.earned = m]
         IN u \in WalletType /\ u.balance = n /\ u.pending = v.pending
  BY <1>1, FieldChanges, ZenonT(30)
<1>4. LET u == [p EXCEPT !.withdrawn = m]
      IN u \in WalletType /\ u.balance = v.balance /\ u.pending = n
  BY <1>2, FieldChanges
<1>5. QED
  BY <1>1, <1>2, <1>3, <1>4

\* The four movements of an amount leave an instance sound that covers it.
LEMMA MovesKeepSound ==
  ASSUME NEW v \in SoundWallet, NEW n \in Nat
  PROVE  /\ BalanceCovers(v, n) => Reserved(v, n) \in SoundWallet
         /\ BalanceCovers(v, n) => Debited(v, n) \in SoundWallet
         /\ PendingCovers(v, n) => Released(v, n) \in SoundWallet
         /\ PendingCovers(v, n) => Confirmed(v, n) \in SoundWallet
<1>1. /\ v \in WalletType /\ v.balance >= 0 /\ v.pending >= 0
      /\ v.balance \in Int /\ v.pending \in Int /\ v.withdrawn \in Int
      /\ v \in [balance : Int, pending : Int, earned : Int, withdrawn : Int]
  BY DEF SoundWallet, WalletType
<1>2. BalanceCovers(v, n) => Reserved(v, n) \in SoundWallet
  <2>1. Reserved(v, n) = [[v EXCEPT !.balance = v.balance - n] EXCEPT !.pending = v.pending + n]
    BY <1>1 DEF Reserved
  <2>2. PICK x \in Int, y \in Int : x = v.balance - n /\ y = v.pending + n
    BY <1>1
  <2>3. Reserved(v, n) = [[v EXCEPT !.balance = x] EXCEPT !.pending = y]
    BY <2>1, <2>2
  <2>4. LET u == [[v EXCEPT !.balance = x] EXCEPT !.pending = y]
        IN u \in WalletType /\ u.balance = x /\ u.pending = y
    BY <1>1, FieldsChange, Zenon
  <2>5. /\ Reserved(v, n) \in WalletType
        /\ Reserved(v, n).balance = x /\ Reserved(v, n).pending = y
    BY <2>3, <2>4
  <2>6. QED
    BY <1>1, <2>2, <2>5 DEF BalanceCovers, SoundWallet
<1>3. BalanceCovers(v, n) => Debited(v, n) \in SoundWallet
  <2>1. Debited(v, n) = [[v EXCEPT !.balance = v.balance - n] EXCEPT !.withdrawn = v.withdrawn + n]
    BY <1>1 DEF Debited
  <2>2. PICK x \in Int, y \in Int : x = v.balance - n /\ y = v.withdrawn + n
    BY <1>1
  <2>3. Debited(v, n) = [[v EXCEPT !.balance = x] EXCEPT !.withdrawn = y]
    BY <2>1, <2>2
  <2>4. LET u == [[v EXCEPT !.balance = x] EXCEPT !.withdrawn = y]
        IN u \in WalletType /\ u.balance = x /\ u.pending = v.pending
    BY <1>1, FieldsChange, Zenon
  <2>5. /\ Debited(v, n) \in WalletType
        /\ Debited(v, n).balance = x /\ Debited(v, n).pending = v.pending
    BY <2>3, <2>4
  <2>6. QED
    BY <1>1, <2>2, <2>5 DEF BalanceCovers, SoundWallet
<1>4. PendingCovers(v, n) => Released(v, n) \in SoundWallet
  <2>1. Released(v, n) = [[v EXCEPT !.balance = v.balance + n] EXCEPT !.pending = v.pending - n]
    BY <1>1 DEF Released
  <2>2. PICK x \in Int, y \in Int : x = v.balance + n /\ y = v.pending - n
    BY <1>1
  <2>3. Released(v, n) = [[v EXCEPT !.balance = x] EXCEPT !.pending = y]
    BY <2>1, <2>2
  <2>4. LET u == [[v EXCEPT !.balance = x] EXCEPT !.pending = y]
        IN u \in WalletType /\ u.balance = x /\ u.pending = y
    BY <1>1, FieldsChange, Zenon
  <2>5. /\ Released(v, n) \in WalletType
        /\ Released(v, n).balance = x /\ Released(v, n).pending = y
    BY <2>3, <2>4
  <2>6. QED
    BY <1>1, <2>2, <2>5 DEF PendingCovers, SoundWallet
<1>5. PendingCovers(v, n) => Confirmed(v, n) \in SoundWallet
  <2>1. Confirmed(v, n) = [[v EXCEPT !.pending = v.pending - n] EXCEPT !.withdrawn = v.withdrawn + n]
    BY <1>1 DEF Confirmed
  <2>2. PICK x \in Int, y \in Int : x = v.pending - n /\ y = v.withdrawn + n
    BY <1>1
  <2>3. Confirmed(v, n) = [[v EXCEPT !.pending = x] EXCEPT !.withdrawn = y]
    BY <2>1, <2>2
  <2>4. LET u == [[v EXCEPT !.pending = x] EXCEPT !.withdrawn = y]
        IN u \in WalletType /\ u.balance = v.balance /\ u.pending = x
    BY <1>1, FieldsChange, Zenon
  <2>5. /\ Confirmed(v, n) \in WalletType
        /\ Confirmed(v, n).balance = v.balance /\ Confirmed(v, n).pending = x
    BY <2>3, <2>4
  <2>6. QED
    BY <1>1, <2>2, <2>5 DEF PendingCovers, SoundWallet
<1>6. QED
  BY <1>2, <1>3, <1>4, <1>5

\* So does an adjustment.
LEMMA AdjustingKeepsSound ==
  ASSUME NEW v \in SoundWallet, NEW n \in Int, n < 0 => v.balance >= -n
  PROVE  /\ [v EXCEPT !.balance = @ + n] \in SoundWallet
         /\ n > 0 => [v EXCEPT !.balance = @ + n, !.earned = @ + n] \in SoundWallet
<1>1. /\ v \in WalletType /\ v.balance >= 0 /\ v.pending >= 0
      /\ v.balance \in Int /\ v.earned \in Int
      /\ v \in [balance : Int, pending : Int, earned : Int, withdrawn : Int]
  BY DEF SoundWallet, WalletType
<1>2. v.balance + n >= 0
  BY <1>1
<1>3. [v EXCEPT !.balance = @ + n] = [v EXCEPT !.balance = v.balance + n]
  BY <1>1
<1>4. [v EXCEPT !.balance = @ + n, !.earned = @ + n]
        = [[v EXCEPT !.balance = v.balance + n] EXCEPT !.earned = v.earned + n]
  BY <1>1
<1>5. PICK x \in Int, y \in Int : x = v.balance + n /\ y = v.earned + n
  BY <1>1
<1>6. QED
  BY <1>1, <1>2, <1>3, <1>4, <1>5, FieldChanges, FieldsChange DEF SoundWallet

\* What a worker is in the middle of tells what he holds.
LEMMA JobByPc ==
  ASSUME WalletInv, NEW h \in MoneyWorker
  PROVE  /\ working[h].pc = "adjust"  => working[h] \in Adjusting
         /\ working[h].pc = "request" => working[h] \in Requesting
         /\ working[h].pc \in {"loaded", "saved"} => working[h] \in Deciding
         /\ working[h].pc \in {"release", "confirm"} => working[h] \in Holding
         /\ working[h].pc = "debit" => working[h] \in Debiting
BY DEF WalletInv, Jobs, AtRest, Adjusting, Requesting, Deciding, Holding, Debiting

LEMMA WalletInvInit == WalletInit => WalletInv
<1> SUFFICES ASSUME WalletInit PROVE WalletInv
  OBVIOUS
<1>1. wallet \in SoundWallet
  BY DEF WalletInit, SoundWallet, WalletType
<1>2. withdrawal \in [Withdrawal -> [status : WithdrawalStatus, retries : Nat]]
  BY DEF WalletInit, WithdrawalStatus
<1>3. working \in [MoneyWorker -> Jobs]
  BY DEF WalletInit, Jobs
<1>4. << >> \in [{} -> Row]
  OBVIOUS
<1>5. << >> \in Rows
  BY <1>4 DEF Rows
<1>6. QED
  BY <1>1, <1>2, <1>3, <1>5 DEF WalletInit, WalletInv

\* A worker takes up a job of the right form, or lays one down.
LEMMA WorkerSteps ==
  ASSUME WalletInv, NEW h \in MoneyWorker, NEW j \in Jobs,
         working' = [working EXCEPT ![h] = j], wallet' \in SoundWallet,
         withdrawal' \in [Withdrawal -> [status : WithdrawalStatus, retries : Nat]],
         UNCHANGED batch
  PROVE  WalletInv'
BY DEF WalletInv

\* A run of a task loads rows, or is done with one.
LEMMA BatchSteps ==
  ASSUME WalletInv, NEW b \in Batch, NEW rows \in Rows,
         batch' = [batch EXCEPT ![b] = rows], wallet' \in SoundWallet,
         withdrawal' \in [Withdrawal -> [status : WithdrawalStatus, retries : Nat]],
         UNCHANGED working
  PROVE  WalletInv'
BY DEF WalletInv

\* Adjusting, asking, deciding.
LEMMA WorkerReads ==
  ASSUME WalletInv, NEW h \in MoneyWorker,
         \/ \E n \in Adjustment : ReadForAdjustment(h, n)
         \/ \E w \in Withdrawal :
              \/ ReadForRequest(h, w) \/ LoadForCancel(h, w)
              \/ \E op \in {"APPROVED", "REJECTED", "COMPLETED"} : LoadWithdrawal(h, w, op)
  PROVE  WalletInv'
<1> DEFINE Rest == UNCHANGED <<wallet, withdrawal, batch>>
<1>1. ASSUME NEW n \in Adjustment, ReadForAdjustment(h, n) PROVE WalletInv'
  <2> DEFINE j == [pc |-> "adjust", by |-> n, seen |-> wallet]
  <2>1. j \in Adjusting
    BY <1>1 DEF ReadForAdjustment, BalanceCovers, Adjusting, WalletInv
  <2>2. j \in Jobs /\ working' = [working EXCEPT ![h] = j] /\ Rest
    BY <1>1, <2>1 DEF ReadForAdjustment, TakeUp, Jobs
  <2>3. QED
    BY <2>2, WorkerSteps DEF WalletInv
<1>2. ASSUME NEW w \in Withdrawal, ReadForRequest(h, w) PROVE WalletInv'
  <2> DEFINE j == [pc |-> "request", of |-> w, seen |-> wallet]
  <2>1. j \in Requesting
    BY <1>2 DEF ReadForRequest, BalanceCovers, Requesting, WalletInv
  <2>2. j \in Jobs /\ working' = [working EXCEPT ![h] = j] /\ Rest
    BY <1>2, <2>1 DEF ReadForRequest, TakeUp, Jobs
  <2>3. QED
    BY <2>2, WorkerSteps DEF WalletInv
<1>3. ASSUME NEW w \in Withdrawal, LoadForCancel(h, w) PROVE WalletInv'
  <2> DEFINE j == [pc |-> "loaded", of |-> w, op |-> "CANCELLED"]
  <2>1. j \in Deciding
    BY DEF Deciding
  <2>2. j \in Jobs /\ working' = [working EXCEPT ![h] = j] /\ Rest
    BY <1>3, <2>1 DEF LoadForCancel, TakeUp, Jobs
  <2>3. QED
    BY <2>2, WorkerSteps DEF WalletInv
<1>4. ASSUME NEW w \in Withdrawal, NEW op \in {"APPROVED", "REJECTED", "COMPLETED"},
             LoadWithdrawal(h, w, op)
      PROVE  WalletInv'
  <2> DEFINE j == [pc |-> "loaded", of |-> w, op |-> op]
  <2>1. j \in Deciding
    BY DEF Deciding
  <2>2. j \in Jobs /\ working' = [working EXCEPT ![h] = j] /\ Rest
    BY <1>4, <2>1 DEF LoadWithdrawal, TakeUp, Jobs
  <2>3. QED
    BY <2>2, WorkerSteps DEF WalletInv
<1>5. QED
  BY <1>1, <1>2, <1>3, <1>4

\* A worker who is at rest afterwards, having saved.
LEMMA LaysDown ==
  ASSUME WalletInv, NEW h \in MoneyWorker, LayDown(h), UNCHANGED batch,
         wallet' \in SoundWallet,
         withdrawal' \in [Withdrawal -> [status : WithdrawalStatus, retries : Nat]]
  PROVE  WalletInv'
<1>1. AtRest \in Jobs
  BY DEF Jobs
<1>2. QED
  BY <1>1, WorkerSteps DEF LayDown

\* Saving what was read: the adjustment, the reservation, the release, the debit.
LEMMA WorkerSaves ==
  ASSUME WalletInv, NEW h \in MoneyWorker,
         SaveAdjustment(h) \/ CommitRequest(h) \/ SaveRelease(h) \/ SaveDebit(h)
  PROVE  WalletInv'
<1> DEFINE j == working[h]
<1> USE DEF WalletInv
<1>1. CASE SaveAdjustment(h)
  <2>1. j \in Adjusting
    BY <1>1, JobByPc DEF SaveAdjustment
  <2>2. j.by \in Int /\ j.seen \in SoundWallet /\ (j.by < 0 => j.seen.balance >= -j.by)
    BY <2>1 DEF Adjusting
  <2>3. /\ [j.seen EXCEPT !.balance = @ + j.by] \in SoundWallet
        /\ j.by > 0 => [j.seen EXCEPT !.balance = @ + j.by, !.earned = @ + j.by] \in SoundWallet
    BY <2>2, AdjustingKeepsSound
  <2>4. wallet' \in SoundWallet
    BY <1>1, <2>3, SaveKeepsSound DEF SaveAdjustment
  <2>5. QED
    BY <1>1, <2>4, LaysDown DEF SaveAdjustment
<1>2. CASE CommitRequest(h)
  <2>1. j \in Requesting
    BY <1>2, JobByPc DEF CommitRequest
  <2>2. /\ j.seen \in SoundWallet /\ j.of \in Withdrawal /\ Amount(h) \in Nat
        /\ BalanceCovers(j.seen, Amount(h))
    BY <2>1 DEF Requesting, Amount, BalanceCovers
  <2>3. Reserved(j.seen, Amount(h)) \in SoundWallet
    BY <2>2, MovesKeepSound
  <2>4. wallet' \in SoundWallet
    BY <1>2, <2>3, SaveKeepsSound DEF CommitRequest
  <2>5. withdrawal' \in [Withdrawal -> [status : WithdrawalStatus, retries : Nat]]
    BY <1>2 DEF CommitRequest, WithdrawalStatus
  <2>6. QED
    BY <1>2, <2>4, <2>5, LaysDown DEF CommitRequest
<1>3. CASE SaveRelease(h)
  <2>1. j \in Holding
    BY <1>3, JobByPc DEF SaveRelease
  <2>2. /\ j.seen \in SoundWallet /\ j.of \in Withdrawal /\ Amount(h) \in Nat
        /\ PendingCovers(j.seen, Amount(h))
    BY <2>1 DEF Holding, Amount, PendingCovers
  <2>3. Released(j.seen, Amount(h)) \in SoundWallet
    BY <2>2, MovesKeepSound
  <2>4. wallet' \in SoundWallet
    BY <1>3, <2>3, SaveKeepsSound DEF SaveRelease
  <2>5. QED
    BY <1>3, <2>4, LaysDown DEF SaveRelease
<1>4. CASE SaveDebit(h)
  <2>1. j \in Debiting
    BY <1>4, JobByPc DEF SaveDebit
  <2>2. j.seen \in SoundWallet /\ j.of \in Withdrawal /\ Amount(h) \in Nat
    BY <2>1 DEF Debiting, Amount
  <2>3. BalanceCovers(j.seen, Amount(h)) => Debited(j.seen, Amount(h)) \in SoundWallet
    BY <2>2, MovesKeepSound
  <2>4. wallet' \in SoundWallet
    BY <1>4, <2>3, SaveKeepsSound DEF SaveDebit
  <2>5. QED
    BY <1>4, <2>4, LaysDown DEF SaveDebit
<1>5. QED
  BY <1>1, <1>2, <1>3, <1>4

\* The steps of a decision: its status, the reading of the wallet, the confirmation.
LEMMA WorkerGoesOn ==
  ASSUME WalletInv, NEW h \in MoneyWorker,
         SaveStatus(h) \/ ReadWallet(h) \/ SaveConfirmation(h)
  PROVE  WalletInv'
<1> DEFINE j == working[h]
<1> USE DEF WalletInv
<1>1. CASE SaveStatus(h)
  <2>1. j \in Deciding
    BY <1>1, JobByPc DEF SaveStatus
  <2>2. withdrawal' \in [Withdrawal -> [status : WithdrawalStatus, retries : Nat]]
    BY <1>1, <2>1 DEF SaveStatus, Deciding, WithdrawalStatus
  <2>3. CASE j.op = "APPROVED"
    BY <1>1, <2>2, <2>3, LaysDown DEF SaveStatus
  <2>4. CASE j.op # "APPROVED"
    <3>1. [j EXCEPT !.pc = "saved"] \in Deciding
      BY <2>1 DEF Deciding
    <3>2. [j EXCEPT !.pc = "saved"] \in Jobs
      BY <3>1 DEF Jobs
    <3>3. working' = [working EXCEPT ![h] = [j EXCEPT !.pc = "saved"]]
      BY <1>1, <2>4 DEF SaveStatus
    <3>4. QED
      BY <1>1, <2>2, <3>2, <3>3, WorkerSteps DEF SaveStatus
  <2>5. QED
    BY <2>3, <2>4
<1>2. CASE ReadWallet(h)
  <2>1. j \in Deciding
    BY <1>2, JobByPc DEF ReadWallet
  <2> DEFINE k == [pc |-> IF j.op = "COMPLETED" THEN "confirm" ELSE "release",
                   of |-> j.of, seen |-> wallet]
  <2>2. CASE PendingCovers(wallet, Amount(h))
    <3>1. k \in Holding
      BY <2>1, <2>2 DEF Deciding, Holding, PendingCovers, Amount
    <3>2. k \in Jobs
      BY <3>1 DEF Jobs
    <3>3. working' = [working EXCEPT ![h] = k]
      BY <1>2, <2>2 DEF ReadWallet
    <3>4. QED
      BY <1>2, <3>2, <3>3, WorkerSteps DEF ReadWallet
  <2>3. CASE ~PendingCovers(wallet, Amount(h))
    BY <1>2, <2>3, LaysDown DEF ReadWallet
  <2>4. QED
    BY <2>2, <2>3
<1>3. CASE SaveConfirmation(h)
  <2>1. j \in Holding
    BY <1>3, JobByPc DEF SaveConfirmation
  <2>2. /\ j.seen \in SoundWallet /\ j.of \in Withdrawal /\ Amount(h) \in Nat
        /\ PendingCovers(j.seen, Amount(h))
    BY <2>1 DEF Holding, Amount, PendingCovers
  <2> DEFINE v == Confirmed(j.seen, Amount(h))
  <2> DEFINE k == [j EXCEPT !.pc = "debit", !.seen = v]
  <2>3. v \in SoundWallet
    BY <2>2, MovesKeepSound
  <2>4. k \in Debiting
    BY <2>1, <2>3 DEF Holding, Debiting
  <2>5. k \in Jobs
    BY <2>4 DEF Jobs
  <2>6. wallet' \in SoundWallet
    BY <1>3, <2>3, SaveKeepsSound DEF SaveConfirmation
  <2>7. working' = [working EXCEPT ![h] = k]
    BY <1>3 DEF SaveConfirmation
  <2>8. QED
    BY <1>3, <2>5, <2>6, <2>7, WorkerSteps DEF SaveConfirmation
<1>4. QED
  BY <1>1, <1>2, <1>3

\* A run of a task that has loaded some rows.
LEMMA RowsLoad ==
  ASSUME WalletInv, NEW chosen \in SUBSET Withdrawal, NEW op \in {"process", "approve"},
         NEW seen \in SoundWallet \cup {NotRead}
  PROVE  [w \in chosen |-> Loaded(w, op, seen)] \in Rows
<1>1. \A w \in chosen : Loaded(w, op, seen) \in Row
  BY DEF WalletInv, Loaded, Row
<1>2. [w \in chosen |-> Loaded(w, op, seen)] \in [chosen -> Row]
  BY <1>1
<1>3. QED
  BY <1>2 DEF Rows

\* What a run still has to do: rows, whatever part of them it is done with.
LEMMA RowsOfBatch ==
  ASSUME WalletInv, NEW b \in Batch
  PROVE  /\ batch[b] \in Rows
         /\ DOMAIN batch[b] \subseteq Withdrawal
         /\ \A w \in DOMAIN batch[b] : batch[b][w] \in Row
         /\ \A w : [u \in DOMAIN batch[b] \ {w} |-> batch[b][u]] \in Rows
<1>1. batch[b] \in Rows
  BY DEF WalletInv
<1>2. PICK S \in SUBSET Withdrawal : batch[b] \in [S -> Row]
  BY <1>1 DEF Rows
<1>3. ASSUME NEW w PROVE [u \in DOMAIN batch[b] \ {w} |-> batch[b][u]] \in Rows
  <2>1. S \ {w} \in SUBSET Withdrawal
    OBVIOUS
  <2>2. [u \in DOMAIN batch[b] \ {w} |-> batch[b][u]] \in [S \ {w} -> Row]
    BY <1>2
  <2>3. QED
    BY <2>1, <2>2 DEF Rows
<1>4. QED
  BY <1>1, <1>2, <1>3

\* Loading rows, and reading the wallet of one.
LEMMA BatchLoads ==
  ASSUME WalletInv, NEW b \in Batch,
         \/ LoadBatch(b) \/ LoadSmall(b)
         \/ \E w \in Withdrawal : LoadSingle(b, w) \/ ReadWalletOfSingle(b, w)
  PROVE  WalletInv'
<1>1. CASE LoadBatch(b)
  <2>1. wallet \in SoundWallet \cup {NotRead} /\ WithStatus("APPROVED") \in SUBSET Withdrawal
    BY DEF WalletInv, WithStatus
  <2>2. [w \in WithStatus("APPROVED") |-> Loaded(w, "process", wallet)] \in Rows
    BY <2>1, RowsLoad
  <2>3. QED
    BY <1>1, <2>2, BatchSteps DEF LoadBatch, WalletInv
<1>2. CASE LoadSmall(b)
  <2> DEFINE small == {w \in WithStatus("PENDING") : WithdrawalAmount[w] <= SmallAmount}
  <2>1. small \in SUBSET Withdrawal
    BY DEF WithStatus
  <2>2. [w \in small |-> Loaded(w, "approve", NotRead)] \in Rows
    BY <2>1, RowsLoad
  <2>3. QED
    BY <1>2, <2>2, BatchSteps DEF LoadSmall, WalletInv
<1>3. ASSUME NEW w \in Withdrawal, LoadSingle(b, w) PROVE WalletInv'
  <2>1. {w} \in SUBSET Withdrawal
    OBVIOUS
  <2>2. [v \in {w} |-> Loaded(v, "process", NotRead)] \in Rows
    BY <2>1, RowsLoad
  <2>3. [v \in {w} |-> Loaded(w, "process", NotRead)]
          = [v \in {w} |-> Loaded(v, "process", NotRead)]
    OBVIOUS
  <2>4. QED
    BY <1>3, <2>2, <2>3, BatchSteps DEF LoadSingle, WalletInv
<1>4. ASSUME NEW w \in Withdrawal, ReadWalletOfSingle(b, w) PROVE WalletInv'
  <2> DEFINE rows == [batch[b] EXCEPT ![w].seen = wallet]
  <2>1. PICK S \in SUBSET Withdrawal : batch[b] \in [S -> Row]
    BY DEF WalletInv, Rows
  <2>2. w \in S /\ batch[b][w] \in Row
    BY <1>4, <2>1 DEF ReadWalletOfSingle
  <2>3. [batch[b][w] EXCEPT !.seen = wallet] \in Row
    BY <2>2 DEF Row, WalletInv
  <2>4. rows \in [S -> Row]
    BY <2>1, <2>2, <2>3
  <2>5. rows \in Rows
    BY <2>4 DEF Rows
  <2>6. batch' = [batch EXCEPT ![b] = rows]
    BY <1>4 DEF ReadWalletOfSingle
  <2>7. QED
    BY <1>4, <2>5, <2>6, BatchSteps DEF ReadWalletOfSingle, WalletInv
<1>5. QED
  BY <1>1, <1>2, <1>3, <1>4

\* Being done with one row.
LEMMA BatchIsDoneWith ==
  ASSUME WalletInv, NEW b \in Batch, NEW w, DoneWith(b, w), UNCHANGED working,
         wallet' \in SoundWallet,
         withdrawal' \in [Withdrawal -> [status : WithdrawalStatus, retries : Nat]]
  PROVE  WalletInv'
<1> DEFINE rows == [u \in DOMAIN batch[b] \ {w} |-> batch[b][u]]
<1>1. rows \in Rows
  BY RowsOfBatch
<1>2. batch' = [batch EXCEPT ![b] = rows]
  BY DEF DoneWith
<1>3. QED
  BY <1>1, <1>2, BatchSteps

\* What a row that is being processed holds, before and after the attempt.
LEMMA AttemptKeepsSound ==
  ASSUME WalletInv, NEW b \in Batch, NEW w \in Withdrawal, ToProcess(b, w)
  PROVE  /\ batch[b][w] \in Row
         /\ batch[b][w].seen \in SoundWallet
         /\ AfterAttempt(batch[b][w], WithdrawalAmount[w]) \in SoundWallet
<1> DEFINE r == batch[b][w]
           n == WithdrawalAmount[w]
<1>1. r \in Row /\ r.seen # NotRead
  BY RowsOfBatch DEF ToProcess
<1>2. r.seen \in SoundWallet
  BY <1>1 DEF Row
<1>3. PendingCovers(r.seen, n) => Confirmed(r.seen, n) \in SoundWallet
  BY <1>2, MovesKeepSound
<1>4. QED
  BY <1>1, <1>2, <1>3 DEF AfterAttempt, IsConfirmed

\* Processing a row, in every way it may go.
LEMMA BatchProcesses ==
  ASSUME WalletInv, NEW b \in Batch, NEW w \in Withdrawal,
         \/ AutoApprove(b, w) \/ ProcessBankTransfer(b, w) \/ ProcessMobileMoney(b, w)
         \/ ProcessingRetries(b, w) \/ ProcessingFails(b, w)
  PROVE  WalletInv'
<1> DEFINE r == batch[b][w]
           n == WithdrawalAmount[w]
           v == AfterAttempt(r, n)
<1>1. CASE AutoApprove(b, w)
  <2>1. withdrawal' \in [Withdrawal -> [status : WithdrawalStatus, retries : Nat]]
    BY <1>1 DEF AutoApprove, WalletInv, WithdrawalStatus
  <2>2. QED
    BY <1>1, <2>1, BatchIsDoneWith DEF AutoApprove, WalletInv
<1>2. CASE ProcessBankTransfer(b, w)
  <2>1. withdrawal' \in [Withdrawal -> [status : WithdrawalStatus, retries : Nat]]
    BY <1>2 DEF ProcessBankTransfer, WalletInv, WithdrawalStatus
  <2>2. QED
    BY <1>2, <2>1, BatchIsDoneWith DEF ProcessBankTransfer, WalletInv
<1>3. CASE ProcessMobileMoney(b, w)
  <2>1. ToProcess(b, w) /\ IsDebited(r, n)
    BY <1>3 DEF ProcessMobileMoney
  <2>2. r.seen \in SoundWallet /\ v \in SoundWallet /\ n \in Nat
    BY <2>1, AttemptKeepsSound
  <2>3. v = Confirmed(r.seen, n) /\ BalanceCovers(r.seen, n)
    BY <2>1 DEF AfterAttempt, IsDebited
  <2>4. v.balance = r.seen.balance
    BY <2>2, <2>3 DEF Confirmed, SoundWallet, WalletType
  <2>5. Debited(v, n) \in SoundWallet
    BY <2>2, <2>3, <2>4, MovesKeepSound DEF BalanceCovers
  <2>6. wallet' \in SoundWallet
    BY <1>3, <2>5, SaveKeepsSound DEF ProcessMobileMoney, WalletInv
  <2>7. withdrawal' \in [Withdrawal -> [status : WithdrawalStatus, retries : Nat]]
    BY <1>3 DEF ProcessMobileMoney, WalletInv, WithdrawalStatus
  <2>8. QED
    BY <1>3, <2>6, <2>7, BatchIsDoneWith DEF ProcessMobileMoney
<1>4. CASE ProcessingRetries(b, w)
  <2>1. r \in Row /\ v \in SoundWallet
    BY <1>4, AttemptKeepsSound DEF ProcessingRetries
  <2>2. wallet' \in SoundWallet
    BY <1>4, <2>1, SaveKeepsSound DEF ProcessingRetries, WalletInv
  <2>3. [status |-> "APPROVED", retries |-> r.retries + 1]
          \in [status : WithdrawalStatus, retries : Nat]
    BY <2>1 DEF Row, WithdrawalStatus
  <2>4. withdrawal' \in [Withdrawal -> [status : WithdrawalStatus, retries : Nat]]
    BY <1>4, <2>3 DEF ProcessingRetries, WalletInv
  <2>5. QED
    BY <1>4, <2>2, <2>4, BatchIsDoneWith DEF ProcessingRetries
<1>5. CASE ProcessingFails(b, w)
  <2>1. r \in Row /\ v \in SoundWallet /\ n \in Nat
    BY <1>5, AttemptKeepsSound DEF ProcessingFails
  <2>2. PendingCovers(v, n) => Released(v, n) \in SoundWallet
    BY <2>1, MovesKeepSound
  <2>3. wallet' \in SoundWallet
    BY <1>5, <2>2, SaveKeepsSound DEF ProcessingFails, WalletInv
  <2>4. [status |-> "FAILED", retries |-> r.retries + 1]
          \in [status : WithdrawalStatus, retries : Nat]
    BY <2>1 DEF Row, WithdrawalStatus
  <2>5. withdrawal' \in [Withdrawal -> [status : WithdrawalStatus, retries : Nat]]
    BY <1>5, <2>4 DEF ProcessingFails, WalletInv
  <2>6. QED
    BY <1>5, <2>3, <2>5, BatchIsDoneWith DEF ProcessingFails
<1>6. QED
  BY <1>1, <1>2, <1>3, <1>4, <1>5

LEMMA WalletInvNext == WalletInv /\ [WalletNext]_walletVars => WalletInv'
<1> SUFFICES ASSUME WalletInv, [WalletNext]_walletVars PROVE WalletInv'
  OBVIOUS
<1>1. CASE UNCHANGED walletVars
  BY <1>1 DEF walletVars, WalletInv
<1>2. CASE WalletNext
  BY <1>2, WorkerReads, WorkerSaves, WorkerGoesOn, BatchLoads, BatchProcesses DEF WalletNext
<1>3. QED
  BY <1>1, <1>2

\* However requests and tasks interleave over a wallet that nobody locks, neither what may
\* be withdrawn nor what is reserved falls below nothing (the checks of
\* SellerWallet.debit, reserve_for_withdrawal, release_pending and confirm_withdrawal).
THEOREM WalletNeverOverdrawn == WalletSpec => []NeverOverdrawn
<1>1. WalletInv => NeverOverdrawn
  BY DEF WalletInv, SoundWallet, NeverOverdrawn
<1>2. QED
  BY <1>1, WalletInvInit, WalletInvNext, PTL DEF WalletSpec

--------------------------------------------------------------------------------
(* That the books balance, as long as requests come one after the other.  Then  *)
(* who has read the wallet finds it as it was when he saves it, and only his    *)
(* own withdrawal, between its status and the wallet, keeps what is reserved    *)
(* apart from what is open.                                                     *)

OpenStatus  == {"PENDING", "APPROVED", "PROCESSING"}
Running(b)  == DOMAIN batch[b] # {}
Settling(h) == working[h].pc \in {"saved", "release", "confirm"}
HasRead(h)  == working[h].pc \in {"adjust", "request", "release", "confirm", "debit"}

OneAtATime ==
  /\ \A g, h \in MoneyWorker : working[g] # AtRest /\ working[h] # AtRest => g = h
  /\ \A b, c \in Batch : Running(b) /\ Running(c) => b = c
  /\ \A h \in MoneyWorker : \A b \in Batch : working[h] = AtRest \/ ~Running(b)
  /\ \A b \in Batch : \A w \in DOMAIN batch[b] :
       batch[b][w].op = "process" => DOMAIN batch[b] = {w}

UpToDate ==
  /\ \A h \in MoneyWorker : HasRead(h) => working[h].seen = wallet
  /\ \A b \in Batch : \A w \in DOMAIN batch[b] : ToProcess(b, w) => batch[b][w].seen = wallet

AddsUp == wallet.balance + wallet.pending + wallet.withdrawn = wallet.earned - taken

\* Whose turn it is has a withdrawal in hand that is in the state he found it in.
TakenOpen ==
  /\ \A h \in MoneyWorker :
       /\ working[h].pc = "request" => withdrawal[working[h].of].status = "none"
       /\ working[h].pc = "loaded" => withdrawal[working[h].of].status \in OpenStatus
  /\ \A b \in Batch : \A w \in DOMAIN batch[b] :
       batch[b][w].status = withdrawal[w].status /\ withdrawal[w].status \in OpenStatus

ReservedForOpen ==
  /\ (\A h \in MoneyWorker : ~Settling(h)) => wallet.pending = TotalPending
  /\ \A h \in MoneyWorker : Settling(h) => wallet.pending = TotalPending + Amount(h)

Balanced ==
  /\ WalletInv /\ taken \in Int
  /\ ~entangled => OneAtATime /\ UpToDate /\ AddsUp
  /\ ~entangled /\ ~strayed => TakenOpen /\ ReservedForOpen

\* How the wallet's row moves.
Moved(b, p, e, w) ==
  /\ wallet'.balance = wallet.balance + b /\ wallet'.pending = wallet.pending + p
  /\ wallet'.earned = wallet.earned + e /\ wallet'.withdrawn = wallet.withdrawn + w

\* The fields of an instance after each movement.
LEMMA FieldsOfMoves ==
  ASSUME NEW v \in WalletType, NEW n \in Int
  PROVE  /\ LET u == Reserved(v, n)
            IN /\ u.balance = v.balance + (-n) /\ u.pending = v.pending + n
               /\ u.earned = v.earned + 0 /\ u.withdrawn = v.withdrawn + 0
         /\ LET u == Released(v, n)
            IN /\ u.balance = v.balance + n /\ u.pending = v.pending + (-n)
               /\ u.earned = v.earned + 0 /\ u.withdrawn = v.withdrawn + 0
         /\ LET u == Confirmed(v, n)
            IN /\ u.balance = v.balance + 0 /\ u.pending = v.pending + (-n)
               /\ u.earned = v.earned + 0 /\ u.withdrawn = v.withdrawn + n
         /\ LET u == Debited(v, n)
            IN /\ u.balance = v.balance + (-n) /\ u.pending = v.pending + 0
               /\ u.earned = v.earned + 0 /\ u.withdrawn = v.withdrawn + n
         /\ LET u == [v EXCEPT !.balance = @ + n, !.earned = @ + n]
            IN /\ u.balance = v.balance + n /\ u.pending = v.pending + 0
               /\ u.earned = v.earned + n /\ u.withdrawn = v.withdrawn + 0
         /\ LET u == [v EXCEPT !.balance = @ + n]
            IN /\ u.balance = v.balance + n /\ u.pending = v.pending + 0
               /\ u.earned = v.earned + 0 /\ u.withdrawn = v.withdrawn + 0
         /\ Confirmed(v, n) \in WalletType
<1>0. /\ v \in WalletType
      /\ v.balance \in Int /\ v.pending \in Int /\ v.earned \in Int /\ v.withdrawn \in Int
      /\ v \in [balance : Int, pending : Int, earned : Int, withdrawn : Int]
  BY DEF WalletType
<1>1. LET u == Reserved(v, n)
      IN /\ u.balance = v.balance + (-n) /\ u.pending = v.pending + n
         /\ u.earned = v.earned + 0 /\ u.withdrawn = v.withdrawn + 0
  BY <1>0 DEF Reserved
<1>2. LET u == Released(v, n)
      IN /\ u.balance = v.balance + n /\ u.pending = v.pending + (-n)
         /\ u.earned = v.earned + 0 /\ u.withdrawn = v.withdrawn + 0
  BY <1>0 DEF Released
<1>3. LET u == Confirmed(v, n)
      IN /\ u.balance = v.balance + 0 /\ u.pending = v.pending + (-n)
         /\ u.earned = v.earned + 0 /\ u.withdrawn = v.withdrawn + n
  BY <1>0 DEF Confirmed
<1>4. LET u == Debited(v, n)
      IN /\ u.balance = v.balance + (-n) /\ u.pending = v.pending + 0
         /\ u.earned = v.earned + 0 /\ u.withdrawn = v.withdrawn + n
  BY <1>0 DEF Debited
<1>5. LET u == [v EXCEPT !.balance = @ + n, !.earned = @ + n]
      IN /\ u.balance = v.balance + n /\ u.pending = v.pending + 0
         /\ u.earned = v.earned + n /\ u.withdrawn = v.withdrawn + 0
  BY <1>0
<1>6. LET u == [v EXCEPT !.balance = @ + n]
      IN /\ u.balance = v.balance + n /\ u.pending = v.pending + 0
         /\ u.earned = v.earned + 0 /\ u.withdrawn = v.withdrawn + 0
  BY <1>0
<1>7. Confirmed(v, n) \in WalletType
  <2>1. Confirmed(v, n) = [[v EXCEPT !.pending = v.pending - n] EXCEPT !.withdrawn = v.withdrawn + n]
    BY <1>0 DEF Confirmed
  <2>2. PICK x \in Int, y \in Int : x = v.pending - n /\ y = v.withdrawn + n
    BY <1>0
  <2>3. Confirmed(v, n) = [[v EXCEPT !.pending = x] EXCEPT !.withdrawn = y]
    BY <2>1, <2>2
  <2>4. LET u == [[v EXCEPT !.pending = x] EXCEPT !.withdrawn = y]
        IN u \in WalletType /\ u.balance = v.balance /\ u.pending = x
    BY <1>0, FieldsChange, Zenon
  <2>5. QED
    BY <2>3, <2>4
<1>8. QED
  BY <1>1, <1>2, <1>3, <1>4, <1>5, <1>6, <1>7, Zenon

\* What the row becomes when an instance is saved over it.
LEMMA SavedOver ==
  ASSUME wallet \in WalletType, NEW v
  PROVE  /\ wallet' = SaveFields(v, {"balance", "earned"}) =>
              /\ wallet'.balance = v.balance /\ wallet'.pending = wallet.pending
              /\ wallet'.earned = v.earned /\ wallet'.withdrawn = wallet.withdrawn
         /\ wallet' = SaveFields(v, {"balance"}) =>
              /\ wallet'.balance = v.balance /\ wallet'.pending = wallet.pending
              /\ wallet'.earned = wallet.earned /\ wallet'.withdrawn = wallet.withdrawn
         /\ wallet' = SaveFields(v, {"balance", "pending"}) =>
              /\ wallet'.balance = v.balance /\ wallet'.pending = v.pending
              /\ wallet'.earned = wallet.earned /\ wallet'.withdrawn = wallet.withdrawn
         /\ wallet' = SaveFields(v, {"balance", "withdrawn"}) =>
              /\ wallet'.balance = v.balance /\ wallet'.pending = wallet.pending
              /\ wallet'.earned = wallet.earned /\ wallet'.withdrawn = v.withdrawn
         /\ wallet' = SaveFields(v, {"pending", "withdrawn"}) =>
              /\ wallet'.balance = wallet.balance /\ wallet'.pending = v.pending
              /\ wallet'.earned = wallet.earned /\ wallet'.withdrawn = v.withdrawn
         /\ wallet' = SaveFields(v, {"balance", "pending", "withdrawn"}) =>
              /\ wallet'.balance = v.balance /\ wallet'.pending = v.pending
              /\ wallet'.earned = wallet.earned /\ wallet'.withdrawn = v.withdrawn
BY DEF SaveFields, WalletType

\* An instance that was read just before moves the row as it has been moved itself.
LEMMA WhatIsSaved ==
  ASSUME wallet \in WalletType, NEW n \in Int
  PROVE  /\ wallet' = SaveFields([wallet EXCEPT !.balance = @ + n, !.earned = @ + n], {"balance", "earned"})
              => Moved(n, 0, n, 0)
         /\ wallet' = SaveFields([wallet EXCEPT !.balance = @ + n], {"balance"})
              => Moved(n, 0, 0, 0)
         /\ wallet' = SaveFields(Reserved(wallet, n), {"balance", "pending"})
              => Moved(-n, n, 0, 0)
         /\ wallet' = SaveFields(Released(wallet, n), {"balance", "pending"})
              => Moved(n, -n, 0, 0)
         /\ wallet' = SaveFields(Released(wallet, n), {"balance", "pending", "withdrawn"})
              => Moved(n, -n, 0, 0)
         /\ wallet' = SaveFields(Debited(wallet, n), {"balance", "withdrawn"})
              => Moved(-n, 0, 0, n)
         /\ wallet' = SaveFields(Confirmed(wallet, n), {"pending", "withdrawn"})
              => Moved(0, -n, 0, n)
<1>0. /\ wallet.balance \in Int /\ wallet.pending \in Int
      /\ wallet.earned \in Int /\ wallet.withdrawn \in Int
  BY DEF WalletType
<1>1. wallet' = SaveFields([wallet EXCEPT !.balance = @ + n, !.earned = @ + n], {"balance", "earned"})
        => Moved(n, 0, n, 0)
  <2> DEFINE v == [wallet EXCEPT !.balance = @ + n, !.earned = @ + n]
  <2>1. /\ v.balance = wallet.balance + n /\ v.pending = wallet.pending + 0
        /\ v.earned = wallet.earned + n /\ v.withdrawn = wallet.withdrawn + 0
    BY FieldsOfMoves, Zenon
  <2> HIDE DEF v
  <2>2. wallet' = SaveFields(v, {"balance", "earned"}) => Moved(n, 0, n, 0)
    BY <1>0, <2>1, SavedOver DEF Moved
  <2>3. QED
    BY <2>2 DEF v
<1>2. wallet' = SaveFields([wallet EXCEPT !.balance = @ + n], {"balance"})
        => Moved(n, 0, 0, 0)
  <2> DEFINE v == [wallet EXCEPT !.balance = @ + n]
  <2>1. /\ v.balance = wallet.balance + n /\ v.pending = wallet.pending + 0
        /\ v.earned = wallet.earned + 0 /\ v.withdrawn = wallet.withdrawn + 0
    BY FieldsOfMoves, Zenon
  <2> HIDE DEF v
  <2>2. wallet' = SaveFields(v, {"balance"}) => Moved(n, 0, 0, 0)
    BY <1>0, <2>1, SavedOver DEF Moved
  <2>3. QED
    BY <2>2 DEF v
<1>3. wallet' = SaveFields(Reserved(wallet, n), {"balance", "pending"})
        => Moved(-n, n, 0, 0)
  <2> DEFINE v == Reserved(wallet, n)
  <2>1. /\ v.balance = wallet.balance + (-n) /\ v.pending = wallet.pending + n
        /\ v.earned = wallet.earned + 0 /\ v.withdrawn = wallet.withdrawn + 0
    BY FieldsOfMoves, Zenon
  <2> HIDE DEF v
  <2>2. wallet' = SaveFields(v, {"balance", "pending"}) => Moved(-n, n, 0, 0)
    BY <1>0, <2>1, SavedOver DEF Moved
  <2>3. QED
    BY <2>2 DEF v
<1>4. /\ wallet' = SaveFields(Released(wallet, n), {"balance", "pending"})
        => Moved(n, -n, 0, 0)
      /\ wallet' = SaveFields(Released(wallet, n), {"balance", "pending", "withdrawn"})
        => Moved(n, -n, 0, 0)
  <2> DEFINE v == Released(wallet, n)
  <2>1. /\ v.balance = wallet.balance + n /\ v.pending = wallet.pending + (-n)
        /\ v.earned = wallet.earned + 0 /\ v.withdrawn = wallet.withdrawn + 0
    BY FieldsOfMoves, Zenon
  <2> HIDE DEF v
  <2>2. wallet' = SaveFields(v, {"balance", "pending"}) => Moved(n, -n, 0, 0)
    BY <1>0, <2>1, SavedOver DEF Moved
  <2>3. wallet' = SaveFields(v, {"balance", "pending", "withdrawn"}) => Moved(n, -n, 0, 0)
    BY <1>0, <2>1, SavedOver DEF Moved
  <2>4. QED
    BY <2>2, <2>3 DEF v
<1>5. wallet' = SaveFields(Debited(wallet, n), {"balance", "withdrawn"})
        => Moved(-n, 0, 0, n)
  <2> DEFINE v == Debited(wallet, n)
  <2>1. /\ v.balance = wallet.balance + (-n) /\ v.pending = wallet.pending + 0
        /\ v.earned = wallet.earned + 0 /\ v.withdrawn = wallet.withdrawn + n
    BY FieldsOfMoves, Zenon
  <2> HIDE DEF v
  <2>2. wallet' = SaveFields(v, {"balance", "withdrawn"}) => Moved(-n, 0, 0, n)
    BY <1>0, <2>1, SavedOver DEF Moved
  <2>3. QED
    BY <2>2 DEF v
<1>6. wallet' = SaveFields(Confirmed(wallet, n), {"pending", "withdrawn"})
        => Moved(0, -n, 0, n)
  <2> DEFINE v == Confirmed(wallet, n)
  <2>1. /\ v.balance = wallet.balance + 0 /\ v.pending = wallet.pending + (-n)
        /\ v.earned = wallet.earned + 0 /\ v.withdrawn = wallet.withdrawn + n
    BY FieldsOfMoves, Zenon
  <2> HIDE DEF v
  <2>2. wallet' = SaveFields(v, {"pending", "withdrawn"}) => Moved(0, -n, 0, n)
    BY <1>0, <2>1, SavedOver DEF Moved
  <2>3. QED
    BY <2>2 DEF v
<1>7. QED
  BY <1>1, <1>2, <1>3, <1>4, <1>5, <1>6

LEMMA WhatIsSavedOfAttempts ==
  ASSUME wallet \in WalletType, NEW n \in Int
  PROVE  /\ SaveFields(Confirmed(wallet, n), {"pending", "withdrawn"}) = Confirmed(wallet, n)
         /\ wallet' = SaveFields(Debited(Confirmed(wallet, n), n),
                                 {"balance", "pending", "withdrawn"})
              => Moved(-n, -n, 0, n + n)
         /\ wallet' = SaveFields(Released(Confirmed(wallet, n), n),
                                 {"balance", "pending", "withdrawn"})
              => Moved(n, -n - n, 0, n)
<1> DEFINE c == Confirmed(wallet, n)
<1>0. /\ wallet.balance \in Int /\ wallet.pending \in Int
      /\ wallet.earned \in Int /\ wallet.withdrawn \in Int
  BY DEF WalletType
<1>1. /\ c \in WalletType
      /\ c.balance = wallet.balance + 0 /\ c.pending = wallet.pending + (-n)
      /\ c.earned = wallet.earned + 0 /\ c.withdrawn = wallet.withdrawn + n
  BY FieldsOfMoves, Zenon
<1> HIDE DEF c
<1>2. SaveFields(c, {"pending", "withdrawn"}) = c
  BY <1>0, <1>1 DEF WalletType, SaveFields
<1>3. wallet' = SaveFields(Debited(c, n), {"balance", "pending", "withdrawn"})
        => Moved(-n, -n, 0, n + n)
  <2> DEFINE v == Debited(c, n)
  <2>1. /\ v.balance = c.balance + (-n) /\ v.pending = c.pending + 0
        /\ v.earned = c.earned + 0 /\ v.withdrawn = c.withdrawn + n
    BY <1>1, FieldsOfMoves, Zenon
  <2> HIDE DEF v
  <2>2. wallet' = SaveFields(v, {"balance", "pending", "withdrawn"}) => Moved(-n, -n, 0, n + n)
    BY <1>0, <1>1, <2>1, SavedOver DEF Moved
  <2>3. QED
    BY <2>2 DEF v
<1>4. wallet' = SaveFields(Released(c, n), {"balance", "pending", "withdrawn"})
        => Moved(n, -n - n, 0, n)
  <2> DEFINE v == Released(c, n)
  <2>1. /\ v.balance = c.balance + n /\ v.pending = c.pending + (-n)
        /\ v.earned = c.earned + 0 /\ v.withdrawn = c.withdrawn + 0
    BY <1>1, FieldsOfMoves, Zenon
  <2> HIDE DEF v
  <2>2. wallet' = SaveFields(v, {"balance", "pending", "withdrawn"}) => Moved(n, -n - n, 0, n)
    BY <1>0, <1>1, <2>1, SavedOver DEF Moved
  <2>3. QED
    BY <2>2 DEF v
<1>5. QED
  BY <1>2, <1>3, <1>4 DEF c

\* The amount of a withdrawal is pending while its status is open.
LEMMA StatusMoves ==
  ASSUME WalletInv, NEW w \in Withdrawal, NEW r \in [status : WithdrawalStatus, retries : Nat],
         withdrawal' = [withdrawal EXCEPT ![w] = r]
  PROVE  LET n == WithdrawalAmount[w]
             old == withdrawal[w].status
         IN /\ TotalPending \in Nat /\ TotalPending' \in Nat
            /\ (old \in OpenStatus) = (r.status \in OpenStatus) => TotalPending' = TotalPending
            /\ old \notin OpenStatus /\ r.status \in OpenStatus => TotalPending' = TotalPending + n
            /\ old \in OpenStatus /\ r.status \notin OpenStatus => TotalPending' = TotalPending - n
<1> DEFINE S == {v \in Withdrawal : withdrawal[v].status \in OpenStatus}
           T == {v \in Withdrawal : withdrawal'[v].status \in OpenStatus}
           n == WithdrawalAmount[w]
<1>1. TotalPending = TotalOf(WithdrawalAmount, S) /\ TotalPending' = TotalOf(WithdrawalAmount, T)
  BY DEF TotalPending, AmountWith, OpenStatus
<1>2. IsFiniteSet(S) /\ IsFiniteSet(T)
  BY FS_Subset
<1>3. /\ \A v \in S : WithdrawalAmount[v] \in Nat
      /\ \A v \in T : WithdrawalAmount[v] \in Nat
      /\ n \in Nat
  OBVIOUS
<1>4. /\ w \in S <=> withdrawal[w].status \in OpenStatus
      /\ w \in T <=> r.status \in OpenStatus
      /\ \A v \in Withdrawal \ {w} : v \in S <=> v \in T
  BY DEF WalletInv
<1>5. S \subseteq Withdrawal /\ T \subseteq Withdrawal
  OBVIOUS
<1> HIDE DEF S, T
<1>6. (w \in S <=> w \in T) => S = T
  BY <1>4, <1>5
<1>7. w \notin S /\ w \in T => TotalOf(WithdrawalAmount, T) = TotalOf(WithdrawalAmount, S) + n
  <2> SUFFICES ASSUME w \notin S, w \in T
               PROVE  TotalOf(WithdrawalAmount, T) = TotalOf(WithdrawalAmount, S) + n
    OBVIOUS
  <2>1. T = S \cup {w}
    BY <1>4, <1>5
  <2>2. TotalOf(WithdrawalAmount, S \cup {w}) = TotalOf(WithdrawalAmount, S) + n
    BY <1>2, <1>3, TotalWithPart
  <2>3. QED
    BY <2>1, <2>2
<1>8. w \in S /\ w \notin T => TotalOf(WithdrawalAmount, S) = TotalOf(WithdrawalAmount, T) + n
  <2> SUFFICES ASSUME w \in S, w \notin T
               PROVE  TotalOf(WithdrawalAmount, S) = TotalOf(WithdrawalAmount, T) + n
    OBVIOUS
  <2>1. S = T \cup {w}
    BY <1>4, <1>5
  <2>2. TotalOf(WithdrawalAmount, T \cup {w}) = TotalOf(WithdrawalAmount, T) + n
    BY <1>2, <1>3, TotalWithPart
  <2>3. QED
    BY <2>1, <2>2
<1>9. TotalOf(WithdrawalAmount, S) \in Nat /\ TotalOf(WithdrawalAmount, T) \in Nat
  BY <1>2, <1>3, TotalIsNat
<1>10. QED
  BY <1>1, <1>3, <1>4, <1>6, <1>7, <1>8, <1>9

LEMMA PendingIsNat ==
  ASSUME WalletInv
  PROVE  TotalPending \in Nat
<1>1. \A w \in Withdrawal : WithdrawalAmount[w] \in Nat
  OBVIOUS
<1>2. IsFiniteSet({w \in Withdrawal : withdrawal[w].status \in {"PENDING", "APPROVED", "PROCESSING"}})
  BY FS_Subset
<1>3. QED
  BY <1>1, <1>2, TotalIsNat DEF TotalPending, AmountWith

\* Only h is busy, or only run b.
Only(h) ==
  /\ \A g \in MoneyWorker \ {h} : working[g] = AtRest
  /\ \A b \in Batch : ~Running(b)
OnlyRun(b) ==
  /\ \A h \in MoneyWorker : working[h] = AtRest
  /\ \A c \in Batch \ {b} : ~Running(c)

LEMMA WhoIsBusyIsAlone ==
  ASSUME OneAtATime
  PROVE  /\ \A h \in MoneyWorker : working[h] # AtRest => Only(h)
         /\ \A b \in Batch : Running(b) => OnlyRun(b)
BY DEF OneAtATime, Only, OnlyRun

LEMMA WhoStartsIsAlone ==
  ASSUME ~SomebodyWorks
  PROVE  /\ \A h \in MoneyWorker : Only(h) /\ working[h] = AtRest
         /\ \A b \in Batch : OnlyRun(b) /\ ~Running(b)
<1>1. DOMAIN << >> = {}
  OBVIOUS
<1>2. QED
  BY <1>1 DEF SomebodyWorks, Only, OnlyRun, Running

\* A worker who is alone goes on to k, which holds the wallet as it is then.
LEMMA WorkerGoesAlone ==
  ASSUME WalletInv, NEW h \in MoneyWorker, Only(h), NEW k \in Jobs,
         working' = [working EXCEPT ![h] = k], UNCHANGED batch,
         k.pc \in {"adjust", "request", "release", "confirm", "debit"} => k.seen = wallet'
  PROVE  OneAtATime' /\ UpToDate'
<1>1. /\ \A g \in MoneyWorker \ {h} : working'[g] = AtRest
      /\ working'[h] = k
  BY DEF Only, WalletInv
<1>2. \A b \in Batch : DOMAIN batch'[b] = {}
  BY DEF Only, Running
<1>3. AtRest.pc = "idle"
  BY DEF AtRest
<1>4. QED
  BY <1>1, <1>2, <1>3 DEF OneAtATime, UpToDate, HasRead, Running

\* And has a withdrawal in hand.
LEMMA WorkerReserves ==
  ASSUME WalletInv, NEW h \in MoneyWorker, Only(h), NEW k \in Jobs,
         working' = [working EXCEPT ![h] = k], UNCHANGED batch,
         k.pc = "request" => withdrawal'[k.of].status = "none",
         k.pc = "loaded" => withdrawal'[k.of].status \in OpenStatus,
         IF k.pc \in {"saved", "release", "confirm"}
         THEN wallet'.pending = TotalPending' + WithdrawalAmount[k.of]
         ELSE wallet'.pending = TotalPending'
  PROVE  TakenOpen' /\ ReservedForOpen'
<1>1. /\ \A g \in MoneyWorker \ {h} : working'[g] = AtRest
      /\ working'[h] = k
  BY DEF Only, WalletInv
<1>2. \A b \in Batch : DOMAIN batch'[b] = {}
  BY DEF Only, Running
<1>3. AtRest.pc = "idle"
  BY DEF AtRest
<1>4. TakenOpen'
  BY <1>1, <1>2, <1>3 DEF TakenOpen
<1>5. ReservedForOpen'
  BY <1>1, <1>3 DEF ReservedForOpen, Settling, Amount
<1>6. QED
  BY <1>4, <1>5

\* A run that is alone goes on with some rows.
LEMMA RunGoesAlone ==
  ASSUME WalletInv, NEW b \in Batch, OnlyRun(b), NEW rows,
         batch' = [batch EXCEPT ![b] = rows], UNCHANGED working,
         \A w \in DOMAIN rows :
           rows[w].op = "process" =>
             DOMAIN rows = {w} /\ (rows[w].seen # NotRead => rows[w].seen = wallet')
  PROVE  OneAtATime' /\ UpToDate'
<1>1. /\ \A c \in Batch \ {b} : DOMAIN batch'[c] = {}
      /\ batch'[b] = rows
  BY DEF OnlyRun, Running, WalletInv
<1>2. \A h \in MoneyWorker : working'[h] = AtRest
  BY DEF OnlyRun
<1>3. AtRest.pc = "idle"
  BY DEF AtRest
<1>4. QED
  BY <1>1, <1>2, <1>3 DEF OneAtATime, UpToDate, HasRead, Running, ToProcess

LEMMA RunReserves ==
  ASSUME WalletInv, NEW b \in Batch, OnlyRun(b), NEW rows,
         batch' = [batch EXCEPT ![b] = rows], UNCHANGED working,
         \A w \in DOMAIN rows :
           rows[w].status = withdrawal'[w].status /\ withdrawal'[w].status \in OpenStatus,
         wallet'.pending = TotalPending'
  PROVE  TakenOpen' /\ ReservedForOpen'
<1>1. /\ \A c \in Batch \ {b} : DOMAIN batch'[c] = {}
      /\ batch'[b] = rows
  BY DEF OnlyRun, Running, WalletInv
<1>2. \A h \in MoneyWorker : working'[h] = AtRest
  BY DEF OnlyRun
<1>3. AtRest.pc = "idle"
  BY DEF AtRest
<1>4. TakenOpen'
  BY <1>1, <1>2, <1>3 DEF TakenOpen
<1>5. ReservedForOpen'
  BY <1>2, <1>3 DEF ReservedForOpen, Settling
<1>6. QED
  BY <1>4, <1>5

LEMMA BalancedInit == WalletInit => Balanced
<1> SUFFICES ASSUME WalletInit PROVE Balanced
  OBVIOUS
<1>1. WalletInv
  BY WalletInvInit
<1>2. ~SomebodyWorks
  BY DEF WalletInit, SomebodyWorks
<1>3. /\ \A h \in MoneyWorker : working[h] = AtRest
      /\ \A b \in Batch : DOMAIN batch[b] = {}
  BY <1>2, WhoStartsIsAlone DEF Running
<1>4. AtRest.pc = "idle"
  BY DEF AtRest
<1>5. OneAtATime /\ UpToDate /\ TakenOpen
  BY <1>3, <1>4 DEF OneAtATime, UpToDate, TakenOpen, Running, HasRead
<1>6. AddsUp /\ taken \in Int
  BY DEF WalletInit, AddsUp
<1>7. TotalPending = 0
  <2>1. {w \in Withdrawal : withdrawal[w].status \in {"PENDING", "APPROVED", "PROCESSING"}} = {}
    BY DEF WalletInit
  <2>2. TotalOf(WithdrawalAmount, {}) = 0
    BY TotalOfNothing
  <2>3. QED
    BY <2>1, <2>2 DEF TotalPending, AmountWith
<1>8. ReservedForOpen
  BY <1>3, <1>4, <1>7 DEF ReservedForOpen, Settling, WalletInit
<1>9. QED
  BY <1>1, <1>5, <1>6, <1>8 DEF Balanced

\* What a worker knows, if nobody is busy but him.
LEMMA AtWork ==
  ASSUME Balanced, ~entangled, NEW h \in MoneyWorker, working[h] # AtRest
  PROVE  /\ Only(h) /\ AddsUp
         /\ HasRead(h) => working[h].seen = wallet
         /\ ~strayed => IF Settling(h) THEN wallet.pending = TotalPending + Amount(h)
                        ELSE wallet.pending = TotalPending
<1>1. Only(h) /\ AddsUp /\ (HasRead(h) => working[h].seen = wallet)
  BY WhoIsBusyIsAlone DEF Balanced, UpToDate
<1>2. ~Settling(h) => \A g \in MoneyWorker : ~Settling(g)
  BY <1>1 DEF Only, Settling, AtRest
<1>3. QED
  BY <1>1, <1>2 DEF Balanced, ReservedForOpen

\* Taking up a job that holds the wallet, or a withdrawal, as it is.
LEMMA TakingUpBalances ==
  ASSUME Balanced, WalletInv', NEW h \in MoneyWorker, NEW k \in Jobs, TakeUp(h, k),
         UNCHANGED <<wallet, withdrawal, batch, taken>>, strayed => strayed',
         k.pc \in {"adjust", "request", "loaded"},
         k.pc \in {"adjust", "request"} => k.seen = wallet,
         k.pc = "request" => withdrawal[k.of].status = "none",
         k.pc = "loaded" /\ ~strayed' => withdrawal[k.of].status \in OpenStatus
  PROVE  Balanced'
<1>1. WalletInv /\ taken' \in Int /\ TotalPending' = TotalPending
  BY DEF Balanced, TotalPending, AmountWith
<1>2. ASSUME ~entangled' PROVE ~entangled /\ Only(h) /\ \A g \in MoneyWorker : ~Settling(g)
  <2>1. ~entangled /\ ~SomebodyWorks
    BY <1>2 DEF TakeUp
  <2>2. \A g \in MoneyWorker : Only(g) /\ working[g] = AtRest
    BY <2>1, WhoStartsIsAlone
  <2>3. QED
    BY <2>1, <2>2 DEF Settling, AtRest
<1>3. working' = [working EXCEPT ![h] = k]
  BY DEF TakeUp
<1>4. ASSUME ~entangled' PROVE OneAtATime' /\ UpToDate' /\ AddsUp'
  <2>1. OneAtATime' /\ UpToDate'
    BY <1>1, <1>2, <1>3, <1>4, WorkerGoesAlone
  <2>2. AddsUp'
    BY <1>2, <1>4 DEF Balanced, AddsUp
  <2>3. QED
    BY <2>1, <2>2
<1>5. ASSUME ~entangled', ~strayed' PROVE TakenOpen' /\ ReservedForOpen'
  <2>1. wallet'.pending = TotalPending'
    BY <1>1, <1>2, <1>5 DEF Balanced, ReservedForOpen
  <2>2. QED
    BY <1>1, <1>2, <1>3, <1>5, <2>1, WorkerReserves
<1>6. QED
  BY <1>1, <1>4, <1>5 DEF Balanced

\* Going on, or ending, with what is saved.
LEMMA GoingOnBalances ==
  ASSUME Balanced, WalletInv', NEW h \in MoneyWorker, NEW k \in Jobs, working[h] # AtRest,
         working' = [working EXCEPT ![h] = k], UNCHANGED <<batch, entangled, strayed>>,
         taken' \in Int,
         k.pc \in {"idle", "saved", "release", "confirm", "debit"},
         ~entangled => AddsUp' /\ (k.pc \in {"release", "confirm", "debit"} => k.seen = wallet'),
         ~entangled /\ ~strayed =>
           IF k.pc \in {"saved", "release", "confirm"}
           THEN wallet'.pending = TotalPending' + WithdrawalAmount[k.of]
           ELSE wallet'.pending = TotalPending'
  PROVE  Balanced'
<1>1. WalletInv
  BY DEF Balanced
<1>2. ~entangled => Only(h)
  BY AtWork
<1>3. ~entangled' => OneAtATime' /\ UpToDate' /\ AddsUp'
  BY <1>1, <1>2, WorkerGoesAlone
<1>4. ~entangled' /\ ~strayed' => TakenOpen' /\ ReservedForOpen'
  BY <1>1, <1>2, WorkerReserves
<1>5. QED
  BY <1>3, <1>4 DEF Balanced

LEMMA ReadingBalances ==
  ASSUME Balanced, WalletInv', NEW h \in MoneyWorker,
         \/ \E n \in Adjustment : ReadForAdjustment(h, n)
         \/ \E w \in Withdrawal :
              \/ ReadForRequest(h, w) \/ LoadForCancel(h, w)
              \/ \E op \in {"APPROVED", "REJECTED", "COMPLETED"} : LoadWithdrawal(h, w, op)
  PROVE  Balanced'
<1> USE DEF Jobs
<1>0. WalletInv /\ wallet \in SoundWallet
  BY DEF Balanced, WalletInv
<1>1. ASSUME NEW n \in Adjustment, ReadForAdjustment(h, n) PROVE Balanced'
  <2> DEFINE k == [pc |-> "adjust", by |-> n, seen |-> wallet]
  <2>1. k \in Adjusting
    BY <1>0, <1>1 DEF ReadForAdjustment, BalanceCovers, Adjusting
  <2>2. QED
    BY <1>1, <2>1, TakingUpBalances DEF ReadForAdjustment
<1>2. ASSUME NEW w \in Withdrawal, ReadForRequest(h, w) PROVE Balanced'
  <2> DEFINE k == [pc |-> "request", of |-> w, seen |-> wallet]
  <2>1. k \in Requesting
    BY <1>0, <1>2 DEF ReadForRequest, BalanceCovers, Requesting
  <2>2. QED
    BY <1>2, <2>1, TakingUpBalances DEF ReadForRequest
<1>3. ASSUME NEW w \in Withdrawal, withdrawal[w].status # "none",
             NEW op \in {"APPROVED", "REJECTED", "COMPLETED", "CANCELLED"},
             TakeUp(h, [pc |-> "loaded", of |-> w, op |-> op]),
             strayed' = (strayed \/ withdrawal[w].status \in Ended),
             UNCHANGED <<wallet, withdrawal, batch, taken>>
      PROVE  Balanced'
  <2> DEFINE k == [pc |-> "loaded", of |-> w, op |-> op]
  <2>1. k \in Deciding
    BY DEF Deciding
  <2>2. ~strayed' => withdrawal[w].status \in OpenStatus
    BY <1>0, <1>3 DEF WalletInv, WithdrawalStatus, Ended, OpenStatus
  <2>3. QED
    BY <1>3, <2>1, <2>2, TakingUpBalances
<1>4. ASSUME NEW w \in Withdrawal, LoadForCancel(h, w) PROVE Balanced'
  BY <1>3, <1>4 DEF LoadForCancel
<1>5. ASSUME NEW w \in Withdrawal, NEW op \in {"APPROVED", "REJECTED", "COMPLETED"},
             LoadWithdrawal(h, w, op)
      PROVE  Balanced'
  BY <1>3, <1>5 DEF LoadWithdrawal
<1>6. QED
  BY <1>1, <1>2, <1>4, <1>5

LEMMA TypesOfWallet ==
  ASSUME WalletInv
  PROVE  /\ wallet \in WalletType /\ wallet.balance \in Int /\ wallet.pending \in Int
         /\ wallet.earned \in Int /\ wallet.withdrawn \in Int
BY DEF WalletInv, SoundWallet, WalletType

\* What moves within the wallet leaves its sum, what comes in or goes out is accounted for.
LEMMA MovesAddUp ==
  ASSUME WalletInv, AddsUp, taken \in Int, NEW t \in Int, taken' = taken + t,
         NEW b \in Int, NEW p \in Int, NEW e \in Int, NEW w \in Int,
         Moved(b, p, e, w), b + p + w = e - t
  PROVE  AddsUp'
<1>1. PICK b0 \in Int, p0 \in Int, e0 \in Int, w0 \in Int :
        b0 = wallet.balance /\ p0 = wallet.pending /\ e0 = wallet.earned /\ w0 = wallet.withdrawn
  BY TypesOfWallet
<1>2. /\ wallet'.balance = b0 + b /\ wallet'.pending = p0 + p
      /\ wallet'.earned = e0 + e /\ wallet'.withdrawn = w0 + w
  BY <1>1 DEF Moved
<1>3. b0 + p0 + w0 = e0 - taken
  BY <1>1 DEF AddsUp
<1>4. (b0 + b) + (p0 + p) + (w0 + w) = (e0 + e) - (taken + t)
  BY <1>3
<1> QED BY <1>2, <1>4 DEF AddsUp

\* What is saved is what was read, moved by an amount.
LEMMA SavingBalances ==
  ASSUME Balanced, WalletInv', NEW h \in MoneyWorker,
         SaveAdjustment(h) \/ CommitRequest(h) \/ SaveRelease(h) \/ SaveDebit(h)
  PROVE  Balanced'
<1> DEFINE j == working[h]
           n == Amount(h)
<1>0. WalletInv /\ taken \in Int
  BY DEF Balanced
<1>1. /\ wallet \in WalletType /\ wallet.balance \in Int /\ wallet.pending \in Int
      /\ wallet.earned \in Int /\ wallet.withdrawn \in Int
  BY <1>0, TypesOfWallet
<1>2. AtRest \in Jobs /\ AtRest.pc = "idle"
  BY DEF Jobs, AtRest
<1>3. j # AtRest
  BY <1>2 DEF SaveAdjustment, CommitRequest, SaveRelease, SaveDebit
<1>4. /\ working' = [working EXCEPT ![h] = AtRest]
      /\ UNCHANGED <<batch, entangled, strayed>>
  BY DEF SaveAdjustment, CommitRequest, SaveRelease, SaveDebit, LayDown
<1>5. ~entangled => j.seen = wallet /\ AddsUp
  BY <1>3, AtWork DEF HasRead, SaveAdjustment, CommitRequest, SaveRelease, SaveDebit
<1>6. CASE SaveAdjustment(h)
  <2>1. j \in Adjusting
    BY <1>0, <1>6, JobByPc DEF SaveAdjustment
  <2>2. j.by \in Int /\ taken' \in Int /\ TotalPending' = TotalPending
    BY <1>0, <1>6, <2>1 DEF SaveAdjustment, Adjusting, TotalPending, AmountWith
  <2>3. PICK m \in Int : m = j.by
    BY <2>2
  <2>4. ASSUME ~entangled PROVE AddsUp' /\ wallet'.pending = wallet.pending
    <3>1. CASE m > 0
      <4>1. wallet' = SaveFields([wallet EXCEPT !.balance = @ + m, !.earned = @ + m],
                                 {"balance", "earned"})
        BY <1>5, <1>6, <2>3, <2>4, <3>1 DEF SaveAdjustment
      <4>2. Moved(m, 0, m, 0)
        BY <1>1, <4>1, WhatIsSaved
      <4>3. taken' = taken + 0
        BY <1>0, <1>6, <2>3, <3>1 DEF SaveAdjustment
      <4>4. m + 0 + 0 = m - 0
        OBVIOUS
      <4>5. AddsUp'
        BY <1>0, <1>5, <2>4, <4>2, <4>3, <4>4, MovesAddUp
      <4>6. QED
        BY <1>1, <4>2, <4>5 DEF Moved
    <3>2. CASE ~(m > 0)
      <4>1. wallet' = SaveFields([wallet EXCEPT !.balance = @ + m], {"balance"})
        BY <1>5, <1>6, <2>3, <2>4, <3>2 DEF SaveAdjustment
      <4>2. Moved(m, 0, 0, 0)
        BY <1>1, <4>1, WhatIsSaved
      <4>3. taken' = taken + (-m)
        BY <1>0, <1>6, <2>3, <3>2 DEF SaveAdjustment
      <4>4. m + 0 + 0 = 0 - (-m) /\ -m \in Int
        OBVIOUS
      <4>5. AddsUp'
        BY <1>0, <1>5, <2>4, <4>2, <4>3, <4>4, MovesAddUp
      <4>6. QED
        BY <1>1, <4>2, <4>5 DEF Moved
    <3>3. QED
      BY <3>1, <3>2
  <2>5. ~entangled /\ ~strayed => wallet.pending = TotalPending
    BY <1>3, <1>6, AtWork DEF Settling, SaveAdjustment
  <2>6. QED
    BY <1>2, <1>3, <1>4, <2>2, <2>4, <2>5, GoingOnBalances
<1>7. CASE CommitRequest(h)
  <2>1. j \in Requesting
    BY <1>0, <1>7, JobByPc DEF CommitRequest
  <2>2. n \in Nat /\ taken' = taken + 0 /\ j.of \in Withdrawal /\ n = WithdrawalAmount[j.of]
    BY <1>0, <1>7, <2>1 DEF CommitRequest, Requesting, Amount
  <2>3. PICK m \in Int : m = n /\ -m \in Int
    BY <2>2
  <2>4. ASSUME ~entangled PROVE AddsUp' /\ wallet'.pending = wallet.pending + n
    <3>1. wallet' = SaveFields(Reserved(wallet, m), {"balance", "pending"})
      BY <1>5, <1>7, <2>3, <2>4 DEF CommitRequest
    <3>2. Moved(-m, m, 0, 0)
      BY <1>1, <3>1, WhatIsSaved
    <3>3. (-m) + m + 0 = 0 - 0
      OBVIOUS
    <3>4. AddsUp'
      BY <1>0, <1>5, <2>2, <2>3, <2>4, <3>2, <3>3, MovesAddUp
    <3>5. QED
      BY <2>3, <3>2, <3>4 DEF Moved
  <2>5. ASSUME ~entangled, ~strayed PROVE wallet'.pending = TotalPending'
    <3> DEFINE r == [withdrawal[j.of] EXCEPT !.status = "PENDING"]
    <3>1. withdrawal[j.of].status = "none"
      BY <1>7, <2>5 DEF Balanced, TakenOpen, CommitRequest
    <3>2. r \in [status : WithdrawalStatus, retries : Nat] /\ r.status = "PENDING"
      BY <1>0, <2>2 DEF WalletInv, WithdrawalStatus
    <3>3. withdrawal' = [withdrawal EXCEPT ![j.of] = r]
      BY <1>7 DEF CommitRequest
    <3> HIDE DEF r
    <3>4. "none" \notin OpenStatus /\ "PENDING" \in OpenStatus
      BY DEF OpenStatus
    <3>5. TotalPending' = TotalPending + n /\ TotalPending \in Nat
      BY <1>0, <2>2, <3>1, <3>2, <3>3, <3>4, StatusMoves
    <3>6. wallet.pending = TotalPending
      BY <1>3, <1>7, <2>5, AtWork DEF Settling, CommitRequest
    <3>7. QED
      BY <2>4, <2>5, <3>5, <3>6
  <2>6. taken' \in Int
    BY <1>0, <2>2
  <2>7. QED
    BY <1>2, <1>3, <1>4, <2>4, <2>5, <2>6, GoingOnBalances
<1>8. CASE SaveRelease(h)
  <2>1. j \in Holding
    BY <1>0, <1>8, JobByPc DEF SaveRelease
  <2>2. n \in Nat /\ taken' = taken + 0 /\ TotalPending' = TotalPending
    BY <1>0, <1>8, <2>1 DEF SaveRelease, Holding, Amount, TotalPending, AmountWith
  <2>3. PICK m \in Int : m = n /\ -m \in Int
    BY <2>2
  <2>4. ASSUME ~entangled PROVE AddsUp' /\ wallet'.pending = wallet.pending - n
    <3>1. wallet' = SaveFields(Released(wallet, m), {"balance", "pending"})
      BY <1>5, <1>8, <2>3, <2>4 DEF SaveRelease
    <3>2. Moved(m, -m, 0, 0)
      BY <1>1, <3>1, WhatIsSaved
    <3>3. m + (-m) + 0 = 0 - 0
      OBVIOUS
    <3>4. AddsUp'
      BY <1>0, <1>5, <2>2, <2>3, <2>4, <3>2, <3>3, MovesAddUp
    <3>5. QED
      BY <1>1, <2>3, <3>2, <3>4 DEF Moved
  <2>5. ASSUME ~entangled, ~strayed PROVE wallet'.pending = TotalPending'
    <3>1. wallet.pending = TotalPending + n
      BY <1>3, <1>8, <2>5, AtWork DEF Settling, SaveRelease
    <3>2. TotalPending \in Nat
      BY <1>0, PendingIsNat
    <3>3. QED
      BY <1>1, <2>2, <2>4, <2>5, <3>1, <3>2
  <2>6. taken' \in Int
    BY <1>0, <2>2
  <2>7. QED
    BY <1>2, <1>3, <1>4, <2>4, <2>5, <2>6, GoingOnBalances
<1>9. CASE SaveDebit(h)
  <2>1. j \in Debiting
    BY <1>0, <1>9, JobByPc DEF SaveDebit
  <2>2. n \in Nat /\ taken' = taken + 0 /\ TotalPending' = TotalPending
    BY <1>0, <1>9, <2>1 DEF SaveDebit, Debiting, Amount, TotalPending, AmountWith
  <2>3. PICK m \in Int : m = n /\ -m \in Int
    BY <2>2
  <2>4. ASSUME ~entangled PROVE AddsUp' /\ wallet'.pending = wallet.pending
    <3>1. CASE BalanceCovers(wallet, m)
      <4>1. wallet' = SaveFields(Debited(wallet, m), {"balance", "withdrawn"})
        BY <1>5, <1>9, <2>3, <2>4, <3>1 DEF SaveDebit
      <4>2. Moved(-m, 0, 0, m)
        BY <1>1, <4>1, WhatIsSaved
      <4>3. (-m) + 0 + m = 0 - 0
        OBVIOUS
      <4>4. AddsUp'
        BY <1>0, <1>5, <2>2, <2>3, <2>4, <4>2, <4>3, MovesAddUp
      <4>5. QED
        BY <1>1, <4>2, <4>4 DEF Moved
    <3>2. CASE ~BalanceCovers(wallet, m)
      BY <1>0, <1>5, <1>9, <2>2, <2>3, <2>4, <3>2 DEF SaveDebit, AddsUp
    <3>3. QED
      BY <3>1, <3>2
  <2>5. ~entangled /\ ~strayed => wallet.pending = TotalPending
    BY <1>3, <1>9, AtWork DEF Settling, SaveDebit
  <2>6. taken' \in Int
    BY <1>0, <2>2
  <2>7. QED
    BY <1>2, <1>3, <1>4, <2>2, <2>4, <2>5, <2>6, GoingOnBalances
<1>10. QED
  BY <1>6, <1>7, <1>8, <1>9

\* A decision: its status is saved before the money moves.
LEMMA DecidingBalances ==
  ASSUME Balanced, WalletInv', NEW h \in MoneyWorker, SaveStatus(h)
  PROVE  Balanced'
<1> DEFINE j == working[h]
           n == Amount(h)
           r == [withdrawal[j.of] EXCEPT !.status = j.op]
<1>0. WalletInv /\ taken' \in Int /\ wallet' = wallet /\ j.pc = "loaded"
  BY DEF Balanced, SaveStatus
<1>1. j \in Deciding /\ j.of \in Withdrawal /\ n = WithdrawalAmount[j.of] /\ n \in Nat
      /\ j.op \in {"APPROVED", "REJECTED", "COMPLETED", "CANCELLED"}
  BY <1>0, JobByPc DEF Deciding, Amount
<1>2. j # AtRest
  BY <1>0 DEF AtRest
<1>3. /\ r \in [status : WithdrawalStatus, retries : Nat] /\ r.status = j.op
      /\ withdrawal' = [withdrawal EXCEPT ![j.of] = r]
  BY <1>0, <1>1 DEF WalletInv, WithdrawalStatus, SaveStatus
<1>4. ~entangled => AddsUp'
  BY <1>0, <1>2, AtWork DEF AddsUp, SaveStatus
<1>5. UNCHANGED <<batch, entangled, strayed>>
  BY DEF SaveStatus
<1>6. wallet.pending \in Int
  BY <1>0, TypesOfWallet
<1>7. ASSUME ~entangled, ~strayed
      PROVE  /\ withdrawal[j.of].status \in OpenStatus /\ wallet.pending = TotalPending
             /\ TotalPending \in Nat /\ TotalPending' \in Nat
             /\ j.op \in OpenStatus => TotalPending' = TotalPending
             /\ j.op \notin OpenStatus => TotalPending' = TotalPending - n
  <2>1. withdrawal[j.of].status \in OpenStatus
    BY <1>0, <1>7 DEF Balanced, TakenOpen
  <2>2. wallet.pending = TotalPending
    BY <1>0, <1>2, <1>7, AtWork DEF Settling
  <2> HIDE DEF r
  <2>3. QED
    BY <1>0, <1>1, <1>3, <2>1, <2>2, StatusMoves
<1> HIDE DEF r
<1>8. CASE j.op = "APPROVED"
  <2>1. working' = [working EXCEPT ![h] = AtRest] /\ AtRest \in Jobs /\ AtRest.pc = "idle"
    BY <1>8 DEF SaveStatus, LayDown, Jobs, AtRest
  <2>2. "APPROVED" \in OpenStatus
    BY DEF OpenStatus
  <2>3. ~entangled /\ ~strayed => wallet'.pending = TotalPending'
    BY <1>0, <1>7, <1>8, <2>2
  <2>4. QED
    BY <1>0, <1>2, <1>4, <1>5, <2>1, <2>3, GoingOnBalances
<1>9. CASE j.op # "APPROVED"
  <2> DEFINE k == [j EXCEPT !.pc = "saved"]
  <2>1. k \in Deciding /\ k.pc = "saved" /\ k.of = j.of
    BY <1>1 DEF Deciding
  <2>2. k \in Jobs
    BY <2>1 DEF Jobs
  <2>3. working' = [working EXCEPT ![h] = k]
    BY <1>9 DEF SaveStatus
  <2>4. j.op \notin OpenStatus
    BY <1>1, <1>9 DEF OpenStatus
  <2> HIDE DEF k
  <2>5. ~entangled /\ ~strayed => wallet'.pending = TotalPending' + WithdrawalAmount[k.of]
    BY <1>0, <1>1, <1>6, <1>7, <2>1, <2>4
  <2>6. QED
    BY <1>0, <1>2, <1>4, <1>5, <2>1, <2>2, <2>3, <2>5, GoingOnBalances
<1>10. QED
  BY <1>8, <1>9

\* What a decision is about to move is still reserved: it is never refused half way.
LEMMA ReadingForMoveBalances ==
  ASSUME Balanced, WalletInv', NEW h \in MoneyWorker, ReadWallet(h)
  PROVE  Balanced'
<1> DEFINE j == working[h]
           n == Amount(h)
<1>0. /\ WalletInv /\ taken' \in Int /\ wallet' = wallet /\ j.pc = "saved"
      /\ TotalPending' = TotalPending
      /\ UNCHANGED <<batch, entangled, strayed>>
  BY DEF Balanced, ReadWallet, TotalPending, AmountWith
<1>1. j \in Deciding /\ j.of \in Withdrawal /\ n = WithdrawalAmount[j.of] /\ n \in Nat
  BY <1>0, JobByPc DEF Deciding, Amount
<1>2. j # AtRest
  BY <1>0 DEF AtRest
<1>3. ~entangled => AddsUp'
  BY <1>0, <1>2, AtWork DEF AddsUp, ReadWallet
<1>4. ~entangled /\ ~strayed => wallet.pending = TotalPending + n
  BY <1>0, <1>2, AtWork DEF Settling
<1>5. TotalPending \in Nat
  BY <1>0, PendingIsNat
<1>6. CASE PendingCovers(wallet, n)
  <2> DEFINE k == [pc |-> IF j.op = "COMPLETED" THEN "confirm" ELSE "release",
                   of |-> j.of, seen |-> wallet]
  <2>1. k \in Holding
    BY <1>0, <1>1, <1>6 DEF Holding, PendingCovers, WalletInv
  <2>2. k \in Jobs /\ k.pc \in {"release", "confirm"} /\ k.of = j.of /\ k.seen = wallet
    BY <2>1 DEF Jobs
  <2>3. working' = [working EXCEPT ![h] = k]
    BY <1>6 DEF ReadWallet
  <2> HIDE DEF k
  <2>4. ~entangled /\ ~strayed => wallet'.pending = TotalPending' + WithdrawalAmount[k.of]
    BY <1>0, <1>1, <1>4, <2>2
  <2>5. QED
    BY <1>0, <1>2, <1>3, <2>2, <2>3, <2>4, GoingOnBalances
<1>7. CASE ~PendingCovers(wallet, n)
  <2>1. working' = [working EXCEPT ![h] = AtRest] /\ AtRest \in Jobs /\ AtRest.pc = "idle"
    BY <1>7 DEF ReadWallet, LayDown, Jobs, AtRest
  <2>2. ~(~entangled /\ ~strayed)
    BY <1>1, <1>4, <1>5, <1>7 DEF PendingCovers
  <2>3. QED
    BY <1>0, <1>2, <1>3, <2>1, <2>2, GoingOnBalances
<1>8. QED
  BY <1>6, <1>7

LEMMA ConfirmingBalances ==
  ASSUME Balanced, WalletInv', NEW h \in MoneyWorker, SaveConfirmation(h)
  PROVE  Balanced'
<1> DEFINE j == working[h]
           v == Confirmed(j.seen, Amount(h))
           k == [j EXCEPT !.pc = "debit", !.seen = v]
<1>0. /\ WalletInv /\ taken \in Int /\ taken' = taken + 0 /\ taken' \in Int /\ j.pc = "confirm"
      /\ TotalPending' = TotalPending
      /\ UNCHANGED <<batch, entangled, strayed>>
  BY DEF Balanced, SaveConfirmation, TotalPending, AmountWith
<1>1. j \in Holding /\ j.of \in Withdrawal /\ Amount(h) \in Nat
  BY <1>0, JobByPc DEF Holding, Amount
<1>2. j # AtRest
  BY <1>0 DEF AtRest
<1>3. PICK m \in Int : m = Amount(h) /\ -m \in Int
  BY <1>1
<1>4. k.pc = "debit" /\ k.seen = v /\ working' = [working EXCEPT ![h] = k]
  BY <1>1 DEF Holding, SaveConfirmation
<1>5. k \in Jobs
  <2>1. j.seen \in SoundWallet /\ PendingCovers(j.seen, Amount(h))
    BY <1>1 DEF Holding, PendingCovers, Amount
  <2>2. v \in SoundWallet
    BY <1>1, <2>1, MovesKeepSound
  <2>3. k \in Debiting
    BY <1>1, <2>2 DEF Holding, Debiting
  <2>4. QED
    BY <2>3 DEF Jobs
<1> HIDE DEF k
<1>6. wallet \in WalletType /\ wallet.pending \in Int
  BY <1>0, TypesOfWallet
<1>7. ASSUME ~entangled
      PROVE  v = wallet' /\ AddsUp' /\ wallet'.pending = wallet.pending + (-m)
  <2>1. j.seen = wallet /\ AddsUp
    BY <1>0, <1>2, <1>7, AtWork DEF HasRead
  <2>2. wallet' = SaveFields(Confirmed(wallet, m), {"pending", "withdrawn"})
    BY <1>3, <2>1 DEF SaveConfirmation
  <2>3. v = wallet'
    BY <1>3, <1>6, <2>1, <2>2, WhatIsSavedOfAttempts
  <2>4. Moved(0, -m, 0, m)
    BY <1>6, <2>2, WhatIsSaved
  <2>5. 0 + (-m) + m = 0 - 0
    OBVIOUS
  <2>6. AddsUp'
    BY <1>0, <1>3, <2>1, <2>4, <2>5, MovesAddUp
  <2>7. QED
    BY <2>3, <2>4, <2>6 DEF Moved
<1>8. ~entangled /\ ~strayed => wallet.pending = TotalPending + m
  BY <1>0, <1>2, <1>3, AtWork DEF Settling
<1>9. TotalPending \in Nat
  BY <1>0, PendingIsNat
<1>10. ~entangled /\ ~strayed => wallet'.pending = TotalPending'
  BY <1>0, <1>6, <1>7, <1>8, <1>9
<1>11. QED
  BY <1>0, <1>2, <1>4, <1>5, <1>7, <1>10, GoingOnBalances

\* What a run knows, if nobody is busy but it.
LEMMA AtRun ==
  ASSUME Balanced, ~entangled, NEW b \in Batch, NEW w \in DOMAIN batch[b]
  PROVE  /\ OnlyRun(b) /\ AddsUp
         /\ batch[b][w].op = "process" => DOMAIN batch[b] = {w}
         /\ ToProcess(b, w) => batch[b][w].seen = wallet
         /\ ~strayed => /\ wallet.pending = TotalPending
                        /\ \A u \in DOMAIN batch[b] :
                             /\ batch[b][u].status = withdrawal[u].status
                             /\ withdrawal[u].status \in OpenStatus
<1>1. OnlyRun(b) /\ AddsUp
  BY WhoIsBusyIsAlone DEF Balanced, Running
<1>2. \A g \in MoneyWorker : ~Settling(g)
  BY <1>1 DEF OnlyRun, Settling, AtRest
<1>3. /\ batch[b][w].op = "process" => DOMAIN batch[b] = {w}
      /\ ToProcess(b, w) => batch[b][w].seen = wallet
  BY DEF Balanced, OneAtATime, UpToDate
<1>4. QED
  BY <1>1, <1>2, <1>3 DEF Balanced, TakenOpen, ReservedForOpen

\* A run goes on with some rows.
LEMMA RunningBalances ==
  ASSUME Balanced, WalletInv', NEW b \in Batch, NEW rows,
         batch' = [batch EXCEPT ![b] = rows], UNCHANGED working, taken' \in Int,
         ~entangled' =>
           /\ OnlyRun(b) /\ AddsUp'
           /\ \A w \in DOMAIN rows :
                rows[w].op = "process" =>
                  DOMAIN rows = {w} /\ (rows[w].seen # NotRead => rows[w].seen = wallet'),
         ~entangled' /\ ~strayed' =>
           /\ wallet'.pending = TotalPending'
           /\ \A w \in DOMAIN rows : /\ rows[w].status = withdrawal'[w].status
                                    /\ withdrawal'[w].status \in OpenStatus
  PROVE  Balanced'
<1>1. WalletInv
  BY DEF Balanced
<1>2. ~entangled' => OneAtATime' /\ UpToDate' /\ AddsUp'
  BY <1>1, RunGoesAlone
<1>3. ~entangled' /\ ~strayed' => TakenOpen' /\ ReservedForOpen'
  BY <1>1, RunReserves
<1>4. QED
  BY <1>2, <1>3 DEF Balanced

\* Loading rows while nobody is busy.
LEMMA LoadingBalances ==
  ASSUME Balanced, WalletInv', NEW b \in Batch, NEW rows,
         batch' = [batch EXCEPT ![b] = rows], UNCHANGED <<wallet, withdrawal, working, taken>>,
         ~entangled' => ~entangled /\ ~SomebodyWorks, strayed => strayed',
         ~entangled' => \A w \in DOMAIN rows :
                          rows[w].op = "process" =>
                            DOMAIN rows = {w} /\ (rows[w].seen # NotRead => rows[w].seen = wallet),
         ~entangled' /\ ~strayed' =>
           \A w \in DOMAIN rows : /\ rows[w].status = withdrawal[w].status
                                 /\ withdrawal[w].status \in OpenStatus
  PROVE  Balanced'
<1>1. taken' \in Int /\ TotalPending' = TotalPending
  BY DEF Balanced, TotalPending, AmountWith
<1>2. ASSUME ~entangled' PROVE OnlyRun(b) /\ AddsUp' /\ \A g \in MoneyWorker : ~Settling(g)
  <2>1. OnlyRun(b) /\ \A g \in MoneyWorker : working[g] = AtRest
    BY <1>2, WhoStartsIsAlone
  <2>2. AddsUp'
    BY <1>2 DEF Balanced, AddsUp
  <2>3. QED
    BY <2>1, <2>2 DEF Settling, AtRest
<1>3. ~entangled' /\ ~strayed' => wallet'.pending = TotalPending'
  BY <1>1, <1>2 DEF Balanced, ReservedForOpen
<1>4. QED
  BY <1>1, <1>2, <1>3, RunningBalances

LEMMA BatchLoadingBalances ==
  ASSUME Balanced, WalletInv', NEW b \in Batch,
         LoadBatch(b) \/ LoadSmall(b) \/ \E w \in Withdrawal : LoadSingle(b, w)
  PROVE  Balanced'
<1>0. WalletInv
  BY DEF Balanced
<1>1. CASE LoadBatch(b)
  <2> DEFINE approved == WithStatus("APPROVED")
             rows == [w \in approved |-> Loaded(w, "process", wallet)]
  <2>1. ASSUME ~entangled' PROVE \E w : approved = {w}
    <3>1. IsFiniteSet(approved) /\ approved # {}
      BY <1>1, FS_Subset DEF LoadBatch, WithStatus
    <3>2. Cardinality(approved) \in Nat /\ Cardinality(approved) # 0 /\ ~(Cardinality(approved) > 1)
      BY <1>1, <2>1, <3>1, FS_CardinalityType, FS_EmptySet DEF LoadBatch
    <3>3. Cardinality(approved) = 1
      BY <3>2
    <3>4. QED
      BY <3>1, <3>3, FS_Singleton
  <2>2. \A w \in approved : withdrawal[w].status = "APPROVED"
    BY DEF WithStatus
  <2>3. batch' = [batch EXCEPT ![b] = rows] /\ DOMAIN rows = approved
    BY <1>1 DEF LoadBatch
  <2>4. \A w \in approved : /\ rows[w].seen = wallet
                            /\ rows[w].status = withdrawal[w].status
    BY DEF Loaded
  <2>5. "APPROVED" \in OpenStatus
    BY DEF OpenStatus
  <2> HIDE DEF rows, approved
  <2>6. QED
    BY <1>1, <2>1, <2>2, <2>3, <2>4, <2>5, LoadingBalances DEF LoadBatch
<1>2. CASE LoadSmall(b)
  <2> DEFINE small == {w \in WithStatus("PENDING") : WithdrawalAmount[w] <= SmallAmount}
             rows == [w \in small |-> Loaded(w, "approve", NotRead)]
  <2>1. batch' = [batch EXCEPT ![b] = rows] /\ DOMAIN rows = small
    BY <1>2 DEF LoadSmall
  <2>2. \A w \in small : /\ rows[w].op = "approve"
                         /\ rows[w].status = withdrawal[w].status
                         /\ withdrawal[w].status \in OpenStatus
    BY DEF Loaded, WithStatus, OpenStatus
  <2> HIDE DEF rows, small
  <2>3. QED
    BY <1>2, <2>1, <2>2, LoadingBalances DEF LoadSmall
<1>3. ASSUME NEW w \in Withdrawal, LoadSingle(b, w) PROVE Balanced'
  <2> DEFINE rows == [v \in {w} |-> Loaded(w, "process", NotRead)]
  <2>1. batch' = [batch EXCEPT ![b] = rows] /\ DOMAIN rows = {w}
    BY <1>3 DEF LoadSingle
  <2>2. rows[w].seen = NotRead /\ rows[w].status = withdrawal[w].status
    BY DEF Loaded
  <2>3. ~strayed' => withdrawal[w].status \in OpenStatus
    BY <1>0, <1>3 DEF LoadSingle, WalletInv, WithdrawalStatus, Ended, OpenStatus
  <2> HIDE DEF rows
  <2>4. QED
    BY <1>3, <2>1, <2>2, <2>3, LoadingBalances DEF LoadSingle
<1>4. QED
  BY <1>1, <1>2, <1>3

LEMMA ReadingForSingleBalances ==
  ASSUME Balanced, WalletInv', NEW b \in Batch, NEW w \in Withdrawal, ReadWalletOfSingle(b, w)
  PROVE  Balanced'
<1> DEFINE rows == [batch[b] EXCEPT ![w].seen = wallet]
<1>1. /\ WalletInv /\ taken' \in Int /\ TotalPending' = TotalPending
      /\ w \in DOMAIN batch[b] /\ batch[b][w].op = "process"
      /\ UNCHANGED <<wallet, withdrawal, working, taken, entangled, strayed>>
  BY DEF Balanced, ReadWalletOfSingle, TotalPending, AmountWith
<1>2. batch' = [batch EXCEPT ![b] = rows] /\ DOMAIN rows = DOMAIN batch[b]
  BY DEF ReadWalletOfSingle
<1>3. batch[b][w] \in Row
  BY <1>1, RowsOfBatch
<1>4. rows[w].seen = wallet /\ rows[w].status = batch[b][w].status
  BY <1>1, <1>3 DEF Row
<1>5. ASSUME ~entangled PROVE OnlyRun(b) /\ AddsUp' /\ DOMAIN rows = {w}
  BY <1>1, <1>2, <1>5, AtRun DEF AddsUp
<1>6. ASSUME ~entangled, ~strayed
      PROVE  /\ wallet.pending = TotalPending /\ batch[b][w].status = withdrawal[w].status
             /\ withdrawal[w].status \in OpenStatus
  BY <1>1, <1>6, AtRun
<1> HIDE DEF rows
<1>7. QED
  BY <1>1, <1>2, <1>4, <1>5, <1>6, RunningBalances

\* A run that approves is done with one row, the others stay as they are.
LEMMA ApprovingBalances ==
  ASSUME Balanced, WalletInv', NEW b \in Batch, NEW w \in Withdrawal, AutoApprove(b, w)
  PROVE  Balanced'
<1> DEFINE rows == [u \in DOMAIN batch[b] \ {w} |-> batch[b][u]]
           r == [withdrawal[w] EXCEPT !.status = "APPROVED"]
<1>1. /\ WalletInv /\ taken' \in Int /\ w \in DOMAIN batch[b]
      /\ UNCHANGED <<wallet, working, taken, entangled, strayed>>
  BY DEF Balanced, AutoApprove
<1>2. /\ batch' = [batch EXCEPT ![b] = rows] /\ DOMAIN rows = DOMAIN batch[b] \ {w}
      /\ \A u \in DOMAIN rows : rows[u] = batch[b][u]
  BY DEF AutoApprove, DoneWith
<1>3. /\ r \in [status : WithdrawalStatus, retries : Nat] /\ r.status = "APPROVED"
      /\ withdrawal' = [withdrawal EXCEPT ![w] = r]
  BY <1>1 DEF WalletInv, WithdrawalStatus, AutoApprove
<1> HIDE DEF rows, r
<1>4. \A u \in DOMAIN rows : withdrawal'[u] = withdrawal[u]
  <2>1. DOMAIN batch[b] \subseteq Withdrawal
    BY <1>1, RowsOfBatch
  <2>2. QED
    BY <1>1, <1>2, <1>3, <2>1 DEF WalletInv
<1>5. ASSUME ~entangled PROVE OnlyRun(b) /\ AddsUp'
  BY <1>1, <1>5, AtRun DEF AddsUp
<1>6. ASSUME ~entangled, NEW u \in DOMAIN rows PROVE rows[u].op # "process"
  <2>1. u \in DOMAIN batch[b] /\ u # w
    BY <1>2, <1>6
  <2>2. batch[b][u].op = "process" => DOMAIN batch[b] = {u}
    BY <1>6, <2>1, AtRun
  <2>3. QED
    BY <1>1, <1>2, <2>1, <2>2
<1>7. ASSUME ~entangled, ~strayed
      PROVE  /\ wallet.pending = TotalPending'
             /\ \A u \in DOMAIN rows : /\ rows[u].status = withdrawal'[u].status
                                      /\ withdrawal'[u].status \in OpenStatus
  <2>1. /\ wallet.pending = TotalPending
        /\ \A u \in DOMAIN batch[b] : /\ batch[b][u].status = withdrawal[u].status
                                     /\ withdrawal[u].status \in OpenStatus
    BY <1>1, <1>7, AtRun
  <2>2. "APPROVED" \in OpenStatus
    BY DEF OpenStatus
  <2>3. TotalPending' = TotalPending
    BY <1>1, <1>3, <2>1, <2>2, StatusMoves
  <2>4. QED
    BY <1>2, <1>4, <2>1, <2>3
<1>8. QED
  BY <1>1, <1>2, <1>5, <1>6, <1>7, RunningBalances

\* A run that processes a row has no other: it ends with it.
LEMMA EndingBalances ==
  ASSUME Balanced, WalletInv', NEW b \in Batch, NEW w \in Withdrawal, ToProcess(b, w),
         DoneWith(b, w), UNCHANGED <<working, entangled>>, taken' \in Int, strayed => strayed',
         ~entangled => AddsUp',
         ~entangled /\ ~strayed' => wallet'.pending = TotalPending'
  PROVE  Balanced'
<1> DEFINE rows == [u \in DOMAIN batch[b] \ {w} |-> batch[b][u]]
<1>1. w \in DOMAIN batch[b] /\ batch[b][w].op = "process"
  BY DEF ToProcess
<1>2. batch' = [batch EXCEPT ![b] = rows] /\ DOMAIN rows = DOMAIN batch[b] \ {w}
  BY DEF DoneWith
<1> HIDE DEF rows
<1>3. ~entangled => OnlyRun(b) /\ DOMAIN rows = {}
  BY <1>1, <1>2, AtRun
<1>4. QED
  BY <1>2, <1>3, RunningBalances

\* What a row that is processed becomes, and with it what is pending.
LEMMA OutcomeBalances ==
  ASSUME Balanced, NEW b \in Batch, NEW w \in Withdrawal, ToProcess(b, w),
         NEW r \in [status : WithdrawalStatus, retries : Nat],
         withdrawal' = [withdrawal EXCEPT ![w] = r], ~entangled, ~strayed
  PROVE  /\ wallet.pending \in Int /\ TotalPending' \in Nat
         /\ r.status \in OpenStatus => wallet.pending = TotalPending'
         /\ r.status \notin OpenStatus => wallet.pending = TotalPending' + WithdrawalAmount[w]
<1>1. /\ wallet.pending = TotalPending /\ withdrawal[w].status \in OpenStatus
  BY AtRun DEF ToProcess
<1>2. WalletInv /\ wallet.pending \in Int /\ WithdrawalAmount[w] \in Nat
  BY TypesOfWallet DEF Balanced
<1>3. /\ TotalPending \in Nat /\ TotalPending' \in Nat
      /\ r.status \in OpenStatus => TotalPending' = TotalPending
      /\ r.status \notin OpenStatus => TotalPending' = TotalPending - WithdrawalAmount[w]
  BY <1>1, <1>2, StatusMoves
<1>4. QED
  BY <1>1, <1>2, <1>3

LEMMA ProcessingBalances ==
  ASSUME Balanced, WalletInv', NEW b \in Batch, NEW w \in Withdrawal,
         \/ ProcessBankTransfer(b, w) \/ ProcessMobileMoney(b, w)
         \/ ProcessingRetries(b, w) \/ ProcessingFails(b, w)
  PROVE  Balanced'
<1> DEFINE x == batch[b][w]
<1>0. /\ ToProcess(b, w) /\ DoneWith(b, w) /\ UNCHANGED <<working, entangled>>
      /\ WalletInv /\ taken \in Int /\ taken' = taken + 0 /\ taken' \in Int
      /\ strayed => strayed'
  <2>1. WalletInv /\ taken \in Int
    BY DEF Balanced
  <2>2. ToProcess(b, w) /\ DoneWith(b, w) /\ UNCHANGED <<working, entangled, taken>>
    BY DEF ProcessBankTransfer, ProcessMobileMoney, ProcessingRetries, ProcessingFails
  <2>3. strayed => strayed'
    BY Zenon DEF ProcessBankTransfer, ProcessMobileMoney, ProcessingRetries, ProcessingFails
  <2>4. QED
    BY <2>1, <2>2, <2>3
<1>1. wallet \in WalletType /\ wallet.pending \in Int
  BY <1>0, TypesOfWallet
<1>2. PICK n \in Int : n = WithdrawalAmount[w] /\ -n \in Int /\ n + n \in Int /\ -n - n \in Int
  OBVIOUS
<1>3. ~entangled => x.seen = wallet /\ AddsUp
  BY <1>0, AtRun DEF ToProcess
<1>4. x \in Row /\ withdrawal[w] \in [status : WithdrawalStatus, retries : Nat]
  BY <1>0, RowsOfBatch DEF ToProcess, WalletInv
<1>5. /\ "COMPLETED" \notin OpenStatus /\ "FAILED" \notin OpenStatus
      /\ "APPROVED" \in OpenStatus /\ "PROCESSING" \in OpenStatus
  BY DEF OpenStatus
<1>6. CASE ProcessBankTransfer(b, w)
  <2> DEFINE r == [withdrawal[w] EXCEPT !.status = "PROCESSING"]
  <2>1. /\ r \in [status : WithdrawalStatus, retries : Nat] /\ r.status = "PROCESSING"
        /\ withdrawal' = [withdrawal EXCEPT ![w] = r] /\ wallet' = wallet /\ strayed' = strayed
    BY <1>4, <1>6 DEF WithdrawalStatus, ProcessBankTransfer
  <2> HIDE DEF r
  <2>2. ~entangled => AddsUp'
    BY <1>0, <1>3, <2>1 DEF AddsUp
  <2>3. ~entangled /\ ~strayed' => wallet'.pending = TotalPending'
    BY <1>0, <1>5, <2>1, OutcomeBalances
  <2>4. QED
    BY <1>0, <2>2, <2>3, EndingBalances
<1>7. CASE ProcessMobileMoney(b, w)
  <2> DEFINE r == [withdrawal[w] EXCEPT !.status = "COMPLETED"]
  <2>1. /\ r \in [status : WithdrawalStatus, retries : Nat] /\ r.status = "COMPLETED"
        /\ withdrawal' = [withdrawal EXCEPT ![w] = r] /\ strayed' = strayed
    BY <1>4, <1>7 DEF WithdrawalStatus, ProcessMobileMoney
  <2> HIDE DEF r
  <2>2. ASSUME ~entangled PROVE AddsUp' /\ wallet'.pending = wallet.pending + (-n)
    <3>1. wallet' = SaveFields(Debited(Confirmed(wallet, n), n),
                               {"balance", "pending", "withdrawn"})
      BY <1>2, <1>3, <1>7, <2>2 DEF ProcessMobileMoney, AfterAttempt, IsDebited
    <3>2. Moved(-n, -n, 0, n + n)
      BY <1>1, <3>1, WhatIsSavedOfAttempts
    <3>3. (-n) + (-n) + (n + n) = 0 - 0
      OBVIOUS
    <3>4. AddsUp'
      BY <1>0, <1>2, <1>3, <2>2, <3>2, <3>3, MovesAddUp
    <3>5. QED
      BY <3>2, <3>4 DEF Moved
  <2>3. ASSUME ~entangled, ~strayed' PROVE wallet'.pending = TotalPending'
    <3>1. wallet.pending = TotalPending' + n /\ TotalPending' \in Nat
      BY <1>0, <1>2, <1>5, <2>1, <2>3, OutcomeBalances
    <3>2. QED
      BY <1>1, <2>2, <2>3, <3>1
  <2>4. QED
    BY <1>0, <2>2, <2>3, EndingBalances
<1>8. CASE ProcessingRetries(b, w)
  <2> DEFINE r == [status |-> "APPROVED", retries |-> x.retries + 1]
  <2>1. /\ r \in [status : WithdrawalStatus, retries : Nat] /\ r.status = "APPROVED"
        /\ withdrawal' = [withdrawal EXCEPT ![w] = r]
    BY <1>4, <1>8 DEF WithdrawalStatus, Row, ProcessingRetries
  <2> HIDE DEF r
  <2>2. CASE IsConfirmed(x, n)
    <3>1. strayed'
      BY <1>2, <1>8, <2>2 DEF ProcessingRetries
    <3>2. ASSUME ~entangled PROVE AddsUp'
      <4>1. wallet' = SaveFields(Confirmed(wallet, n), {"pending", "withdrawn"})
        BY <1>2, <1>3, <1>8, <2>2, <3>2 DEF ProcessingRetries, AfterAttempt
      <4>2. Moved(0, -n, 0, n)
        BY <1>1, <4>1, WhatIsSaved
      <4>3. 0 + (-n) + n = 0 - 0
        OBVIOUS
      <4>4. QED
        BY <1>0, <1>2, <1>3, <3>2, <4>2, <4>3, MovesAddUp
    <3>3. QED
      BY <1>0, <3>1, <3>2, EndingBalances
  <2>3. CASE ~IsConfirmed(x, n)
    <3>1. wallet' = wallet /\ (~strayed' => ~strayed)
      BY <1>2, <1>8, <2>3 DEF ProcessingRetries
    <3>2. ~entangled => AddsUp'
      BY <1>0, <1>3, <3>1 DEF AddsUp
    <3>3. ~entangled /\ ~strayed' => wallet'.pending = TotalPending'
      BY <1>0, <1>5, <2>1, <3>1, OutcomeBalances
    <3>4. QED
      BY <1>0, <3>2, <3>3, EndingBalances
  <2>4. QED
    BY <2>2, <2>3
<1>9. CASE ProcessingFails(b, w)
  <2> DEFINE r == [status |-> "FAILED", retries |-> x.retries + 1]
             v == AfterAttempt(x, n)
  <2>1. r \in [status : WithdrawalStatus, retries : Nat] /\ r.status = "FAILED"
    BY <1>4 DEF WithdrawalStatus, Row
  <2>2. CASE ~PendingCovers(v, n)
    <3>1. UNCHANGED <<wallet, withdrawal, strayed>>
      BY <1>2, <1>9, <2>2 DEF ProcessingFails
    <3>2. ~entangled => AddsUp'
      BY <1>0, <1>3, <3>1 DEF AddsUp
    <3>3. ~entangled /\ ~strayed => wallet.pending = TotalPending
      BY <1>0, AtRun DEF ToProcess
    <3>4. TotalPending' = TotalPending
      BY <3>1 DEF TotalPending, AmountWith
    <3>5. QED
      BY <1>0, <3>1, <3>2, <3>3, <3>4, EndingBalances
  <2>3. CASE PendingCovers(v, n)
    <3>1. /\ wallet' = SaveFields(Released(v, n), {"balance", "pending", "withdrawn"})
          /\ withdrawal' = [withdrawal EXCEPT ![w] = r]
          /\ strayed' = (strayed \/ IsConfirmed(x, n))
      BY <1>2, <1>9, <2>3 DEF ProcessingFails
    <3> HIDE DEF r
    <3>2. CASE IsConfirmed(x, n)
      <4>1. ASSUME ~entangled PROVE AddsUp'
        <5>1. v = Confirmed(wallet, n)
          BY <1>3, <3>2, <4>1 DEF AfterAttempt
        <5>2. Moved(n, -n - n, 0, n)
          BY <1>1, <3>1, <5>1, WhatIsSavedOfAttempts
        <5>3. PICK m \in Int : m = -n - n /\ n + m + n = 0 - 0
          OBVIOUS
        <5>4. Moved(n, m, 0, n)
          BY <5>2, <5>3
        <5>5. QED
          BY <1>0, <1>3, <4>1, <5>3, <5>4, MovesAddUp
      <4>2. QED
        BY <1>0, <3>1, <3>2, <4>1, EndingBalances
    <3>3. CASE ~IsConfirmed(x, n)
      <4>1. ASSUME ~entangled PROVE AddsUp' /\ wallet'.pending = wallet.pending + (-n)
        <5>1. v = wallet
          BY <1>3, <3>3, <4>1 DEF AfterAttempt
        <5>2. Moved(n, -n, 0, 0)
          BY <1>1, <3>1, <5>1, WhatIsSaved
        <5>3. n + (-n) + 0 = 0 - 0
          OBVIOUS
        <5>4. AddsUp'
          BY <1>0, <1>2, <1>3, <4>1, <5>2, <5>3, MovesAddUp
        <5>5. QED
          BY <5>2, <5>4 DEF Moved
      <4>2. ASSUME ~entangled, ~strayed' PROVE wallet'.pending = TotalPending'
        <5>1. wallet.pending = TotalPending' + n /\ TotalPending' \in Nat
          BY <1>0, <1>2, <1>5, <2>1, <3>1, <4>2, OutcomeBalances
        <5>2. QED
          BY <1>1, <4>1, <4>2, <5>1
      <4>3. QED
        BY <1>0, <4>1, <4>2, EndingBalances
    <3>4. QED
      BY <3>2, <3>3
  <2>4. QED
    BY <2>2, <2>3
<1>10. QED
  BY <1>6, <1>7, <1>8, <1>9

LEMMA BalancedNext == Balanced /\ [WalletNext]_walletVars => Balanced'
<1> SUFFICES ASSUME Balanced, [WalletNext]_walletVars PROVE Balanced'
  OBVIOUS
<1>1. WalletInv'
  BY WalletInvNext DEF Balanced
<1>2. CASE UNCHANGED walletVars
  BY <1>1, <1>2 DEF walletVars, Balanced, OneAtATime, UpToDate, AddsUp, TakenOpen,
                    ReservedForOpen, Running, Settling, HasRead, ToProcess, TotalPending,
                    AmountWith, Amount
<1>3. CASE WalletNext
  BY <1>1, <1>3, ReadingBalances, SavingBalances, DecidingBalances, ReadingForMoveBalances,
     ConfirmingBalances, BatchLoadingBalances, ReadingForSingleBalances, ApprovingBalances,
     ProcessingBalances DEF WalletNext
<1>4. QED
  BY <1>2, <1>3

\* As long as requests and tasks come one after the other, however often they fail half way,
\* a wallet's fields add up, and what it has reserved is what get_stats calls pending, but
\* for withdrawals that were taken up again after their end, or paid by half.
THEOREM WalletBalances == WalletSpec => []SerialWalletBalances
<1>1. Balanced => SerialWalletBalances
  <2> SUFFICES ASSUME Balanced PROVE SerialWalletBalances
    OBVIOUS
  <2>1. SerialWalletAddsUp
    BY DEF Balanced, AddsUp, SerialWalletAddsUp
  <2>2. SerialReservedIsOpen
    BY DEF Balanced, ReservedForOpen, SerialReservedIsOpen, SomebodyWorks, Settling, AtRest
  <2>3. QED
    BY <2>1, <2>2 DEF SerialWalletBalances
<1>2. QED
  BY <1>1, BalancedInit, BalancedNext, PTL DEF WalletSpec
================================================================================
