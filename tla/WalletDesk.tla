------------------------------- MODULE WalletDesk -------------------------------
(* What a seller sees of his wallet and an administrator adds to it: the      *)
(* balance, the journal of its movements and the statistics.                  *)
(*                                                                            *)
(* Every call first looks for the seller's profile by the user alone and, if  *)
(* he has none, makes one, which belongs to no super-seller; invitations make *)
(* others.  The constraint of the table keeps <user, super-seller> apart, but *)
(* not two profiles without a super-seller.  With two profiles, or more, the  *)
(* look raises, and the user never gets to a wallet again.                    *)
(*                                                                            *)
(* A movement is a transaction: it computes from the row it has read, saves   *)
(* the fields it changes and adds a row to the journal.                       *)
EXTENDS Integers, Sequences, SequencesExt, FiniteSets, FiniteSetsExt, Sums

CONSTANTS
  Earner,        \* users who may sell
  DeskStaff,     \* those who may adjust a wallet: their own, since others are not found
  Inviter,       \* super-sellers
  Correction,    \* amounts of an adjustment
  Teller,        \* web workers
  MaxProfiles,   \* bound: profiles
  MaxVisits      \* bound: calls

ASSUME WalletDeskAssumption ==
  /\ DeskStaff \subseteq Earner /\ "nobody" \notin Earner /\ "none" \notin Inviter
  /\ Correction \subseteq Int /\ MaxProfiles \in Nat /\ MaxVisits \in Nat

VARIABLES
  card,      \* card[n]: the n-th Seller row, or NoCard
  purse,     \* purse[n]: its SellerWallet
  journal,   \* journal[n]: its WalletTransactions, in order
  teller,    \* teller[t]: a call, with what it has read
  told,      \* the statistics that were answered, with the profile they are of
  mingled,   \* profiles two movements, or a movement and a reading, were at (history)
  twiceNew,  \* users whose first calls overlapped (history)
  visits

walletDeskVars == <<card, purse, journal, teller, told, mingled, twiceNew, visits>>

Card      == 1..MaxProfiles
NoCard    == [of |-> "nobody", from |-> "none"]
NoTeller  == [pc |-> "away"]
Empty     == [balance |-> 0, earned |-> 0]

CardsOf(u)   == {n \in Card : card[n].of = u}
NextCard     == Cardinality({n \in Card : card[n] # NoCard}) + 1
CountVisit   == visits < MaxVisits /\ visits' = visits + 1
GoAway(t)    == teller' = [teller EXCEPT ![t] = NoTeller]
AtPurse(n)   == {t \in Teller : teller[t].pc \in {"move", "count"} /\ teller[t].at = n}
NewHere(u)   == {t \in Teller : teller[t].pc = "create" /\ teller[t].of = u}

\* create_seller_wallet: every new profile gets a wallet, and get_or_create makes up for it.
NewProfile(u, s) ==
  /\ NextCard \in Card
  /\ card' = [card EXCEPT ![NextCard] = [of |-> u, from |-> s]]

--------------------------------------------------------------------------------
(* get_seller                                                                 *)

\* An invitation that is accepted: a profile of its own for every super-seller.
JoinTeam(u, s) ==
  /\ ~\E n \in CardsOf(u) : card[n].from = s
  /\ CountVisit
  /\ NewProfile(u, s)
  /\ UNCHANGED <<purse, journal, teller, told, mingled, twiceNew>>

\* (A faulty variant: a profile is made on every visit.)
OpenDeskAlways(t, u) ==
  /\ teller[t] = NoTeller /\ CountVisit
  /\ teller' = [teller EXCEPT ![t] = [pc |-> "create", of |-> u]]
  /\ twiceNew' = IF NewHere(u) # {} THEN twiceNew \cup {u} ELSE twiceNew
  /\ UNCHANGED <<card, purse, journal, told, mingled>>

FirstVisit(t, u) ==
  /\ teller[t] = NoTeller /\ CardsOf(u) = {} /\ CountVisit
  /\ teller' = [teller EXCEPT ![t] = [pc |-> "create", of |-> u]]
  /\ twiceNew' = IF NewHere(u) # {} THEN twiceNew \cup {u} ELSE twiceNew
  /\ UNCHANGED <<card, purse, journal, told, mingled>>

\* Nothing in the database stops a second one.
CreateCard(t) ==
  /\ teller[t].pc = "create"
  /\ NewProfile(teller[t].of, "none")
  /\ GoAway(t)
  /\ UNCHANGED <<purse, journal, told, mingled, twiceNew, visits>>

\* The one profile of a user who has one.
Found(u, n) == CardsOf(u) = {n}

TakeUpPurse(t, n, job) ==
  /\ teller[t] = NoTeller
  /\ teller' = [teller EXCEPT ![t] = job]
  /\ mingled' = IF AtPurse(n) # {} THEN mingled \cup {n} ELSE mingled

--------------------------------------------------------------------------------
(* adjust_wallet                                                              *)

\* WalletAdjustmentSerializer: an amount, either way, and a reason.
IsAdjustment(amount) == amount # 0

\* SellerWallet.debit refuses what the balance does not cover.
BeginMove(t, u, n, amount) ==
  /\ u \in DeskStaff /\ Found(u, n) /\ IsAdjustment(amount)
  /\ amount < 0 => purse[n].balance + amount >= 0
  /\ CountVisit
  /\ TakeUpPurse(t, n, [pc |-> "move", at |-> n, seen |-> purse[n], amount |-> amount])
  /\ UNCHANGED <<card, purse, journal, told, twiceNew>>

\* (A faulty variant: what is taken is written down as if it had been given.)
UnsignedMovement(p, amount) ==
  [amount |-> IF amount < 0 THEN 0 - amount ELSE amount, after |-> p.balance]

\* WalletTransaction: the amount, negative for a debit, and the balance after it.
Movement(p, amount) == [amount |-> amount, after |-> p.balance]

SaveMove(t) ==
  /\ teller[t].pc = "move"
  /\ LET n == teller[t].at
         amount == teller[t].amount
         new == [teller[t].seen EXCEPT !.balance = @ + amount,
                                       !.earned = @ + IF amount > 0 THEN amount ELSE 0]
     IN /\ purse' = [purse EXCEPT ![n] = [balance |-> new.balance,
                                          earned  |-> IF amount > 0 THEN new.earned ELSE @.earned]]
        /\ journal' = [journal EXCEPT ![n] = Append(@, Movement(new, amount))]
  /\ GoAway(t)
  /\ UNCHANGED <<card, told, mingled, twiceNew, visits>>

--------------------------------------------------------------------------------
(* get_stats: the wallet and the number of its movements, then their sum      *)

\* What the rows give and take, and Sum("amount"), which is the difference.
Given(rows) == [i \in DOMAIN rows |-> IF rows[i].amount > 0 THEN rows[i].amount ELSE 0]
Taken(rows) == [i \in DOMAIN rows |-> IF rows[i].amount < 0 THEN 0 - rows[i].amount ELSE 0]
SumOf(rows) == TotalOf(Given(rows), DOMAIN rows) - TotalOf(Taken(rows), DOMAIN rows)

BeginStats(t, u, n) ==
  /\ Found(u, n) /\ CountVisit
  /\ TakeUpPurse(t, n, [pc |-> "count", at |-> n, seen |-> purse[n], rows |-> Len(journal[n])])
  /\ UNCHANGED <<card, purse, journal, told, twiceNew>>

\* Only the totals of a type are sent: there is one for every type that has a movement.
AnswerStats(t) ==
  /\ teller[t].pc = "count"
  /\ LET n == teller[t].at
     IN told' = [of |-> n, balance |-> teller[t].seen.balance, rows |-> teller[t].rows,
                 total |-> SumOf(journal[n]), counted |-> Len(journal[n])]
  /\ GoAway(t)
  /\ UNCHANGED <<card, purse, journal, mingled, twiceNew, visits>>

\* get_transactions: the newest first, at most the limit; and how many there are.
History(n, limit) ==
  LET rows == Reverse(journal[n])
  IN [count |-> Len(rows), results |-> SubSeq(rows, 1, Min({limit, Len(rows)}))]

CallFails(t) ==
  /\ teller[t] # NoTeller
  /\ GoAway(t)
  /\ UNCHANGED <<card, purse, journal, told, mingled, twiceNew, visits>>

--------------------------------------------------------------------------------
WalletDeskInit ==
  /\ card = [n \in Card |-> NoCard]
  /\ purse = [n \in Card |-> Empty] /\ journal = [n \in Card |-> <<>>]
  /\ teller = [t \in Teller |-> NoTeller]
  /\ told = [of |-> 0] /\ mingled = {} /\ twiceNew = {} /\ visits = 0

WalletDeskNext ==
  \/ \E u \in Earner, s \in Inviter : JoinTeam(u, s)
  \/ \E t \in Teller :
       \/ CreateCard(t) \/ SaveMove(t) \/ AnswerStats(t) \/ CallFails(t)
       \/ \E u \in Earner : \/ FirstVisit(t, u)
                            \/ \E n \in Card : \/ BeginStats(t, u, n)
                                               \/ \E a \in Correction : BeginMove(t, u, n, a)

WalletDeskSpec == WalletDeskInit /\ [][WalletDeskNext]_walletDeskVars

--------------------------------------------------------------------------------
(* Properties                                                                 *)

\* The balance of a wallet is the sum of its journal, every row of the journal has the balance
\* that the rows up to it make, and what was earned is what was given, as long as no two
\* adjustments were at it at once.
SerialJournalAddsUp ==
  \A n \in Card \ mingled :
    /\ purse[n].balance = SumOf(journal[n])
    /\ purse[n].earned = TotalOf(Given(journal[n]), DOMAIN journal[n])
    /\ \A i \in DOMAIN journal[n] : journal[n][i].after = SumOf(SubSeq(journal[n], 1, i))
    /\ \A k \in 0..2 :
         LET h == History(n, k) IN
         k # 0 /\ h.count # 0 => Head(h.results).after = purse[n].balance

\* The statistics that are answered agree with themselves: the balance is the total of the
\* movements, and as many were counted as were summed up.
SerialStatsAgree ==
  told.of # 0 /\ told.of \notin mingled => told.balance = told.total /\ told.rows = told.counted

\* Who never accepted an invitation always gets to his wallet, unless his first two visits
\* were at the same time.
DeskStaysOpen ==
  \A u \in Earner \ twiceNew :
    (\A n \in CardsOf(u) : card[n].from = "none") => Cardinality(CardsOf(u)) <= 1

\* All three.
WalletDeskSound == SerialJournalAddsUp /\ SerialStatsAgree /\ DeskStaysOpen

WalletDeskTypeOK ==
  /\ \A n \in Card : card[n] # NoCard => card[n].of \in Earner /\ card[n].from \in Inviter \cup {"none"}
  /\ purse \in [Card -> [balance : Int, earned : Nat]]
  /\ \A t \in Teller : teller[t].pc \in {"away", "create", "move", "count"}
================================================================================
