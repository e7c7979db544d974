------------------------------- MODULE Commission -------------------------------
(* The commission offer of one event and its acceptances by super-sellers,    *)
(* and how the price of a ticket is then divided.  A handler reads the offer  *)
(* and the acceptance, checks, and saves later: the offer's counter from the  *)
(* instance it has read, the rows as a whole.                                 *)
EXTENDS Integers, FiniteSets

CONSTANTS
  SuperSeller,    \* organizations of type SUPER_SELLER
  Percentage,     \* percentages offered and promised
  OfferWorker,    \* web processes
  WuloPercentage, \* what WuloEvents retains
  TicketPrice,    \* prices of tickets
  MaxOfferCalls   \* bound: handlers that start

ASSUME PercentageAssumption ==
  /\ Percentage \subseteq 1..100
  /\ WuloPercentage \in 0..100
  /\ TicketPrice \subseteq Nat

VARIABLES
  offer,       \* the EventCommissionOffer row, NoOffer without one
  acceptance,  \* acceptance[s]: the SuperSellerOfferAcceptance row, NoAcceptance without one
  lapsed,      \* the offers' last day, where they have one, is over
  offering,    \* offering[w]: what a web process is doing
  overlapping, \* two handlers have been under way at once (history)
  offerCalls

commissionVars == <<offer, acceptance, lapsed, offering, overlapping, offerCalls>>

--------------------------------------------------------------------------------

NoOffer      == [status |-> "none", percentage |-> 0, total |-> 0, dated |-> FALSE]
NoAcceptance == [status |-> "none", share |-> 0, dated |-> FALSE]
OfferIdle    == [pc |-> "rest"]

UnderOffer(w, pc) == offering[w].pc = pc
Finish(w)         == offering' = [offering EXCEPT ![w] = OfferIdle]
NobodyElse(w)     == \A x \in OfferWorker \ {w} : UnderOffer(x, "rest")

Enter(w, call) ==
  /\ UnderOffer(w, "rest")
  /\ offerCalls < MaxOfferCalls /\ offerCalls' = offerCalls + 1
  /\ offering' = [offering EXCEPT ![w] = call]
  /\ overlapping' = (overlapping \/ ~NobodyElse(w))

\* clean: what every save of an acceptance refuses, seen with the offer o.
MinPercentage    == 10
CleanShare(o, share) == share <= o.percentage
CleanOffer(p)    == p >= MinPercentage

\* (A faulty variant: every acceptance is counted.)
CountsAlways(row) == TRUE

\* SuperSellerOfferAcceptance.save: the first time it is saved as ACCEPTED it gets a date,
\* and the counter of the offer it holds goes up by one.
CountsNow(row) == ~row.dated

--------------------------------------------------------------------------------

CreateOffer(p, dated) ==
  /\ offer = NoOffer /\ CleanOffer(p)
  /\ offer' = [status |-> "ACTIVE", percentage |-> p, total |-> 0, dated |-> dated]
  /\ UNCHANGED <<acceptance, lapsed, offering, overlapping, offerCalls>>

\* pause and activate save the status alone.
PauseOrActivate(status) ==
  /\ offer # NoOffer
  /\ offer' = [offer EXCEPT !.status = status]
  /\ UNCHANGED <<acceptance, lapsed, offering, overlapping, offerCalls>>

\* valid_until passes; nothing is written.
LastDayPasses ==
  /\ ~lapsed /\ lapsed' = TRUE
  /\ UNCHANGED <<offer, acceptance, offering, overlapping, offerCalls>>

\* update: the whole row as it was read, with the new percentage, or without its last day.
BeginEditOffer(w, p, dated) ==
  /\ offer # NoOffer /\ CleanOffer(p) /\ (dated => offer.dated)
  /\ Enter(w, [pc |-> "edit", row |-> [offer EXCEPT !.percentage = p, !.dated = dated]])
  /\ UNCHANGED <<offer, acceptance, lapsed>>

SaveOffer(w) ==
  /\ UnderOffer(w, "edit")
  /\ offer' = offering[w].row
  /\ Finish(w)
  /\ UNCHANGED <<acceptance, lapsed, overlapping, offerCalls>>

\* What super-sellers find: what is ACTIVE and not past its last day.
Expired == offer.dated /\ lapsed
Listed  == offer.status = "ACTIVE" /\ ~Expired

\* accept: the offer must be listed and not accepted yet; the share must be within it.
BeginAcceptOffer(w, s, share) ==
  /\ Listed
  /\ acceptance[s].status # "ACCEPTED" /\ CleanShare(offer, share)
  /\ Enter(w, [pc |-> IF CountsNow(acceptance[s]) THEN "count" ELSE "accept",
               who |-> s, read |-> offer, row |-> acceptance[s],
               new |-> [status |-> "ACCEPTED", share |-> share, dated |-> TRUE]])
  /\ UNCHANGED <<offer, acceptance, lapsed>>

\* offer.total_accepted += 1 on the offer read at the start.
SaveCount(w) ==
  /\ UnderOffer(w, "count")
  /\ offer' = [offer EXCEPT !.total = offering[w].read.total + 1]
  /\ offering' = [offering EXCEPT ![w].pc = "accept"]
  /\ UNCHANGED <<acceptance, lapsed, overlapping, offerCalls>>

\* A second row for the same super-seller is refused, after the counter was saved.
SaveAcceptance(w) ==
  /\ UnderOffer(w, "accept")
  /\ LET call == offering[w]
         taken == call.row = NoAcceptance /\ acceptance[call.who] # NoAcceptance
     IN acceptance' = IF taken THEN acceptance
                      ELSE [acceptance EXCEPT ![call.who] = call.new]
  /\ Finish(w)
  /\ UNCHANGED <<offer, lapsed, overlapping, offerCalls>>

\* reject, update_or_create under a row lock; clean refuses it where the share that was
\* promised is now above the offer.
RejectOffer(s, w) ==
  /\ Listed /\ UnderOffer(w, "rest")
  /\ CleanShare(offer, acceptance[s].share)
  /\ acceptance' = [acceptance EXCEPT ![s].status = "REJECTED"]
  /\ overlapping' = (overlapping \/ ~NobodyElse(w))
  /\ UNCHANGED <<offer, lapsed, offering, offerCalls>>

\* update_acceptance: the whole row as it was read, with the new share.
BeginChangeShare(w, s, share) ==
  /\ acceptance[s] # NoAcceptance /\ CleanShare(offer, share)
  /\ Enter(w, [pc |-> "accept", who |-> s, row |-> acceptance[s],
               new |-> [acceptance[s] EXCEPT !.share = share]])
  /\ UNCHANGED <<offer, acceptance, lapsed>>

--------------------------------------------------------------------------------
(* calculate_distribution, in millionths of the price's unit: percentages of  *)
(* percentages of percentages of a price are then whole numbers.              *)

WuloAmount(price) == price * WuloPercentage * 10000
AfterWulo(price)  == price * (100 - WuloPercentage) * 10000
OrganizationAmount(price) ==
  IF offer.status = "ACTIVE" THEN (AfterWulo(price) \div 100) * offer.percentage ELSE 0
SuperSellerAmount(price) == AfterWulo(price) - OrganizationAmount(price)
\* (A faulty variant: the share is taken of the whole price.)
SellerAmountOfPrice(price, s) ==
  IF acceptance[s].status = "ACCEPTED" THEN price * acceptance[s].share * 10000 ELSE 0

\* An acceptance counts whatever the status of its offer is.
SellerAmount(price, s) ==
  IF acceptance[s].status = "ACCEPTED"
  THEN (SuperSellerAmount(price) \div 100) * acceptance[s].share ELSE 0
FinalSuperSellerAmount(price, s) == SuperSellerAmount(price) - SellerAmount(price, s)

--------------------------------------------------------------------------------
(* What is shown: the offer's statistics to its organization, which counts    *)
(* the rows, and to a super-seller what he has made of the offer.             *)

With(status) == {s \in SuperSeller : acceptance[s].status = status}
OfferStats ==
  [all |-> Cardinality({s \in SuperSeller : acceptance[s] # NoAcceptance}),
   accepted |-> Cardinality(With("ACCEPTED")), rejected |-> Cardinality(With("REJECTED")),
   expired |-> Expired]

\* (A faulty variant: any answer counts as an acceptance.)
HasAnswered(s) == acceptance[s] # NoAcceptance

\* has_accepted and my_acceptance: nothing while the offer is not listed.
HasAccepted(s)    == acceptance[s].status = "ACCEPTED"
ShownAccepted(s)  == Listed /\ HasAccepted(s)
ShownShare(s)     == IF Listed /\ acceptance[s] # NoAcceptance THEN acceptance[s].share ELSE 0

--------------------------------------------------------------------------------

CommissionInit ==
  /\ offer = NoOffer
  /\ acceptance = [s \in SuperSeller |-> NoAcceptance]
  /\ lapsed = FALSE
  /\ offering = [w \in OfferWorker |-> OfferIdle]
  /\ overlapping = FALSE /\ offerCalls = 0

CommissionNext ==
  \/ LastDayPasses
  \/ \E p \in Percentage, dated \in BOOLEAN : CreateOffer(p, dated)
  \/ \E status \in {"PAUSED", "ACTIVE"} : PauseOrActivate(status)
  \/ \E w \in OfferWorker :
        \/ SaveOffer(w) \/ SaveCount(w) \/ SaveAcceptance(w)
        \/ \E p \in Percentage, dated \in BOOLEAN : BeginEditOffer(w, p, dated)
        \/ \E s \in SuperSeller : RejectOffer(s, w)
        \/ \E s \in SuperSeller, p \in Percentage :
              BeginAcceptOffer(w, s, p) \/ BeginChangeShare(w, s, p)

CommissionSpec == CommissionInit /\ [][CommissionNext]_commissionVars

--------------------------------------------------------------------------------

\* "Nombre de super-vendeurs ayant accepté": when no two handlers have overlapped and none is
\* under way, the counter is the number of super-sellers who have ever accepted, however often
\* they rejected and accepted again.
SerialAcceptancesCounted ==
  ~overlapping /\ (\A w \in OfferWorker : UnderOffer(w, "rest")) =>
    offer.total = Cardinality({s \in SuperSeller : acceptance[s].dated})

\* The parts of a price are what it is divided into: none is negative and together they are
\* the price, whatever became of the offer after it was accepted.
PriceIsDivided ==
  \A price \in TicketPrice, s \in SuperSeller :
    /\ FinalSuperSellerAmount(price, s) >= 0
    /\ WuloAmount(price) + OrganizationAmount(price) + SellerAmount(price, s)
         + FinalSuperSellerAmount(price, s) = price * 1000000

\* What is shown agrees with what is paid: a super-seller who is shown an acceptance has a
\* seller's part of every price, of the share he is shown; one who is shown a rejection has
\* none, and the statistics never count more acceptances than the offer's own counter does.
BoardAgrees ==
  /\ \A s \in SuperSeller : Listed =>
       \A price \in TicketPrice \ {0} :
         SellerAmount(price, s) =
           IF ShownAccepted(s) THEN (SuperSellerAmount(price) \div 100) * ShownShare(s) ELSE 0
  /\ OfferStats.accepted + OfferStats.rejected = OfferStats.all
  /\ ~overlapping /\ (\A w \in OfferWorker : UnderOffer(w, "rest")) =>
       OfferStats.accepted <= offer.total

\* All three: what an offer counts, what the acceptances of it are worth and what is shown of
\* them stay right together.
OfferIsHonoured == SerialAcceptancesCounted /\ PriceIsDivided /\ BoardAgrees

CommissionTypeOK ==
  /\ offer \in [status : {"none", "ACTIVE", "PAUSED"}, percentage : 0..100, total : Nat, dated : BOOLEAN]
  /\ lapsed \in BOOLEAN
  /\ acceptance \in [SuperSeller -> [status : {"none", "ACCEPTED", "REJECTED"},
                                     share : 0..100, dated : BOOLEAN]]
  /\ \A w \in OfferWorker : offering[w].pc \in {"rest", "edit", "count", "accept"}
  /\ overlapping \in BOOLEAN /\ offerCalls \in 0..MaxOfferCalls
================================================================================
