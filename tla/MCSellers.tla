------------------------------- MODULE MCSellers -------------------------------
(* Small instances, for TLC, of the modules about super-sellers and their     *)
(* sellers.  They share no variable: "part" says which of them moves, and the *)
(* states of a run are the union of the components' own.                      *)
EXTENDS SellerWallet, SellerNetwork, Delivery, Commission, SalesFigures,
        Access, WalletDesk, StockAlerts

VARIABLE part

CONSTANTS wd1, wd2, ann, show1, show2, org1, org2

sellersVars == <<walletVars, sellerVars, deliveryVars, commissionVars, figuresVars,
                 accessVars, walletDeskVars, alertVars, part>>

TwoEachWay  == [w \in Withdrawal |-> 2]
SecondByBank == {wd2}
\* One view of each kind, and one action for each kind of row.
Asked ==
  ({"event"} \X {"create_private", "deactivate", "get_events_by_organization", "destroy"})
    \cup ({"ticket"} \X {"create", "update", "destroy"}) \cup {<<"withdraw", "create">>}
    \cup {<<"coupon", "list">>, <<"discount", "update">>, <<"room", "create">>}
    \cup {<<"organization", "update">>, <<"sellers", "list">>, <<"sellers", "retrieve">>}
    \cup {<<"transaction", "retrieve">>, <<"kyc", "post">>}
\* What an administrator gives and takes.
GivenOrTaken == {2, 0, -1}
\* What an allocation adds and a sale takes.
AddedOrSold == {3, 2, -1}
JustOrg1  == {org1}
NoAccount == [staff |-> FALSE, role |-> FALSE, granted |-> FALSE]
AllToAnn    == [i \in Invitation |-> ann]

\* All parts take their workers, and the sellers of SalesFigures, from one set.
Processes ==
  Permutations(MoneyWorker \cup DeskWorker \cup MailWorker \cup OfferWorker \cup Agent \cup Teller
               \cup StockClerk)

Still(p) ==
  /\ p # "wallet" => UNCHANGED walletVars
  /\ p \notin {"network", "organization"} => UNCHANGED sellerVars
  /\ p # "delivery" => UNCHANGED deliveryVars
  /\ p # "commission" => UNCHANGED commissionVars
  /\ p \notin {"figures", "report"} => UNCHANGED figuresVars
  /\ p # "access" => UNCHANGED accessVars
  /\ p # "desk" => UNCHANGED walletDeskVars
  /\ p # "alerts" => UNCHANGED alertVars
  /\ UNCHANGED part

OrganizationStill == UNCHANGED <<orgKyc, orgSubs>>

\* Figures are compared before the month's end, and every agent stocks show1 first; reports
\* are those of one frequency, of orders for show1 without coupons.
FiguresBound ==
  /\ UNCHANGED reader /\ today' <= 28
  /\ \A a \in Agent : lot'[a][show1].here \/ ~lot'[a][show2].here
ReportBound ==
  /\ UNCHANGED <<ledger, figureEdits>>
  /\ \A i \in DOMAIN placed' : placed'[i].show = show1 /\ ~placed'[i].coupon
  /\ Cardinality({r.frequency : r \in archive' \cup ({reader'} \ {NoReader})}) <= 1
NobodyInvited == \A i \in Invitation : invited'[i] = "none"

Init ==
  /\ WalletInit /\ SellerInit /\ DeliveryInit /\ CommissionInit /\ FiguresInit
  /\ AccessInit /\ WalletDeskInit /\ StockAlertsInit
  /\ part \in {"wallet", "network", "organization", "delivery", "commission", "figures", "report",
              "access", "desk", "alerts"}
  /\ part # "access" => account = NoAccount /\ \A o \in Organization : weight[o] = NoMembership
  /\ part # "organization" => orgKyc = "PENDING"
  /\ isMember = [p \in Person |-> FALSE]

\* The organization's own KYC moves apart from its sellers: no action reads both.
Next ==
  \/ part = "wallet" /\ WalletNext /\ Still(part)
  \/ part = "network" /\ SellerNext /\ OrganizationStill /\ Still(part)
  \/ part = "organization" /\ SellerNext /\ NobodyInvited /\ Still(part)
  \/ part = "delivery" /\ DeliveryNext /\ Still(part)
  \/ part = "commission" /\ CommissionNext /\ Still(part)
  \/ part = "figures" /\ FiguresNext /\ FiguresBound /\ Still(part)
  \/ part = "report" /\ FiguresNext /\ ReportBound /\ Still(part)
  \/ part = "access" /\ AccessNext /\ Still(part)
  \/ part = "desk" /\ WalletDeskNext /\ Still(part)
  \/ part = "alerts" /\ StockAlertsNext /\ Still(part)

Spec == Init /\ [][Next]_sellersVars
================================================================================
