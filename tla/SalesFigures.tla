------------------------------ MODULE SalesFigures ------------------------------
(* What sellers and buyers take, and the figures that are shown of it: the    *)
(* movements of the sellers' stocks with the totals taken over them, the      *)
(* earnings of an event's orders, and the report of a period, which reads the *)
(* orders and their e-tickets by several queries, outside any transaction.    *)
(*                                                                            *)
(* Amounts are whole, percentages are hundredths; the calendar is a set of    *)
(* dates counted from a Monday, with the dates on which months begin.         *)
EXTENDS Integers, FiniteSets, FiniteSetsExt, Sequences, Sums

CONSTANTS
  Agent,        \* the sellers of one super-seller
  Show,         \* events, with one ticket each
  Lots,         \* quantities
  Prices,       \* prices of a ticket
  Commissions,  \* commission rates of a stock
  Cuts,         \* the platform's percentages of a sale
  Dates,        \* the dates on which something happens
  MonthFirst,   \* the first days of the months around them
  Frequencies,  \* of reports
  MaxMoves,     \* bound: movements of stock
  MaxPlaced,    \* bound: orders
  MaxEdits,     \* bound: edits of prices and percentages
  MaxReports    \* bound: reports

ASSUME FiguresAssumption ==
  /\ IsFiniteSet(Agent) /\ IsFiniteSet(Show) /\ "online" \notin Agent
  /\ Lots \subseteq Nat \ {0} /\ Prices \subseteq Nat /\ Prices # {}
  /\ Commissions \subseteq 0..100 /\ Cuts \subseteq 0..100 /\ Cuts # {}
  /\ Dates \subseteq Nat /\ Dates # {} /\ IsFiniteSet(Dates)
  /\ Frequencies \subseteq {"DAILY", "WEEKLY", "MONTHLY"}

\* Every date is in a month, and a month has between 28 and 31 days.
ASSUME CalendarAssumption ==
  /\ MonthFirst \subseteq Nat /\ \A m, n \in MonthFirst : m < n => n - m >= 28
  /\ \A d \in Dates : \E m, n \in MonthFirst : m <= d /\ d < n /\ n - m <= 31

VARIABLES
  today,
  price,      \* price[e]: Ticket.price
  cut,        \* cut[d]: Organization.percentage, percentage_if_discounted
  lot,        \* lot[a][e]: the TicketStock row, or NoLot
  ledger,     \* the StockTransaction rows, in order
  placed,     \* the orders with their item, in order
  credited,   \* what orders have brought to the organization's account, in hundredths
  reader,     \* the report being made: what its queries have answered
  archive,    \* the reports made
  figureEdits

figuresVars == <<today, price, cut, lot, ledger, placed, credited, reader, archive, figureEdits>>

NoLot    == [here |-> FALSE]
NoReader == [pc |-> "idle"]
Online   == "online"      \* the seller of an order made on the site

Total(amounts) == TotalOf(amounts, DOMAIN amounts)

--------------------------------------------------------------------------------
(* Movements of stock                                                         *)

LedgerRow ==
  [kind : {"ALLOCATION", "SALE"}, agent : Agent, show : Show, quantity : Int, before : Int,
   after : Int, price : Nat, commission : Nat, day : Dates]

InLot(l) == l.allocated - l.sold

\* create_allocation_transaction and create_sale_transaction: both are called when the stock
\* has been saved and read again.
AllocationRow(a, e, l, q) ==
  [kind |-> "ALLOCATION", agent |-> a, show |-> e, quantity |-> q,
   before |-> InLot(l), after |-> InLot(l) + q, price |-> 0, commission |-> 0, day |-> today]

\* (A faulty variant: the quantity of a sale is not made negative.)
SaleRowUnsigned(a, e, l, q) ==
  [kind |-> "SALE", agent |-> a, show |-> e, quantity |-> q,
   before |-> InLot(l), after |-> InLot(l) - q, price |-> price[e],
   commission |-> price[e] * q * l.rate, day |-> today]

SaleRow(a, e, l, q) ==
  [kind |-> "SALE", agent |-> a, show |-> e, quantity |-> 0 - q,
   before |-> InLot(l), after |-> InLot(l) - q, price |-> price[e],
   commission |-> price[e] * q * l.rate, day |-> today]

\* A new price or rate is set on the object, but only total_allocated is saved, and the
\* object is read again: a stock keeps the rate it was created with.
Allocate(a, e, q, rate) ==
  /\ Len(ledger) < MaxMoves
  /\ LET old == IF lot[a][e].here THEN lot[a][e]
                ELSE [here |-> TRUE, allocated |-> 0, sold |-> 0, rate |-> rate]
         new == [old EXCEPT !.allocated = @ + q]
     IN /\ lot' = [lot EXCEPT ![a][e] = new]
        /\ ledger' = Append(ledger, AllocationRow(a, e, new, q))
  /\ UNCHANGED <<today, price, cut, placed, credited, reader, archive, figureEdits>>

\* One transaction makes the order, its item, its e-tickets and the movement; the order is
\* FINISHED, and brings nothing to the organization's account.
Sell(a, e, q) ==
  /\ lot[a][e].here /\ InLot(lot[a][e]) >= q
  /\ Len(ledger) < MaxMoves /\ Len(placed) < MaxPlaced
  /\ LET new == [lot[a][e] EXCEPT !.sold = @ + q]
     IN /\ lot' = [lot EXCEPT ![a][e] = new]
        /\ ledger' = Append(ledger, SaleRow(a, e, new, q))
  /\ placed' = Append(placed,
       [show |-> e, agent |-> a, quantity |-> q, lineTotal |-> price[e] * q, coupon |-> FALSE,
        reduced |-> price[e] * q, day |-> today, status |-> "FINISHED", eTickets |-> q,
        applied |-> 0])
  /\ UNCHANGED <<today, price, cut, credited, reader, archive, figureEdits>>

\* SellerTicketSellView.post: the seller is found from the user; a refusal changes nothing.
PostSale == \E a \in Agent, e \in Show, q \in Lots : Sell(a, e, q)

\* SellerManagementViewSet.allocate_stock
PostAllocation ==
  \E a \in Agent, e \in Show, q \in Lots, rate \in Commissions : Allocate(a, e, q, rate)

--------------------------------------------------------------------------------
(* Orders made on the site                                                    *)

\* A coupon takes something off what costs something.
Reduced(amount, coupon) == IF coupon /\ amount > 0 THEN amount - 1 ELSE amount

PlaceOrder(e, q, coupon) ==
  /\ Len(placed) < MaxPlaced
  /\ placed' = Append(placed,
       [show |-> e, agent |-> Online, quantity |-> q, lineTotal |-> price[e] * q,
        coupon |-> coupon, reduced |-> Reduced(price[e] * q, coupon),
        day |-> today, status |-> "SUBMITTED", eTickets |-> 0, applied |-> 0])
  /\ UNCHANGED <<today, price, cut, lot, ledger, credited, reader, archive, figureEdits>>

\* get_retribution_percentage
Retribution(discounted) == cut[discounted]

\* What the organization keeps of an order.
Income(o, percentage) == o.reduced * (100 - percentage)

\* (A faulty variant: the percentage that was applied is not kept.)
FinishForgettingPercentage(i) ==
  /\ placed[i].status = "SUBMITTED"
  /\ placed' = [placed EXCEPT ![i].status = "FINISHED", ![i].eTickets = placed[i].quantity]
  /\ credited' = credited + Income(placed[i], Retribution(placed[i].coupon))
  /\ UNCHANGED <<today, price, cut, lot, ledger, reader, archive, figureEdits>>

\* The task: income, percentage, e-tickets and status are committed together.
FinishOrder(i) ==
  /\ placed[i].status = "SUBMITTED"
  /\ LET percentage == Retribution(placed[i].coupon)
     IN /\ placed' = [placed EXCEPT ![i].status = "FINISHED", ![i].applied = percentage,
                                    ![i].eTickets = placed[i].quantity]
        /\ credited' = credited + Income(placed[i], percentage)
  /\ UNCHANGED <<today, price, cut, lot, ledger, reader, archive, figureEdits>>

EditPrice(e, p) ==
  /\ figureEdits < MaxEdits /\ price[e] # p
  /\ price' = [price EXCEPT ![e] = p] /\ figureEdits' = figureEdits + 1
  /\ UNCHANGED <<today, cut, lot, ledger, placed, credited, reader, archive>>

EditCut(discounted, c) ==
  /\ figureEdits < MaxEdits /\ cut[discounted] # c
  /\ cut' = [cut EXCEPT ![discounted] = c] /\ figureEdits' = figureEdits + 1
  /\ UNCHANGED <<today, price, lot, ledger, placed, credited, reader, archive>>

NextDate ==
  /\ \E d \in Dates : d > today
  /\ today' = Min({d \in Dates : d > today})
  /\ UNCHANGED <<price, cut, lot, ledger, placed, credited, reader, archive, figureEdits>>

--------------------------------------------------------------------------------
(* super_sellers/services/stats.py and seller_stats.py                        *)

Whenever == [from |-> 0, to |-> Max(Dates)]
Within(day, period) == period.from <= day /\ day <= period.to

Sales(period) == {i \in DOMAIN ledger : ledger[i].kind = "SALE" /\ Within(ledger[i].day, period)}

SumUp(rows) ==
  [tickets    |-> Total([i \in rows |-> 0 - ledger[i].quantity]),
   revenue    |-> Total([i \in rows |-> ledger[i].price * (0 - ledger[i].quantity)]),
   commission |-> Total([i \in rows |-> ledger[i].commission])]

StatsOverview(period)    == SumUp(Sales(period))
StatsByEvent(e, period)  == SumUp({i \in Sales(period) : ledger[i].show = e})
StatsBySeller(a, period) == SumUp({i \in Sales(period) : ledger[i].agent = a})
StatsByDay(d, period)    == SumUp({i \in Sales(period) : ledger[i].day = d})
StatsByWeek(w, period)   == SumUp({i \in Sales(period) : ledger[i].day \div 7 = w})

\* The seller's own figures take the absolute value of each quantity.
SellerOverview(a, period) ==
  LET rows == {i \in Sales(period) : ledger[i].agent = a}
      Size(i) == IF ledger[i].quantity < 0 THEN 0 - ledger[i].quantity ELSE ledger[i].quantity
  IN [tickets    |-> Total([i \in rows |-> Size(i)]),
      revenue    |-> Total([i \in rows |-> ledger[i].price * Size(i)]),
      commission |-> Total([i \in rows |-> ledger[i].commission])]

\* What a seller is shown event by event, and of the stocks at hand.
SellerByEvent(a, e, period) == SumUp({i \in Sales(period) :
                                        ledger[i].agent = a /\ ledger[i].show = e})
SellerStocks(a) == [e \in {f \in Show : lot[a][f].here} |->
                      [sold |-> lot[a][e].sold, available |-> InLot(lot[a][e])]]

\* Organization.get_total_stock_allocated, get_total_tickets_sold_by_sellers
Lotted == {s \in Agent \X Show : lot[s[1]][s[2]].here}
TotalAllocated == Total([s \in Lotted |-> lot[s[1]][s[2]].allocated])
TotalSold      == Total([s \in Lotted |-> lot[s[1]][s[2]].sold])

\* generate_stats_for_events: every finished order by the percentage that was applied to it.
Finished(e) == {i \in DOMAIN placed : placed[i].status = "FINISHED" /\ placed[i].show = e}
AmountEarned(e, orders) ==
  Total([i \in orders \cap Finished(e) |-> Income(placed[i], placed[i].applied)])

\* OrganizationStatsViewSet.global_stats: by today's percentage, of the undiscounted total.
GlobalEarned(e, orders) ==
  Total([i \in orders \cap Finished(e) |->
           placed[i].lineTotal * (100 - Retribution(placed[i].coupon))])

--------------------------------------------------------------------------------
(* super_sellers/services/reporting.py                                        *)

MonthBegin(day) == Max({m \in MonthFirst : m <= day})

\* (A faulty variant: a week runs to the next Monday.)
PeriodToMonday(frequency, day) ==
  CASE frequency = "DAILY"  -> [from |-> day, to |-> day]
    [] frequency = "WEEKLY" -> [from |-> day - (day % 7), to |-> day - (day % 7) + 7]
    [] OTHER -> [from |-> MonthBegin(day), to |-> MonthBegin(MonthBegin(day) + 31) - 1]

\* compute_period: the first of the next month is that of the month's 28th and four days more.
ComputePeriod(frequency, day) ==
  CASE frequency = "DAILY"  -> [from |-> day, to |-> day]
    [] frequency = "WEEKLY" -> [from |-> day - (day % 7), to |-> day - (day % 7) + 6]
    [] OTHER -> [from |-> MonthBegin(day), to |-> MonthBegin(MonthBegin(day) + 27 + 4) - 1]

Reported(period) ==
  {i \in DOMAIN placed : placed[i].status = "FINISHED" /\ Within(placed[i].day, period)}

BeginReport(frequency) ==
  /\ reader = NoReader /\ Cardinality(archive) < MaxReports
  /\ reader' = [pc |-> "revenue", frequency |-> frequency,
                period |-> ComputePeriod(frequency, today), orders |-> {}, revenue |-> 0,
                tickets |-> 0, bySeller |-> 0]
  /\ UNCHANGED <<today, price, cut, lot, ledger, placed, credited, archive, figureEdits>>

\* The four queries of fetch_sales_data, in the order they are evaluated.
ReadRevenue ==
  /\ reader.pc = "revenue"
  /\ reader' = [reader EXCEPT !.pc = "tickets", !.orders = Reported(reader.period),
                  !.revenue = Total([i \in Reported(reader.period) |-> placed[i].lineTotal])]
  /\ UNCHANGED <<today, price, cut, lot, ledger, placed, credited, archive, figureEdits>>

ReadTickets ==
  /\ reader.pc = "tickets"
  /\ reader' = [reader EXCEPT !.pc = "sellers",
                  !.tickets = Total([i \in Reported(reader.period) |-> placed[i].quantity])]
  /\ UNCHANGED <<today, price, cut, lot, ledger, placed, credited, archive, figureEdits>>

ETicketsOf(period) == Total([i \in Reported(period) |-> placed[i].eTickets])

ReadSellers ==
  /\ reader.pc = "sellers"
  /\ reader' = [reader EXCEPT !.pc = "events", !.bySeller = ETicketsOf(reader.period)]
  /\ UNCHANGED <<today, price, cut, lot, ledger, placed, credited, archive, figureEdits>>

ArchiveReport ==
  /\ reader.pc = "events"
  /\ archive' = archive \cup
       {[frequency |-> reader.frequency, period |-> reader.period, orders |-> reader.orders,
         revenue |-> reader.revenue, tickets |-> reader.tickets, bySeller |-> reader.bySeller,
         byEvent |-> ETicketsOf(reader.period)]}
  /\ reader' = NoReader
  /\ UNCHANGED <<today, price, cut, lot, ledger, placed, credited, figureEdits>>

--------------------------------------------------------------------------------
FiguresInit ==
  /\ today = Min(Dates) /\ price \in [Show -> {Min(Prices)}]
  /\ cut = [d \in BOOLEAN |-> Min(Cuts)]
  /\ lot = [a \in Agent |-> [e \in Show |-> NoLot]]
  /\ ledger = <<>> /\ placed = <<>> /\ credited = 0
  /\ reader = NoReader /\ archive = {} /\ figureEdits = 0

FiguresNext ==
  \/ PostSale \/ PostAllocation
  \/ \E e \in Show : \/ \E q \in Lots, coupon \in BOOLEAN : PlaceOrder(e, q, coupon)
                     \/ \E p \in Prices : EditPrice(e, p)
  \/ \E i \in DOMAIN placed : FinishOrder(i)
  \/ \E discounted \in BOOLEAN, c \in Cuts : EditCut(discounted, c)
  \/ NextDate
  \/ \E f \in Frequencies : BeginReport(f)
  \/ ReadRevenue \/ ReadTickets \/ ReadSellers \/ ArchiveReport

FiguresSpec == FiguresInit /\ [][FiguresNext]_figuresVars

--------------------------------------------------------------------------------
(* Properties                                                                 *)

Periods == {Whenever} \cup {ComputePeriod(f, today) : f \in Frequencies}
SumOver(figures) ==
  [tickets    |-> Total([x \in DOMAIN figures |-> figures[x].tickets]),
   revenue    |-> Total([x \in DOMAIN figures |-> figures[x].revenue]),
   commission |-> Total([x \in DOMAIN figures |-> figures[x].commission])]
Allocations == {i \in DOMAIN ledger : ledger[i].kind = "ALLOCATION"}
DirectSales == {i \in DOMAIN placed : placed[i].agent # Online}

\* The figures of the ledger are those of the stocks and of the orders it was written with,
\* and come to the same by event, by seller, by day, by week and as each seller sees them,
\* for whatever period: a price or a percentage may have changed in between.
LedgerAgrees ==
  /\ StatsOverview(Whenever).tickets = TotalSold
  /\ StatsOverview(Whenever).revenue = Total([i \in DirectSales |-> placed[i].lineTotal])
  /\ Total([i \in Allocations |-> ledger[i].quantity]) = TotalAllocated
  /\ \A p \in Periods :
       /\ StatsOverview(p) = SumOver([e \in Show |-> StatsByEvent(e, p)])
       /\ StatsOverview(p) = SumOver([a \in Agent |-> StatsBySeller(a, p)])
       /\ StatsOverview(p) = SumOver([d \in Dates |-> StatsByDay(d, p)])
       /\ StatsOverview(p) = SumOver([w \in {d \div 7 : d \in Dates} |-> StatsByWeek(w, p)])
       /\ StatsOverview(p) = SumOver([a \in Agent |-> SellerOverview(a, p)])
  /\ \A a \in Agent : \A e \in DOMAIN SellerStocks(a) :
       SellerByEvent(a, e, Whenever).tickets = SellerStocks(a)[e].sold

\* What an event's statistics say its orders earned on the site is what they brought to the
\* account, however percentages were changed between the two; the global figures, which use
\* today's percentages and undiscounted totals, agree as long as neither makes a difference.
EarningsWereCredited ==
  LET online == DOMAIN placed \ DirectSales
  IN /\ Total([e \in Show |-> AmountEarned(e, online)]) = credited
     /\ (\A i \in online : placed[i].status = "FINISHED" =>
           ~placed[i].coupon /\ placed[i].applied = Retribution(FALSE)) =>
          Total([e \in Show |-> GlobalEarned(e, online)]) = credited

FiguresAgree == (ledger # <<>> \/ placed # <<>>) => LedgerAgrees /\ EarningsWereCredited

\* Although the queries of a report see the database at different times, its totals never
\* exceed its details; and no order is in the reports of two periods of one frequency.
ReportsCountOnce ==
  /\ \A r \in archive : r.tickets <= r.bySeller /\ r.bySeller <= r.byEvent
                        /\ Cardinality(r.orders) <= r.tickets
  /\ \A r, s \in archive :
       r.frequency = s.frequency /\ r.period # s.period => r.orders \cap s.orders = {}

\* Both: the ledger's figures, the statistics and the reports tell one story.
FiguresSound == FiguresAgree /\ ReportsCountOnce

FiguresTypeOK ==
  /\ today \in Dates /\ price \in [Show -> Prices] /\ cut \in [BOOLEAN -> Cuts]
  /\ \A i \in DOMAIN ledger : ledger[i] \in LedgerRow
  /\ \A i \in DOMAIN placed : placed[i].status \in {"SUBMITTED", "FINISHED"}
  /\ credited \in Nat
================================================================================
