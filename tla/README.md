# WuloEvents in TLA+

WuloEvents is a Django REST backend for publishing events and selling their
tickets: web workers over PostgreSQL, a payment gateway (FedaPay) that answers
by webhooks, and Celery workers over a Redis broker. This directory holds TLA+
modules for its core logic, TLC configurations that check them on small
instances, and TLAPS proofs. Source paths below are relative to `src/apps/`.

## The system

| Component | State it keeps | Operations | Talks to |
|---|---|---|---|
| Orders (`events/models/orders.py`, `events/serializers/orders.py`, `events/views/orders.py`) | Order (status, income distributed), OrderItem (quantity) | create, admin_create, pseudo_anonymous, update, destroy, start | payment transactions |
| Payment transactions (`users/models/transactions.py`, `users/views/transactions.py`) | Transaction (status, gateway id, time of the last status) | process_payment, payments_callbacks, withdraws_callbacks | gateway, signals |
| Signals (`users/`, `events/`, `organizations/signals/handlers.py`) | none | start an order, activate a subscription or a highlighting, queue tasks and notices | broker |
| E-ticket generation (`events/tasks/eticket_tasks.py`) | e-tickets, Ticket.available_quantity, Event.participant_count, the organization's balance | one task per order | database |
| Seller stock, sales and their figures (`super_sellers/services/stock.py`, `sales.py`, `stats.py`, `reporting.py`) | TicketStock (allocated, sold), StockTransaction, the same ticket and event rows | allocate, sell, total, report, warn of low stock | database, cache |
| Seller wallets (`super_sellers/models/seller_wallet.py`, `seller_withdrawal.py`, `views/wallet_views.py`) | balance, pending balance, withdrawal status, retry count, journal | reserve, approve, reject, process, complete, fail, cancel, retry; consult, adjust | Celery tasks |
| Organization account and withdraws (`organizations/models/withdraws.py`) | withdraw status, the organization's balance | create and disburse, payout callbacks | gateway |
| Ticket delivery (`events/models/ticket_delivery.py`, `super_sellers/services/delivery.py`) | delivery status, retries | create, send, fail, retry | mail |
| Discounts and coupons (`marketing/`, `organizations/serializers/discounts.py`) | discounts, rules, conditions, usage counters | make, edit, check, price, record a use | orders, signals |
| Subscriptions and highlighting (`organizations/models/subscriptions.py`, `events/models/highlightings.py`) | periods, active flags, `subscribe_until` | order, activate, expire hourly | payment transactions |
| Commission (`events/models/commission.py`, `events/services/commission_service.py`) | offers, acceptances, counters | accept, reject, edit, expire, divide a price | – |
| Invitations, profiles, KYC (`super_sellers/models/`) | invitation, profile and submission status | invite, answer, suspend, submit, review | mail |
| Events, tickets, e-tickets at the door (`events/views/`, `organizations/views/e_ticket.py`) | Event, Ticket, ETicket rows | create, edit, validate, delete, list, scan, download | the task, orders |
| Chat rooms (`chat_rooms/`) | rooms, subscriptions, access criteria, tags, cached titles | subscribe, leave, restore, open personal rooms, tag | – |
| Organizations, roles, permissions (`organizations/`, `users/permissions.py`) | organization, memberships, roles, followers | members, roles, follow, the views' permission tables | every view |
| Users and sessions (`users/`) | accounts, mailed codes, refresh tokens, devices | register, validate, reset, deactivate, sign in, refresh, sign out | mail |
| Notifications (`notifications/`) | notifications, favourites, types | announce, remind, tell one user | mail, push |
| Scheduled reports (`super_sellers/tasks/reporting_tasks.py`) | preferences, `last_sent_at` | scan every minute, send | mail |
| News, search, reference data | records | create, read, update, delete | – |

What is hard here is not one function but their combination: callbacks that are
repeated, reordered and concurrent; rows read before a transaction and saved in
it as a whole; tasks queued inside a transaction that may still be rolled back;
row locks taken in two orders; counters moved sometimes by SQL expressions under
a lock and sometimes by an unlocked read and save; things kept outside of every
transaction, as the cache and the mails that have left. `PROJECT.json` lists
these hazards line by line with the properties that cover each.

What makes each component correct:

- *orders and payments*: nothing is issued or recorded without an approved
  payment; one batch of e-tickets per order; a paid order is served; a paid
  transaction stays paid;
- *generation task*: complete batches; no seat lost, no income and no
  participant invented, whatever updates are lost;
- *stock*: a seller sells no more than it was allocated, and sellers are not
  allocated more than there is; no request waits for ever; the warning that
  stock runs low comes when it should, once an hour from each process;
- *wallet, account*: money is conserved, nobody is overdrawn, an open withdrawal
  is reserved, the account is debited for payouts that were sent;
- *delivery, notices, reports, reminders*: nothing is left under way or sent
  over and over, nobody is told of what did not happen;
- *discounts, subscriptions, highlighting*: no price is raised, no limit
  exceeded, no day paid for twice, what runs was paid for;
- *rows that are edited*: what one request decides is not undone by another's
  stale save unless the two overlapped;
- *access*: who has a role, a room, a session, an address or an e-ticket was
  given it, and who was refused has it not.

Many of these hold only when two requests do not meet in the same row: the code
locks rows in the stock services alone. Such a property is named `Serial...`
and its premise says which overlap it excludes, by a history variable that no
action reads (`concurrent`, `jostled`, `doubled`, `muddled...`, `crossed`,
`overlapped`, `together`). The premise is part of the statement and as narrow as
the code allows; everything else that can go wrong, the crashes, rollbacks,
repetitions and failures, stays in.

## Modules

| Module | What it models | Composed in |
|---|---|---|
| `BoxOffice` | the abstract promise: authorise an order, issue complete batches to authorised orders only | refined by `OrderPipeline` |
| `OrderPipeline` | order creation, gateway, callbacks, both signals, the generation task | `MCOrderPipeline` |
| `SellerStock` | allocation and direct sale under row locks | `MCSellerStock` |
| `TicketSales` | both at once on one ticket row; extends the first, instantiates the second | `MCTicketSales` |
| `Organizations` | an organization's row, members, roles, followers | `MCOrganizations` |
| `OrganizationAccount` | its account: incomes, withdraws, payout callbacks | `MCOrganizations` |
| `Discounts`, `Catalogue` | purchases that ask for a discount; the making and editing of discounts | `MCOrganizations` |
| `PaidServices` | subscriptions, highlighting, their payments, the hourly task | `MCOrganizations` |
| `SellerWallet`, `WalletDesk` | wallet and withdrawals; profile, journal and adjustments | `MCSellers` |
| `SellerNetwork` | invitations, profiles, KYC | `MCSellers` |
| `Delivery` | e-tickets sent by mail and sent again | `MCSellers` |
| `Commission` | offers, acceptances, the division of a price | `MCSellers` |
| `SalesFigures`, `StockAlerts` | movements, earnings, totals and reports; warnings of low stock | `MCSellers` |
| `Access` | permission classes, their tables, a request's way through them | `MCSellers` |
| `EventAdmin`, `Door` | the event's row and all who write it; lists, views and e-tickets at the door | `MCCommunity` |
| `TicketShelf` | tickets put on sale, edited, taken by the task | `MCCommunity` |
| `ChatRooms`, `RoomAccess` | subscriptions and personal rooms; criteria, lists, tags | `MCCommunity` |
| `Accounts`, `Sessions` | accounts, addresses, mailed codes; tokens and devices | `MCCommunity` |
| `Notifications`, `Notices` | announcements and reminders; what one user is told of one row | `MCCommunity` |
| `Reports` | the scan of the report preferences | `MCCommunity` |
| `Sums`, `SumLemmas` | sums over finite sets, as cardinalities, and lemmas about them | the modules that add up |
| `...Proofs` | the theorems; each extends the modules it is about | – |

### The database and the broker

PostgreSQL runs at READ COMMITTED and Django in autocommit, unless a view or a
service says `transaction.atomic`. The modules therefore show only committed
rows as variables; what a transaction or a request has read and will write is in
the record of the process that runs it (`handler`, `worker`, `job`, `desk`,
`call`, `working`, `mailing`, ...). A step that ends a transaction publishes all
its writes. A row that a transaction has updated, or selected for update, keeps
other writers waiting until the transaction ends (`HoldsTx`, `HoldsOrder`,
`HoldsTicket`, `HoldsStock`, `WithdrawFree`). Model.save() without
`update_fields` writes the whole row as it was read; F expressions and
`queryset.update` write one column. Messages to the broker leave at once, inside
a transaction or not. The settings configure neither late acknowledgement nor
retries, so a task that raises is gone.

"The cache" is Django's default, one in the memory of each process: the settings
name no `CACHES`. It is indexed by the process (`notified[c]`, `title[k]`), is
lost at a restart, and is part of no transaction. `docker-compose.yml` starts
gunicorn with one worker; a deployment with more has what the two modules show
for two: a warning per process, and a criterion with two names.

In every module an action is one step at which another process can notice a
difference; its guard is the code's conditions and early returns. A handler that
refuses changes nothing and is the absence of a step. Conditions and formulas of
the code are operators of their own, named so that each can be replaced by a
faulty variant, which stands just before it (`mutants` in `PROJECT.json`).

### OrderPipeline

| Action | Code |
|---|---|
| `Validate` | `OrderItemSerializer.validate`: the quantity check |
| `Submit` | the body of the three endpoints: rows saved, payment opened (`PaymentOf`), signals run (`StatusOf`) and, with nothing to pay, the task queued, while nobody sees the rows |
| `CommitSubmit` | the end of their transaction |
| `AbortRequest` | the gateway refuses ("Payment failed") or the request dies: the rows are rolled back, what was queued is not |
| `GatewayEvent` | the gateway (external) emits an event, and may deliver it any number of times |
| `CallbackRead` | `payments_callbacks` up to its two refusals |
| `CallbackSave` | `_transaction.save()` and the test and read of `handle_payment_transaction` |
| `StartOrder` | `order.save(update_fields=['status'])` and `finalize_other_process` |
| `CallbackCommit`, `CallbackRollback` | the end of the view's transaction |
| `TenMinutesPass` | the window in which a completed transaction accepts callbacks closes |
| `TaskLoad`, `TaskReadAccount`, `TaskCommit`, `TaskFail` | the three reads of `generate_etickets_for_order`, and its end |

One ticket type of one event of one organization is modelled, because its
orders contend for the same rows. `"pending"` among the gateway's statuses
stands for every status the view has no case for. All endpoints that create an
order are one transaction: `create` by a `method_decorator` on the viewset
(`events/views/orders.py:37`), `admin_create` and `pseudo_anonymous` by a
decorator of their own. `sent`, `undone` and `missed` (tasks that ran before
their order was committed) are observations; `deliveries` bounds the callbacks
accepted for an order.
`Income[o]` stands for what an order brings the organization.

### SellerStock and TicketSales

A request takes its row locks one at a time: `allocate_ticket_stock` the ticket
and then the stock, `sell_tickets_by_seller` the stock and then, by
`select_related`, the ticket. PostgreSQL breaks the deadlock that follows
(`DeadlockAbort`). The task of `OrderPipeline` and these services write the same
`available` and `participants`; the only thing that connects their control is
that a task's commit waits for the locks on the ticket's row. Direct sales issue
their e-tickets inside the sale's transaction; `SellerStock` counts them with
`sold`.

### What a reader of the other modules should know of the code

*Organizations.* An update makes whoever calls it the owner; a PATCH has no entry
in the viewset's permission table and is open to any account that has signed in
(`BeginUpdate`). Roles are rows with
a foreign key to the membership, whose key is new each time a member is added;
`SaveMembership` inserts the row again when it has gone. The weights of roles
are added up (`TotalWeight`).

*OrganizationAccount.* The payout is sent inside the database transaction that
creates the withdraw; a rollback forgets it and its callbacks find nothing. The
account is a read-modify-write without a lock. Nothing is reserved.

*Discounts, Catalogue.* The limit itself is still let through; automatic discounts
count when ordered, coupons when paid; uses of a ticket's coupon are counted for
the organization's id (finding). A discount is made with its rules atomically, but
an organization edits it in three commits, the last one the whole row it had read,
which puts back `usages_count`. The value column is an integer: half a per cent is
stored as none; negative fixed values pass the serializers and raise a price
(`Catalogue` shows which forms do). A discount of kind FREE_SHIPPING without a
value fails with a TypeError and is never granted; anonymous buyers skip the usage
rule and the conditions; automatic discounts are found for tickets only; the
availability check does not look at `active`. Although the message is "Un seul
coupon peut être relié à cette réduction", a dynamic discount gets two coupons of
administrators, any other as many as are asked for, and an organization's coupons
are not counted.

*PaidServices.* `muddled` marks the three ways in which two paid periods come to
overlap: a subscription ordered while another one waits for its payment, a
payment approved after it had failed, an edited date. Such edits are not the
administrators' alone: the viewset of one organization's subscriptions names no
permission for an update, so any account can PATCH the dates and the status
(`UpdateSubscription`; the organization can be edited too, which is not
modelled). A highlighting is resolved when an administrator orders it, or when a
coupon leaves nothing to pay. The hourly task computes a
status from the row it read and the payment as it is. `crossed` marks a payment
that two callbacks were about at once: the later one then saves over the first
one's verdict, and a highlighting may stay on that is no longer paid for. The run
has two callback workers for highlightings and one in the subscriptions' part.

*SellerWallet, WalletDesk.* The code is not finished: `Seller.can_sell` does not
exist, `request.seller` is set by nothing (so the cancel view always raises
AttributeError), the tasks have no beat schedule and `process_single`,
`auto_approve` and `retry` no callers. The modules say what the code does once a
request reaches it; of the withdrawals' viewset only the routes of
`super_sellers/urls.py:222` (the modelled ones) exist, and a bank transfer can be
asked for by super-sellers alone (`BySuperSeller`, `services/withdrawal.py:118`).
Then: processing a single withdrawal that is not approved marks it failed, which
makes it APPROVED again (even a REJECTED or COMPLETED one) or, by bank, FAILED
with a second release; cancelling accepts REJECTED, FAILED and CANCELLED
withdrawals and releases their amount again. Both are in the model, which is why
`SerialWalletBalances` speaks of what is taken (`taken`) and of open withdrawals.
`process_sale_commission` and `process_direct_sale_commission` have no callers and
`credit_seller` does not exist, so wallets are credited by adjustments only. The
profile is looked up by the user alone and made without a super-seller: a user
with two profiles gets MultipleObjectsReturned for ever. The adjustment view
reaches only the administrator's own wallet, and its `new_balance` is the one
before.

*SellerNetwork.* A review reads the last submission, saves it, and then saves the
profile: three steps (`BeginReview`, `Reviewed`). An acceptance saves the profile
and then the membership, whose `roles.add` raises (`AcceptRaises`). A suspension
saves the whole row and puts back `kyc_status`. A super-seller's KYC can be
submitted only by an organization that is VERIFIED already. `sent_at` is never
stored, because `save()` writes only while `expires_at` is unset; neither is an
answer (finding).

*Delivery.* A delivery that fails is counted as failed although it waits for its
retry; a process that dies leaves SENDING or PENDING rows that nobody takes up;
`send_tickets_async` has no caller. A mail that has left before its save failed
leaves again: the mails of a row are bounded by its retries and such failures.

*Commission.* `total_accepted` loses updates and is saved although the
acceptance is refused; a paused offer's acceptance still pays; accepting looks
for an organization the user owns, the other handlers for one he belongs to.

*SalesFigures, StockAlerts.* `quantity_before` is the quantity after; a new price
or rate for existing stock is not saved; earnings use today's percentage unless it
is 0, which means the default; reports count an order in the period of its
creation. A month ends the day before the first that is found four days after its
28th, as `compute_period` does; that this is the next month's first is proved for
any calendar of months of 28 to 31 days (`CalendarAssumption`). Stock saved as an
F expression never warns the seller, contrary to the comment at
`events/signals/commission_signals.py:28`; both warnings are `pass`; that the
super-seller was told stays in the process's cache for an hour, whatever is rolled
back, and two processes both tell him.

*Access.* DRF's OR, AND and lists are sets of alternatives; of a flat list only
the object half is asked for objects. `members_list`, `get_participants` and
`usages` never ask for the object. The KYC check of
`IsVerifiedSuperSellerAndMember` is commented out, against its docstring, and
the half that still asks is never reached: the sellers' view finds its objects
by `get_object_or_404`, which asks no class
(`super_sellers/views/seller_views.py:145`). The ticket viewset's table has no
"create".

*EventAdmin, Door.* A creation saves the whole row twice (`SaveAgain`).
A stale edit can publish a deactivated event again, undo a
deletion, put back the participants' count; a limit below the count ends in an
IntegrityError, and the same constraint in the task rolls back the e-tickets of
a paid order and leaves it STARTED. An edit can make any event ephemeral. A scan
checks neither the expiry nor the event's validity; two scanners both admit; its
whole-row save undoes a deletion. The lists by type, place and date, and the
highlighted ones, do not leave private events out; the organization's list and
the favourites show unapproved ones; the counter of views loses updates.

*TicketShelf.* An edit of a ticket saves the count it had read; the signal after
every save, a deletion's too, moves the event's expiry from the event object at
hand.

*ChatRooms, RoomAccess.* Two active rows make unsubscribe fail for ever;
`get_personal_chat_room` is a read that writes. A room with oneself is not
refused, and enrols its user twice. `pair` says whom a personal room was made for,
`raced` and `wiped` the pairs whose room may not be the only one. The list asks
for one criterion, the door for all; a room whose criteria are inactive is in
nobody's list and open to anyone; so is a private room before its first criterion
is inserted. The tag "bientot" stays when the event is postponed. A cached title
keeps a ticket's old name for an hour in one process, while another names the
criterion anew; `namedBy` says whose title a row has. Once the request that makes
a private room is through, the room is open to everyone only if that request
failed, it was made public, or a criterion was deleted or switched off
(`unguarded`, `GuardedOnceMade`); the Celery configuration of the tag task is
loaded by nothing, so the model lets it run at any time.

*Accounts, Sessions.* A whole-row save of a user undoes a deactivation. A guest's
address is looked up as he spells it (`users/managers.py:82`) and saved with its
domain in small letters (line 50): whoever spells it otherwise is never found and
has a new account of the same address each time, without any overlap (`NormalOf`,
`SaveGuest`). `Sessions` takes addresses as they come, shared by active accounts
or not (`NewClient`, `SaveClient`). The first code stays valid through `conf_num`.
A refresh blacklists the old token and mints another; access tokens outlive
signing out; a change of password ends no session; two refreshes at once leave two
tokens; the token given to sign out need not be the caller's. Signing in looks
among deactivated accounts too, the smallest key first, registration among active
ones only.

*Notifications, Notices, Reports.* Announcements have a row, and a message, for
each device (`Phone`): a user hears of the event on all of his, except as its
publisher or as one who asked for what is nearby, which one of his devices is told
(`OneOfEach`). Reminders have a row for each user. Notices are queued before the
commit, inserted with status SUCCESS before they are sent, and lost when their row
is not there; the alert of a nearly sold-out event looks for a key that is stored
under another name, so every order above the threshold sends it again. Who
unsubscribed from a type cannot subscribe again. Reports: `default_storage` is not
imported, so a report by mail raises and stops the scan; a scan that is late
misses its minute.

## Runs

A component module keeps its own variables, `Init` and `Next`. Those of the
organizations, the sellers and the community share no variable with each other,
so their MC modules run them side by side: `part` is chosen at the start, the
part moves and the rest keeps its initial state. The states of such a run are
the union of the components' own, and it checks every component's properties in
its part. (The components that do share state are composed in full, in
`TicketSales`.) Some components are split into two parts that bound different
things, as `figures` and `report`; the MC module says at each what it leaves to
the other.

| Run | Instance | What it shows |
|---|---|---|
| `pipeline_faults` | 2 orders of 1 and 2 tickets, 2 left; 2 web and 2 Celery workers; every fault; 2 callbacks accepted per order | the type invariant, `NothingWithoutApproval`, `NoSecondBatch`, `NoSeatLost`, `NothingInvented`, `PaidIsLostOnlyToARace`, and that the pipeline implements `BoxOffice` |
| `pipeline_progress` | 3 orders (one with nothing to pay, two whose payments may fail first), 1 web worker, 1 Celery worker, no faults | `StartedInTimeIsFinished`, `PaidInTimeIsServed` |
| `seller_stock` | 2 sellers, 3 web workers, lots of 1 and 2, 4 tickets | the type invariant, `SoldWithinAllocation`, `NoOverallocation`, `RequestsEnd`; deadlock is checked too |
| `ticket_sales` | 2 orders, 1 seller, 2 requests at a time, 2 Celery workers, 3 tickets | `SalesAccounted`: lost updates go one way only |
| `organizations` | 2 users and workers; 2 withdraws, sales and callback workers; 4 purchases, 2 at a time; 2 subscriptions, 2 highlightings; 7 forms of a discount and 2 clerks | `RolesWereAsked`, `SerialBooksBalance`, `DebitsArePayouts`, `DiscountsSound`, `PaidServicesSound`, `CatalogueSound`, `StatusComesRight` |
| `sellers` | 2 workers for everything; 2 withdrawals, one by bank; 1 invitation; 2 e-tickets; 2 super-sellers; 2 shows and agents; 2 organizations | `NeverOverdrawn`, `SerialWalletBalances`, `SerialKycIsTheLast`, `MailsAreSafe`, `OfferIsHonoured`, `FiguresSound`, `AccessIsAsGranted`, `WalletDeskSound`, `SerialToldOfLowStock` |
| `community` | 2 workers for everything; 1 event; 2 rooms and users; 2 accounts, addresses in two spellings; 2 tickets, reporters, criteria, passes, devices; 8 matters to be told of | `EventsSound`, `ChatSound`, `AccountsSound`, `ShelfSound`, `SerialReportsAnHourApart`, `SerialToldOnce`, `NoticesAreRight`, `RoomAccessSound`, `DoorSound`, `SessionsSound` |
| `pipeline_early_task` (violation) | an order with nothing to pay, from any endpoint | the task may run before the order is committed: it stays STARTED for ever |
| `pipeline_late_approval` (violation) | a failure, then an approval within ten minutes | the transaction is paid and the order is never started |
| `ticket_sales_allocation` (violation) | 1 order, 1 seller, 2 tickets | a task overwrites an allocation's decrement, and more is allocated than there was |
| `organizations_max_uses` (violation) | one buyer, one purchase after the other | his uses are counted for the organization, and never reach `max_uses` |
| `sellers_answered_once` (violation) | one invitation, two answers | an answer is never stored, and the invitation is answered again |

**Findings.** The five violation runs are disagreements between the code and its
own comments, docstrings or messages; `PROJECT.json` quotes them.

**Bounds.** `MaxDeliveries` bounds the callbacks accepted for an order: two are
enough for a race, a repetition and a reordering. Two workers of each kind are
enough for any two steps to interleave; the orders' quantities differ and
together exceed what is left, so overselling and lost updates occur. Three clerks
let two wait for a third. The `Max...Calls`, `MaxMoves`, `MaxJobs`, ... of the
component modules bound how many calls are made in a run, never how they
interleave: with two to seven calls a reader that is overtaken, the one that
overtakes it, and a later one that sees the result all fit (in `MCCommunity`,
the parts on criteria and sessions have three and four of a module's calls, and
that on lists two). `MaxLosses`,
`MaxFaults` bound deaths; one is enough, since each is put at every step. Days
and hours are bounded by what the windows of the code need (the day after the
last period, the hour after a warning). `SellerStock` needs no bound, since what
is left of the ticket bounds its behaviours. The theorems below hold without any
of these bounds.

**Symmetry.** Workers of one kind are interchangeable, and in `community` also
the tickets, criteria, passes, devices and reporters, which no action
tells apart; the parts take them from the same two sets, so that few
permutations serve all. The runs with a temporal property use none.

**Deadlock.** Where `CHECK_DEADLOCK` is off, the system may stop: every request
has been answered and the calls that a run allows are used up.

**Fairness.** `FairSpec` of `OrderPipeline` says that a request that was
validated goes on, that an open database transaction ends, and that a Celery
worker takes a waiting task and finishes it. Nothing obliges a client to order
or the gateway to call, and faults are off in these runs: the code promises
nothing when a task is lost. `FairSpec` of `SellerStock` is strongly fair to
each request's next lock, since PostgreSQL grants row locks to their waiters in
turn, and weakly fair to the detection of a deadlock. `PaidFairness` says that
the hourly task starts again and again and goes through every row it has read,
as its beat schedule and its thread pool do; nothing is assumed of payments.

**Progress has preconditions.** `StartedIsFinished` and `PaidIsServed`, which the
code's comments say, do not hold: the task of any order with nothing to pay may
run before the order is committed (`pipeline_early_task`), and a payment approved
after it had failed starts no order (`pipeline_late_approval`).
`StartedInTimeIsFinished` and `PaidInTimeIsServed` exclude these two cases, order
by order, and nothing else; `pipeline_progress` has both kinds of order, early
tasks and failed payments among its behaviours. It has one web worker: with two, a
racing approval can read the order STARTED, the task finish it, and the racing
callback then commit STARTED over FINISHED, where the order stays (its e-tickets
exist; `NoSecondBatch` holds). One Celery worker keeps the liveness check small;
it serves the orders in any order.

## Proofs

Every theorem is proved for all values of the constants: any orders, workers,
quantities, amounts, faults, and no bound on what is called how often (the
`Max...` constants appear in guards, and no proof uses them as limits). The
assumptions are the named `ASSUME`s of the modules, which TLC evaluates in every
run. Where an invariant was not inductive, its strengthening was checked with
TLC on a run before it was proved.

**Sums.** `Incomes`, `Issued`, `AmountWith` and the like add up numbers over a
finite set. `FiniteSetsExt!MapThenSumSet` would compute them, but it takes an
operator and is defined by recursion, so no fact about it can be proved here.
`Sums!TotalOf(f, S)` counts the units of the parts instead: it is the
cardinality of the pairs <<x, i>> with i in 1..f[x]. `SumLemmas` derives from
`FiniteSetTheorems` what happens to a total when a part is added, taken away or
changed. That the totals of groups come to the total of all of them
(`TotalOfGroups`) needs induction over a finite set, and the library's induction
theorems take an operator. `BuildUp` does it with a set in its place: of the good
subsets, one leaves the fewest elements out (`WFMin`), and it leaves out none.

| Theorem | Module | Argument |
|---|---|---|
| `TypeCorrect` | `OrderPipelineProofs` | `TypeOK` is inductive |
| `ApprovalRequired` | `OrderPipelineProofs` | `Approved`: whoever is queued, at work or has saved was authorised; needs `Origins` (an order's rows are absent until its request is answered) |
| `PaidLostOnlyToARace` | `OrderPipelineProofs` | an action property: a handler that undoes a payment had read before it |
| `OneBatchPerOrder` | `OrderPipelineProofs` | `Serial`: the lock on the transaction's row lets one callback of an order past its save; `Counted`: batches, queued tasks and running tasks together are at most what was sent |
| `PipelineImplementsBoxOffice` | `OrderPipelineProofs` | initial states map to initial states; with `Approved`, every step maps to `Authorise`, `Issue` or a stutter |
| `SeatsNeverLost`, `NothingEverInvented` | `OrderPipelineProofs` | `CountsCovered`: what a task has read is at least what was left when it read, and what it will write accounts for its own batch; the two counters err in one direction each, which is inductive, while equality is not |
| `StockTypeCorrect`, `NoSellerOversells` | `SellerStockProofs` | `OneHolder`, `Phases` and `Checked`: a row is locked by one request, and what was checked under its lock still holds at its commit |
| `NeverOverallocated` | `SellerStockProofs` | `SeatsAccounted`: remaining, allocated and sold e-tickets add up to what there was, exactly, as long as all of them take the lock |
| `SalesAlwaysAccounted` | `OrderPipelineProofs` | `CountsCovered` again, over what sellers have taken, numbers that only grow; the lemmas about the tasks are stated for any such offset |
| `WalletNeverOverdrawn` | `SellerWalletProofs` | no freshness is needed: every instance held by anybody is a sound wallet that covers what its holder will take, and a save writes such fields over a sound row |
| `WalletBalances` | `SellerWalletProofs` | `Balanced`: while requests and tasks come one after the other, what they hold is the row (`UpToDate`), and the row adds up and reserves the open withdrawals, plus the one that is being settled |
| `AccountTypeCorrect`, `AccountDebitsArePayouts` | `OrganizationsProofs` | the rows of a withdraw appear once (`CreatedOnce`), each callback writes what the gateway answered (`AnswersGateway`), so whoever saves last agrees (`RowsAgree`) |
| `AccountBooksBalance` | `OrganizationsProofs` | `OneAtATime`, `OneForEach`: whoever has the account in hand alone has read what it is |
| `AccessWasAsked` | `OrganizationsProofs` | `RolesInv`: what a request holds of a membership carries the membership's key, and the keys of removed ones do not come back |
| `KycIsTheLast` | `SellersProofs` | `Orderly`: a handler alone with a profile carries the difference between profile and submissions |
| `ToldOfLowStock` | `SellersProofs` | `AlertInv`: what is in a process's cache is what that process sent within the hour, or its mover has it in hand |
| `ReportsAnHourApart` | `CommunityProofs` | `ReportInv`: a preference is in one scan's hands at most, which read `last_sent_at` when nothing had been sent since |
| `PaidForOnce` | `OrganizationsProofs` | `PaidInv`: in order, one subscription at most waits for its payment and begins after `subscribe_until`; a callback alone with a payment knows its status |
| `DiscountsStaySound` | `OrganizationsProofs` | `DiscountInv`: a price is clamped between nothing and the cost; one purchase at a time, whoever was reduced and settled has been counted when the limit is looked at |
| `CatalogueStaysSound` | `OrganizationsProofs` | `CatalogueInv`: who edits a row alone knows its counter and target (`JobKnows`, `OneEditor`); between the two saves of an edit the rule has the form's maximum; a rule's value is what its type lets it be (`ValueFits`), so a reduced price is within the cost |
| `MailsStaySafe` | `SellersProofs` | `MailInv`: a row that says SENDING is in a process's hands or its process died; no more mails have left than saves failed, each counted or about to be |
| `OfferStaysHonoured` | `SellersProofs` | `OfferInv`: while a lone acceptance is half saved the counter is one ahead of the rows ever accepted |
| `EventsStaySound` | `CommunityProofs` | `EventInv`: what a desk holds of a row is what is there, column by column, or the event is marked as muddled; an ephemeral event is on its maker's desk only, the second save of its creation included |
| `SessionsStaySound` | `CommunityProofs` | `TokenInv`: alone, a call has read the one token that works; `DeviceInv`: a device that was let go is quiet until its user takes it back; neither needs anything of the addresses |
| `ShelfStaysSound` | `CommunityProofs` | `ShelfInv`: a ticket that outlasts its event has a signal coming that will move the event far enough |
| `DoorStaysSound` | `CommunityProofs` | `DoorInv`: a scan that is alone with an e-ticket has its row as it is, so the door opens when `is_active` goes |
| `AccountsStaySound` | `CommunityProofs` | `AccInv`: the row in a lone call's hands is the row of the table; an address that no guest spelled otherwise is had by one active account or asked for by one call (`AddressesOK`); the code that was mailed last is in the table or about to be saved |
| `RoomsStaySound` | `ChatProofs` | `RoomInv`: of a finite number of criteria one at most applies, which makes "any" and "all" the same (`FewRules`); a run of the tag task that nothing intruded on knows the day (`TagsOK`); a row about to be saved has the title of its process (`NamesOK`); the request that makes a private room has its criterion in hand (`GuardOK`) |
| `ChatStaysSound` | `ChatProofs` | `ChatInv`: of a row that one call is about, what the call has found is so; who is to be enrolled has none; a pair's room is there with both of them in it or being enrolled, so the search finds it, and whoever makes one has found none |
| `NoticesStayRight` | `ChatProofs` | `NoticesInv`: `Told` counts a notice from the queue to the mailing service, so a step that was made once is told once (`AloneWithMatter`, `StepsToldOnce`), out of turn only when two handlers crossed (`CrossingsTold`), and a message that is listed has been handed over (`ListedAfterHanded`) |
| `AccessStaysAsGranted` | `SellersProofs` | `AccessInv`: a request that nothing disturbed holds the standing and the user there are, and an alternative of its action's permission still grants it; the rest are facts about the tables of the views (`OnlyKnown`, `AsksFor`) and about the classes (`OwnerHasClass`) |
| `WalletDeskStaysSound` | `SellersProofs` | `DeskInv`: a purse that nobody shared has one caller at most, who has read it as it is (`PurseOK`); a user whose first visits never met has one call at most that makes a profile (`VisitOK`) |
| `FiguresStaySound` | `SellersProofs` | `FiguresInv`: a stock is what the ledger's rows of its seller and event add up to, the payments of the sales are the direct orders' totals, and the credit is what the finished orders earned; each is moved by an action by what its new row is worth (`StockMoved`, `OrdersGrow`, `OrderEarns`). A report's parts are totals over orders that stay finished, read one after the other (`ReportedGrows`); two periods of one frequency are the same or have no day in common (`PeriodsApart`), for any calendar whose months have 28 to 31 days |
| `NoticesToldOnce` | `CommunityProofs` | `NoticeInv`: a device and what it is told are in no other batch and in no queued task (`BatchesOK`, `QueueOK`); passages not yet made are untouched (`FreshOK`); of the audiences told once, a batch has one device of a user (`OneDevice`, `OnceOK`) |

Theorems whose property is named `Serial...`, and those with a history variable
in their statement, have a premise that excludes an overlap: the invariant is
then an implication of the premise for everything but the types. The premise can
hold for ever (all runs reach states with several calls done and the premise
true), and where it cannot be dropped TLC finds the state.

## Only model-checked

- *Liveness.* `StartedInTimeIsFinished`, `PaidInTimeIsServed`, `RequestsEnd`,
  `StatusComesRight` hold under fairness; their proofs would need ENABLED, which
  this version of TLAPS does not reason about. They are the only properties of the
  passing runs without a theorem.
- The five violation runs are counterexamples, found by TLC.

## Not modelled

- *Update and deletion of an order* (`events/views/orders.py:107`): it saves the
  whole row as it had read it and can put back a status; the pipeline takes an
  order as it was made. `OrderItem.quantity` is not bounded below
  (`events/models/orders.py:37`); quantities are positive in the models. What an
  allocation took from the ticket is taken again when the seller sells
  (`super_sellers/services/sales.py:137`): this is modelled as it is, and why
  `SeatsAccounted` counts both.
- *Other statistics, news, search, reference data, favourites' lists*: queries and
  independent records.
- *Adapters*: the exchange with the gateway, mail, WhatsApp, SMS and push
  services. The payment websocket's route is commented out
  (`users/ws_routing.py:16`). The sending of invitations changes nothing
  that is read.
- *Layout and data*: serializers' field lists, enumerations, message templates,
  admin pages, migrations, populate commands, swagger decorators, tests.
  `users/serializers.py` is dead: Python imports the package of the same name.
- Inside modelled components, the `components` of `PROJECT.json` say what is
  left out of each.

## Plan

Every safety property of the passing runs is stated by a theorem; what remains of
the proofs is liveness, when the prover can do it. To model: the serializers of
users and invitations, as far as they refuse.
