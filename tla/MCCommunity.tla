------------------------------ MODULE MCCommunity ------------------------------
(* Small instances, for TLC, of the modules about events and those who take   *)
(* part in them.  They share no variable: "part" says which of them moves,    *)
(* and the states of a run are the union of the components' own.              *)
EXTENDS EventAdmin, ChatRooms, Accounts, TicketShelf, Reports, Notifications, Notices,
        RoomAccess, Door, Sessions

VARIABLE part

CONSTANTS ann, bob, order1, order2, sub1, payout1, light1, member1, account1, event1, low, mixed

communityVars == <<eventVars, chatVars, accountVars, shelfVars, reportVars, noticeVars,
                    noticesVars, roomVars, doorVars, sessionVars, part>>

JustAnn == <<ann>>
Lowered == [m \in Address |-> low]
OneEach == [p \in Pass |-> ann]
BothOfAnn == [d \in Phone |-> ann]

KindOfEach ==
  [m \in Matter |->
     CASE m = order1 -> "order" [] m = order2 -> "anonymous order" [] m = sub1 -> "subscription"
       [] m = payout1 -> "withdraw" [] m = light1 -> "highlighting" [] m = member1 -> "membership"
       [] m = account1 -> "account" [] m = event1 -> "event"]
TwoPerOrder == [m \in Matter |-> IF m \in {order1, order2} THEN 2 ELSE 0]
BothOrders  == {order1, order2}

\* All parts take their workers from one set, and their tickets, criteria and preferences
\* from another, so that few permutations are enough.
Interchangeable ==
  Permutations(EventWorker \cup ChatWorker \cup AccountWorker \cup TillWorker
                 \cup ScanWorker \cup NoticeWorker \cup Handler
                 \cup Keeper \cup Tagger \cup Scanner \cup Visitor \cup SessionWorker)
    \cup Permutations(TicketClass \cup Reporter \cup Criterion \cup Pass \cup Chip \cup Phone)

NoticesOf == Matter \cup {"ticket"}
Parts ==
  {"events", "chat", "accounts", "shelf", "reports", "report", "reminders", "announcements",
   "criteria", "tags", "door", "page", "lists", "sessions", "devices"} \cup NoticesOf

Still(p) ==
  /\ p # "events" => UNCHANGED eventVars
  /\ p # "chat" => UNCHANGED chatVars
  /\ p # "accounts" => UNCHANGED accountVars
  /\ p # "shelf" => UNCHANGED shelfVars
  /\ p \notin {"reports", "report"} => UNCHANGED reportVars
  /\ p \notin {"reminders", "announcements"} => UNCHANGED noticeVars
  /\ p \notin NoticesOf => UNCHANGED noticesVars
  /\ p \notin {"criteria", "tags"} => UNCHANGED roomVars
  /\ p \notin {"door", "page", "lists"} => UNCHANGED doorVars
  /\ p \notin {"sessions", "devices"} => UNCHANGED sessionVars
  /\ UNCHANGED part

\* The notices of one matter; or those of the ticket, of which two started orders take seats.
OnlyAbout(m) == \A h \in Handler : handler[h] # Ready => handler[h].of = m
OnlyTheTicket ==
  /\ \A h \in Handler : handler[h] # Ready => handler[h].of \in BothOrders
  /\ \A c \in Clerk : clerk[c] # Ready => clerk[c].job[2] = "soldOut"

\* Where a part does not move, one of its initial states stands for all.
FirstPreference == [at |-> 0, channel |-> "WHATSAPP", active |-> FALSE, everyDay |-> FALSE,
                    last |-> Never]

\* Two reporters whose preferences nobody edits, or one whose preference is edited.
PreferencesOf(p) ==
  CASE p = "reports" -> \A s \in Reporter : pref[s].active
    [] p = "report"  -> Cardinality({s \in Reporter : pref[s] = FirstPreference}) = 1
    [] OTHER         -> \A s \in Reporter : pref[s] = FirstPreference

Init ==
  /\ EventInit /\ ChatInit /\ AccountInit /\ ShelfInit /\ ReportInit /\ NoticeInit /\ NoticesInit
  /\ RoomInit /\ DoorInit /\ SessionInit
  /\ part \in Parts
  /\ PreferencesOf(part)
  /\ happening.valid = (part = "reminders")
  /\ IF part = "criteria" THEN RoomOwner \notin holder ELSE holder = {}
  /\ part # "tags" => eventDay = 0
  /\ part \notin {"page", "lists"} => ~show.ephemeral
  /\ step = [m \in Matter |-> IF m = order2 \/ (m = order1 /\ part = "ticket") THEN 1 ELSE 0]

\* Reminders go out for an event announced before; announcements, before anyone has it as a
\* favourite.  A room is opened for an event in runs of one call.  Roles are read by no action of
\* RoomAccess, and change last.
Next ==
  \/ part = "events" /\ EventNext /\ Still(part)
       /\ (eventCalls' > 1 => \A w \in EventWorker : desk'[w].pc # "room")
       /\ \A e \in Event : eventCalls' > 1 /\ event'[e] # NoEvent => ~event'[e].room
  \/ part = "chat" /\ ChatNext /\ Still(part)
  \/ part = "accounts" /\ AccountNext /\ Still(part)
  \/ part = "shelf" /\ ShelfNext /\ Still(part)
  \/ part = "reports" /\ ReportNext /\ UNCHANGED prefCalls /\ Still(part)
  \/ part = "report" /\ ReportNext /\ Still(part)
       /\ \A s \in Reporter : pref[s] = FirstPreference => pref'[s] = pref[s]
  \/ part = "reminders" /\ NoticeNext /\ UNCHANGED <<passages, subscribed>> /\ Still(part)
  \/ part = "announcements" /\ NoticeNext /\ UNCHANGED <<favourite, away>> /\ Still(part)
  \/ part \in Matter /\ NoticesNext /\ Still(part) /\ OnlyAbout(part)'
  \/ part = "ticket" /\ NoticesNext /\ OnlyTheTicket' /\ Still(part)
  \/ part = "criteria" /\ RoomNext /\ roomCalls' <= 3 /\ UNCHANGED <<tagger, today, eventDay>>
       /\ role'[RoomOwner] = "none" /\ Still(part)
       /\ ((\E u \in Guest : role[u] # "none") => UNCHANGED <<hall, rule, title, keeper>>)
  \/ part = "tags" /\ RoomNext /\ UNCHANGED <<rule, role>> /\ Still(part)
       /\ \A k \in Keeper : keeper'[k].pc \in {"idle", "hall"}
  \/ part = "door" /\ DoorNext /\ UNCHANGED <<covered, spot, visits>> /\ Still(part)
       /\ show' \in {show, [show EXCEPT !.valid = FALSE]}
       /\ \A v \in Visitor : visitor'[v].pc \in {"rest", "pdf"}
  \/ part = "page" /\ DoorNext /\ UNCHANGED <<pass, scanner, promised, covered, spot, phase>>
       /\ (\A v \in Visitor : visitor'[v].pc # "pdf") /\ Still(part)
  \/ part = "lists" /\ DoorNext /\ UNCHANGED <<pass, scanner, promised, visits>> /\ doorCalls' <= 2
       /\ (\A v \in Visitor : visitor'[v].pc \in {"rest", "edit"}) /\ Still(part)
  \/ part = "sessions" /\ SessionNext /\ UNCHANGED device /\ sessionCalls' <= 4 /\ Still(part)
  \/ part = "devices" /\ SessionNext /\ Still(part)
       /\ minted' <= 1 /\ ~client'[2].active /\ \A w \in SessionWorker : serving'[w].pc # "rotate"

Spec == Init /\ [][Next]_communityVars
================================================================================
