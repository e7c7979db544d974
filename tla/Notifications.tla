------------------------------ MODULE Notifications ------------------------------
(* What users are told of an event: the announcements that follow its         *)
(* validation, and the reminders that an hourly task sends to those who have  *)
(* chosen it as a favourite.                                                  *)
(*                                                                            *)
(* Every task works in one transaction: it finds whom to tell, inserts a row  *)
(* for each, hands one message for all of them to the mailing service, and    *)
(* commits.  An exception takes the rows back, but not what has left.         *)
(*                                                                            *)
(* A reminder has one row for the user; an announcement one for each device,  *)
(* or, for two of its audiences, one for a device of each user.               *)
(*                                                                            *)
(* bulk_send gathers one recipient per row that has a channel of the mailing  *)
(* service, and sends nothing if there is none; the rows stay all the same.   *)
EXTENDS Integers, FiniteSets, TLC

CONSTANTS
  Reader,          \* users
  Owner,           \* the publisher, and the owner of the organization
  Phone,           \* MobileDevice rows
  OwnerOf,         \* the user of each
  Nearby,          \* users one of whose points of interest is near the event
  TypeFan,         \* users who favour its type
  Follower,        \* users who follow its organization
  Moments,         \* EVENT_APPROACH_NOTIFICATIONS_MOMENTS, in hours
  Away,            \* hours to go when it is created
  NoticeWorker,    \* task workers
  MaxPassages,     \* bound: the times the event passes validation
  MaxNoticeCalls,  \* bound: calls of the views
  MaxQueued        \* bound: reminders' scans that wait

ASSUME MomentsAssumption ==
  Moments \subseteq Nat /\ Away \in Nat /\ OwnerOf \in [Phone -> Reader]

VARIABLES
  happening,   \* the event: [valid, passed, deleted]
  away,        \* hours to go
  favourite,   \* favourite[u]: "none", or a row that asks for mails or not
  subscribed,  \* subscribed[k][u]: a row of SubscriptionToNotificationType: none, on, deleted
  queued,      \* scans and announcements the broker holds
  batch,       \* batch[w]: whom a task is telling what
  noted,       \* <<to whom, topic>> that a committed Notification stands for
  toldTo,      \* toldTo[<<to whom, topic>>]: messages that left (history)
  blurred,     \* pairs two tasks had at once, or that were taken back after they left (history)
  passages,    \* times the event passed validation (history)
  noticeCalls

noticeVars == <<happening, away, favourite, subscribed, queued, batch, noted, toldTo, blurred,
                passages, noticeCalls>>

Announcement == {"publisher", "nearby", "type", "place", "followers"}
Reminder == {"approach"} \X Moments
Pair    == (Phone \X (Announcement \X (1..MaxPassages))) \cup (Reader \X Reminder)
NoBatch == [pc |-> "free", pairs |-> {}]

CountNotice == noticeCalls < MaxNoticeCalls /\ noticeCalls' = noticeCalls + 1
Shown       == ~happening.deleted
Approved    == Shown /\ happening.valid /\ happening.passed

--------------------------------------------------------------------------------
(* The event, and what users ask for                                          *)

\* initiate_notification_processes, on every save of the event.
Hook(new) ==
  IF ~happening.passed /\ new.passed /\ new.valid /\ passages < MaxPassages
  THEN /\ passages' = passages + 1
       /\ queued' = queued \cup (Announcement \X {passages + 1})
  ELSE UNCHANGED <<passages, queued>>

SaveHappening(new) ==
  /\ Shown /\ new # happening /\ CountNotice
  /\ happening' = new
  /\ Hook(new)
  /\ UNCHANGED <<away, favourite, subscribed, batch, noted, toldTo, blurred>>

\* FavouriteEventView: what is not approved can be neither chosen nor given up.
Choose(u, how) ==
  /\ Approved /\ favourite[u] = "none" /\ CountNotice
  /\ favourite' = [favourite EXCEPT ![u] = how]
  /\ UNCHANGED <<happening, away, subscribed, queued, batch, noted, toldTo, blurred, passages>>

GiveUp(u) ==
  /\ Approved /\ favourite[u] # "none" /\ CountNotice
  /\ favourite' = [favourite EXCEPT ![u] = "none"]
  /\ UNCHANGED <<happening, away, subscribed, queued, batch, noted, toldTo, blurred, passages>>

\* SubscriptionToNotificationTypeView.  The deleted row stays in the way of the unique index:
\* who has unsubscribed cannot subscribe again.
SubscribeTo(k, u) ==
  /\ subscribed[k][u] = "none" /\ CountNotice
  /\ subscribed' = [subscribed EXCEPT ![k][u] = "on"]
  /\ UNCHANGED <<happening, away, favourite, queued, batch, noted, toldTo, blurred, passages>>

UnsubscribeFrom(k, u) ==
  /\ subscribed[k][u] = "on" /\ CountNotice
  /\ subscribed' = [subscribed EXCEPT ![k][u] = "deleted"]
  /\ UNCHANGED <<happening, away, favourite, queued, batch, noted, toldTo, blurred, passages>>

HourPasses ==
  /\ away > 0 /\ away' = away - 1
  /\ queued' = IF \E n \in 1..MaxQueued : <<"scan", n>> \notin queued
               THEN queued \cup {<<"scan", CHOOSE n \in 1..MaxQueued : <<"scan", n>> \notin queued>>}
               ELSE queued
  /\ UNCHANGED <<happening, favourite, subscribed, batch, noted, toldTo, blurred, passages,
                 noticeCalls>>

--------------------------------------------------------------------------------
(* Whom a task tells what                                                     *)

\* The intervals between the moments include both of their ends.
DueMoments == {m \in Moments : away <= m /\ \A n \in Moments : n < m => n <= away}

\* (A faulty variant: rows are looked for under the wrong key, as in the task for events that
\* are nearly sold out.)
NotNoted(pair) == FALSE

Noted(pair) == pair \in noted

Reminders ==
  IF ~Shown \/ ~happening.valid THEN {}
  ELSE {pair \in {u \in Reader : favourite[u] # "none"} \X ({"approach"} \X DueMoments) :
          ~Noted(pair)}

\* Whom an announcement is for.  Users nearby are told if they have subscribed (how near they
\* are is not asked), those who favour the type if they have not.
Addressed(kind) ==
  CASE kind = "publisher" -> Owner
    [] kind = "nearby"    -> {u \in Reader : subscribed.nearby[u] = "on"}
    [] kind = "type"      -> {u \in TypeFan : subscribed.type[u] # "on"}
    [] kind = "place"     -> Nearby
    [] kind = "followers" -> Follower

\* (A faulty variant: all of them, as for the other audiences.)
AllOfThem(phones) == {phones}

\* DISTINCT ON the user, or his address: any one of his devices.
OneOfEach(phones) ==
  {some \in SUBSET phones :
     /\ \A d \in phones : \E e \in some : OwnerOf[e] = OwnerOf[d]
     /\ \A d, e \in some : OwnerOf[d] = OwnerOf[e] => d = e}

OncePerUser == {"publisher", "nearby"}

\* The sets of devices that the announcement may go to.
Audience(kind) ==
  LET phones == {d \in Phone : OwnerOf[d] \in Addressed(kind)}
  IN IF kind \in OncePerUser THEN OneOfEach(phones) ELSE {phones}

\* Followers' rows are for the inbox alone, which is not a channel of the mailing service.
HasChannel(pair) ==
  CASE pair[2][1] = "followers" -> FALSE
    [] pair[2][1] = "approach"  -> \/ favourite[pair[1]] = "mail"
                                   \/ \E d \in Phone : OwnerOf[d] = pair[1]
    [] OTHER -> TRUE

\* What a task finds to tell: the reminders that are due, or one announcement; that of an event
\* that is gone by then raises.
ToTell(m) ==
  CASE m[1] = "scan"             -> {Reminders}
    [] m[1] # "scan" /\ Shown    -> {phones \X {m} : phones \in Audience(m[1])}
    [] m[1] # "scan" /\ ~Shown   -> {{}}

Take(w, m) ==
  /\ batch[w] = NoBatch /\ m \in queued
  /\ queued' = queued \ {m}
  /\ \E pairs \in ToTell(m) :
       /\ batch' = IF pairs = {} THEN batch
                   ELSE [batch EXCEPT ![w] = [pc |-> "send", pairs |-> pairs,
                                              reached |-> {p \in pairs : HasChannel(p)}]]
       /\ blurred' = blurred \cup {p \in pairs : \E v \in NoticeWorker : p \in batch[v].pairs}
  /\ UNCHANGED <<happening, away, favourite, subscribed, noted, toldTo, passages, noticeCalls>>

\* The mailing service refuses the message, or the task dies before it.
BulkSendRaises(w) ==
  /\ batch[w].pc = "send"
  /\ batch' = [batch EXCEPT ![w] = NoBatch]
  /\ UNCHANGED <<happening, away, favourite, subscribed, queued, noted, toldTo, blurred, passages,
                 noticeCalls>>

BulkSend(w) ==
  /\ batch[w].pc = "send"
  /\ toldTo' = [p \in Pair |-> IF p \in batch[w].reached THEN toldTo[p] + 1 ELSE toldTo[p]]
  /\ batch' = [batch EXCEPT ![w].pc = "commit"]
  /\ UNCHANGED <<happening, away, favourite, subscribed, queued, noted, blurred, passages,
                 noticeCalls>>

CommitNotices(w) ==
  /\ batch[w].pc = "commit"
  /\ noted' = noted \cup batch[w].pairs
  /\ batch' = [batch EXCEPT ![w] = NoBatch]
  /\ UNCHANGED <<happening, away, favourite, subscribed, queued, toldTo, blurred, passages,
                 noticeCalls>>

\* The answer of the mailing service is lost, or the worker dies: the rows are taken back.
RollBackNotices(w) ==
  /\ batch[w].pc = "commit"
  /\ blurred' = blurred \cup batch[w].pairs
  /\ batch' = [batch EXCEPT ![w] = NoBatch]
  /\ UNCHANGED <<happening, away, favourite, subscribed, queued, noted, toldTo, passages,
                 noticeCalls>>

--------------------------------------------------------------------------------
NoticeInit ==
  /\ \E before \in BOOLEAN :   \* new, or validated and announced before
       happening = [valid |-> before, passed |-> before, deleted |-> FALSE]
  /\ away = Away /\ queued = {} /\ noted = {} /\ blurred = {} /\ passages = 0 /\ noticeCalls = 0
  /\ favourite = [u \in Reader |-> "none"]
  /\ subscribed = [nearby |-> [u \in Reader |-> "none"], type |-> [u \in Reader |-> "none"]]
  /\ batch = [w \in NoticeWorker |-> NoBatch]
  /\ toldTo = [p \in Pair |-> 0]

NoticeNext ==
  \/ \E new \in [valid : BOOLEAN, passed : BOOLEAN, deleted : BOOLEAN] : SaveHappening(new)
  \/ \E u \in Reader :
       \/ \E how \in {"mail", "no mail"} : Choose(u, how)
       \/ GiveUp(u)
       \/ \E k \in {"nearby", "type"} : SubscribeTo(k, u) \/ UnsubscribeFrom(k, u)
  \/ HourPasses
  \/ \E w \in NoticeWorker :
       \/ \E m \in queued : Take(w, m)
       \/ BulkSendRaises(w) \/ BulkSend(w) \/ CommitNotices(w) \/ RollBackNotices(w)

NoticeSpec == NoticeInit /\ [][NoticeNext]_noticeVars

--------------------------------------------------------------------------------
\* No device is told an announcement of one passage of validation twice, and no user the
\* reminder of a moment, whatever is given up and chosen again, and however late or many the
\* scans are: it takes two scans at once, or a rollback after the message left.  A user is told
\* by as many devices as he has, except of what concerns him as the publisher or as one who
\* has asked for what is nearby: that he is told by one.
SerialToldOnce ==
  /\ \A p \in Pair \ blurred : toldTo[p] <= 1
  /\ \A p, q \in {told \in Pair \ blurred : toldTo[told] # 0} :
       p[2] = q[2] /\ p[2][1] \in OncePerUser /\ OwnerOf[p[1]] = OwnerOf[q[1]] => p = q

NoticeTypeOK ==
  /\ favourite \in [Reader -> {"none", "mail", "no mail"}] /\ away \in 0..Away
  /\ noted \subseteq Pair /\ blurred \subseteq Pair /\ toldTo \in [Pair -> Nat]
  /\ \A w \in NoticeWorker : batch[w].pc \in {"free", "send", "commit"}
================================================================================
