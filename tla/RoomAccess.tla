------------------------------- MODULE RoomAccess -------------------------------
(* Who sees a chat room in his list, who may subscribe to it, and the tag     *)
(* "bientot" (soon) that the list is filtered by: the access criteria of a    *)
(* private room, the titles generated for them and cached, and the task that  *)
(* tags the rooms.  ChatRooms models the subscriptions themselves.            *)
(*                                                                            *)
(* Rows are read whole and saved whole, the tag excepted; a criterion is      *)
(* soft-deleted, and the joins of a queryset still count it.  A criterion's   *)
(* rules stand for themselves: a list of roles, or a list of tickets.  The    *)
(* settings name no cache: each web process has Django's local one, and       *)
(* serves one request at a time.                                              *)
EXTENDS Integers, FiniteSets, TLC

CONSTANTS
  Guest,         \* users
  RoomOwner,     \* Organization.owner
  Publisher,     \* Event.publisher
  Criterion,     \* keys of the criteria
  Keeper,        \* web processes
  Tagger,        \* workers of update_automatic_tags
  SoonDays,      \* days_threshold
  KeptDays,      \* days a room is listed after its event has expired
  LastDay,       \* bound: the days of a run are 0..LastDay
  MaxRoomCalls   \* bound: calls of the handlers and moves of the event

ASSUME RoomAccessAssumption ==
  /\ {RoomOwner, Publisher} \subseteq Guest
  /\ SoonDays \in Nat /\ KeptDays \in Nat /\ LastDay \in Nat /\ MaxRoomCalls \in Nat

VARIABLES
  hall,        \* the room: [private, tagged], or NoHall
  rule,        \* rule[c]: the criterion's row, or NoRule
  title,       \* title[k][c]: what the cache of process k holds under c's key, or "none"
  role,        \* role[u] in the organization; a membership that was left keeps its row
  holder,      \* users with a valid e-ticket of a finished order, of the tickets required
  eventDay,    \* Event.date, in days
  today,       \* today
  keeper,      \* keeper[k]: what a request has read
  tagger,      \* tagger[t]: what the task has read
  \* Observation only, but for roomCalls, which bounds the runs.
  postponed,   \* the event was moved
  tagsFresh,   \* a run of the task has ended, and nothing has happened since it began
  namedBy,     \* namedBy[c]: the process that saved c last, unless a save has failed since
  unguarded,   \* made public, or left without a criterion: by a failure, deleted, switched off
  roomCalls

roomVars == <<hall, rule, title, role, holder, eventDay, today, keeper, tagger, postponed, tagsFresh,
              namedBy, unguarded, roomCalls>>

NoHall == [private |-> FALSE, tagged |-> FALSE, here |-> FALSE]
NoRule == [kind |-> "none"]
Idle   == [pc |-> "idle"]
NoKeeper == "nobody"
Kinds  == {"member or coordinator", "coordinator", "ticket"}
Call   == roomCalls < MaxRoomCalls /\ roomCalls' = roomCalls + 1

--------------------------------------------------------------------------------
(* Criteria                                                                   *)

RuleRows       == {c \in Criterion : rule[c] # NoRule}
LiveRules  == {c \in RuleRows : ~rule[c].deleted}
AppliedRules == {c \in LiveRules : rule[c].active}

\* ChatRoomAccessCriteria.check_user_access
Meets(u, kind) ==
  CASE kind = "ticket" -> u \in holder
    [] kind = "coordinator" -> role[u] = "coordinator"
    [] OTHER -> role[u] \in {"member", "coordinator"}

\* ChatRoomSubscriptionViewSet.create, ChatRoom.check_user_access: all of them.
MayJoin(u) == hall.private => \A c \in AppliedRules : Meets(u, rule[c].kind)

\* The joins of the list: soft-deleted memberships and criteria are rows as any other.
InTeam(u) == role[u] # "none" \/ u = RoomOwner

\* (A faulty variant: whoever meets a criterion has the room in his list.)
SeesByMeeting(u) ==
  \E c \in AppliedRules : Meets(u, rule[c].kind) \/ (InTeam(u) /\ \E d \in RuleRows : ~rule[d].active)

\* One criterion is enough, for those of the organization.
SeesByRules(u) == InTeam(u) /\ \E c \in AppliedRules : Meets(u, rule[c].kind)

SeesWithoutRules(u) == RuleRows = {} /\ (role[u] # "none" \/ u = Publisher)

Sees(u) ==
  /\ hall.here /\ today <= eventDay + KeptDays
  /\ hall.private => SeesByRules(u) \/ SeesWithoutRules(u)

\* ChatRoomFilter.  has_any_tag looks for a key "len" within the list of tags, and finds no room.
ListedUnder(u, filter) ==
  CASE filter = "none"  -> Sees(u)
    [] filter = "soon"  -> Sees(u) /\ hall.tagged
    [] OTHER            -> FALSE

\* AccessTitleService.generate_title: what the process's cache holds, or what the rules say.
TitleOf(k, c, kind) == IF title[k][c] # "none" THEN title[k][c] ELSE kind

--------------------------------------------------------------------------------
(* WriteChatRoomViewSet and ChatRoomAccessCriteriaViewSet                     *)

\* Something happened that a run of the task may have missed.
Unsettled ==
  /\ tagsFresh' = FALSE
  /\ tagger' = [t \in Tagger |-> IF tagger[t] = Idle THEN Idle ELSE [tagger[t] EXCEPT !.fresh = FALSE]]

Begins(k, job) == keeper[k] = Idle /\ keeper' = [keeper EXCEPT ![k] = job]
Ends(k)     == keeper' = [keeper EXCEPT ![k] = Idle]

\* perform_create: a private room is there before its criterion.
CreateHall(k, private) ==
  /\ ~hall.here /\ \A g \in Keeper : keeper[g] = Idle
  /\ Call
  /\ hall' = [private |-> private, tagged |-> FALSE, here |-> TRUE]
  /\ IF private
     THEN \E c \in Criterion :
            Begins(k, [pc |-> "name", of |-> c, active |-> TRUE, kind |-> "member or coordinator"])
     ELSE UNCHANGED keeper
  /\ unguarded' = (unguarded \/ ~private)
  /\ UNCHANGED <<rule, title, role, holder, eventDay, today, tagger, postponed, tagsFresh, namedBy>>

\* add_access_criteria, and update with a row that was live when it was read.
EditRule(k, c, kind, active) ==
  /\ hall.here
  /\ rule[c] = NoRule \/ c \in LiveRules
  /\ rule[c] = NoRule => \A g \in Keeper : keeper[g] # Idle => keeper[g].of # c
  /\ Call
  /\ Begins(k, [pc |-> "name", of |-> c, active |-> active, kind |-> kind])
  /\ UNCHANGED <<hall, rule, title, role, holder, eventDay, today, tagger, postponed, tagsFresh,
                 namedBy, unguarded>>

\* save: the rules are valid, and named.
NameRule(k) ==
  /\ keeper[k].pc = "name"
  /\ LET c == keeper[k].of  name == TitleOf(k, c, keeper[k].kind) IN
     /\ title' = [title EXCEPT ![k][c] = name]
     /\ keeper' = [keeper EXCEPT ![k] = [pc |-> "row", of |-> c, kind |-> @.kind,
                                         active |-> @.active, name |-> name]]
  /\ UNCHANGED <<hall, rule, role, holder, eventDay, today, tagger, postponed, tagsFresh, namedBy,
                 unguarded, roomCalls>>

\* (A faulty variant: the name is made from the rules again.)
SaveRuleRenamed(k) ==
  /\ keeper[k].pc = "row"
  /\ rule' = [rule EXCEPT ![keeper[k].of] = [kind |-> keeper[k].kind, active |-> keeper[k].active,
                                             name |-> keeper[k].kind, deleted |-> FALSE]]
  /\ Ends(k) /\ namedBy' = [namedBy EXCEPT ![keeper[k].of] = k]
  /\ unguarded' = (unguarded \/ ~keeper[k].active)
  /\ UNCHANGED <<hall, title, role, holder, eventDay, today, tagger, postponed, tagsFresh,
                 roomCalls>>

\* The whole row: one that was deleted in between is live again.
SaveRule(k) ==
  /\ keeper[k].pc = "row"
  /\ rule' = [rule EXCEPT ![keeper[k].of] = [kind |-> keeper[k].kind, active |-> keeper[k].active,
                                             name |-> keeper[k].name, deleted |-> FALSE]]
  /\ Ends(k) /\ namedBy' = [namedBy EXCEPT ![keeper[k].of] = k]
  /\ unguarded' = (unguarded \/ ~keeper[k].active)
  /\ UNCHANGED <<hall, title, role, holder, eventDay, today, tagger, postponed, tagsFresh,
                 roomCalls>>

\* The rules name a ticket that does not exist, the save fails or the process dies: a room that
\* was to have its first criterion stays as it is.
RuleFails(k) ==
  /\ keeper[k].pc \in {"name", "row"}
  /\ Ends(k) /\ namedBy' = [namedBy EXCEPT ![keeper[k].of] = IF @ = k THEN NoKeeper ELSE @]
  /\ unguarded' = (unguarded \/ RuleRows = {})
  /\ UNCHANGED <<hall, rule, title, role, holder, eventDay, today, tagger, postponed, tagsFresh,
                 roomCalls>>

DeleteRule(c) ==
  /\ c \in LiveRules /\ Call
  /\ rule' = [rule EXCEPT ![c].deleted = TRUE]
  /\ unguarded' = TRUE
  /\ UNCHANGED <<hall, title, role, holder, eventDay, today, keeper, tagger, postponed, tagsFresh,
                 namedBy>>

\* The hour is over, or the process has been restarted.
TitleExpires(k, c) ==
  /\ title[k][c] # "none"
  /\ title' = [title EXCEPT ![k][c] = "none"]
  /\ UNCHANGED <<hall, rule, role, holder, eventDay, today, keeper, tagger, postponed, tagsFresh,
                 namedBy, unguarded, roomCalls>>

\* update: the row that was read, with its tags.
ReadHall(k, private) ==
  /\ hall.here /\ Call
  /\ Begins(k, [pc |-> "hall", of |-> "hall", row |-> [hall EXCEPT !.private = private]])
  /\ UNCHANGED <<hall, rule, title, role, holder, eventDay, today, tagger, postponed, tagsFresh,
                 namedBy, unguarded>>

SaveHall(k) ==
  /\ keeper[k].pc = "hall"
  /\ hall' = keeper[k].row /\ Ends(k)
  /\ Unsettled
  /\ UNCHANGED <<rule, title, role, holder, eventDay, today, postponed, namedBy, unguarded,
                 roomCalls>>

--------------------------------------------------------------------------------
(* ChatRoomTagService.update_automatic_tags                                   *)

Soon(d)    == today < d /\ d <= today + SoonDays
Expired(d) == d <= today

\* A run that is behind may undo what others have done.
SaveTag(t, tagged, next) ==
  /\ hall' = [hall EXCEPT !.tagged = tagged]
  /\ tagger' = [s \in Tagger |-> IF s = t THEN next
                                 ELSE IF tagger[s] = Idle \/ tagger[t].fresh THEN tagger[s]
                                 ELSE [tagger[s] EXCEPT !.fresh = FALSE]]

\* has_tag is asked of the row that was read; only the tags are saved.
FindSoon(t) ==
  /\ tagger[t] = Idle /\ hall.here /\ Call
  /\ tagger' = [tagger EXCEPT ![t] = [pc |-> IF Soon(eventDay) /\ ~hall.tagged THEN "tag" ELSE "expired",
                                      fresh |-> TRUE]]
  /\ UNCHANGED <<hall, rule, title, role, holder, eventDay, today, keeper, postponed, tagsFresh,
                 namedBy, unguarded>>

Tag(t) ==
  /\ tagger[t].pc = "tag"
  /\ SaveTag(t, TRUE, [tagger[t] EXCEPT !.pc = "expired"])
  /\ tagsFresh' = (tagsFresh /\ tagger[t].fresh)
  /\ UNCHANGED <<rule, title, role, holder, eventDay, today, keeper, postponed, namedBy, unguarded,
                 roomCalls>>

\* (A faulty variant: the events of today are not over.)
FindOver(t) ==
  /\ tagger[t].pc = "expired"
  /\ IF hall.tagged /\ eventDay < today
     THEN tagger' = [tagger EXCEPT ![t].pc = "untag"] /\ UNCHANGED tagsFresh
     ELSE tagger' = [tagger EXCEPT ![t] = Idle] /\ tagsFresh' = (tagsFresh \/ tagger[t].fresh)
  /\ UNCHANGED <<hall, rule, title, role, holder, eventDay, today, keeper, postponed, namedBy,
                 unguarded, roomCalls>>

\* _remove_expired_tags: an event that has been moved past the threshold is not expired.
FindExpired(t) ==
  /\ tagger[t].pc = "expired"
  /\ IF hall.tagged /\ Expired(eventDay)
     THEN tagger' = [tagger EXCEPT ![t].pc = "untag"] /\ UNCHANGED tagsFresh
     ELSE tagger' = [tagger EXCEPT ![t] = Idle] /\ tagsFresh' = (tagsFresh \/ tagger[t].fresh)
  /\ UNCHANGED <<hall, rule, title, role, holder, eventDay, today, keeper, postponed, namedBy,
                 unguarded, roomCalls>>

Untag(t) ==
  /\ tagger[t].pc = "untag"
  /\ SaveTag(t, FALSE, Idle)
  /\ tagsFresh' = tagger[t].fresh
  /\ UNCHANGED <<rule, title, role, holder, eventDay, today, keeper, postponed, namedBy, unguarded,
                 roomCalls>>

TaggerDies(t) ==
  /\ tagger[t] # Idle
  /\ tagger' = [tagger EXCEPT ![t] = Idle]
  /\ UNCHANGED <<hall, rule, title, role, holder, eventDay, today, keeper, postponed, tagsFresh,
                 namedBy, unguarded, roomCalls>>

--------------------------------------------------------------------------------
(* What happens around the room                                               *)

MoveEvent(d) ==
  /\ d # eventDay /\ Call
  /\ eventDay' = d /\ postponed' = TRUE /\ Unsettled
  /\ UNCHANGED <<hall, rule, title, role, holder, today, keeper, namedBy, unguarded>>

DayPasses ==
  /\ today < LastDay
  /\ today' = today + 1 /\ Unsettled
  /\ UNCHANGED <<hall, rule, title, role, holder, eventDay, keeper, postponed, namedBy, unguarded,
                 roomCalls>>

ChangeRole(u, r) ==
  /\ role[u] # r /\ (r = "former" => role[u] # "none")
  /\ role' = [role EXCEPT ![u] = r]
  /\ UNCHANGED <<hall, rule, title, holder, eventDay, today, keeper, tagger, postponed, tagsFresh,
                 namedBy, unguarded, roomCalls>>

--------------------------------------------------------------------------------
RoomInit ==
  /\ hall = NoHall
  /\ rule = [c \in Criterion |-> NoRule] /\ title = [k \in Keeper |-> [c \in Criterion |-> "none"]]
  /\ role = [u \in Guest |-> "none"] /\ holder \in SUBSET Guest
  /\ eventDay \in 0..(LastDay + SoonDays) /\ today = 0
  /\ keeper = [k \in Keeper |-> Idle] /\ tagger = [t \in Tagger |-> Idle]
  /\ postponed = FALSE /\ tagsFresh = FALSE /\ roomCalls = 0
  /\ namedBy = [c \in Criterion |-> NoKeeper] /\ unguarded = FALSE

RoomNext ==
  \/ \E k \in Keeper :
       \/ \E private \in BOOLEAN : CreateHall(k, private) \/ ReadHall(k, private)
       \/ \E c \in Criterion, kind \in Kinds, active \in BOOLEAN : EditRule(k, c, kind, active)
       \/ NameRule(k) \/ SaveRule(k) \/ RuleFails(k) \/ SaveHall(k)
       \/ \E c \in Criterion : TitleExpires(k, c)
  \/ \E c \in Criterion : DeleteRule(c)
  \/ \E t \in Tagger : FindSoon(t) \/ Tag(t) \/ FindExpired(t) \/ Untag(t) \/ TaggerDies(t)
  \/ \E d \in 0..(LastDay + SoonDays) : MoveEvent(d)
  \/ DayPasses
  \/ \E u \in Guest, r \in {"member", "coordinator", "former"} : ChangeRole(u, r)

RoomSpec == RoomInit /\ [][RoomNext]_roomVars

--------------------------------------------------------------------------------
(* Properties                                                                 *)

\* The list asks for one of the criteria and the door for all of them, in code of their own:
\* with one criterion at most they agree, and who has the room in his list may subscribe, what-
\* ever was deleted, switched off or brought back by a stale save; with one that applies, a
\* member whom the door lets in has the room in his list.
ListAgreesWithDoor ==
  hall.here /\ Cardinality(AppliedRules) <= 1 =>
    \A u \in Guest :
      /\ Sees(u) => MayJoin(u)
      /\ AppliedRules # {} /\ role[u] \in {"member", "coordinator"} /\ today <= eventDay + KeptDays =>
           (MayJoin(u) => Sees(u))

\* After a run of the task on which nothing intruded, whoever looks for what is on soon finds the
\* rooms of the coming days that he may see, and those of no past one, however many runs
\* overlapped; and a room is never tagged early.
SerialSoonIsTagged ==
  /\ tagsFresh =>
       \A u \in Guest : /\ Soon(eventDay) /\ ListedUnder(u, "none") => ListedUnder(u, "soon")
                        /\ Expired(eventDay) => ~ListedUnder(u, "soon")
  /\ hall.tagged /\ ~postponed => eventDay <= today + SoonDays

\* The name of a criterion is the title that the process which saved it last has in its cache,
\* whoever else named it meanwhile: within the hour that process goes on calling it so, whatever
\* its rules have become, while another process may give it another name.
NameIsTitle ==
  \A c \in LiveRules : LET k == namedBy[c] IN
    k # NoKeeper /\ ~(keeper[k].pc = "row" /\ keeper[k].of = c) =>
      title[k][c] \in {"none", rule[c].name}

\* A private room is saved before its first criterion, and a room without one is open to all.
\* That is so while the request that makes it is running, and after it only if the request
\* failed, the room was made public, or a criterion was deleted or switched off: what edits,
\* stale saves and changes of the room's visibility do opens no door.
GuardedOnceMade ==
  /\ hall.here /\ hall.private /\ ~unguarded
  /\ RuleRows # {} \/ \A k \in Keeper : keeper[k].pc \notin {"name", "row"}
  => \A u \in Guest : MayJoin(u) => u \in holder \/ role[u] \in {"member", "coordinator"}

RoomAccessSound == ListAgreesWithDoor /\ SerialSoonIsTagged /\ NameIsTitle /\ GuardedOnceMade

RoomAccessTypeOK ==
  /\ hall \in [private : BOOLEAN, tagged : BOOLEAN, here : BOOLEAN]
  /\ \A c \in RuleRows : rule[c].kind \in Kinds /\ rule[c].name \in Kinds
  /\ \A k \in Keeper : keeper[k].pc \in {"idle", "name", "row", "hall"}
  /\ \A t \in Tagger : tagger[t].pc \in {"idle", "tag", "expired", "untag"}
================================================================================
