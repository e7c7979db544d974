-------------------------------- MODULE ChatRooms --------------------------------
(* The chat rooms of an event and the subscriptions to them.  A room is open  *)
(* (public, or private with criteria) or personal, between two users.         *)
(* Nothing is done in a database transaction, and since migration 0005 the    *)
(* table of subscriptions has no unique constraint: every handler looks for   *)
(* rows first and writes later.                                               *)
(*                                                                            *)
(* A subscription row is active, soft-deleted (by DELETE) or not there (after *)
(* unsubscribe, which deletes for good); rows that only differ by their key   *)
(* are counted.  Whether a user meets a private room's criteria is an input.  *)
EXTENDS Integers, Sequences, FiniteSets, TLC

CONSTANTS
  MaxRooms,     \* bound: rooms are numbered as they are created
  ChatUser,     \* users
  TeamOf,       \* the organization's owner and members, in the order they are enrolled
  ChatWorker,   \* web workers
  MaxChatCalls  \* bound: calls of the handlers

\* Membership.Meta: a user is a member once, and the owner is left out of the members' loop.
ASSUME TeamAssumption ==
  /\ MaxRooms \in Nat /\ TeamOf \in Seq(ChatUser)
  /\ \A i, j \in DOMAIN TeamOf : TeamOf[i] = TeamOf[j] => i = j

VARIABLES
  room,        \* room[r]: [kind, deleted], or NoRoom
  subs,        \* subs[r][u]: how many rows are active, how many soft-deleted
  chat,        \* chat[w]: the room and the users a worker has still to see to
  \* Observation only, but for chatCalls, which bounds the runs.
  overlapped,  \* <<r, u>> that two calls were about at once, one died on, or u has with himself
  pair,        \* pair[r]: the users a personal room was made for
  raced,       \* pairs whose room two calls were about at once, or one died on
  wiped,       \* pairs whose room was deleted, or left for good
  chatCalls

chatVars == <<room, subs, chat, overlapped, pair, raced, wiped, chatCalls>>

Room    == 1..MaxRooms
NoRoom  == [kind |-> "none"]
NoRows  == [active |-> 0, gone |-> 0]
NoChat  == [pc |-> "free", of |-> 0, todo |-> <<>>]
Rows(r, u) == subs[r][u].active + subs[r][u].gone

IsLive(r)     == room[r] # NoRoom /\ ~room[r].deleted
IsPersonal(r) == room[r].kind = "personal"
NextRoom      == Cardinality({r \in Room : room[r] # NoRoom}) + 1
UsersOf(s)    == {s[i] : i \in DOMAIN s}

Holding(r, u) == {w \in ChatWorker : chat[w].of = r /\ u \in UsersOf(chat[w].todo)}

\* The pair that a call about a personal room is about, whether the room has a number yet or not.
PairOf(w) ==
  CASE chat[w].pc = "new" -> UsersOf(chat[w].todo)
    [] chat[w].of # 0 -> pair[chat[w].of]
    [] OTHER -> {}

Counted == chatCalls < MaxChatCalls /\ chatCalls' = chatCalls + 1

Begin(w, pc, r, users) ==
  /\ chat[w] = NoChat
  /\ chat' = [chat EXCEPT ![w] = [pc |-> pc, of |-> r, todo |-> users]]
  /\ overlapped' = overlapped \cup {<<r, u>> : u \in {x \in UsersOf(users) : Holding(r, x) # {}}}

Now(w)      == Head(chat[w].todo)
Goes(w, pc) == chat' = [chat EXCEPT ![w].pc = pc]
\* The user at the head is done; the next is seen to in the same way.
NextUser(w, pc) ==
  LET left == Tail(chat[w].todo)
  IN chat' = [chat EXCEPT ![w] = IF left = <<>> THEN NoChat
                                 ELSE [chat[w] EXCEPT !.pc = pc, !.todo = left]]

--------------------------------------------------------------------------------
(* ChatRoomSubscriptionViewSet                                                *)

\* create: the room, the criteria and then the user's own rows, one query each.
Subscribe(w, r, u) ==
  /\ IsLive(r) /\ Counted
  /\ Begin(w, "check", r, <<u>>)
  /\ UNCHANGED <<room, subs, pair, raced, wiped>>

\* A soft-deleted row is restored, whatever else there is.
Check(w) ==
  /\ chat[w].pc = "check"
  /\ Goes(w, IF subs[chat[w].of][Now(w)].gone > 0 THEN "restore" ELSE "get")
  /\ UNCHANGED <<room, subs, overlapped, pair, raced, wiped, chatCalls>>

\* The row may have been restored since, or even have been deleted for good: then the
\* library's save leaves it so, or inserts it anew.
Restore(w) ==
  /\ chat[w].pc = "restore"
  /\ LET rows == subs[chat[w].of][Now(w)]
         outcomes == IF rows.gone > 0 THEN {[active |-> rows.active + 1, gone |-> rows.gone - 1]}
                     ELSE {rows} \cup (IF rows.active = 0 THEN {[rows EXCEPT !.active = 1]} ELSE {})
     IN \E after \in outcomes : subs' = [subs EXCEPT ![chat[w].of][Now(w)] = after]
  /\ NextUser(w, "check")
  /\ UNCHANGED <<room, overlapped, pair, raced, wiped, chatCalls>>

\* (A faulty variant: create where there is get_or_create.)
GetNothing(w) ==
  /\ chat[w].pc = "get"
  /\ Goes(w, "insert")
  /\ UNCHANGED <<room, subs, overlapped, pair, raced, wiped, chatCalls>>

\* get_or_create gets the row; MultipleObjectsReturned ends the call.
Get(w) ==
  /\ chat[w].pc = "get"
  /\ LET n == subs[chat[w].of][Now(w)].active
     IN CASE n = 0 -> Goes(w, "insert")
          [] n = 1 -> NextUser(w, "check")
          [] OTHER -> chat' = [chat EXCEPT ![w] = NoChat]
  /\ UNCHANGED <<room, subs, overlapped, pair, raced, wiped, chatCalls>>

\* get_or_create inserts, or the rows of a new room are created.
Insert(w) ==
  /\ chat[w].pc \in {"insert", "enrol"}
  /\ subs' = [subs EXCEPT ![chat[w].of][Now(w)].active = @ + 1]
  /\ NextUser(w, IF chat[w].pc = "enrol" THEN "enrol" ELSE "check")
  /\ UNCHANGED <<room, overlapped, pair, raced, wiped, chatCalls>>

Disturb(r, u) ==
  overlapped' = IF Holding(r, u) = {} THEN overlapped ELSE overlapped \cup {<<r, u>>}

\* unsubscribe: objects.get, which refuses two rows as it refuses none, then hard_delete.
Unsubscribe(r, u) ==
  /\ room[r] # NoRoom /\ subs[r][u].active = 1 /\ Counted
  /\ subs' = [subs EXCEPT ![r][u].active = 0]
  /\ Disturb(r, u)
  /\ wiped' = IF u \in pair[r] THEN wiped \cup {pair[r]} ELSE wiped
  /\ UNCHANGED <<room, chat, pair, raced>>

\* DELETE on the viewset: one of the user's rows is soft-deleted.
DeleteSubscription(r, u) ==
  /\ room[r] # NoRoom /\ subs[r][u].active > 0 /\ Counted
  /\ subs' = [subs EXCEPT ![r][u] = [active |-> @.active - 1, gone |-> @.gone + 1]]
  /\ Disturb(r, u)
  /\ UNCHANGED <<room, chat, pair, raced, wiped>>

--------------------------------------------------------------------------------
(* WriteOnlyChatRoomViewSet and get_personal_chat_room                        *)

AddRoom(kind) == room' = [room EXCEPT ![NextRoom] = [kind |-> kind, deleted |-> FALSE]]

\* perform_create: the room can be subscribed to before its own people are enrolled.
CreateRoom(w) ==
  /\ NextRoom \in Room /\ Counted /\ TeamOf # <<>>
  /\ AddRoom("open")
  /\ Begin(w, "enrol", NextRoom, TeamOf)
  /\ UNCHANGED <<subs, pair, raced, wiped>>

\* Soft deletion; subscriptions are DO_NOTHING.
DestroyRoom(r) ==
  /\ IsLive(r) /\ Counted
  /\ room' = [room EXCEPT ![r].deleted = TRUE]
  /\ wiped' = IF IsPersonal(r) THEN wiped \cup {pair[r]} ELSE wiped
  /\ UNCHANGED <<subs, chat, overlapped, pair, raced>>

BothActive(r, u, v) == subs[r][u].active > 0 /\ subs[r][v].active > 0
BothGone(r, u, v)   == u # v /\ subs[r][u].gone > 0 /\ subs[r][v].gone > 0
BothRows(r, u, v)   == Rows(r, u) > 0 /\ Rows(r, v) > 0

PersonalRooms == {r \in Room : IsPersonal(r)}
Newest(rooms) == {r \in rooms : \A s \in rooms : s <= r}

\* (A faulty variant: the search does not see the soft-deleted rows.)
FoundActive(u, v) ==
  Newest({r \in PersonalRooms : IsLive(r) /\ BothActive(r, u, v)})

\* start_chat_room: the newest live room with rows of both, which the join counts whether
\* they are deleted or not; else any room both have soft-deleted rows of.
Found(u, v) ==
  LET live == {r \in PersonalRooms : IsLive(r) /\ BothRows(r, u, v)}
  IN IF live # {} THEN Newest(live) ELSE {r \in PersonalRooms : BothGone(r, u, v)}

\* active_subs_count
ActiveOf(r, u, v) == subs[r][u].active + IF u = v THEN 0 ELSE subs[r][v].active

LookFor(u, v) ==
  raced' = IF \E x \in ChatWorker : PairOf(x) = {u, v} THEN raced \cup {{u, v}} ELSE raced

\* u may be v: "self-chat behavior not explicitly restricted".
StartPersonal(w, u, v) ==
  /\ Counted
  /\ LookFor(u, v)
  /\ \/ \E r \in Found(u, v) :
          /\ ~(IsLive(r) /\ ActiveOf(r, u, v) = 2)
          /\ Begin(w, IF IsLive(r) THEN "check" ELSE "reopen", r, <<u, v>>)
     \/ Found(u, v) = {} /\ Begin(w, "new", 0, <<u, v>>)
  /\ UNCHANGED <<room, subs, pair, wiped>>

SaveNewPersonal(w) ==
  /\ chat[w].pc = "new" /\ NextRoom \in Room
  /\ AddRoom("personal")
  /\ chat' = [chat EXCEPT ![w].pc = "enrol", ![w].of = NextRoom]
  /\ pair' = [pair EXCEPT ![NextRoom] = UsersOf(chat[w].todo)]
  /\ overlapped' = IF chat[w].todo[1] = chat[w].todo[2]
                   THEN overlapped \cup {<<NextRoom, chat[w].todo[1]>>} ELSE overlapped
  /\ UNCHANGED <<subs, raced, wiped, chatCalls>>

\* existing = existing.restore(): if the library returns nothing, the call goes on with no
\* room and ends in an error, after the room is live again.
Reopen(w) ==
  /\ chat[w].pc = "reopen"
  /\ room' = [room EXCEPT ![chat[w].of].deleted = FALSE]
  /\ Goes(w, "check") \/ chat' = [chat EXCEPT ![w] = NoChat]
  /\ UNCHANGED <<subs, overlapped, pair, raced, wiped, chatCalls>>

\* A read that writes: when no live room has both, one of those that ever had is brought back.
GetPersonal(w, u, v) ==
  /\ Counted
  /\ ~\E r \in PersonalRooms : IsLive(r) /\ BothActive(r, u, v)
  /\ LookFor(u, v)
  /\ \E r \in PersonalRooms :
       BothRows(r, u, v) /\ Begin(w, IF IsLive(r) THEN "check" ELSE "reopen", r, <<u, v>>)
  /\ UNCHANGED <<room, subs, pair, wiped>>

\* A worker dies, or a save fails, with work left.
ChatDies(w) ==
  /\ chat[w] # NoChat
  /\ chat' = [chat EXCEPT ![w] = NoChat]
  /\ overlapped' = overlapped \cup {<<chat[w].of, u>> : u \in UsersOf(chat[w].todo)}
  /\ raced' = raced \cup ({PairOf(w)} \ {{}})
  /\ UNCHANGED <<room, subs, pair, wiped, chatCalls>>

--------------------------------------------------------------------------------
ChatInit ==
  /\ room = [r \in Room |-> NoRoom]
  /\ subs = [r \in Room |-> [u \in ChatUser |-> NoRows]]
  /\ chat = [w \in ChatWorker |-> NoChat]
  /\ overlapped = {} /\ pair = [r \in Room |-> {}] /\ raced = {} /\ wiped = {} /\ chatCalls = 0

ChatNext ==
  \/ \E w \in ChatWorker :
       \/ Check(w) \/ Restore(w) \/ Get(w) \/ Insert(w)
       \/ CreateRoom(w) \/ SaveNewPersonal(w) \/ Reopen(w) \/ ChatDies(w)
       \/ \E u, v \in ChatUser : StartPersonal(w, u, v) \/ GetPersonal(w, u, v)
       \/ \E r \in Room, u \in ChatUser : Subscribe(w, r, u)
  \/ \E r \in Room :
       \/ DestroyRoom(r)
       \/ \E u \in ChatUser : Unsubscribe(r, u) \/ DeleteSubscription(r, u)

ChatSpec == ChatInit /\ [][ChatNext]_chatVars

--------------------------------------------------------------------------------
(* Properties                                                                 *)

\* A user has one row at most in a room, deleted or not, as long as no two calls were about
\* it at once, none died on it, and it is not a room of his with himself: leaving, coming back,
\* deleting and being enrolled go through the same row.  A second one would make unsubscribe fail
\* for good.
SerialOneSubscription ==
  \A r \in Room, u \in ChatUser : <<r, u>> \notin overlapped => Rows(r, u) <= 1

\* Two users have one personal room for an event, as long as theirs was not deleted or left for
\* good by one of them, and no two calls looked for it at once; whoever else subscribes to it.
SerialOnePersonalRoom ==
  \A r, s \in PersonalRooms :
    IsLive(r) /\ IsLive(s) /\ pair[r] = pair[s] /\ pair[r] \notin raced \cup wiped => r = s

\* Both: leaving and coming back multiply neither the rows of a room nor the rooms of two users.
ChatSound == SerialOneSubscription /\ SerialOnePersonalRoom

ChatTypeOK ==
  /\ \A r \in Room : room[r] # NoRoom => room[r].kind \in {"open", "personal"}
  /\ subs \in [Room -> [ChatUser -> [active : Nat, gone : Nat]]]
  /\ \A w \in ChatWorker :
       /\ chat[w].pc \in {"free", "check", "restore", "get", "insert", "enrol", "new", "reopen"}
       /\ chat[w].todo \in Seq(ChatUser)
================================================================================
