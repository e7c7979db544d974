------------------------------- MODULE ChatProofs -------------------------------
(* What is proved of the chat rooms of an event, who may enter them and what     *)
(* subscribing and leaving do to them, and of the notices that people are sent.  *)
EXTENDS RoomAccess, ChatRooms, FiniteSetTheorems, WellFoundedInduction, Notices, TLAPS

--------------------------------------------------------------------------------
(* That the list of chat rooms agrees with their door, that rooms are tagged in *)
(* time and never early, that criteria bear the names which the processes that  *)
(* saved them have cached, and that a private room is open to all only while it *)
(* is made, or when somebody opened it; for any users, criteria, processes and  *)
(* days.                                                                        *)
(*                                                                              *)
(* The list asks for one criterion and the door for all: a finite number of     *)
(* rows, of which one at most applies, makes them the same.  A run of the task  *)
(* that nothing has intruded on knows what the day is like and has done the     *)
(* half it is past.  The title that a process has cached is the one that its    *)
(* request at the criterion holds, or the row's if the process saved it last.   *)
(* As long as nobody opens the room all its criteria apply, and there is one    *)
(* or a request that is about to save it.                                       *)

HallRow == [private : BOOLEAN, tagged : BOOLEAN, here : BOOLEAN]
RuleRow == [kind : Kinds, active : BOOLEAN, name : Kinds, deleted : BOOLEAN]

KeeperCalls == {Idle}
  \cup [pc : {"name"}, of : Criterion, active : BOOLEAN, kind : Kinds]
  \cup [pc : {"row"}, of : Criterion, active : BOOLEAN, kind : Kinds, name : Kinds]
  \cup [pc : {"hall"}, of : {"hall"}, row : HallRow]

Titles == [Criterion -> {"none"} \cup Kinds]

TaggerRuns == {Idle} \cup [pc : {"tag", "expired", "untag"}, fresh : BOOLEAN]

HallTypes ==
  /\ hall \in HallRow
  /\ rule \in [Criterion -> {NoRule} \cup RuleRow] /\ title \in [Keeper -> Titles]
  /\ namedBy \in [Criterion -> Keeper \cup {NoKeeper}] /\ unguarded \in BOOLEAN
  /\ eventDay \in Nat /\ today \in Nat
  /\ keeper \in [Keeper -> KeeperCalls] /\ tagger \in [Tagger -> TaggerRuns]
  /\ postponed \in BOOLEAN /\ tagsFresh \in BOOLEAN

\* No more criteria than were made.
FewRules == IsFiniteSet(RuleRows)

\* Before there is a room nobody tags it, and a row of it that is held is of a room.
HallFirst ==
  /\ ~hall.here => ~hall.tagged /\ ~tagsFresh /\ \A t \in Tagger : tagger[t] = Idle
  /\ \A k \in Keeper : keeper[k].pc = "hall" => hall.here /\ keeper[k].row.here

\* A run that nothing has intruded on knows what the day is like, and has done the half it is past.
Knows(t) ==
  /\ tagger[t].pc = "tag" => Soon(eventDay)
  /\ tagger[t].pc = "expired" => (Soon(eventDay) => hall.tagged)
  /\ tagger[t].pc = "untag" => Expired(eventDay)

TagsOK ==
  /\ \A t \in Tagger : tagger[t] # Idle /\ tagger[t].fresh => Knows(t)
  /\ tagsFresh => (Soon(eventDay) => hall.tagged) /\ (Expired(eventDay) => ~hall.tagged)

\* Nobody holds a tag that is early, or is about to set one.
NeverEarly ==
  ~postponed =>
    /\ hall.tagged => eventDay <= today + SoonDays
    /\ \A t \in Tagger : tagger[t].pc = "tag" => eventDay <= today + SoonDays
    /\ \A k \in Keeper : keeper[k].pc = "hall" /\ keeper[k].row.tagged => eventDay <= today + SoonDays

\* What a process is about to save, and what it was the last to save, bears the title it has cached.
NamedLast(k, c) ==
  /\ keeper[k].pc = "row" /\ keeper[k].of = c => title[k][c] \in {"none", keeper[k].name}
  /\ k # NoKeeper /\ namedBy[c] = k /\ ~(keeper[k].pc = "row" /\ keeper[k].of = c) =>
       title[k][c] \in {"none", rule[c].name}

NamesOK == \A k \in Keeper, c \in Criterion : NamedLast(k, c)

\* If nobody opened the room, all its criteria apply, and there is one or a request at one.
GuardOK ==
  ~unguarded =>
    /\ \A c \in RuleRows : rule[c].active /\ ~rule[c].deleted
    /\ hall.here => RuleRows # {} \/ \E k \in Keeper : keeper[k].pc \in {"name", "row"}

RoomInv == HallTypes /\ FewRules /\ HallFirst /\ TagsOK /\ NeverEarly /\ NamesOK /\ GuardOK

USE RoomAccessAssumption

\* The list and the door agree where one criterion applies, since both then ask for it.
LEMMA ListAndDoor == RoomInv => RoomAccessSound
<1> SUFFICES ASSUME RoomInv PROVE RoomAccessSound
  OBVIOUS
<1>1. ListAgreesWithDoor
  <2> SUFFICES ASSUME hall.here, Cardinality(AppliedRules) <= 1, NEW u \in Guest
               PROVE  /\ Sees(u) => MayJoin(u)
                      /\ AppliedRules # {} /\ role[u] \in {"member", "coordinator"} /\ today <= eventDay + KeptDays =>
                           (MayJoin(u) => Sees(u))
    BY DEF ListAgreesWithDoor
  <2>1. \A c, d \in AppliedRules : c = d
    <3>1. AppliedRules \subseteq RuleRows
      BY DEF AppliedRules, LiveRules
    <3>2. IsFiniteSet(AppliedRules)
      BY <3>1, FS_Subset DEF RoomInv, FewRules
    <3>3. Cardinality(AppliedRules) \in Nat
      BY <3>2, FS_CardinalityType
    <3>4. ASSUME NEW c \in AppliedRules, NEW d \in AppliedRules, c # d PROVE FALSE
      <4>1. {c, d} \subseteq AppliedRules
        BY <3>4
      <4>2. Cardinality({c, d}) <= Cardinality(AppliedRules)
        BY <3>2, <4>1, FS_Subset
      <4>3. Cardinality({c, d}) = 2
        <5>1. IsFiniteSet({c}) /\ Cardinality({c}) = 1
          BY FS_Singleton
        <5>2. Cardinality({c} \cup {d}) = Cardinality({c}) + 1
          BY <3>4, <5>1, FS_AddElement
        <5>3. {c, d} = {c} \cup {d}
          OBVIOUS
        <5> QED BY <5>1, <5>2, <5>3
      <4> QED BY <3>3, <4>2, <4>3
    <3> QED BY <3>4
  <2>2. SeesByRules(u) => MayJoin(u)
    <3> HIDE DEF AppliedRules
    <3> QED BY <2>1 DEF SeesByRules, MayJoin
  <2>3. SeesWithoutRules(u) => MayJoin(u)
    BY DEF SeesWithoutRules, MayJoin, AppliedRules, LiveRules
  <2>4. Sees(u) => MayJoin(u)
    <3>1. ~hall.private => MayJoin(u)
      BY DEF MayJoin
    <3> QED BY <2>2, <2>3, <3>1 DEF Sees
  <2>5. AppliedRules # {} /\ role[u] \in {"member", "coordinator"} /\ hall.private /\ MayJoin(u) => SeesByRules(u)
    BY DEF MayJoin, SeesByRules, InTeam
  <2>6. AppliedRules # {} /\ role[u] \in {"member", "coordinator"} /\ today <= eventDay + KeptDays =>
           (MayJoin(u) => Sees(u))
    BY <2>5 DEF Sees
  <2> QED BY <2>4, <2>6
<1>2. SerialSoonIsTagged
  <2>1. ASSUME tagsFresh, NEW u \in Guest
        PROVE  /\ Soon(eventDay) /\ ListedUnder(u, "none") => ListedUnder(u, "soon")
               /\ Expired(eventDay) => ~ListedUnder(u, "soon")
    <3>1. (ListedUnder(u, "none") <=> Sees(u)) /\ (ListedUnder(u, "soon") <=> Sees(u) /\ hall.tagged)
      BY DEF ListedUnder
    <3> QED BY <2>1, <3>1 DEF RoomInv, TagsOK
  <2>2. hall.tagged /\ ~postponed => eventDay <= today + SoonDays
    BY DEF RoomInv, NeverEarly
  <2> QED BY <2>1, <2>2 DEF SerialSoonIsTagged
<1>3. NameIsTitle
  <2> SUFFICES ASSUME NEW c \in LiveRules, namedBy[c] # NoKeeper,
                      ~(keeper[namedBy[c]].pc = "row" /\ keeper[namedBy[c]].of = c)
               PROVE  title[namedBy[c]][c] \in {"none", rule[c].name}
    BY DEF NameIsTitle
  <2>1. PICK k \in Keeper : k = namedBy[c]
    BY DEF RoomInv, HallTypes, LiveRules, RuleRows
  <2>2. NamedLast(k, c)
    BY DEF RoomInv, NamesOK, LiveRules, RuleRows
  <2> QED BY <2>1, <2>2 DEF NamedLast
<1>4. GuardedOnceMade
  <2> SUFFICES ASSUME hall.here, hall.private, ~unguarded,
                      RuleRows # {} \/ \A k \in Keeper : keeper[k].pc \notin {"name", "row"},
                      NEW u \in Guest, MayJoin(u)
               PROVE  u \in holder \/ role[u] \in {"member", "coordinator"}
    BY DEF GuardedOnceMade
  <2>1. PICK c \in RuleRows : rule[c].active /\ ~rule[c].deleted
    BY DEF RoomInv, GuardOK
  <2>2. c \in AppliedRules
    BY <2>1 DEF AppliedRules, LiveRules
  <2> QED BY <2>2 DEF MayJoin, Meets
<1> QED BY <1>1, <1>2, <1>3, <1>4 DEF RoomAccessSound

\* There is no room.
LEMMA RoomInvInit == RoomInit => RoomInv
<1> SUFFICES ASSUME RoomInit PROVE RoomInv
  OBVIOUS
<1>1. HallTypes
  <2>1. hall \in HallRow
    BY DEF RoomInit, HallRow, NoHall
  <2>2. eventDay \in Nat /\ today \in Nat
    BY DEF RoomInit
  <2> QED BY <2>1, <2>2 DEF RoomInit, HallTypes, KeeperCalls, TaggerRuns, Titles
<1>2. RuleRows = {}
  BY DEF RoomInit, RuleRows
<1>3. \A k \in Keeper : keeper[k].pc = "idle"
  BY DEF RoomInit, Idle
<1>4. \A t \in Tagger : tagger[t] = Idle /\ tagger[t].pc = "idle"
  BY DEF RoomInit, Idle
<1>5. FewRules /\ HallFirst /\ TagsOK /\ NeverEarly
  BY <1>2, <1>3, <1>4, FS_EmptySet DEF RoomInit, NoHall, FewRules, HallFirst, TagsOK, NeverEarly
<1>6. NamesOK
  BY <1>3 DEF RoomInit, NamesOK, NamedLast
<1>7. GuardOK
  BY <1>2 DEF RoomInit, NoHall, GuardOK
<1> QED BY <1>1, <1>5, <1>6, <1>7 DEF RoomInv

\* What is written of a call or a run.
LEMMA AtKeeper ==
  ASSUME HallTypes, NEW k \in Keeper
  PROVE  /\ keeper[k].pc = "name" => keeper[k].of \in Criterion /\ keeper[k].kind \in Kinds
                                     /\ keeper[k].active \in BOOLEAN
         /\ keeper[k].pc = "row" => keeper[k].of \in Criterion /\ keeper[k].kind \in Kinds
                                    /\ keeper[k].active \in BOOLEAN /\ keeper[k].name \in Kinds
         /\ keeper[k].pc = "hall" => keeper[k].row \in HallRow
<1>1. keeper[k] \in KeeperCalls
  BY DEF HallTypes
<1> QED BY <1>1 DEF KeeperCalls, Idle

\* What is written of a run.
LEMMA AtTagger ==
  ASSUME HallTypes, NEW t \in Tagger, tagger[t] # Idle
  PROVE  /\ tagger[t].pc \in {"tag", "expired", "untag"} /\ tagger[t].fresh \in BOOLEAN
         /\ tagger[t] \in [pc : {"tag", "expired", "untag"}, fresh : BOOLEAN]
<1>1. tagger[t] \in TaggerRuns
  BY DEF HallTypes
<1> QED BY <1>1 DEF TaggerRuns, Idle

\* A run that something has intruded on goes on, and says so.
LEMMA Lapses ==
  ASSUME HallTypes, NEW s \in Tagger, tagger[s] # Idle
  PROVE  LET x == [tagger[s] EXCEPT !.fresh = FALSE]
         IN x \in TaggerRuns /\ x.pc = tagger[s].pc /\ ~x.fresh
<1>1. tagger[s] \in [pc : {"tag", "expired", "untag"}, fresh : BOOLEAN]
  BY AtTagger
<1>2. ASSUME NEW r \in [pc : {"tag", "expired", "untag"}, fresh : BOOLEAN]
      PROVE  LET x == [r EXCEPT !.fresh = FALSE] IN x \in TaggerRuns /\ x.pc = r.pc /\ ~x.fresh
  BY DEF TaggerRuns
<1> QED BY <1>1, <1>2, Zenon

\* After what intrudes, no run knows anything.
LEMMA UnsettledRuns ==
  ASSUME HallTypes, Unsettled
  PROVE  /\ tagsFresh' = FALSE /\ tagger' \in [Tagger -> TaggerRuns]
         /\ \A t \in Tagger : /\ tagger[t] = Idle => tagger'[t] = Idle
                              /\ tagger[t] # Idle => ~tagger'[t].fresh /\ tagger'[t].pc = tagger[t].pc
<1>1. /\ tagsFresh' = FALSE
      /\ tagger' = [t \in Tagger |-> IF tagger[t] = Idle THEN Idle ELSE [tagger[t] EXCEPT !.fresh = FALSE]]
  BY DEF Unsettled
<1>2. ASSUME NEW t \in Tagger
      PROVE  /\ tagger'[t] \in TaggerRuns
             /\ tagger[t] = Idle => tagger'[t] = Idle
             /\ tagger[t] # Idle => ~tagger'[t].fresh /\ tagger'[t].pc = tagger[t].pc
  <2>1. CASE tagger[t] = Idle
    BY <1>1, <2>1 DEF TaggerRuns
  <2>2. CASE tagger[t] # Idle
    <3>1. tagger'[t] = [tagger[t] EXCEPT !.fresh = FALSE]
      BY <1>1, <2>2
    <3> QED BY <2>2, <3>1, Lapses
  <2> QED BY <2>1, <2>2
<1> QED BY <1>1, <1>2

\* Nothing that concerns the tags.
SameTags == UNCHANGED <<eventDay, today, tagger, postponed, tagsFresh>>

\* A call begins: to name a criterion, or to save the room with the tags it has.
LEMMA CallBeginsInv ==
  ASSUME RoomInv, NEW k \in Keeper, NEW job \in KeeperCalls, Begins(k, job), SameTags,
         UNCHANGED <<hall, rule, title, namedBy, unguarded>>,
         \/ job.pc = "name"
         \/ job.pc = "hall" /\ hall.here /\ job.row.here /\ job.row.tagged = hall.tagged
  PROVE  RoomInv'
<1>1. /\ keeper'[k] = job /\ \A j \in Keeper \ {k} : keeper'[j] = keeper[j]
      /\ keeper' \in [Keeper -> KeeperCalls]
  BY DEF RoomInv, HallTypes, Begins
<1>2. HallTypes' /\ FewRules'
  BY <1>1 DEF RoomInv, HallTypes, FewRules, RuleRows, SameTags
<1>3. HallFirst' /\ NeverEarly'
  BY <1>1 DEF RoomInv, HallFirst, NeverEarly, SameTags
<1>4. TagsOK'
  BY DEF RoomInv, TagsOK, Knows, SameTags, Soon, Expired
<1>5. NamesOK'
  <2>1. \A j \in Keeper : keeper'[j].pc = "row" => keeper'[j] = keeper[j]
    BY <1>1
  <2>2. keeper[k].pc = "idle"
    BY DEF Begins, Idle
  <2>3. \A j \in Keeper : keeper[j].pc = "row" => keeper'[j] = keeper[j]
    BY <1>1, <2>2
  <2> QED BY <2>1, <2>3 DEF RoomInv, NamesOK, NamedLast
<1>6. GuardOK'
  <2>1. \A j \in Keeper : keeper[j].pc \in {"name", "row"} => keeper'[j].pc \in {"name", "row"}
    BY <1>1 DEF Begins, Idle
  <2> QED BY <2>1 DEF RoomInv, GuardOK, RuleRows
<1> QED BY <1>2, <1>3, <1>4, <1>5, <1>6 DEF RoomInv

\* A private room is there before its criterion, and nobody has anything in hand.
LEMMA CreateHallInv ==
  ASSUME RoomInv, NEW k \in Keeper, NEW private \in BOOLEAN, CreateHall(k, private)
  PROVE  RoomInv'
<1>1. /\ \A j \in Keeper : keeper[j] = Idle
      /\ ~hall.here /\ hall' = [private |-> private, tagged |-> FALSE, here |-> TRUE]
      /\ SameTags /\ UNCHANGED <<rule, title, namedBy>> /\ unguarded' = (unguarded \/ ~private)
  BY DEF CreateHall, SameTags
<1>2. /\ keeper' \in [Keeper -> KeeperCalls]
      /\ \A j \in Keeper : keeper'[j].pc \in {"idle", "name"}
      /\ private => keeper'[k].pc = "name"
  <2>1. CASE ~private
    <3>1. keeper' = keeper
      BY <2>1 DEF CreateHall
    <3> QED BY <1>1, <2>1, <3>1 DEF RoomInv, HallTypes, Idle
  <2>2. CASE private
    <3>1. PICK c \in Criterion :
            Begins(k, [pc |-> "name", of |-> c, active |-> TRUE, kind |-> "member or coordinator"])
      BY <2>2 DEF CreateHall
    <3>2. PICK job \in KeeperCalls : job.pc = "name" /\ keeper' = [keeper EXCEPT ![k] = job]
      BY <3>1 DEF Begins, KeeperCalls, Kinds
    <3> QED BY <1>1, <3>2 DEF RoomInv, HallTypes, Idle
  <2> QED BY <2>1, <2>2
<1>3. HallTypes' /\ FewRules'
  BY <1>1, <1>2 DEF RoomInv, HallTypes, HallRow, FewRules, RuleRows, SameTags
<1>4. HallFirst' /\ NeverEarly'
  BY <1>1, <1>2 DEF RoomInv, HallFirst, NeverEarly, SameTags, Idle
<1>5. TagsOK'
  BY <1>1 DEF RoomInv, HallFirst, TagsOK, Knows, SameTags, Soon, Expired
<1>6. NamesOK'
  <2>1. \A j \in Keeper : keeper[j].pc # "row" /\ keeper'[j].pc # "row"
    BY <1>1, <1>2 DEF Idle
  <2> QED BY <1>1, <2>1 DEF RoomInv, NamesOK, NamedLast
<1>7. GuardOK'
  BY <1>1, <1>2 DEF RoomInv, GuardOK, RuleRows
<1> QED BY <1>3, <1>4, <1>5, <1>6, <1>7 DEF RoomInv

\* A criterion gets its title, which the process's cache then has.
LEMMA NameRuleInv ==
  ASSUME RoomInv, NEW k \in Keeper, NameRule(k)
  PROVE  RoomInv'
<1>1. keeper[k].pc = "name" /\ keeper[k].of \in Criterion /\ keeper[k].kind \in Kinds
      /\ keeper[k].active \in BOOLEAN /\ title[k] \in Titles
  BY AtKeeper DEF RoomInv, NameRule, HallTypes
<1>2. PICK c \in Criterion, name \in Kinds, job \in KeeperCalls, titles \in Titles :
        /\ c = keeper[k].of /\ job.pc = "row" /\ job.of = c /\ job.name = name
        /\ titles[c] = name /\ \A d \in Criterion \ {c} : titles[d] = title[k][d]
        /\ title' = [title EXCEPT ![k] = titles] /\ keeper' = [keeper EXCEPT ![k] = job]
  <2>1. PICK c \in Criterion, kind \in Kinds, active \in BOOLEAN :
          c = keeper[k].of /\ kind = keeper[k].kind /\ active = keeper[k].active
    BY <1>1
  <2>2. PICK name \in Kinds : name = TitleOf(k, c, kind)
    BY <1>1 DEF TitleOf, Titles
  <2>3. PICK job : job = [pc |-> "row", of |-> c, kind |-> kind, active |-> active, name |-> name]
    OBVIOUS
  <2>4. job \in KeeperCalls /\ job.pc = "row" /\ job.of = c /\ job.name = name
    BY <2>3 DEF KeeperCalls
  <2>5. PICK titles \in Titles : titles = [title[k] EXCEPT ![c] = name]
    BY <1>1 DEF Titles
  <2>6. titles[c] = name /\ \A d \in Criterion \ {c} : titles[d] = title[k][d]
    BY <1>1, <2>5 DEF Titles
  <2>7. title' = [title EXCEPT ![k] = titles]
    BY <2>1, <2>2, <2>5 DEF NameRule, RoomInv, HallTypes
  <2>8. keeper' = [keeper EXCEPT ![k] = job]
    BY <1>1, <2>1, <2>2, <2>3 DEF NameRule, RoomInv, HallTypes
  <2> QED BY <2>1, <2>4, <2>6, <2>7, <2>8
<1>3. /\ keeper'[k] = job /\ \A j \in Keeper \ {k} : keeper'[j] = keeper[j]
      /\ keeper' \in [Keeper -> KeeperCalls] /\ title'[k] = titles
      /\ \A j \in Keeper \ {k} : title'[j] = title[j]
      /\ title' \in [Keeper -> Titles]
  BY <1>2 DEF RoomInv, HallTypes
<1>4. SameTags /\ UNCHANGED <<hall, rule, namedBy, unguarded>>
  BY DEF NameRule, SameTags
<1>5. HallTypes' /\ FewRules'
  BY <1>3, <1>4 DEF RoomInv, HallTypes, FewRules, RuleRows, SameTags
<1>6. HallFirst' /\ NeverEarly'
  BY <1>2, <1>3, <1>4 DEF RoomInv, HallFirst, NeverEarly, SameTags
<1>7. TagsOK'
  BY <1>4 DEF RoomInv, TagsOK, Knows, SameTags, Soon, Expired
<1>8. NamesOK'
  <2>1. ASSUME NEW j \in Keeper, NEW d \in Criterion PROVE NamedLast(j, d)'
    <3>1. NamedLast(j, d)
      BY DEF RoomInv, NamesOK
    <3>2. CASE j # k
      BY <1>3, <1>4, <3>1, <3>2 DEF NamedLast
    <3>3. CASE j = k /\ d = c
      BY <1>2, <1>3, <3>3 DEF NamedLast
    <3>4. CASE j = k /\ d # c
      BY <1>1, <1>2, <1>3, <1>4, <3>1, <3>4 DEF NamedLast
    <3> QED BY <3>2, <3>3, <3>4
  <2> QED BY <2>1 DEF NamesOK
<1>9. GuardOK'
  <2>1. \A j \in Keeper : keeper[j].pc \in {"name", "row"} => keeper'[j].pc \in {"name", "row"}
    BY <1>2, <1>3
  <2> QED BY <1>4, <2>1 DEF RoomInv, GuardOK, RuleRows
<1> QED BY <1>5, <1>6, <1>7, <1>8, <1>9 DEF RoomInv

\* A criterion's row is saved, with the title its request holds.
LEMMA SaveRuleInv ==
  ASSUME RoomInv, NEW k \in Keeper, SaveRule(k)
  PROVE  RoomInv'
<1>1. keeper[k].pc = "row" /\ keeper[k].of \in Criterion /\ keeper[k].kind \in Kinds
      /\ keeper[k].active \in BOOLEAN /\ keeper[k].name \in Kinds
  BY AtKeeper DEF RoomInv, SaveRule
<1>2. PICK c \in Criterion, row \in RuleRow :
        /\ c = keeper[k].of /\ row.name = keeper[k].name /\ rule' = [rule EXCEPT ![c] = row]
        /\ row.active = keeper[k].active /\ ~row.deleted /\ row # NoRule
  <2>1. PICK row : row = [kind |-> keeper[k].kind, active |-> keeper[k].active,
                          name |-> keeper[k].name, deleted |-> FALSE]
    OBVIOUS
  <2>3. /\ row \in RuleRow /\ row.name = keeper[k].name
        /\ row.active = keeper[k].active /\ ~row.deleted /\ row.kind # "none"
    BY <1>1, <2>1 DEF RuleRow, Kinds
  <2>2. rule' = [rule EXCEPT ![keeper[k].of] = row]
    BY <2>1, Zenon DEF SaveRule
  <2>4. row # NoRule
    BY <2>3 DEF NoRule
  <2> QED BY <1>1, <2>2, <2>3, <2>4, Zenon
<1>3. /\ keeper'[k] = Idle /\ keeper'[k].pc = "idle" /\ \A j \in Keeper \ {k} : keeper'[j] = keeper[j]
      /\ keeper' \in [Keeper -> KeeperCalls] /\ rule'[c] = row
      /\ \A d \in Criterion \ {c} : rule'[d] = rule[d]
      /\ rule' \in [Criterion -> {NoRule} \cup RuleRow]
  BY <1>2 DEF RoomInv, HallTypes, SaveRule, Ends, KeeperCalls, Idle
<1>4. /\ SameTags /\ UNCHANGED <<hall, title>>
      /\ namedBy' = [namedBy EXCEPT ![c] = k] /\ unguarded' = (unguarded \/ ~keeper[k].active)
  BY <1>2 DEF SaveRule, SameTags
<1>5. HallTypes'
  BY <1>1, <1>3, <1>4 DEF RoomInv, HallTypes, SameTags
<1>6. FewRules'
  <2>1. RuleRows' \subseteq RuleRows \cup {c}
    BY <1>3 DEF RuleRows
  <2>2. IsFiniteSet(RuleRows \cup {c})
    BY FS_AddElement DEF RoomInv, FewRules
  <2> QED BY <2>1, <2>2, FS_Subset DEF FewRules
<1>7. HallFirst' /\ NeverEarly'
  BY <1>3, <1>4 DEF RoomInv, HallFirst, NeverEarly, SameTags
<1>8. TagsOK'
  BY <1>4 DEF RoomInv, TagsOK, Knows, SameTags, Soon, Expired
<1>9. NamesOK'
  <2>1. namedBy'[c] = k /\ \A d \in Criterion \ {c} : namedBy'[d] = namedBy[d]
    BY <1>4 DEF RoomInv, HallTypes
  <2>2. ASSUME NEW j \in Keeper, NEW d \in Criterion PROVE NamedLast(j, d)'
    <3>1. NamedLast(j, d)
      BY DEF RoomInv, NamesOK
    <3>2. CASE d # c
      BY <1>1, <1>2, <1>3, <1>4, <2>1, <3>1, <3>2 DEF NamedLast
    <3>3. CASE d = c /\ j = k
      BY <1>1, <1>2, <1>3, <1>4, <3>1, <3>3 DEF NamedLast
    <3>4. CASE d = c /\ j # k
      BY <1>3, <1>4, <2>1, <3>1, <3>4 DEF NamedLast
    <3> QED BY <3>2, <3>3, <3>4
  <2> QED BY <2>2 DEF NamesOK
<1>10. GuardOK'
  BY <1>1, <1>2, <1>3, <1>4 DEF RoomInv, GuardOK, RuleRows
<1> QED BY <1>5, <1>6, <1>7, <1>8, <1>9, <1>10 DEF RoomInv

\* The save of a criterion fails: if there is none, the room is open.
LEMMA RuleFailsInv ==
  ASSUME RoomInv, NEW k \in Keeper, RuleFails(k)
  PROVE  RoomInv'
<1>1. keeper[k].pc \in {"name", "row"} /\ keeper[k].of \in Criterion
  BY AtKeeper DEF RoomInv, RuleFails
<1>2. /\ keeper'[k] = Idle /\ keeper'[k].pc = "idle" /\ \A j \in Keeper \ {k} : keeper'[j] = keeper[j]
      /\ keeper' \in [Keeper -> KeeperCalls]
  BY DEF RoomInv, HallTypes, RuleFails, Ends, KeeperCalls, Idle
<1>3. PICK c \in Criterion : c = keeper[k].of
  BY <1>1
<1>4. /\ SameTags /\ UNCHANGED <<hall, rule, title>> /\ unguarded' = (unguarded \/ RuleRows = {})
      /\ namedBy'[c] = IF namedBy[c] = k THEN NoKeeper ELSE namedBy[c]
      /\ \A d \in Criterion \ {c} : namedBy'[d] = namedBy[d]
      /\ namedBy' \in [Criterion -> Keeper \cup {NoKeeper}]
  BY <1>3 DEF RuleFails, SameTags, RoomInv, HallTypes
<1>5. HallTypes' /\ FewRules'
  BY <1>2, <1>4 DEF RoomInv, HallTypes, FewRules, RuleRows, SameTags
<1>6. HallFirst' /\ NeverEarly'
  BY <1>2, <1>4 DEF RoomInv, HallFirst, NeverEarly, SameTags
<1>7. TagsOK'
  BY <1>4 DEF RoomInv, TagsOK, Knows, SameTags, Soon, Expired
<1>8. NamesOK'
  <2>1. ASSUME NEW j \in Keeper, NEW d \in Criterion PROVE NamedLast(j, d)'
    <3>1. NamedLast(j, d)
      BY DEF RoomInv, NamesOK
    <3>2. CASE j # k
      BY <1>2, <1>4, <3>1, <3>2 DEF NamedLast
    <3>3. CASE j = k
      BY <1>2, <1>3, <1>4, <3>1, <3>3 DEF NamedLast
    <3> QED BY <3>2, <3>3
  <2> QED BY <2>1 DEF NamesOK
<1>9. GuardOK'
  BY <1>4 DEF RoomInv, GuardOK, RuleRows
<1> QED BY <1>5, <1>6, <1>7, <1>8, <1>9 DEF RoomInv

\* A criterion is deleted: the room may be open.
LEMMA DeleteRuleInv ==
  ASSUME RoomInv, NEW c \in Criterion, DeleteRule(c)
  PROVE  RoomInv'
<1>1. SameTags /\ UNCHANGED <<hall, keeper, title, namedBy>> /\ unguarded' = TRUE
  BY DEF DeleteRule, SameTags
<1>2. HallFirst' /\ NeverEarly' /\ TagsOK'
  BY <1>1 DEF RoomInv, HallFirst, NeverEarly, TagsOK, Knows, SameTags, Soon, Expired
<1>3. rule[c] \in RuleRow /\ rule' = [rule EXCEPT ![c].deleted = TRUE]
  BY DEF DeleteRule, LiveRules, RuleRows, RoomInv, HallTypes
<1>4. ASSUME NEW r \in RuleRow
      PROVE  LET x == [r EXCEPT !.deleted = TRUE] IN x \in RuleRow /\ x.name = r.name
  BY DEF RuleRow
<1>5. PICK row \in RuleRow : row = [rule[c] EXCEPT !.deleted = TRUE] /\ row.name = rule[c].name
  BY <1>3, <1>4, Zenon
<1>6. rule' = [rule EXCEPT ![c] = row]
  BY <1>3, <1>5 DEF RoomInv, HallTypes
<1>7. /\ rule' \in [Criterion -> {NoRule} \cup RuleRow] /\ rule'[c] = row /\ rule[c] # NoRule
      /\ \A d \in Criterion \ {c} : rule'[d] = rule[d]
  BY <1>6 DEF RoomInv, HallTypes, DeleteRule, LiveRules, RuleRows
<1>8. HallTypes'
  BY <1>1, <1>7 DEF RoomInv, HallTypes, SameTags
<1>9. FewRules'
  <2>1. RuleRows' \subseteq RuleRows
    BY <1>7 DEF RuleRows
  <2> QED BY <2>1, FS_Subset DEF RoomInv, FewRules
<1>10. NamesOK'
  <2>1. \A d \in Criterion : rule'[d].name = rule[d].name
    BY <1>5, <1>7
  <2> QED BY <1>1, <2>1 DEF RoomInv, NamesOK, NamedLast
<1>11. GuardOK'
  BY <1>1 DEF GuardOK
<1> QED BY <1>2, <1>8, <1>9, <1>10, <1>11 DEF RoomInv

\* A title leaves the cache of a process.
LEMMA TitleExpiresInv ==
  ASSUME RoomInv, NEW k \in Keeper, NEW c \in Criterion, TitleExpires(k, c)
  PROVE  RoomInv'
<1>1. SameTags /\ UNCHANGED <<hall, rule, keeper, namedBy, unguarded>>
  BY DEF TitleExpires, SameTags
<1>2. HallFirst' /\ NeverEarly' /\ TagsOK' /\ GuardOK' /\ FewRules'
  BY <1>1 DEF RoomInv, HallFirst, NeverEarly, TagsOK, Knows, SameTags, Soon, Expired, GuardOK, FewRules,
              RuleRows
<1>3. title[k] \in Titles
  BY DEF RoomInv, HallTypes
<1>4. PICK titles \in Titles : titles = [title[k] EXCEPT ![c] = "none"]
  BY <1>3 DEF Titles
<1>5. titles[c] = "none" /\ \A d \in Criterion \ {c} : titles[d] = title[k][d]
  BY <1>3, <1>4 DEF Titles
<1>6. title' = [title EXCEPT ![k] = titles]
  BY <1>4 DEF TitleExpires, RoomInv, HallTypes
<1>7. /\ title' \in [Keeper -> Titles] /\ title'[k] = titles
      /\ \A j \in Keeper \ {k} : title'[j] = title[j]
  BY <1>6 DEF RoomInv, HallTypes
<1>8. HallTypes'
  BY <1>1, <1>7 DEF RoomInv, HallTypes, SameTags
<1>9. NamesOK'
  <2>1. ASSUME NEW j \in Keeper, NEW d \in Criterion PROVE NamedLast(j, d)'
    <3>1. NamedLast(j, d)
      BY DEF RoomInv, NamesOK
    <3>2. title'[j][d] \in {"none", title[j][d]}
      BY <1>5, <1>7
    <3> QED BY <1>1, <3>1, <3>2 DEF NamedLast
  <2> QED BY <2>1 DEF NamesOK
<1> QED BY <1>2, <1>8, <1>9 DEF RoomInv

\* The row of the room is saved, with the tags it had when it was read: no run can know any more.
LEMMA SaveHallInv ==
  ASSUME RoomInv, NEW k \in Keeper, SaveHall(k)
  PROVE  RoomInv'
<1>1. keeper[k].pc = "hall" /\ keeper[k].row \in HallRow /\ hall' = keeper[k].row
  BY AtKeeper DEF RoomInv, SaveHall
<1>2. /\ keeper'[k] = Idle /\ keeper'[k].pc = "idle" /\ \A j \in Keeper \ {k} : keeper'[j] = keeper[j]
      /\ keeper' \in [Keeper -> KeeperCalls]
  BY DEF RoomInv, HallTypes, SaveHall, Ends, KeeperCalls, Idle
<1>3. /\ tagsFresh' = FALSE /\ tagger' \in [Tagger -> TaggerRuns]
      /\ \A t \in Tagger : /\ tagger[t] = Idle => tagger'[t] = Idle
                           /\ tagger[t] # Idle => ~tagger'[t].fresh /\ tagger'[t].pc = tagger[t].pc
  BY UnsettledRuns DEF RoomInv, SaveHall
<1>4. UNCHANGED <<rule, title, eventDay, today, postponed, namedBy, unguarded>>
  BY DEF SaveHall
<1>5. HallTypes' /\ FewRules'
  BY <1>1, <1>2, <1>3, <1>4 DEF RoomInv, HallTypes, FewRules, RuleRows
<1>6. HallFirst'
  BY <1>1, <1>2 DEF RoomInv, HallFirst
<1>7. TagsOK'
  BY <1>3 DEF TagsOK
<1>8. NeverEarly'
  BY <1>1, <1>2, <1>3, <1>4 DEF RoomInv, NeverEarly, Idle
<1>9. NamesOK'
  <2>1. \A j \in Keeper : /\ keeper'[j].pc = "row" => keeper'[j] = keeper[j]
                          /\ keeper[j].pc = "row" => keeper'[j] = keeper[j]
    BY <1>1, <1>2
  <2> QED BY <1>4, <2>1 DEF RoomInv, NamesOK, NamedLast
<1>10. GuardOK'
  <2>1. hall.here /\ \A j \in Keeper : keeper[j].pc \in {"name", "row"} => keeper'[j].pc \in {"name", "row"}
    BY <1>1, <1>2 DEF RoomInv, HallFirst
  <2> QED BY <1>4, <2>1 DEF RoomInv, GuardOK, RuleRows
<1> QED BY <1>5, <1>6, <1>7, <1>8, <1>9, <1>10 DEF RoomInv

\* Nothing but tags and runs.
LEMMA OnlyTags ==
  ASSUME RoomInv, UNCHANGED <<rule, title, keeper, namedBy, unguarded>>, hall'.here = hall.here
  PROVE  FewRules' /\ NamesOK' /\ GuardOK'
BY DEF RoomInv, FewRules, RuleRows, NamesOK, NamedLast, GuardOK

\* A run begins, looks what has expired, or dies.
LEMMA TaskReadsInv ==
  ASSUME RoomInv, NEW t \in Tagger, FindSoon(t) \/ FindExpired(t) \/ TaggerDies(t)
  PROVE  RoomInv'
<1>1. UNCHANGED <<hall, rule, title, eventDay, today, keeper, postponed, namedBy, unguarded>>
  BY DEF FindSoon, FindExpired, TaggerDies
<1>2. PICK run \in TaggerRuns :
        /\ tagger' = [tagger EXCEPT ![t] = run] /\ (run # Idle => hall.here)
        /\ run.pc = "tag" => Soon(eventDay)
        /\ run # Idle /\ run.fresh =>
             /\ run.pc = "expired" => (Soon(eventDay) => hall.tagged)
             /\ run.pc = "untag" => Expired(eventDay)
        /\ tagsFresh' => tagsFresh \/ (hall.here /\ (Soon(eventDay) => hall.tagged)
                                                /\ (Expired(eventDay) => ~hall.tagged))
        /\ tagsFresh' \in BOOLEAN
  <2>1. CASE FindSoon(t)
    <3>1. PICK run : run = [pc |-> IF Soon(eventDay) /\ ~hall.tagged THEN "tag" ELSE "expired",
                            fresh |-> TRUE]
      OBVIOUS
    <3>2. /\ run \in TaggerRuns /\ (run.pc = "tag" <=> Soon(eventDay) /\ ~hall.tagged)
          /\ run.pc # "untag" /\ (run.pc = "expired" => (Soon(eventDay) => hall.tagged))
      BY <3>1 DEF TaggerRuns
    <3>3. tagger' = [tagger EXCEPT ![t] = run] /\ hall.here /\ tagsFresh' = tagsFresh
      BY <2>1, <3>1, Zenon DEF FindSoon
    <3>4. tagsFresh \in BOOLEAN
      BY DEF RoomInv, HallTypes
    <3> QED BY <3>2, <3>3, <3>4
  <2>2. CASE FindExpired(t)
    <3>1. tagger[t] # Idle /\ tagger[t].pc = "expired" /\ hall.here /\ tagsFresh \in BOOLEAN
      BY <2>2 DEF RoomInv, HallTypes, HallFirst, FindExpired, Idle, HallRow
    <3>2. /\ tagger[t].fresh \in BOOLEAN
          /\ tagger[t] \in [pc : {"tag", "expired", "untag"}, fresh : BOOLEAN]
      BY <3>1, AtTagger DEF RoomInv
    <3>3. CASE hall.tagged /\ Expired(eventDay)
      <4>1. ASSUME NEW r \in [pc : {"tag", "expired", "untag"}, fresh : BOOLEAN]
            PROVE  LET x == [r EXCEPT !.pc = "untag"] IN x \in TaggerRuns /\ x.pc = "untag"
        BY DEF TaggerRuns
      <4>2. PICK run \in TaggerRuns : run = [tagger[t] EXCEPT !.pc = "untag"] /\ run.pc = "untag"
        BY <3>2, <4>1, Zenon
      <4>3. tagger' = [tagger EXCEPT ![t] = run] /\ tagsFresh' = tagsFresh
        BY <2>2, <3>3, <4>2 DEF FindExpired, RoomInv, HallTypes
      <4> QED BY <3>1, <3>3, <4>2, <4>3
    <3>4. CASE ~(hall.tagged /\ Expired(eventDay))
      <4>1. tagger' = [tagger EXCEPT ![t] = Idle] /\ tagsFresh' = (tagsFresh \/ tagger[t].fresh)
        BY <2>2, <3>4 DEF FindExpired
      <4>2. tagger[t].fresh => (Soon(eventDay) => hall.tagged)
        BY <3>1 DEF RoomInv, TagsOK, Knows
      <4>3. Idle \in TaggerRuns /\ Idle.pc = "idle"
        BY DEF TaggerRuns, Idle
      <4> QED BY <3>1, <3>2, <3>4, <4>1, <4>2, <4>3
    <3> QED BY <3>3, <3>4
  <2>3. CASE TaggerDies(t)
    <3>1. tagger' = [tagger EXCEPT ![t] = Idle] /\ tagsFresh' = tagsFresh /\ tagsFresh \in BOOLEAN
      BY <2>3 DEF TaggerDies, RoomInv, HallTypes
    <3>2. Idle \in TaggerRuns /\ Idle.pc = "idle"
      BY DEF TaggerRuns, Idle
    <3> QED BY <3>1, <3>2
  <2> QED BY <2>1, <2>2, <2>3
<1>3. tagger' \in [Tagger -> TaggerRuns] /\ tagger'[t] = run /\ \A s \in Tagger \ {t} : tagger'[s] = tagger[s]
  BY <1>2 DEF RoomInv, HallTypes
<1>4. HallTypes' /\ HallFirst'
  BY <1>1, <1>2, <1>3 DEF RoomInv, HallTypes, HallFirst
<1>5. NeverEarly'
  BY <1>1, <1>2, <1>3 DEF RoomInv, HallTypes, NeverEarly, Soon
<1>6. TagsOK'
  <2>1. (Soon(eventDay)' <=> Soon(eventDay)) /\ (Expired(eventDay)' <=> Expired(eventDay))
    BY <1>1 DEF Soon, Expired
  <2> QED BY <1>1, <1>2, <1>3, <2>1 DEF RoomInv, TagsOK, Knows
<1> QED BY <1>1, <1>4, <1>5, <1>6, OnlyTags DEF RoomInv

\* A run tags or untags: one that something has intruded on may undo what others have done, and then
\* they can know no more.
LEMMA TaskSavesInv ==
  ASSUME RoomInv, NEW t \in Tagger, Tag(t) \/ Untag(t)
  PROVE  RoomInv'
<1>1. UNCHANGED <<rule, title, eventDay, today, keeper, postponed, namedBy, unguarded>>
  BY DEF Tag, Untag
<1>2. /\ tagger[t] # Idle /\ tagger[t].fresh \in BOOLEAN /\ hall.here
      /\ tagger[t] \in [pc : {"tag", "expired", "untag"}, fresh : BOOLEAN]
  <2>1. tagger[t] # Idle
    <3>1. tagger[t].pc \in {"tag", "untag"}
      BY DEF Tag, Untag
    <3> QED BY <3>1 DEF Idle
  <2> QED BY <2>1, AtTagger DEF RoomInv, HallFirst, HallTypes, HallRow
<1>3. PICK tagged \in BOOLEAN, next \in TaggerRuns :
        /\ SaveTag(t, tagged, next)
        /\ next # Idle => next.pc = "expired" /\ next.fresh = tagger[t].fresh
        /\ tagged <=> tagger[t].pc = "tag"
        /\ ~tagged => tagger[t].pc = "untag" /\ next = Idle
        /\ tagsFresh' => tagger[t].fresh
        /\ tagsFresh' \in BOOLEAN
  <2>1. CASE Tag(t)
    <3>1. ASSUME NEW r \in [pc : {"tag", "expired", "untag"}, fresh : BOOLEAN]
          PROVE  LET x == [r EXCEPT !.pc = "expired"] IN x \in TaggerRuns /\ x.pc = "expired" /\ x.fresh = r.fresh
      BY DEF TaggerRuns
    <3>2. PICK next \in TaggerRuns : /\ next = [tagger[t] EXCEPT !.pc = "expired"]
                                     /\ next.pc = "expired" /\ next.fresh = tagger[t].fresh
      BY <1>2, <3>1, Zenon
    <3>3. SaveTag(t, TRUE, next) /\ tagger[t].pc = "tag" /\ tagsFresh' = (tagsFresh /\ tagger[t].fresh)
      BY <2>1, <3>2, Zenon DEF Tag
    <3> QED BY <3>2, <3>3
  <2>2. CASE Untag(t)
    <3>1. SaveTag(t, FALSE, Idle) /\ tagger[t].pc = "untag" /\ tagsFresh' = tagger[t].fresh
      BY <2>2 DEF Untag
    <3>2. Idle \in TaggerRuns
      BY DEF TaggerRuns
    <3> QED BY <1>2, <3>1, <3>2
  <2> QED BY <2>1, <2>2
<1>4. hall' \in HallRow /\ hall'.here = hall.here /\ hall'.tagged = tagged
  <2>1. ASSUME NEW h \in HallRow
        PROVE  LET x == [h EXCEPT !.tagged = tagged] IN x \in HallRow /\ x.here = h.here /\ x.tagged = tagged
    BY DEF HallRow
  <2>2. hall \in HallRow /\ hall' = [hall EXCEPT !.tagged = tagged]
    BY <1>3 DEF SaveTag, RoomInv, HallTypes
  <2> QED BY <2>1, <2>2, Zenon
<1>5. /\ tagger' \in [Tagger -> TaggerRuns] /\ tagger'[t] = next
      /\ \A s \in Tagger \ {t} :
           \/ tagger'[s] = tagger[s] /\ (tagger[s] = Idle \/ tagger[t].fresh)
           \/ tagger[s] # Idle /\ tagger'[s].pc = tagger[s].pc /\ ~tagger'[s].fresh
  <2>1. tagger' = [s \in Tagger |-> IF s = t THEN next
                                    ELSE IF tagger[s] = Idle \/ tagger[t].fresh THEN tagger[s]
                                    ELSE [tagger[s] EXCEPT !.fresh = FALSE]]
    BY <1>3 DEF SaveTag
  <2>2. ASSUME NEW s \in Tagger, tagger[s] # Idle
        PROVE  LET x == [tagger[s] EXCEPT !.fresh = FALSE]
               IN x \in TaggerRuns /\ x.pc = tagger[s].pc /\ ~x.fresh
    BY <2>2, Lapses DEF RoomInv
  <2>3. tagger \in [Tagger -> TaggerRuns]
    BY DEF RoomInv, HallTypes
  <2>4. ASSUME NEW s \in Tagger PROVE tagger'[s] \in TaggerRuns
    BY <2>1, <2>2, <2>3
  <2>5. tagger'[t] = next
    BY <2>1
  <2>6. ASSUME NEW s \in Tagger \ {t}
        PROVE  \/ tagger'[s] = tagger[s] /\ (tagger[s] = Idle \/ tagger[t].fresh)
               \/ tagger[s] # Idle /\ tagger'[s].pc = tagger[s].pc /\ ~tagger'[s].fresh
    BY <2>1, <2>2
  <2> QED BY <2>1, <2>4, <2>5, <2>6
<1>6. HallTypes' /\ HallFirst'
  BY <1>1, <1>2, <1>3, <1>4, <1>5 DEF RoomInv, HallTypes, HallFirst
<1>7. NeverEarly'
  <2>1. ~postponed /\ tagged => eventDay <= today + SoonDays
    BY <1>3 DEF RoomInv, NeverEarly
  <2>2. \A s \in Tagger : tagger'[s].pc = "tag" => tagger[s].pc = "tag"
    BY <1>3, <1>5 DEF Idle
  <2> QED BY <1>1, <1>4, <2>1, <2>2 DEF RoomInv, NeverEarly
<1>8. TagsOK'
  <2>1. (Soon(eventDay)' <=> Soon(eventDay)) /\ (Expired(eventDay)' <=> Expired(eventDay))
    BY <1>1 DEF Soon, Expired
  <2>2. ~(Soon(eventDay) /\ Expired(eventDay))
    BY DEF Soon, Expired, RoomInv, HallTypes
  <2>3. tagger[t].fresh => /\ Soon(eventDay) => tagged
                           /\ Expired(eventDay) => ~tagged
    BY <1>2, <1>3, <2>2 DEF RoomInv, TagsOK, Knows
  <2>4. ASSUME NEW s \in Tagger, tagger'[s] # Idle, tagger'[s].fresh PROVE Knows(s)'
    <3>1. CASE s = t
      BY <1>3, <1>4, <1>5, <2>1, <2>3, <2>4, <3>1 DEF Knows
    <3>2. CASE s # t
      <4>1. tagger'[s] = tagger[s] /\ tagger[t].fresh
        BY <1>5, <2>4, <3>2
      <4>2. Knows(s)
        BY <2>4, <4>1 DEF RoomInv, TagsOK
      <4> QED BY <1>4, <2>1, <2>3, <4>1, <4>2 DEF Knows
    <3> QED BY <3>1, <3>2
  <2> QED BY <1>3, <1>4, <2>1, <2>3, <2>4 DEF TagsOK
<1> QED BY <1>1, <1>4, <1>6, <1>7, <1>8, OnlyTags DEF RoomInv

\* A day passes or the event is moved: no run can know any more.
LEMMA DaysInv ==
  ASSUME RoomInv, DayPasses \/ \E d \in 0..(LastDay + SoonDays) : MoveEvent(d)
  PROVE  RoomInv'
<1>1. UNCHANGED <<hall, rule, title, keeper, namedBy, unguarded>> /\ Unsettled
  BY DEF DayPasses, MoveEvent
<1>2. /\ tagsFresh' = FALSE /\ tagger' \in [Tagger -> TaggerRuns]
      /\ \A t \in Tagger : /\ tagger[t] = Idle => tagger'[t] = Idle
                           /\ tagger[t] # Idle => ~tagger'[t].fresh /\ tagger'[t].pc = tagger[t].pc
  BY <1>1, UnsettledRuns DEF RoomInv
<1>3. /\ eventDay' \in Nat /\ today' \in Nat /\ postponed' \in BOOLEAN
      /\ ~postponed' => ~postponed /\ eventDay' = eventDay /\ today' = today + 1
  <2>1. eventDay \in Nat /\ today \in Nat /\ postponed \in BOOLEAN
    BY DEF RoomInv, HallTypes
  <2>2. CASE DayPasses
    BY <2>1, <2>2 DEF DayPasses
  <2>3. ASSUME NEW d \in 0..(LastDay + SoonDays), MoveEvent(d)
        PROVE  eventDay' \in Nat /\ today' = today /\ postponed' = TRUE
    BY <2>3 DEF MoveEvent
  <2> QED BY <2>1, <2>2, <2>3
<1>4. HallTypes'
  BY <1>1, <1>2, <1>3 DEF RoomInv, HallTypes
<1>5. HallFirst'
  BY <1>1, <1>2 DEF RoomInv, HallFirst
<1>6. TagsOK'
  BY <1>2 DEF TagsOK
<1>7. NeverEarly'
  <2> SUFFICES ASSUME ~postponed' PROVE NeverEarly'
    BY DEF NeverEarly
  <2>1. eventDay <= today + SoonDays => eventDay' <= today' + SoonDays
    BY <1>3 DEF RoomInv, HallTypes
  <2>2. \A t \in Tagger : tagger'[t].pc = "tag" => tagger[t].pc = "tag"
    BY <1>2 DEF Idle
  <2> QED BY <1>1, <1>3, <2>1, <2>2 DEF RoomInv, NeverEarly
<1> QED BY <1>1, <1>4, <1>5, <1>6, <1>7, OnlyTags DEF RoomInv

\* Each step keeps it.
LEMMA RoomInvNext == RoomInv /\ [RoomNext]_roomVars => RoomInv'
<1> SUFFICES ASSUME RoomInv, [RoomNext]_roomVars PROVE RoomInv'
  OBVIOUS
<1>1. ASSUME NEW k \in Keeper, NEW private \in BOOLEAN, CreateHall(k, private) PROVE RoomInv'
  BY <1>1, CreateHallInv
<1>2. ASSUME NEW k \in Keeper, NEW private \in BOOLEAN, ReadHall(k, private) PROVE RoomInv'
  <2>1. ASSUME NEW h \in HallRow
        PROVE  LET x == [h EXCEPT !.private = private]
               IN x \in HallRow /\ x.here = h.here /\ x.tagged = h.tagged
    BY DEF HallRow
  <2>2. PICK row \in HallRow : /\ row = [hall EXCEPT !.private = private]
                               /\ row.here = hall.here /\ row.tagged = hall.tagged
    BY <2>1, Zenon DEF RoomInv, HallTypes
  <2>3. PICK job : job = [pc |-> "hall", of |-> "hall", row |-> row]
    OBVIOUS
  <2>4. job \in KeeperCalls /\ job.pc = "hall" /\ job.row = row
    BY <2>3 DEF KeeperCalls
  <2>5. /\ Begins(k, job) /\ hall.here
    BY <1>2, <2>2, <2>3, Zenon DEF ReadHall
  <2>6. SameTags /\ UNCHANGED <<hall, rule, title, namedBy, unguarded>>
    BY <1>2 DEF ReadHall, SameTags
  <2> QED BY <2>2, <2>4, <2>5, <2>6, CallBeginsInv
<1>3. ASSUME NEW k \in Keeper, NEW c \in Criterion, NEW kind \in Kinds, NEW active \in BOOLEAN,
             EditRule(k, c, kind, active)
      PROVE  RoomInv'
  <2>1. PICK job : job = [pc |-> "name", of |-> c, active |-> active, kind |-> kind]
    OBVIOUS
  <2>2. job \in KeeperCalls /\ job.pc = "name"
    BY <2>1 DEF KeeperCalls
  <2>3. Begins(k, job)
    BY <1>3, <2>1, Zenon DEF EditRule
  <2>4. SameTags /\ UNCHANGED <<hall, rule, title, namedBy, unguarded>>
    BY <1>3 DEF EditRule, SameTags
  <2> QED BY <2>2, <2>3, <2>4, CallBeginsInv
<1>4. ASSUME NEW k \in Keeper, NameRule(k) \/ SaveRule(k) \/ RuleFails(k) \/ SaveHall(k)
      PROVE  RoomInv'
  BY <1>4, NameRuleInv, SaveRuleInv, RuleFailsInv, SaveHallInv
<1>5. ASSUME NEW c \in Criterion, DeleteRule(c) \/ \E k \in Keeper : TitleExpires(k, c) PROVE RoomInv'
  BY <1>5, DeleteRuleInv, TitleExpiresInv
<1>6. ASSUME NEW t \in Tagger, FindSoon(t) \/ Tag(t) \/ FindExpired(t) \/ Untag(t) \/ TaggerDies(t)
      PROVE  RoomInv'
  BY <1>6, TaskReadsInv, TaskSavesInv
<1>7. ASSUME NEW u \in Guest, NEW r \in {"member", "coordinator", "former"}, ChangeRole(u, r)
      PROVE  RoomInv'
  BY <1>7 DEF ChangeRole, RoomInv, HallTypes, FewRules, RuleRows, HallFirst, TagsOK, Knows, NeverEarly,
              NamesOK, NamedLast, GuardOK, Soon, Expired
<1>8. ASSUME UNCHANGED roomVars PROVE RoomInv'
  BY <1>8 DEF roomVars, RoomInv, HallTypes, FewRules, RuleRows, HallFirst, TagsOK, Knows, NeverEarly,
              NamesOK, NamedLast, GuardOK, Soon, Expired
<1> QED BY <1>1, <1>2, <1>3, <1>4, <1>5, <1>6, <1>7, <1>8, DaysInv DEF RoomNext

\* The rooms: who has one in his list may subscribe to it as long as one criterion at most applies,
\* and the other way round for members; after a run of the task that nothing intruded on, the tag
\* "bientot" is on the rooms of the coming days and no others, and never early; a criterion's name is
\* the title that the process which saved it last has cached; and a private room lets in those who
\* meet a criterion only, once it is made, unless somebody opened it; for any users, criteria,
\* processes, days and moves of the event.
THEOREM RoomsStaySound == RoomSpec => []RoomAccessSound
<1>1. RoomInv /\ [RoomNext]_roomVars => RoomInv'
  BY RoomInvNext
<1>2. RoomInit => RoomInv
  BY RoomInvInit
<1>3. RoomInv => RoomAccessSound
  BY ListAndDoor
<1> QED BY <1>1, <1>2, <1>3, PTL DEF RoomSpec

--------------------------------------------------------------------------------
(* That leaving, coming back, being deleted and being enrolled multiply neither *)
(* the rows of a chat room nor the personal rooms of two users, for any users,  *)
(* workers and number of rooms.                                                 *)
(*                                                                              *)
(* The row that one call at a time is about is as the call has found it, and    *)
(* who is still to be enrolled has none.  A pair that one call at a time looked *)
(* for has one room at most, where both have a row or are being enrolled: so    *)
(* the search finds it, and whoever makes a room has found none.                *)

RoomRow == [kind : {"open", "personal"}, deleted : BOOLEAN]
SubRow  == [active : Nat, gone : Nat]
ChatJobs == {NoChat} \cup
  {c \in [pc : {"check", "restore", "get", "insert", "enrol", "new", "reopen"}, of : {0} \cup Room,
          todo : Seq(ChatUser)] :
     c.todo # <<>> /\ IF c.pc = "new" THEN c.of = 0 /\ Len(c.todo) = 2 ELSE c.of # 0}

ChatTypes ==
  /\ room \in [Room -> {NoRoom} \cup RoomRow]
  /\ subs \in [Room -> [ChatUser -> SubRow]]
  /\ chat \in [ChatWorker -> ChatJobs]
  /\ pair \in [Room -> SUBSET ChatUser]

\* Rooms are numbered from 1, nobody is in one that is not there yet or at work on it, and those
\* that were made for a pair are the personal ones.
RoomsOK ==
  /\ \E n \in 0..MaxRooms : {r \in Room : room[r] # NoRoom} = 1..n
  /\ \A r \in Room : room[r] = NoRoom => \A u \in ChatUser : subs[r][u] = NoRows
  /\ \A w \in ChatWorker : chat[w].of # 0 => room[chat[w].of] # NoRoom
  /\ \A r \in Room : IsPersonal(r) <=> pair[r] # {}

Once(s, u) == \A i, j \in DOMAIN s : s[i] = u /\ s[j] = u => i = j

\* A user that one call at a time is about has one row at most, and what the call has found of it
\* is so still; who is to be enrolled has none.
OneRow(r, u) ==
  /\ Rows(r, u) <= 1
  /\ \A v, w \in Holding(r, u) : v = w
  /\ \A w \in Holding(r, u) :
       /\ chat[w].pc = "enrol" => Rows(r, u) = 0 /\ Once(chat[w].todo, u)
       /\ chat[w].pc = "restore" /\ Now(w) = u => subs[r][u].gone > 0
       /\ chat[w].pc = "get" /\ Now(w) = u => subs[r][u].gone = 0
       /\ chat[w].pc = "insert" /\ Now(w) = u => Rows(r, u) = 0

RowsOnce == \A r \in Room, u \in ChatUser : <<r, u>> \notin overlapped => OneRow(r, u)

MakesNew(w, p) == chat[w].pc = "new" /\ UsersOf(chat[w].todo) = p

\* A pair that one call at a time looked for has one room at most, where both have rows or are
\* being enrolled; none while one is being made.
OneRoom(p) ==
  /\ \A r, s \in Room : pair[r] = p /\ pair[s] = p => r = s
  /\ \A r \in Room : pair[r] = p =>
       /\ ~room[r].deleted
       /\ \A u \in p : Rows(r, u) > 0 \/ \E w \in Holding(r, u) : chat[w].pc = "enrol"
  /\ \A w \in ChatWorker : MakesNew(w, p) =>
       /\ \A r \in Room : pair[r] # p
       /\ \A x \in ChatWorker : MakesNew(x, p) => x = w

PairsOK == \A p \in (SUBSET ChatUser) \ (raced \cup wiped \cup {{}}) : OneRoom(p)

ChatInv == ChatTypes /\ RoomsOK /\ RowsOnce /\ PairsOK

\* What is seen to next, and what is left.
LEMMA HeadAndTail ==
  ASSUME NEW s \in Seq(ChatUser), s # <<>>
  PROVE  /\ Head(s) \in ChatUser /\ Tail(s) \in Seq(ChatUser)
         /\ UsersOf(s) \subseteq ChatUser
         /\ UsersOf(s) = {Head(s)} \cup UsersOf(Tail(s))
         /\ Len(s) = 1 => UsersOf(s) = {Head(s)}
         /\ Len(s) # 1 => Tail(s) # <<>>
<1>1. Len(s) \in Nat /\ Len(s) >= 1 /\ Head(s) = s[1] /\ DOMAIN s = 1..Len(s)
  OBVIOUS
<1>2. Tail(s) \in Seq(ChatUser) /\ Len(Tail(s)) = Len(s) - 1 /\ DOMAIN Tail(s) = 1..(Len(s) - 1)
  OBVIOUS
<1>3. \A i \in 1..(Len(s) - 1) : Tail(s)[i] = s[i + 1]
  OBVIOUS
<1>4. UsersOf(Tail(s)) \subseteq UsersOf(s)
  <2> SUFFICES ASSUME NEW i \in 1..(Len(s) - 1) PROVE Tail(s)[i] \in UsersOf(s)
    BY <1>2 DEF UsersOf
  <2>1. i + 1 \in DOMAIN s /\ Tail(s)[i] = s[i + 1]
    BY <1>1, <1>3
  <2> QED BY <2>1 DEF UsersOf
<1>5. UsersOf(s) \subseteq {Head(s)} \cup UsersOf(Tail(s))
  <2> SUFFICES ASSUME NEW i \in DOMAIN s, i # 1 PROVE s[i] \in UsersOf(Tail(s))
    BY <1>1 DEF UsersOf
  <2>1. i - 1 \in 1..(Len(s) - 1) /\ (i - 1) + 1 = i
    BY <1>1
  <2>2. s[i] = Tail(s)[i - 1]
    BY <1>3, <2>1
  <2> QED BY <1>2, <2>1, <2>2 DEF UsersOf
<1>6. Head(s) \in UsersOf(s)
  BY <1>1 DEF UsersOf
<1>7. Len(s) = 1 => UsersOf(s) = {Head(s)}
  BY <1>1 DEF UsersOf
<1>8. Len(s) # 1 => Tail(s) # <<>>
  <2>1. Len(<<>>) = 0
    OBVIOUS
  <2>2. Len(s) # 1 => Len(Tail(s)) # 0
    BY <1>1, <1>2
  <2> QED BY <2>1, <2>2, Zenon
<1>9. UsersOf(s) \subseteq ChatUser
  BY <1>1 DEF UsersOf
<1> QED BY <1>1, <1>2, <1>4, <1>5, <1>6, <1>7, <1>8, <1>9

\* Who occurs once occurs once in what is left, and not at all after his turn.
LEMMA OnceInTail ==
  ASSUME NEW s \in Seq(ChatUser), s # <<>>, NEW u \in ChatUser, Once(s, u)
  PROVE  Once(Tail(s), u) /\ (Head(s) = u => u \notin UsersOf(Tail(s)))
<1>1. Len(s) \in Nat /\ Len(s) >= 1 /\ Head(s) = s[1] /\ DOMAIN s = 1..Len(s)
  OBVIOUS
<1>2. DOMAIN Tail(s) = 1..(Len(s) - 1)
  OBVIOUS
<1>3. \A i \in 1..(Len(s) - 1) : i + 1 \in DOMAIN s /\ i + 1 # 1 /\ Tail(s)[i] = s[i + 1]
  OBVIOUS
<1>4. Once(Tail(s), u)
  <2> SUFFICES ASSUME NEW i \in 1..(Len(s) - 1), NEW j \in 1..(Len(s) - 1),
                      Tail(s)[i] = u, Tail(s)[j] = u
               PROVE  i = j
    BY <1>2 DEF Once
  <2>1. i + 1 = j + 1
    BY <1>3 DEF Once
  <2> QED BY <2>1
<1>5. ASSUME Head(s) = u, u \in UsersOf(Tail(s)) PROVE FALSE
  <2>1. PICK i \in 1..(Len(s) - 1) : Tail(s)[i] = u
    BY <1>2, <1>5 DEF UsersOf
  <2>2. i + 1 \in DOMAIN s /\ i + 1 # 1 /\ s[i + 1] = u /\ 1 \in DOMAIN s /\ s[1] = u
    BY <1>1, <1>3, <1>5, <2>1
  <2> QED BY <2>2 DEF Once
<1> QED BY <1>4, <1>5

\* One user to see to, or two.
LEMMA OneOrTwo ==
  ASSUME NEW u \in ChatUser, NEW v \in ChatUser
  PROVE  /\ <<u>> \in Seq(ChatUser) /\ <<u>> # <<>> /\ UsersOf(<<u>>) = {u}
         /\ <<u, v>> \in Seq(ChatUser) /\ <<u, v>> # <<>> /\ UsersOf(<<u, v>>) = {u, v}
         /\ Len(<<u, v>>) = 2 /\ Head(<<u, v>>) = u /\ <<u, v>>[1] = u /\ <<u, v>>[2] = v
<1>1. UsersOf(<<u>>) = {u}
  BY DEF UsersOf
<1>2. UsersOf(<<u, v>>) = {u, v}
  <2>1. DOMAIN <<u, v>> = {1, 2} /\ <<u, v>>[1] = u /\ <<u, v>>[2] = v
    OBVIOUS
  <2> QED BY <2>1 DEF UsersOf
<1>3. <<u>> \in Seq(ChatUser) /\ <<u>> # <<>>
  OBVIOUS
<1>4. <<u, v>> \in Seq(ChatUser)
  OBVIOUS
<1>5. <<u, v>> # <<>>
  OBVIOUS
<1>6. Len(<<u, v>>) = 2 /\ Head(<<u, v>>) = u /\ <<u, v>>[1] = u /\ <<u, v>>[2] = v
  OBVIOUS
<1> QED BY <1>1, <1>2, <1>3, <1>4, <1>5, <1>6, Zenon

\* Nobody is left when there is nothing.
LEMMA NobodyLeft == UsersOf(<<>>) = {}
BY DEF UsersOf

\* There is a newest one of some rooms.
LEMMA NewestIsThere ==
  ASSUME NEW rooms \in SUBSET Room, rooms # {}
  PROVE  Newest(rooms) # {}
<1> DEFINE Before == {p \in Nat \X Nat : p[1] < p[2]}
<1> DEFINE Ages == {MaxRooms - r : r \in rooms}
<1>1. IsWellFoundedOn(Before, Nat)
  BY NatLessThanWellFounded, Zenon DEF OpToRel
<1>2. Ages \subseteq Nat /\ Ages # {}
  <2>1. ASSUME NEW r \in rooms PROVE MaxRooms - r \in Nat
    <3>1. r \in 1..MaxRooms /\ MaxRooms \in Nat
      BY TeamAssumption DEF Room
    <3> QED BY <3>1
  <2> QED BY <2>1
<1>3. PICK x \in Ages : \A y \in Ages : ~(<<y, x>> \in Before)
  <2> HIDE DEF Ages, Before
  <2> QED BY <1>1, <1>2, WFMin
<1>4. PICK r \in rooms : x = MaxRooms - r
  OBVIOUS
<1>5. ASSUME NEW s \in rooms PROVE s <= r
  <2>1. MaxRooms - s \in Ages /\ MaxRooms - s \in Nat /\ x \in Nat
    BY <1>2
  <2>2. ~(MaxRooms - s < x)
    <3>1. ~(<<MaxRooms - s, x>> \in Before)
      BY <1>3, <2>1
    <3>2. <<MaxRooms - s, x>> \in Nat \X Nat
      BY <2>1
    <3>3. ~(<<MaxRooms - s, x>>[1] < <<MaxRooms - s, x>>[2])
      BY <3>1, <3>2
    <3> QED BY <3>3
  <2>3. s \in Int /\ r \in Int
    BY DEF Room
  <2>4. MaxRooms \in Nat
    BY TeamAssumption
  <2> QED BY <1>4, <2>2, <2>3, <2>4
<1> QED BY <1>5 DEF Newest

\* A room that is made is a new one, and the rooms are numbered one after the other.
LEMMA NextIsNew ==
  ASSUME ChatTypes, RoomsOK, NextRoom \in Room
  PROVE  /\ room[NextRoom] = NoRoom
         /\ \A kind : AddRoom(kind) =>
              \E n \in 0..MaxRooms : {r \in Room : room'[r] # NoRoom} = 1..n
<1>1. PICK n \in 0..MaxRooms : {r \in Room : room[r] # NoRoom} = 1..n
  BY DEF RoomsOK
<1>2. NextRoom = n + 1
  <2>1. n \in Nat /\ Cardinality(1..n) = n
    BY FS_Interval
  <2> QED BY <1>1, <2>1 DEF NextRoom
<1>3. room[NextRoom] = NoRoom
  BY <1>1, <1>2
<1>4. ASSUME NEW kind, AddRoom(kind)
      PROVE  \E k \in 0..MaxRooms : {r \in Room : room'[r] # NoRoom} = 1..k
  <2>1. PICK row : row = [kind |-> kind, deleted |-> FALSE]
    OBVIOUS
  <2>2. /\ room'[NextRoom] = row /\ row # NoRoom /\ \A r \in Room \ {NextRoom} : room'[r] = room[r]
    <3>1. room' = [room EXCEPT ![NextRoom] = row]
      BY <1>4, <2>1, Zenon DEF AddRoom
    <3>2. row # NoRoom
      <4>1. DOMAIN row = {"kind", "deleted"} /\ DOMAIN NoRoom = {"kind"}
        BY <2>1 DEF NoRoom
      <4> QED BY <4>1
    <3>3. NextRoom \in DOMAIN room /\ DOMAIN room = Room
      BY DEF ChatTypes
    <3> QED BY <3>1, <3>2, <3>3
  <2>3. {r \in Room : room'[r] # NoRoom} = {r \in Room : room[r] # NoRoom} \cup {NextRoom}
    BY <2>2
  <2>4. {r \in Room : room'[r] # NoRoom} = 1..(n + 1) /\ n + 1 \in 0..MaxRooms
    BY <1>1, <1>2, <2>3 DEF Room
  <2> QED BY <2>4
<1> QED BY <1>3, <1>4

\* A job goes on with another step.
LEMMA JobGoes ==
  ASSUME NEW c \in ChatJobs, c.of # 0,
         NEW pc \in {"check", "restore", "get", "insert", "enrol", "reopen"}
  PROVE  LET job == [c EXCEPT !.pc = pc]
         IN job \in ChatJobs /\ job.pc = pc /\ job.of = c.of /\ job.todo = c.todo
<1>1. c # NoChat
  BY DEF NoChat
<1>2. PICK job : job = [c EXCEPT !.pc = pc]
  OBVIOUS
<1>3. job \in ChatJobs /\ job.pc = pc /\ job.of = c.of /\ job.todo = c.todo
  BY <1>1, <1>2 DEF ChatJobs
<1> QED BY <1>2, <1>3, Zenon

\* A job goes on with the next user, or is over.
LEMMA JobNext ==
  ASSUME NEW c \in ChatJobs, c.of # 0, NEW pc \in {"check", "enrol"}
  PROVE  LET job == IF Tail(c.todo) = <<>> THEN NoChat ELSE [c EXCEPT !.pc = pc, !.todo = Tail(c.todo)]
         IN /\ job \in ChatJobs
            /\ Tail(c.todo) = <<>> => job = NoChat
            /\ Tail(c.todo) # <<>> => job.pc = pc /\ job.of = c.of /\ job.todo = Tail(c.todo)
<1>1. c # NoChat
  BY DEF NoChat
<1>2. c.todo \in Seq(ChatUser) /\ c.todo # <<>>
  BY <1>1 DEF ChatJobs
<1>3. NoChat \in ChatJobs
  BY DEF ChatJobs
<1>4. PICK others \in Seq(ChatUser) : others = Tail(c.todo)
  BY <1>2, HeadAndTail
<1>5. CASE others = <<>>
  BY <1>3, <1>4, <1>5
<1>6. CASE others # <<>>
  <2>1. PICK job : job = [c EXCEPT !.pc = pc, !.todo = others]
    OBVIOUS
  <2>2. job \in ChatJobs /\ job.pc = pc /\ job.of = c.of /\ job.todo = others
    BY <1>1, <1>4, <1>6, <2>1 DEF ChatJobs
  <2> QED BY <1>4, <1>6, <2>1, <2>2, Zenon
<1> QED BY <1>5, <1>6

\* A worker with nothing to do.
LEMMA NothingInHand == NoChat.pc = "free" /\ NoChat.of = 0 /\ UsersOf(NoChat.todo) = {}
BY NobodyLeft DEF NoChat

\* What is known of a job in hand.
LEMMA JobInHand ==
  ASSUME ChatTypes, NEW w \in ChatWorker, chat[w] # NoChat
  PROVE  /\ chat[w] \in ChatJobs /\ chat[w].todo \in Seq(ChatUser) /\ chat[w].todo # <<>>
         /\ chat[w].of \in {0} \cup Room /\ 0 \notin Room
         /\ chat[w].pc # "new" => chat[w].of # 0
         /\ chat[w].pc = "new" => chat[w].of = 0 /\ Len(chat[w].todo) = 2
<1>1. chat[w] \in ChatJobs
  BY DEF ChatTypes
<1> QED BY <1>1 DEF ChatJobs, Room

\* The rooms stay as numbered when a worker goes on with his job.
LEMMA RoomsStay ==
  ASSUME ChatTypes, RoomsOK, NEW w \in ChatWorker, NEW job \in ChatJobs,
         chat' = [chat EXCEPT ![w] = job], pair' = pair,
         \A r \in Room : (room'[r] = NoRoom <=> room[r] = NoRoom) /\ (IsPersonal(r)' <=> IsPersonal(r)),
         \A r \in Room, u \in ChatUser : room[r] = NoRoom => subs'[r][u] = subs[r][u],
         job.of # 0 => room[job.of] # NoRoom
  PROVE  RoomsOK'
<1>1. \E n \in 0..MaxRooms : {r \in Room : room'[r] # NoRoom} = 1..n
  BY DEF RoomsOK
<1>2. \A r \in Room : room'[r] = NoRoom => \A u \in ChatUser : subs'[r][u] = NoRows
  BY DEF RoomsOK
<1>3. ASSUME NEW x \in ChatWorker, chat'[x].of # 0 PROVE room'[chat'[x].of] # NoRoom
  <2>1. CASE x = w
    <3>1. chat'[x] = job
      BY <2>1 DEF ChatTypes
    <3>2. job.of \in Room
      <4>1. NoChat.of = 0
        BY DEF NoChat
      <4> QED BY <1>3, <3>1, <4>1 DEF ChatJobs
    <3> QED BY <1>3, <3>1, <3>2
  <2>2. CASE x # w
    <3>1. chat'[x] = chat[x] /\ chat[x] \in ChatJobs
      BY <2>2 DEF ChatTypes
    <3>2. chat[x].of \in Room
      <4>1. NoChat.of = 0
        BY DEF NoChat
      <4> QED BY <1>3, <3>1, <4>1 DEF ChatJobs
    <3> QED BY <1>3, <3>1, <3>2 DEF RoomsOK
  <2> QED BY <2>1, <2>2
<1>4. \A r \in Room : IsPersonal(r)' <=> pair'[r] # {}
  BY DEF RoomsOK
<1> QED BY <1>1, <1>2, <1>3, <1>4 DEF RoomsOK

\* What a worker who goes on with a job knows of a row that no other call was about, and of the
\* rows as they will be then.
KnowsRows(w, job, now) ==
  \A r \in Room, u \in ChatUser : <<r, u>> \notin overlapped =>
    \/ /\ now[r][u] = subs[r][u]
       /\ job.pc \in {"restore", "get", "insert"} => ~(job.of = r /\ Head(job.todo) = u)
    \/ /\ r = chat[w].of /\ u = Head(chat[w].todo)
       /\ now[r][u].active + now[r][u].gone <= 1
       /\ job.pc = "restore" => now[r][u].gone > 0
       /\ job.pc = "get" => now[r][u].gone = 0
       /\ job.pc = "insert" => now[r][u].active + now[r][u].gone = 0

\* The rows stay once each when a worker goes on with a job.
LEMMA RowsStay ==
  ASSUME ChatTypes, RowsOnce, NEW w \in ChatWorker, NEW job \in ChatJobs, chat[w] # NoChat,
         chat' = [chat EXCEPT ![w] = job], overlapped \subseteq overlapped',
         job # NoChat => job.of = chat[w].of,
         UsersOf(job.todo) \subseteq UsersOf(chat[w].todo),
         job.pc = "enrol" => chat[w].pc = "enrol" /\ job.todo = Tail(chat[w].todo),
         KnowsRows(w, job, subs')
  PROVE  RowsOnce'
<1> SUFFICES ASSUME NEW r \in Room, NEW u \in ChatUser, <<r, u>> \notin overlapped'
             PROVE  OneRow(r, u)'
  BY DEF RowsOnce
<1>1. OneRow(r, u) /\ <<r, u>> \notin overlapped
  BY DEF RowsOnce
<1>2. chat'[w] = job /\ \A x \in ChatWorker \ {w} : chat'[x] = chat[x]
  BY DEF ChatTypes
<1>3. /\ chat[w].todo \in Seq(ChatUser) /\ chat[w].todo # <<>>
  BY JobInHand
<1>4. job = NoChat => UsersOf(job.todo) = {}
  BY NobodyLeft DEF NoChat
<1>5. \A x \in ChatWorker : chat'[x].of = r /\ u \in UsersOf(chat'[x].todo) => x \in Holding(r, u)
  <2>1. chat'[w].of = r /\ u \in UsersOf(chat'[w].todo) => w \in Holding(r, u)
    BY <1>2, <1>4 DEF Holding
  <2>2. \A x \in ChatWorker \ {w} : chat'[x].of = r /\ u \in UsersOf(chat'[x].todo) => x \in Holding(r, u)
    BY <1>2 DEF Holding
  <2> QED BY <2>1, <2>2
<1>6. \A v, x \in ChatWorker :
        /\ chat'[v].of = r /\ u \in UsersOf(chat'[v].todo)
        /\ chat'[x].of = r /\ u \in UsersOf(chat'[x].todo)
        => v = x
  BY <1>1, <1>5 DEF OneRow
<1>7. CASE /\ subs'[r][u] = subs[r][u]
           /\ job.pc \in {"restore", "get", "insert"} => ~(job.of = r /\ Head(job.todo) = u)
  <2>1. subs'[r][u].active + subs'[r][u].gone <= 1
    BY <1>1, <1>7 DEF OneRow, Rows
  <2>2. ASSUME NEW x \in ChatWorker, chat'[x].of = r, u \in UsersOf(chat'[x].todo)
        PROVE  /\ chat'[x].pc = "enrol" =>
                    subs'[r][u].active + subs'[r][u].gone = 0 /\ Once(chat'[x].todo, u)
               /\ chat'[x].pc = "restore" /\ Head(chat'[x].todo) = u => subs'[r][u].gone > 0
               /\ chat'[x].pc = "get" /\ Head(chat'[x].todo) = u => subs'[r][u].gone = 0
               /\ chat'[x].pc = "insert" /\ Head(chat'[x].todo) = u =>
                    subs'[r][u].active + subs'[r][u].gone = 0
    <3>1. x \in Holding(r, u)
      BY <1>5, <2>2
    <3>2. CASE x = w
      <4>1. job.pc = "enrol" =>
              subs'[r][u].active + subs'[r][u].gone = 0 /\ Once(job.todo, u)
        <5> SUFFICES ASSUME job.pc = "enrol"
                     PROVE  subs'[r][u].active + subs'[r][u].gone = 0 /\ Once(job.todo, u)
          OBVIOUS
        <5>1. subs[r][u].active + subs[r][u].gone = 0 /\ Once(chat[w].todo, u)
          BY <1>1, <3>1, <3>2 DEF OneRow, Rows
        <5>2. Once(Tail(chat[w].todo), u)
          BY <1>3, <5>1, OnceInTail
        <5> QED BY <1>7, <5>1, <5>2
      <4> QED BY <1>2, <1>7, <2>2, <3>2, <4>1
    <3>3. CASE x # w
      BY <1>1, <1>2, <1>7, <3>1, <3>3 DEF OneRow, Rows, Now
    <3> QED BY <3>2, <3>3
  <2> QED BY <1>6, <2>1, <2>2 DEF OneRow, Rows, Holding, Now
<1>8. CASE /\ r = chat[w].of /\ u = Head(chat[w].todo)
           /\ subs'[r][u].active + subs'[r][u].gone <= 1
           /\ job.pc = "restore" => subs'[r][u].gone > 0
           /\ job.pc = "get" => subs'[r][u].gone = 0
           /\ job.pc = "insert" => subs'[r][u].active + subs'[r][u].gone = 0
  <2>1. w \in Holding(r, u)
    BY <1>3, <1>8, HeadAndTail DEF Holding
  <2>2. ASSUME NEW x \in ChatWorker, chat'[x].of = r, u \in UsersOf(chat'[x].todo)
        PROVE  x = w
    BY <1>1, <1>5, <2>1, <2>2 DEF OneRow
  <2>3. job.pc = "enrol" => u \notin UsersOf(job.todo)
    <3> SUFFICES ASSUME job.pc = "enrol" PROVE u \notin UsersOf(job.todo)
      OBVIOUS
    <3>1. Once(chat[w].todo, u)
      BY <1>1, <2>1 DEF OneRow
    <3> QED BY <1>3, <1>8, <3>1, OnceInTail
  <2>4. ASSUME NEW x \in ChatWorker, chat'[x].of = r, u \in UsersOf(chat'[x].todo)
        PROVE  /\ chat'[x].pc # "enrol"
               /\ chat'[x].pc = "restore" => subs'[r][u].gone > 0
               /\ chat'[x].pc = "get" => subs'[r][u].gone = 0
               /\ chat'[x].pc = "insert" => subs'[r][u].active + subs'[r][u].gone = 0
    BY <1>2, <1>8, <2>2, <2>3, <2>4
  <2> QED BY <1>6, <1>8, <2>4 DEF OneRow, Rows, Holding, Now
<1> QED BY <1>1, <1>7, <1>8 DEF KnowsRows

\* The rows stay once each when a free worker takes up a job, or one gets its room's number.
LEMMA RowsTakenUp ==
  ASSUME ChatTypes, RowsOnce, NEW w \in ChatWorker, NEW job \in ChatJobs, chat[w].of = 0,
         chat' = [chat EXCEPT ![w] = job], overlapped \subseteq overlapped', subs' = subs,
         job.pc \notin {"restore", "get", "insert"},
         \A u \in UsersOf(job.todo) : <<job.of, u>> \notin overlapped' =>
           /\ Holding(job.of, u) = {}
           /\ job.pc = "enrol" => Rows(job.of, u) = 0 /\ Once(job.todo, u)
  PROVE  RowsOnce'
<1> SUFFICES ASSUME NEW r \in Room, NEW u \in ChatUser, <<r, u>> \notin overlapped'
             PROVE  OneRow(r, u)'
  BY DEF RowsOnce
<1>1. OneRow(r, u)
  BY DEF RowsOnce
<1>2. chat'[w] = job /\ \A x \in ChatWorker \ {w} : chat'[x] = chat[x]
  BY DEF ChatTypes
<1>3. \A x \in ChatWorker \ {w} :
        chat'[x].of = r /\ u \in UsersOf(chat'[x].todo) => x \in Holding(r, u)
  BY <1>2 DEF Holding
<1>4. chat'[w].of = r /\ u \in UsersOf(chat'[w].todo) => Holding(r, u) = {}
  BY <1>2
<1>5. \A v, x \in ChatWorker :
        /\ chat'[v].of = r /\ u \in UsersOf(chat'[v].todo)
        /\ chat'[x].of = r /\ u \in UsersOf(chat'[x].todo)
        => v = x
  BY <1>1, <1>3, <1>4 DEF OneRow
<1>6. ASSUME NEW x \in ChatWorker, chat'[x].of = r, u \in UsersOf(chat'[x].todo)
      PROVE  /\ chat'[x].pc = "enrol" => Rows(r, u) = 0 /\ Once(chat'[x].todo, u)
             /\ chat'[x].pc = "restore" /\ Head(chat'[x].todo) = u => subs[r][u].gone > 0
             /\ chat'[x].pc = "get" /\ Head(chat'[x].todo) = u => subs[r][u].gone = 0
             /\ chat'[x].pc = "insert" /\ Head(chat'[x].todo) = u => Rows(r, u) = 0
  <2>1. CASE x = w
    BY <1>2, <1>6, <2>1
  <2>2. CASE x # w
    BY <1>1, <1>2, <1>3, <1>6, <2>2 DEF OneRow, Now
  <2> QED BY <2>1, <2>2
<1> QED BY <1>1, <1>5, <1>6 DEF OneRow, Rows, Holding, Now

\* The pairs keep their one room when a worker goes on with a job, or takes one up, and leaves
\* nobody he was to enrol in their room without a row.
LEMMA PairsStay ==
  ASSUME ChatTypes, RoomsOK, PairsOK, NEW w \in ChatWorker, NEW job \in ChatJobs, job.pc # "new",
         chat' = [chat EXCEPT ![w] = job], pair' = pair,
         raced \subseteq raced', wiped \subseteq wiped',
         \A r \in Room : pair[r] # {} /\ ~room[r].deleted => ~room'[r].deleted,
         \A r \in Room, u \in ChatUser :
           subs[r][u].active + subs[r][u].gone > 0 => subs'[r][u].active + subs'[r][u].gone > 0,
         \A r \in Room, u \in UsersOf(chat[w].todo) :
           chat[w].pc = "enrol" /\ chat[w].of = r /\ pair[r] \notin raced' \cup {{}} =>
             \/ subs'[r][u].active + subs'[r][u].gone > 0
             \/ job.pc = "enrol" /\ job.of = r /\ u \in UsersOf(job.todo)
  PROVE  PairsOK'
<1> SUFFICES ASSUME NEW p \in SUBSET ChatUser, p \notin raced', p \notin wiped', p # {}
             PROVE  OneRoom(p)'
  BY DEF PairsOK
<1>1. OneRoom(p)
  BY DEF PairsOK
<1>2. chat'[w] = job /\ \A x \in ChatWorker \ {w} : chat'[x] = chat[x]
  BY DEF ChatTypes
<1>3. \A r, s \in Room : pair'[r] = p /\ pair'[s] = p => r = s
  BY <1>1 DEF OneRoom
<1>4. ASSUME NEW r \in Room, pair[r] = p
      PROVE  /\ ~room'[r].deleted
             /\ \A u \in p : \/ subs'[r][u].active + subs'[r][u].gone > 0
                             \/ \E x \in ChatWorker : /\ chat'[x].of = r /\ u \in UsersOf(chat'[x].todo)
                                                      /\ chat'[x].pc = "enrol"
  <2>1. ~room'[r].deleted
    <3>1. ~room[r].deleted
      BY <1>1, <1>4 DEF OneRoom
    <3> QED BY <1>4, <3>1
  <2>2. ASSUME NEW u \in p
        PROVE  \/ subs'[r][u].active + subs'[r][u].gone > 0
               \/ \E x \in ChatWorker : /\ chat'[x].of = r /\ u \in UsersOf(chat'[x].todo)
                                        /\ chat'[x].pc = "enrol"
    <3>1. CASE Rows(r, u) > 0
      BY <3>1 DEF Rows
    <3>2. CASE \E x \in Holding(r, u) : chat[x].pc = "enrol"
      <4>1. PICK x \in Holding(r, u) : chat[x].pc = "enrol"
        BY <3>2
      <4>2. CASE x = w
        BY <1>2, <1>4, <4>1, <4>2 DEF Holding
      <4>3. CASE x # w
        BY <1>2, <4>1, <4>3 DEF Holding
      <4> QED BY <4>2, <4>3
    <3> QED BY <1>1, <1>4, <3>1, <3>2 DEF OneRoom
  <2> QED BY <2>1, <2>2
<1>5. ASSUME NEW x \in ChatWorker, chat'[x].pc = "new", UsersOf(chat'[x].todo) = p
      PROVE  x # w /\ MakesNew(x, p)
  BY <1>2, <1>5 DEF MakesNew
<1>6. \A x \in ChatWorker : chat'[x].pc = "new" /\ UsersOf(chat'[x].todo) = p =>
        /\ \A r \in Room : pair'[r] # p
        /\ \A y \in ChatWorker : chat'[y].pc = "new" /\ UsersOf(chat'[y].todo) = p => y = x
  BY <1>1, <1>5 DEF OneRoom
<1> QED BY <1>3, <1>4, <1>6 DEF OneRoom, MakesNew, Rows, Holding

\* ... and when nobody goes on, but a room is deleted, or a row.
LEMMA PairsUndisturbed ==
  ASSUME PairsOK, UNCHANGED <<chat, pair, raced>>, wiped \subseteq wiped',
         \A r \in Room : pair[r] # {} /\ pair[r] \notin wiped' /\ ~room[r].deleted => ~room'[r].deleted,
         \A r \in Room, u \in ChatUser :
           u \in pair[r] /\ pair[r] \notin wiped' /\ subs[r][u].active + subs[r][u].gone > 0 =>
             subs'[r][u].active + subs'[r][u].gone > 0
  PROVE  PairsOK'
<1> SUFFICES ASSUME NEW p \in SUBSET ChatUser, p \notin raced', p \notin wiped', p # {}
             PROVE  OneRoom(p)'
  BY DEF PairsOK
<1>1. OneRoom(p)
  BY DEF PairsOK
<1>2. ASSUME NEW r \in Room, pair[r] = p
      PROVE  /\ ~room'[r].deleted
             /\ \A u \in p : \/ subs'[r][u].active + subs'[r][u].gone > 0
                             \/ \E x \in Holding(r, u) : chat[x].pc = "enrol"
  BY <1>1, <1>2 DEF OneRoom, Rows
<1> QED BY <1>1, <1>2 DEF OneRoom, MakesNew, Rows, Holding

\* A pair's room is made only when nobody else is about theirs and there is none: the search
\* finds a room where both have rows.
LEMMA PairsLookedFor ==
  ASSUME ChatTypes, RoomsOK, PairsOK, NEW w \in ChatWorker, NEW u \in ChatUser, NEW v \in ChatUser,
         chat[w] = NoChat, Found(u, v) = {}, LookFor(u, v),
         chat' = [chat EXCEPT ![w] = [pc |-> "new", of |-> 0, todo |-> <<u, v>>]],
         UNCHANGED <<room, subs, pair, wiped>>
  PROVE  PairsOK'
<1> SUFFICES ASSUME NEW p \in SUBSET ChatUser, p \notin raced', p \notin wiped', p # {}
             PROVE  OneRoom(p)'
  BY DEF PairsOK
<1>1. p \notin raced /\ p \notin wiped
  BY DEF LookFor
<1>2. OneRoom(p)
  BY <1>1 DEF PairsOK
<1>3. /\ chat'[w].pc = "new" /\ chat'[w].todo = <<u, v>> /\ UsersOf(<<u, v>>) = {u, v}
      /\ \A x \in ChatWorker \ {w} : chat'[x] = chat[x]
  <2>1. PICK job : job = [pc |-> "new", of |-> 0, todo |-> <<u, v>>]
    OBVIOUS
  <2>2. job.pc = "new" /\ job.todo = <<u, v>>
    BY <2>1
  <2>3. chat' = [chat EXCEPT ![w] = job]
    BY <2>1, Zenon
  <2>4. chat'[w] = job /\ \A x \in ChatWorker \ {w} : chat'[x] = chat[x]
    BY <2>3 DEF ChatTypes
  <2>5. UsersOf(<<u, v>>) = {u, v}
    BY OneOrTwo
  <2> QED BY <2>2, <2>4, <2>5, Zenon
<1>4. ASSUME NEW r \in Room, pair[r] = p
      PROVE  /\ ~room'[r].deleted
             /\ \A y \in p : \/ Rows(r, y) > 0
                             \/ \E x \in ChatWorker : /\ chat'[x].of = r /\ y \in UsersOf(chat'[x].todo)
                                                      /\ chat'[x].pc = "enrol"
  <2>1. ~room[r].deleted /\ \A y \in p : Rows(r, y) > 0 \/ \E x \in Holding(r, y) : chat[x].pc = "enrol"
    BY <1>2, <1>4 DEF OneRoom
  <2>2. \A y \in p : \A x \in Holding(r, y) : chat[x].pc = "enrol" => x # w
    BY DEF Holding, NoChat
  <2> QED BY <1>3, <2>1, <2>2 DEF Holding
<1>5. ASSUME p = {u, v}
      PROVE  /\ \A r \in Room : pair[r] # p
             /\ \A x \in ChatWorker \ {w} : ~(chat[x].pc = "new" /\ UsersOf(chat[x].todo) = p)
  <2>1. \A x \in ChatWorker : PairOf(x) # p
    BY <1>5 DEF LookFor
  <2>2. ASSUME NEW x \in ChatWorker, chat[x].pc = "new" PROVE UsersOf(chat[x].todo) # p
    <3>1. chat[x].of = 0
      BY <2>2, JobInHand DEF NoChat
    <3>2. PairOf(x) = UsersOf(chat[x].todo)
      BY <2>2, <3>1 DEF PairOf
    <3> QED BY <2>1, <3>2
  <2>3. ASSUME NEW r \in Room, pair[r] = p PROVE FALSE
    <3>1. ~room[r].deleted /\ \A y \in p : Rows(r, y) > 0 \/ \E x \in Holding(r, y) : chat[x].pc = "enrol"
      BY <1>2, <2>3 DEF OneRoom
    <3>2. ASSUME NEW y \in p, NEW x \in Holding(r, y), chat[x].pc = "enrol" PROVE FALSE
      <4>1. x \in ChatWorker /\ chat[x].of = r /\ r # 0
        BY DEF Holding, Room
      <4>2. PairOf(x) = pair[r]
        BY <3>2, <4>1 DEF PairOf
      <4> QED BY <2>1, <2>3, <4>1, <4>2
    <3>3. IsPersonal(r)
      BY <2>3 DEF RoomsOK
    <3>4. IsLive(r) /\ BothRows(r, u, v)
      BY <1>5, <3>1, <3>2, <3>3 DEF IsLive, BothRows, IsPersonal, NoRoom
    <3>5. PICK live \in SUBSET Room : live = {s \in PersonalRooms : IsLive(s) /\ BothRows(s, u, v)}
      BY DEF PersonalRooms
    <3>6. r \in live
      BY <3>3, <3>4, <3>5 DEF PersonalRooms
    <3>7. Newest(live) # {}
      BY <3>6, NewestIsThere
    <3>8. Found(u, v) = Newest(live)
      BY <3>5, <3>6 DEF Found
    <3> QED BY <3>7, <3>8
  <2> QED BY <2>2, <2>3
<1>6. ASSUME NEW x \in ChatWorker, chat'[x].pc = "new", UsersOf(chat'[x].todo) = p
      PROVE  /\ \A r \in Room : pair[r] # p
             /\ \A y \in ChatWorker : chat'[y].pc = "new" /\ UsersOf(chat'[y].todo) = p => y = x
  <2>1. CASE x = w
    BY <1>3, <1>5, <1>6, <2>1
  <2>2. CASE x # w
    <3>1. MakesNew(x, p)
      BY <1>3, <1>6, <2>2 DEF MakesNew
    <3>2. p # {u, v}
      BY <1>5, <2>2, <3>1 DEF MakesNew
    <3>3. ASSUME NEW y \in ChatWorker, chat'[y].pc = "new", UsersOf(chat'[y].todo) = p PROVE y = x
      <4>1. y # w
        BY <1>3, <3>2, <3>3
      <4>2. MakesNew(y, p)
        BY <1>3, <3>3, <4>1 DEF MakesNew
      <4> QED BY <1>2, <3>1, <4>2 DEF OneRoom
    <3> QED BY <1>2, <3>1, <3>3 DEF OneRoom
  <2> QED BY <2>1, <2>2
<1>7. \A r, s \in Room : pair'[r] = p /\ pair'[s] = p => r = s
  BY <1>2 DEF OneRoom
<1> QED BY <1>4, <1>6, <1>7 DEF OneRoom, MakesNew, Rows, Holding

\* ... and the one who makes it is alone about the pair, and enrols both.
LEMMA PairsMade ==
  ASSUME ChatTypes, RoomsOK, PairsOK, NEW w \in ChatWorker, NextRoom \in Room,
         chat[w].pc = "new", SaveNewPersonal(w)
  PROVE  PairsOK'
<1> SUFFICES ASSUME NEW p \in SUBSET ChatUser, p \notin raced', p \notin wiped', p # {}
             PROVE  OneRoom(p)'
  BY DEF PairsOK
<1>1. OneRoom(p)
  BY DEF PairsOK, SaveNewPersonal
<1>2. PICK new \in Room : new = NextRoom
  OBVIOUS
<1>3. PICK job \in ChatJobs : /\ chat' = [chat EXCEPT ![w] = job]
                              /\ job.pc = "enrol" /\ job.of = new /\ job.todo = chat[w].todo
  <2>1. chat[w] \in ChatJobs /\ chat[w] # NoChat
    BY DEF ChatTypes, NoChat
  <2>2. PICK job : job = [chat[w] EXCEPT !.pc = "enrol", !.of = new]
    OBVIOUS
  <2>3. job \in ChatJobs /\ job.pc = "enrol" /\ job.of = new /\ job.todo = chat[w].todo
    <3>1. PICK c \in ChatJobs : c = chat[w] /\ c.pc = "new" /\ c # NoChat
      BY <2>1
    <3>2. job = [c EXCEPT !.pc = "enrol", !.of = new]
      BY <2>2, <3>1, Zenon
    <3>3. new \in Room /\ new # 0
      BY DEF Room
    <3>4. job \in ChatJobs /\ job.pc = "enrol" /\ job.of = new /\ job.todo = c.todo
      <4> HIDE DEF Room
      <4> QED BY <3>1, <3>2, <3>3 DEF ChatJobs
    <3> QED BY <3>1, <3>4
  <2>4. chat' = [chat EXCEPT ![w] = job]
    <3>1. chat' = [chat EXCEPT ![w].pc = "enrol", ![w].of = new]
      BY <1>2 DEF SaveNewPersonal
    <3> QED BY <2>1, <2>2, <3>1 DEF ChatTypes
  <2> QED BY <2>3, <2>4
<1>4. chat'[w] = job /\ \A x \in ChatWorker \ {w} : chat'[x] = chat[x]
  BY <1>3 DEF ChatTypes
<1>5. PICK two \in SUBSET ChatUser : two = UsersOf(chat[w].todo) /\ pair' = [pair EXCEPT ![new] = two]
  <2>1. chat[w] # NoChat
    BY DEF NoChat
  <2>2. UsersOf(chat[w].todo) \in SUBSET ChatUser
    BY <2>1, JobInHand, HeadAndTail
  <2> QED BY <1>2, <2>2 DEF SaveNewPersonal
<1>6. pair'[new] = two /\ \A r \in Room \ {new} : pair'[r] = pair[r]
  BY <1>5 DEF ChatTypes
<1>7. PICK row : /\ row = [kind |-> "personal", deleted |-> FALSE]
                 /\ room' = [room EXCEPT ![new] = row]
  BY <1>2 DEF SaveNewPersonal, AddRoom
<1>8. /\ ~room'[new].deleted
      /\ \A r \in Room \ {new} : room'[r] = room[r]
  BY <1>7 DEF ChatTypes
<1>9. pair[new] # p
  <2>1. room[new] = NoRoom
    BY <1>2, NextIsNew
  <2>2. ~IsPersonal(new)
    BY <2>1 DEF IsPersonal, NoRoom
  <2> QED BY <2>2 DEF RoomsOK
<1>10. subs' = subs
  BY DEF SaveNewPersonal
<1>11. ASSUME NEW r \in Room, pair'[r] = p
       PROVE  /\ ~room'[r].deleted
              /\ \A y \in p : \/ Rows(r, y) > 0
                              \/ \E x \in ChatWorker : /\ chat'[x].of = r /\ y \in UsersOf(chat'[x].todo)
                                                       /\ chat'[x].pc = "enrol"
  <2>1. CASE r = new
    BY <1>3, <1>4, <1>5, <1>6, <1>8, <1>11, <2>1
  <2>2. CASE r # new
    <3>1. ~room[r].deleted /\ \A y \in p : Rows(r, y) > 0 \/ \E x \in Holding(r, y) : chat[x].pc = "enrol"
      BY <1>1, <1>6, <1>11, <2>2 DEF OneRoom
    <3>2. \A y \in p : \A x \in Holding(r, y) : chat[x].pc = "enrol" => x # w
      OBVIOUS
    <3> QED BY <1>4, <1>8, <2>2, <3>1, <3>2 DEF Holding
  <2> QED BY <2>1, <2>2
<1>12. ASSUME NEW r \in Room, NEW s \in Room, pair'[r] = p, pair'[s] = p PROVE r = s
  <2>1. two = p => MakesNew(w, p)
    BY <1>5 DEF MakesNew
  <2>2. two = p => \A q \in Room : pair[q] # p
    BY <1>1, <2>1 DEF OneRoom
  <2> QED BY <1>1, <1>6, <1>12, <2>2 DEF OneRoom
<1>13. ASSUME NEW x \in ChatWorker, chat'[x].pc = "new", UsersOf(chat'[x].todo) = p
       PROVE  /\ \A r \in Room : pair'[r] # p
              /\ \A y \in ChatWorker : chat'[y].pc = "new" /\ UsersOf(chat'[y].todo) = p => y = x
  <2>1. x # w /\ MakesNew(x, p)
    BY <1>3, <1>4, <1>13 DEF MakesNew
  <2>2. two # p
    BY <1>1, <1>5, <2>1 DEF OneRoom, MakesNew
  <2>3. \A y \in ChatWorker : chat'[y].pc = "new" /\ UsersOf(chat'[y].todo) = p => MakesNew(y, p)
    BY <1>3, <1>4 DEF MakesNew
  <2> QED BY <1>1, <1>6, <2>1, <2>2, <2>3 DEF OneRoom
<1> QED BY <1>10, <1>11, <1>12, <1>13 DEF OneRoom, MakesNew, Rows, Holding

\* What becomes of the row at hand and of the job fits what was known.
Fits(w, r, h, row, job) ==
  /\ chat[w] # NoChat /\ chat[w].of = r /\ Head(chat[w].todo) = h
  /\ job.pc # "new"
  /\ job # NoChat => job.of = r
  /\ UsersOf(job.todo) \subseteq UsersOf(chat[w].todo)
  /\ job.pc = "enrol" => chat[w].pc = "enrol" /\ job.todo = Tail(chat[w].todo)
  /\ job.pc \in {"restore", "get", "insert"} => Head(job.todo) = h
  /\ <<r, h>> \notin overlapped =>
       /\ row.active + row.gone <= 1
       /\ job.pc = "restore" => row.gone > 0
       /\ job.pc = "get" => row.gone = 0
       /\ job.pc = "insert" => row.active + row.gone = 0
  /\ Rows(r, h) > 0 => row.active + row.gone > 0
  /\ chat[w].pc = "enrol" =>
       /\ row.active + row.gone > 0
       /\ \A u \in UsersOf(chat[w].todo) : u = h \/ (job.pc = "enrol" /\ u \in UsersOf(job.todo))

\* A worker sees to the user at the head of his list.
LEMMA SeesTo ==
  ASSUME ChatInv, NEW w \in ChatWorker, NEW r \in Room, NEW h \in ChatUser, NEW row \in SubRow,
         NEW job \in ChatJobs, Fits(w, r, h, row, job),
         chat' = [chat EXCEPT ![w] = job], subs' = [subs EXCEPT ![r][h] = row],
         UNCHANGED <<room, overlapped, pair, raced, wiped>>
  PROVE  ChatInv'
<1>1. /\ subs'[r][h] = row
      /\ \A q \in Room, u \in ChatUser : (q # r \/ u # h) => subs'[q][u] = subs[q][u]
  BY DEF ChatInv, ChatTypes
<1>2. ChatTypes'
  BY DEF ChatInv, ChatTypes
<1>3. NoChat.of = 0 /\ NoChat.pc = "free"
  BY DEF NoChat
<1>4. room[r] # NoRoom
  <2>1. r # 0 /\ chat[w].of = r
    BY DEF Room, Fits
  <2> QED BY <2>1 DEF ChatInv, RoomsOK
<1>5. RoomsOK'
  <2>1. \A q \in Room : (room'[q] = NoRoom <=> room[q] = NoRoom) /\ (IsPersonal(q)' <=> IsPersonal(q))
    BY DEF IsPersonal
  <2>2. \A q \in Room, u \in ChatUser : room[q] = NoRoom => subs'[q][u] = subs[q][u]
    BY <1>1, <1>4
  <2>3. job.of # 0 => room[job.of] # NoRoom
    BY <1>3, <1>4 DEF Fits
  <2> QED BY <2>1, <2>2, <2>3, RoomsStay DEF ChatInv
<1>6. RowsOnce'
  <2>1. KnowsRows(w, job, subs')
    <3> SUFFICES ASSUME NEW q \in Room, NEW u \in ChatUser, <<q, u>> \notin overlapped
                 PROVE
           \/ /\ subs'[q][u] = subs[q][u]
              /\ job.pc \in {"restore", "get", "insert"} => ~(job.of = q /\ Head(job.todo) = u)
           \/ /\ q = chat[w].of /\ u = Head(chat[w].todo)
              /\ subs'[q][u].active + subs'[q][u].gone <= 1
              /\ job.pc = "restore" => subs'[q][u].gone > 0
              /\ job.pc = "get" => subs'[q][u].gone = 0
              /\ job.pc = "insert" => subs'[q][u].active + subs'[q][u].gone = 0
      BY DEF KnowsRows
    <3>1. CASE q = r /\ u = h
      BY <1>1, <3>1 DEF Fits
    <3>2. CASE q # r \/ u # h
      BY <1>1, <1>3, <3>2 DEF Fits
    <3> QED BY <3>1, <3>2
  <2>2. overlapped \subseteq overlapped'
    OBVIOUS
  <2>3. /\ chat[w] # NoChat
        /\ job # NoChat => job.of = chat[w].of
        /\ UsersOf(job.todo) \subseteq UsersOf(chat[w].todo)
        /\ job.pc = "enrol" => chat[w].pc = "enrol" /\ job.todo = Tail(chat[w].todo)
    BY DEF Fits
  <2>4. ChatTypes /\ RowsOnce
    BY DEF ChatInv
  <2> QED BY <2>1, <2>2, <2>3, <2>4, RowsStay
<1>7. PairsOK'
  <2>1. \A q \in Room, u \in ChatUser :
           subs[q][u].active + subs[q][u].gone > 0 => subs'[q][u].active + subs'[q][u].gone > 0
    <3> SUFFICES ASSUME NEW q \in Room, NEW u \in ChatUser, subs[q][u].active + subs[q][u].gone > 0
                 PROVE  subs'[q][u].active + subs'[q][u].gone > 0
      OBVIOUS
    <3>1. CASE q = r /\ u = h
      BY <1>1, <3>1 DEF Rows, Fits
    <3>2. CASE q # r \/ u # h
      BY <1>1, <3>2
    <3> QED BY <3>1, <3>2
  <2>2. \A q \in Room, u \in UsersOf(chat[w].todo) :
           chat[w].pc = "enrol" /\ chat[w].of = q /\ pair[q] \notin raced' \cup {{}} =>
             \/ subs'[q][u].active + subs'[q][u].gone > 0
             \/ job.pc = "enrol" /\ job.of = q /\ u \in UsersOf(job.todo)
    BY <1>1, <1>3 DEF Fits
  <2>3. raced \subseteq raced' /\ wiped \subseteq wiped' /\ pair' = pair /\ job.pc # "new"
    BY DEF Fits
  <2>4. \A q \in Room : pair[q] # {} /\ ~room[q].deleted => ~room'[q].deleted
    OBVIOUS
  <2> QED BY <2>1, <2>2, <2>3, <2>4, PairsStay DEF ChatInv
<1> QED BY <1>2, <1>5, <1>6, <1>7 DEF ChatInv

\* The room and the user a worker is at, and what he knows of the row.
AtRow(w, r, h, row) ==
  /\ chat[w].of = r /\ Head(chat[w].todo) = h /\ subs[r][h] = row
  /\ subs = [subs EXCEPT ![r][h] = row]
  /\ Rows(r, h) = row.active + row.gone
  /\ <<r, h>> \notin overlapped =>
       /\ row.active + row.gone <= 1
       /\ chat[w].pc = "restore" => row.gone > 0
       /\ chat[w].pc = "get" => row.gone = 0
       /\ chat[w].pc \in {"insert", "enrol"} => row.active + row.gone = 0

\* A worker at work is at a room there is and a user, and knows of their row what his step tells.
LEMMA AtWork ==
  ASSUME ChatInv, NEW w \in ChatWorker, chat[w] # NoChat, chat[w].pc # "new"
  PROVE  \E r \in Room, h \in ChatUser, row \in SubRow : AtRow(w, r, h, row)
<1>1. /\ chat[w].of \in Room /\ chat[w].todo \in Seq(ChatUser) /\ chat[w].todo # <<>>
  BY JobInHand DEF ChatInv
<1>2. PICK r \in Room : chat[w].of = r
  BY <1>1
<1>3. PICK h \in ChatUser : Head(chat[w].todo) = h
  BY <1>1, HeadAndTail
<1>4. PICK row \in SubRow : subs[r][h] = row
  BY DEF ChatInv, ChatTypes
<1>5. subs = [subs EXCEPT ![r][h] = row]
  BY <1>4 DEF ChatInv, ChatTypes
<1>6. h \in UsersOf(chat[w].todo)
  BY <1>1, <1>3, HeadAndTail
<1>7. Rows(r, h) = row.active + row.gone
  BY <1>4 DEF Rows
<1>8. ASSUME <<r, h>> \notin overlapped
      PROVE  /\ row.active + row.gone <= 1
             /\ chat[w].pc = "restore" => row.gone > 0
             /\ chat[w].pc = "get" => row.gone = 0
             /\ chat[w].pc \in {"insert", "enrol"} => row.active + row.gone = 0
  <2>1. OneRow(r, h)
    BY <1>8 DEF ChatInv, RowsOnce
  <2>2. w \in Holding(r, h)
    BY <1>2, <1>6 DEF Holding
  <2>3. Now(w) = h
    BY <1>3 DEF Now
  <2> QED BY <1>4, <1>7, <2>1, <2>2, <2>3 DEF OneRow
<1>9. AtRow(w, r, h, row)
  BY <1>2, <1>3, <1>4, <1>5, <1>7, <1>8 DEF AtRow
<1> QED BY <1>9

\* Each step of a call that finds, restores, gets or inserts a row.
LEMMA ChatCheck ==
  ASSUME ChatInv, NEW w \in ChatWorker, Check(w)
  PROVE  ChatInv'
<1>1. chat[w].pc = "check" /\ chat[w] # NoChat /\ chat[w] \in ChatJobs
  BY DEF Check, NoChat, ChatInv, ChatTypes
<1>2. PICK r \in Room, h \in ChatUser, row \in SubRow : AtRow(w, r, h, row)
  <2>1. chat[w].pc # "new"
    BY <1>1
  <2> QED BY <1>1, <2>1, AtWork, Zenon
<1>3. PICK pc \in {"restore", "get"} : pc = IF row.gone > 0 THEN "restore" ELSE "get"
  OBVIOUS
<1>4. PICK job \in ChatJobs :
         chat' = [chat EXCEPT ![w] = job] /\ job.pc = pc /\ job.of = r /\ job.todo = chat[w].todo
  <2>1. chat[w].of # 0
    BY <1>2 DEF AtRow, Room
  <2>2. PICK job : job = [chat[w] EXCEPT !.pc = pc]
    OBVIOUS
  <2>3. job \in ChatJobs /\ job.pc = pc /\ job.of = chat[w].of /\ job.todo = chat[w].todo
    <3>1. pc \in {"check", "restore", "get", "insert", "enrol", "reopen"}
      OBVIOUS
    <3> QED BY <1>1, <2>1, <2>2, <3>1, JobGoes, Zenon
  <2>4. chat' = [chat EXCEPT ![w].pc = pc]
    BY <1>2, <1>3 DEF AtRow, Check, Goes, Now
  <2>5. chat' = [chat EXCEPT ![w] = job]
    BY <2>2, <2>4 DEF ChatInv, ChatTypes
  <2> QED BY <1>2, <2>3, <2>5 DEF AtRow
<1>5. subs' = [subs EXCEPT ![r][h] = row] /\ UNCHANGED <<room, overlapped, pair, raced, wiped>>
  BY <1>2 DEF AtRow, Check
<1>6. /\ pc = "restore" => row.gone > 0
      /\ pc = "get" => row.gone = 0
  BY <1>3 DEF SubRow
<1>7. chat[w] # NoChat /\ chat[w].of = r /\ Head(chat[w].todo) = h
  BY <1>1, <1>2 DEF AtRow
<1>8. /\ job.pc # "new"
      /\ job # NoChat => job.of = r
      /\ UsersOf(job.todo) \subseteq UsersOf(chat[w].todo)
      /\ job.pc = "enrol" => chat[w].pc = "enrol" /\ job.todo = Tail(chat[w].todo)
      /\ job.pc \in {"restore", "get", "insert"} => Head(job.todo) = h
  BY <1>4, <1>7
<1>9. <<r, h>> \notin overlapped =>
           /\ row.active + row.gone <= 1
           /\ job.pc = "restore" => row.gone > 0
           /\ job.pc = "get" => row.gone = 0
           /\ job.pc = "insert" => row.active + row.gone = 0
  BY <1>2, <1>4, <1>6 DEF AtRow
<1>10. Rows(r, h) > 0 => row.active + row.gone > 0
  BY <1>2 DEF AtRow
<1>11. chat[w].pc = "enrol" =>
           /\ row.active + row.gone > 0
           /\ \A u \in UsersOf(chat[w].todo) : u = h \/ (job.pc = "enrol" /\ u \in UsersOf(job.todo))
  BY <1>1
<1>12. Fits(w, r, h, row, job)
  BY <1>7, <1>8, <1>9, <1>10, <1>11 DEF Fits
<1> QED BY <1>4, <1>5, <1>12, SeesTo

\* A worker goes on with the next user, or is done.
LEMMA NextUserIs ==
  ASSUME ChatInv, NEW w \in ChatWorker, chat[w] # NoChat, chat[w].pc # "new", NEW pc \in {"check", "enrol"},
         NextUser(w, pc)
  PROVE  \E job \in ChatJobs :
           /\ chat' = [chat EXCEPT ![w] = job]
           /\ job.pc # "new" /\ job.pc \notin {"restore", "get", "insert"}
           /\ job # NoChat => job.of = chat[w].of
           /\ UsersOf(job.todo) \subseteq UsersOf(chat[w].todo)
           /\ job.pc = "enrol" => pc = "enrol" /\ job.todo = Tail(chat[w].todo)
           /\ \A u \in UsersOf(chat[w].todo) : pc = "enrol" =>
                u = Head(chat[w].todo) \/ (job.pc = "enrol" /\ u \in UsersOf(job.todo))
<1>1. /\ chat[w] \in ChatJobs /\ chat[w].of # 0
      /\ chat[w].todo \in Seq(ChatUser) /\ chat[w].todo # <<>>
  BY JobInHand DEF ChatInv
<1>2. PICK others : others = Tail(chat[w].todo)
  OBVIOUS
<1>3. PICK job : job = IF others = <<>> THEN NoChat ELSE [chat[w] EXCEPT !.pc = pc, !.todo = others]
  OBVIOUS
<1>4. /\ job \in ChatJobs
      /\ others = <<>> => job = NoChat
      /\ others # <<>> => job.pc = pc /\ job.of = chat[w].of /\ job.todo = others
  <2>1. PICK c \in ChatJobs : c = chat[w]
    BY <1>1
  <2>2. c.of # 0 /\ others = Tail(c.todo)
    BY <1>1, <1>2, <2>1
  <2>3. job = IF Tail(c.todo) = <<>> THEN NoChat ELSE [c EXCEPT !.pc = pc, !.todo = Tail(c.todo)]
    BY <1>2, <1>3, <2>1, Zenon
  <2>4. /\ job \in ChatJobs
        /\ Tail(c.todo) = <<>> => job = NoChat
        /\ Tail(c.todo) # <<>> => job.pc = pc /\ job.of = c.of /\ job.todo = Tail(c.todo)
    BY <2>2, <2>3, JobNext, Zenon
  <2> QED BY <2>1, <2>2, <2>4
<1>5. chat' = [chat EXCEPT ![w] = job]
  BY <1>2, <1>3, Zenon DEF NextUser
<1>6. UsersOf(chat[w].todo) = {Head(chat[w].todo)} \cup UsersOf(others)
  BY <1>1, <1>2, HeadAndTail
<1>7. CASE others = <<>>
  <2>1. job.pc = "free" /\ UsersOf(job.todo) = {} /\ UsersOf(others) = {}
    BY <1>4, <1>7, NobodyLeft DEF NoChat
  <2> QED BY <1>4, <1>5, <1>6, <1>7, <2>1
<1>8. CASE others # <<>>
  BY <1>2, <1>4, <1>5, <1>6, <1>8
<1> QED BY <1>7, <1>8

\* A row that is restored is one row as before.
LEMMA ChatRestore ==
  ASSUME ChatInv, NEW w \in ChatWorker, Restore(w)
  PROVE  ChatInv'
<1>1. chat[w].pc = "restore" /\ chat[w] # NoChat
  <2>1. chat[w].pc = "restore"
    BY DEF Restore
  <2> QED BY <2>1, NothingInHand
<1>2. PICK r \in Room, h \in ChatUser, old \in SubRow : AtRow(w, r, h, old)
  <2>1. chat[w].pc # "new"
    BY <1>1
  <2> QED BY <1>1, <2>1, AtWork, Zenon
<1>3. PICK job \in ChatJobs :
         /\ chat' = [chat EXCEPT ![w] = job]
         /\ job.pc # "new" /\ job.pc \notin {"restore", "get", "insert"}
         /\ job # NoChat => job.of = chat[w].of
         /\ UsersOf(job.todo) \subseteq UsersOf(chat[w].todo)
         /\ job.pc # "enrol"
  <2>1. NextUser(w, "check") /\ chat[w].pc # "new" /\ "check" \in {"check", "enrol"} /\ "check" # "enrol"
    BY <1>1 DEF Restore
  <2> QED BY <1>1, <2>1, NextUserIs, Zenon
<1>4. PICK row \in SubRow :
         /\ subs' = [subs EXCEPT ![r][h] = row]
         /\ <<r, h>> \notin overlapped => row.active + row.gone <= 1
         /\ old.active + old.gone > 0 => row.active + row.gone > 0
  <2>1. old.active \in Nat /\ old.gone \in Nat
    BY DEF SubRow
  <2>2. PICK after : /\ subs' = [subs EXCEPT ![r][h] = after]
                     /\ IF old.gone > 0 THEN after = [active |-> old.active + 1, gone |-> old.gone - 1]
                        ELSE after = old \/ (old.active = 0 /\ after = [old EXCEPT !.active = 1])
    BY <1>2 DEF Restore, AtRow, Now
  <2>3. CASE old.gone > 0
    <3>1. after = [active |-> old.active + 1, gone |-> old.gone - 1] /\ old.gone - 1 \in Nat
      BY <2>1, <2>2, <2>3
    <3>2. after \in SubRow /\ after.active = old.active + 1 /\ after.gone = old.gone - 1
      BY <2>1, <3>1 DEF SubRow
    <3>3. after.active + after.gone = old.active + old.gone
      BY <2>1, <3>2
    <3> QED BY <1>2, <2>2, <3>2, <3>3 DEF AtRow
  <2>4. CASE ~(old.gone > 0) /\ after = old
    BY <1>2, <2>2, <2>4 DEF AtRow
  <2>5. CASE ~(old.gone > 0) /\ after = [old EXCEPT !.active = 1]
    <3>1. after \in SubRow /\ after.active = 1 /\ after.gone = 0
      BY <2>1, <2>5 DEF SubRow
    <3>2. after.active + after.gone <= 1 /\ after.active + after.gone > 0
      BY <3>1
    <3>3. subs' = [subs EXCEPT ![r][h] = after]
      BY <2>2
    <3> QED BY <3>1, <3>2, <3>3, Zenon
  <2> QED BY <2>2, <2>3, <2>4, <2>5
<1>5. /\ UNCHANGED <<room, overlapped, pair, raced, wiped>>
      /\ Rows(r, h) > 0 => row.active + row.gone > 0
  BY <1>2, <1>4 DEF AtRow, Restore
<1>6. chat[w] # NoChat /\ chat[w].of = r /\ Head(chat[w].todo) = h
  BY <1>1, <1>2 DEF AtRow
<1>7. /\ job.pc # "new"
      /\ job # NoChat => job.of = r
      /\ UsersOf(job.todo) \subseteq UsersOf(chat[w].todo)
      /\ job.pc = "enrol" => chat[w].pc = "enrol" /\ job.todo = Tail(chat[w].todo)
      /\ job.pc \in {"restore", "get", "insert"} => Head(job.todo) = h
  BY <1>1, <1>3, <1>6
<1>8. <<r, h>> \notin overlapped =>
           /\ row.active + row.gone <= 1
           /\ job.pc = "restore" => row.gone > 0
           /\ job.pc = "get" => row.gone = 0
           /\ job.pc = "insert" => row.active + row.gone = 0
  BY <1>3, <1>4
<1>9. chat[w].pc = "enrol" =>
           /\ row.active + row.gone > 0
           /\ \A u \in UsersOf(chat[w].todo) : u = h \/ (job.pc = "enrol" /\ u \in UsersOf(job.todo))
  BY <1>1, <1>3, <1>4, <1>6
<1>10. chat' = [chat EXCEPT ![w] = job] /\ subs' = [subs EXCEPT ![r][h] = row]
  BY <1>3, <1>4
<1>11. Fits(w, r, h, row, job)
  BY <1>5, <1>6, <1>7, <1>8, <1>9 DEF Fits
<1> QED BY <1>5, <1>10, <1>11, SeesTo

\* A row is inserted for one who has none.
LEMMA ChatInsert ==
  ASSUME ChatInv, NEW w \in ChatWorker, Insert(w)
  PROVE  ChatInv'
<1>1. chat[w].pc \in {"insert", "enrol"} /\ chat[w].pc # "new" /\ chat[w] # NoChat
  <2>1. chat[w].pc \in {"insert", "enrol"}
    BY DEF Insert
  <2> QED BY <2>1, NothingInHand
<1>2. PICK r \in Room, h \in ChatUser, old \in SubRow : AtRow(w, r, h, old)
  BY <1>1, AtWork, Zenon
<1>3. PICK job \in ChatJobs :
         /\ chat' = [chat EXCEPT ![w] = job]
         /\ job.pc # "new" /\ job.pc \notin {"restore", "get", "insert"}
         /\ job # NoChat => job.of = chat[w].of
         /\ UsersOf(job.todo) \subseteq UsersOf(chat[w].todo)
         /\ job.pc = "enrol" => chat[w].pc = "enrol" /\ job.todo = Tail(chat[w].todo)
         /\ \A u \in UsersOf(chat[w].todo) : chat[w].pc = "enrol" =>
              u = Head(chat[w].todo) \/ (job.pc = "enrol" /\ u \in UsersOf(job.todo))
  <2>1. PICK pc \in {"check", "enrol"} : pc = IF chat[w].pc = "enrol" THEN "enrol" ELSE "check"
    OBVIOUS
  <2>2. NextUser(w, pc) /\ (pc = "enrol" <=> chat[w].pc = "enrol")
    BY <2>1 DEF Insert
  <2> QED BY <1>1, <2>2, NextUserIs, Zenon
<1>4. PICK row \in SubRow :
         /\ subs' = [subs EXCEPT ![r][h] = row]
         /\ <<r, h>> \notin overlapped => row.active + row.gone <= 1
         /\ row.active + row.gone > 0
  <2>1. old.active \in Nat /\ old.gone \in Nat
    BY DEF SubRow
  <2>2. PICK row : row = [old EXCEPT !.active = @ + 1]
    OBVIOUS
  <2>3. row \in SubRow /\ row.active = old.active + 1 /\ row.gone = old.gone
    BY <2>1, <2>2 DEF SubRow
  <2>4. subs' = [subs EXCEPT ![r][h] = row]
    <3>1. subs' = [subs EXCEPT ![r][h].active = @ + 1]
      BY <1>2 DEF Insert, AtRow, Now
    <3>2. subs[r][h] = old
      BY <1>2 DEF AtRow
    <3> QED BY <2>2, <3>1, <3>2 DEF ChatInv, ChatTypes
  <2>5. row.active + row.gone = old.active + old.gone + 1
    BY <2>1, <2>3
  <2>6. <<r, h>> \notin overlapped => old.active + old.gone = 0
    BY <1>1, <1>2 DEF AtRow
  <2>7. row.active + row.gone > 0 /\ (old.active + old.gone = 0 => row.active + row.gone <= 1)
    BY <2>1, <2>5
  <2> QED BY <2>3, <2>4, <2>6, <2>7
<1>5. /\ UNCHANGED <<room, overlapped, pair, raced, wiped>>
      /\ Rows(r, h) > 0 => row.active + row.gone > 0
  BY <1>4 DEF Insert
<1>6. chat[w] # NoChat /\ chat[w].of = r /\ Head(chat[w].todo) = h
  BY <1>1, <1>2 DEF AtRow
<1>7. /\ job.pc # "new"
      /\ job # NoChat => job.of = r
      /\ UsersOf(job.todo) \subseteq UsersOf(chat[w].todo)
      /\ job.pc = "enrol" => chat[w].pc = "enrol" /\ job.todo = Tail(chat[w].todo)
      /\ job.pc \in {"restore", "get", "insert"} => Head(job.todo) = h
  BY <1>1, <1>3, <1>6
<1>8. <<r, h>> \notin overlapped =>
           /\ row.active + row.gone <= 1
           /\ job.pc = "restore" => row.gone > 0
           /\ job.pc = "get" => row.gone = 0
           /\ job.pc = "insert" => row.active + row.gone = 0
  BY <1>3, <1>4
<1>9. chat[w].pc = "enrol" =>
           /\ row.active + row.gone > 0
           /\ \A u \in UsersOf(chat[w].todo) : u = h \/ (job.pc = "enrol" /\ u \in UsersOf(job.todo))
  BY <1>1, <1>3, <1>4, <1>6
<1>10. chat' = [chat EXCEPT ![w] = job] /\ subs' = [subs EXCEPT ![r][h] = row]
  BY <1>3, <1>4
<1>11. Fits(w, r, h, row, job)
  BY <1>5, <1>6, <1>7, <1>8, <1>9 DEF Fits
<1> QED BY <1>5, <1>10, <1>11, SeesTo

\* What get_or_create gets or will insert.
LEMMA ChatGet ==
  ASSUME ChatInv, NEW w \in ChatWorker, Get(w)
  PROVE  ChatInv'
<1>1. chat[w].pc = "get" /\ chat[w].pc # "new" /\ chat[w] # NoChat
  <2>1. chat[w].pc = "get"
    BY DEF Get
  <2> QED BY <2>1, NothingInHand
<1>2. PICK r \in Room, h \in ChatUser, row \in SubRow : AtRow(w, r, h, row)
  BY <1>1, AtWork, Zenon
<1>3. /\ subs' = [subs EXCEPT ![r][h] = row]
      /\ UNCHANGED <<room, overlapped, pair, raced, wiped>>
  BY <1>2 DEF Get, AtRow
<1>4. /\ chat[w] \in ChatJobs /\ chat[w].of = r /\ Head(chat[w].todo) = h /\ r # 0
      /\ Rows(r, h) = row.active + row.gone
      /\ <<r, h>> \notin overlapped => row.active + row.gone <= 1 /\ row.gone = 0
      /\ row.active \in Nat /\ row.gone \in Nat
  BY <1>1, <1>2 DEF AtRow, ChatInv, ChatTypes, Room, SubRow
<1>5. CASE row.active = 0
  <2>1. chat' = [chat EXCEPT ![w].pc = "insert"]
    BY <1>2, <1>5 DEF Get, AtRow, Now, Goes
  <2>2. PICK job : job = [chat[w] EXCEPT !.pc = "insert"]
    OBVIOUS
  <2>3. job \in ChatJobs /\ job.pc = "insert" /\ job.of = r /\ job.todo = chat[w].todo
    <3>1. "insert" \in {"check", "restore", "get", "insert", "enrol", "reopen"}
      OBVIOUS
    <3>2. chat[w].of # 0
      BY <1>4
    <3>3. job \in ChatJobs /\ job.pc = "insert" /\ job.of = chat[w].of /\ job.todo = chat[w].todo
      BY <1>4, <2>2, <3>1, <3>2, JobGoes, Zenon
    <3> QED BY <1>4, <3>3
  <2>4. chat' = [chat EXCEPT ![w] = job]
    BY <2>1, <2>2 DEF ChatInv, ChatTypes
  <2>5. <<r, h>> \notin overlapped => row.active + row.gone = 0 /\ row.active + row.gone <= 1
    BY <1>4, <1>5
  <2>6. Fits(w, r, h, row, job)
    BY <1>1, <1>4, <2>3, <2>5 DEF Fits
  <2> QED BY <1>3, <2>3, <2>4, <2>6, SeesTo
<1>6. CASE row.active = 1
  <2>1. NextUser(w, "check") /\ "check" \in {"check", "enrol"} /\ "check" # "enrol"
    BY <1>2, <1>6 DEF Get, AtRow, Now
  <2>2. PICK job \in ChatJobs :
          /\ chat' = [chat EXCEPT ![w] = job]
          /\ job.pc # "new" /\ job.pc \notin {"restore", "get", "insert"}
          /\ job # NoChat => job.of = chat[w].of
          /\ UsersOf(job.todo) \subseteq UsersOf(chat[w].todo)
          /\ job.pc # "enrol"
    BY <1>1, <2>1, NextUserIs, Zenon
  <2>3. Fits(w, r, h, row, job)
    BY <1>1, <1>4, <2>2 DEF Fits
  <2>4. chat' = [chat EXCEPT ![w] = job]
    BY <2>2
  <2> QED BY <1>3, <2>3, <2>4, SeesTo
<1>7. CASE row.active # 0 /\ row.active # 1
  <2>1. PICK job \in ChatJobs : job = NoChat
    BY DEF ChatJobs
  <2>2. chat' = [chat EXCEPT ![w] = job]
    BY <1>2, <1>7, <2>1 DEF Get, AtRow, Now
  <2>3. job.pc = "free" /\ UsersOf(job.todo) = {}
    BY <2>1, NobodyLeft DEF NoChat
  <2>4. Fits(w, r, h, row, job)
    BY <1>1, <1>4, <2>1, <2>3 DEF Fits
  <2> QED BY <1>3, <2>2, <2>4, SeesTo
<1> QED BY <1>5, <1>6, <1>7

\* A call about a room there is, by a worker who was free.
LEMMA BeginsAtRoom ==
  ASSUME ChatInv, NEW w \in ChatWorker, NEW r \in Room, room[r] # NoRoom,
         NEW users \in Seq(ChatUser), users # <<>>, NEW pc \in {"check", "reopen"},
         Begin(w, pc, r, users), UNCHANGED <<room, subs, pair, wiped>>, raced \subseteq raced'
  PROVE  ChatInv'
<1>1. PICK job : job = [pc |-> pc, of |-> r, todo |-> users]
  OBVIOUS
<1>2. job.pc = pc /\ job.of = r /\ job.todo = users /\ r # 0
  BY <1>1 DEF Room
<1>3. job \in ChatJobs
  BY <1>1, <1>2 DEF ChatJobs
<1>4. chat' = [chat EXCEPT ![w] = job] /\ chat[w] = NoChat /\ chat[w].of = 0 /\ chat[w].pc = "free"
  <2>1. chat' = [chat EXCEPT ![w] = job] /\ chat[w] = NoChat
    BY <1>1, Zenon DEF Begin
  <2>2. NoChat.of = 0 /\ NoChat.pc = "free"
    BY DEF NoChat
  <2> QED BY <2>1, <2>2
<1>5. /\ overlapped \subseteq overlapped'
      /\ \A u \in UsersOf(users) : <<r, u>> \notin overlapped' => Holding(r, u) = {}
  BY DEF Begin
<1>6. ChatTypes'
  BY <1>3, <1>4 DEF ChatInv, ChatTypes
<1>7. RoomsOK'
  <2>1. \A q \in Room : (room'[q] = NoRoom <=> room[q] = NoRoom) /\ (IsPersonal(q)' <=> IsPersonal(q))
    BY DEF IsPersonal
  <2>2. \A q \in Room, u \in ChatUser : room[q] = NoRoom => subs'[q][u] = subs[q][u]
    OBVIOUS
  <2>3. job.of # 0 => room[job.of] # NoRoom
    BY <1>2
  <2>4. pair' = pair /\ ChatTypes /\ RoomsOK
    BY DEF ChatInv
  <2> QED BY <1>3, <1>4, <2>1, <2>2, <2>3, <2>4, RoomsStay
<1>8. RowsOnce'
  <2>1. job.pc \notin {"restore", "get", "insert"} /\ job.pc # "enrol" /\ subs' = subs
    BY <1>2
  <2>2. \A u \in UsersOf(job.todo) : <<job.of, u>> \notin overlapped' =>
           /\ Holding(job.of, u) = {}
           /\ job.pc = "enrol" => Rows(job.of, u) = 0 /\ Once(job.todo, u)
    BY <1>2, <1>5, <2>1
  <2>3. ChatTypes /\ RowsOnce
    BY DEF ChatInv
  <2> QED BY <1>3, <1>4, <1>5, <2>1, <2>2, <2>3, RowsTakenUp
<1>9. PairsOK'
  <2>1. /\ ChatTypes /\ RoomsOK /\ PairsOK /\ job.pc # "new" /\ pair' = pair
        /\ wiped \subseteq wiped'
    BY <1>2 DEF ChatInv
  <2>2. \A q \in Room : pair[q] # {} /\ ~room[q].deleted => ~room'[q].deleted
    OBVIOUS
  <2>3. \A q \in Room, u \in ChatUser :
           subs[q][u].active + subs[q][u].gone > 0 => subs'[q][u].active + subs'[q][u].gone > 0
    OBVIOUS
  <2>4. \A q \in Room, u \in UsersOf(chat[w].todo) :
           chat[w].pc = "enrol" /\ chat[w].of = q /\ pair[q] \notin raced' \cup {{}} =>
             \/ subs'[q][u].active + subs'[q][u].gone > 0
             \/ job.pc = "enrol" /\ job.of = q /\ u \in UsersOf(job.todo)
    BY <1>4
  <2> QED BY <1>3, <1>4, <2>1, <2>2, <2>3, <2>4, PairsStay
<1> QED BY <1>6, <1>7, <1>8, <1>9 DEF ChatInv

\* create begins at a room there is.
LEMMA ChatSubscribe ==
  ASSUME ChatInv, NEW w \in ChatWorker, NEW r \in Room, NEW u \in ChatUser, Subscribe(w, r, u)
  PROVE  ChatInv'
<1>1. <<u>> \in Seq(ChatUser) /\ <<u>> # <<>>
  BY OneOrTwo
<1>2. /\ room[r] # NoRoom /\ Begin(w, "check", r, <<u>>) /\ UNCHANGED <<room, subs, pair, wiped>>
      /\ raced \subseteq raced'
  BY DEF Subscribe, IsLive
<1> QED BY <1>1, <1>2, BeginsAtRoom

\* start_chat_room: what is found is a personal room.
LEMMA FoundIsPersonal ==
  ASSUME NEW u \in ChatUser, NEW v \in ChatUser, NEW r \in Found(u, v)
  PROVE  r \in Room /\ IsPersonal(r) /\ room[r] # NoRoom
<1>1. r \in Room /\ IsPersonal(r)
  BY DEF Found, Newest, PersonalRooms
<1>2. room[r] # NoRoom
  BY <1>1 DEF IsPersonal, NoRoom
<1> QED BY <1>1, <1>2

\* start_chat_room goes on at the room it found, or with a new one.
LEMMA ChatStartPersonal ==
  ASSUME ChatInv, NEW w \in ChatWorker, NEW u \in ChatUser, NEW v \in ChatUser, StartPersonal(w, u, v)
  PROVE  ChatInv'
<1>1. /\ <<u, v>> \in Seq(ChatUser) /\ <<u, v>> # <<>> /\ Len(<<u, v>>) = 2
      /\ UsersOf(<<u, v>>) = {u, v}
  BY OneOrTwo
<1>2. UNCHANGED <<room, subs, pair, wiped>> /\ raced \subseteq raced' /\ LookFor(u, v)
  BY DEF StartPersonal, LookFor
<1>3. CASE \E r \in Found(u, v) :
             Begin(w, IF IsLive(r) THEN "check" ELSE "reopen", r, <<u, v>>)
  <2>1. PICK r \in Found(u, v) :
          Begin(w, IF IsLive(r) THEN "check" ELSE "reopen", r, <<u, v>>)
    BY <1>3
  <2>2. PICK pc \in {"check", "reopen"} : pc = IF IsLive(r) THEN "check" ELSE "reopen"
    OBVIOUS
  <2>3. r \in Room /\ room[r] # NoRoom /\ Begin(w, pc, r, <<u, v>>)
    BY <2>1, <2>2, FoundIsPersonal
  <2> QED BY <1>1, <1>2, <2>3, BeginsAtRoom
<1>4. CASE Found(u, v) = {} /\ Begin(w, "new", 0, <<u, v>>)
  <2>1. PICK job : job = [pc |-> "new", of |-> 0, todo |-> <<u, v>>]
    OBVIOUS
  <2>2. job.pc = "new" /\ job.of = 0 /\ job.todo = <<u, v>>
    BY <2>1
  <2>3. job \in ChatJobs
    BY <1>1, <2>1, <2>2 DEF ChatJobs
  <2>4. /\ chat' = [chat EXCEPT ![w] = job] /\ chat[w] = NoChat
    BY <1>4, <2>1, Zenon DEF Begin
  <2>5. chat[w].of = 0 /\ overlapped \subseteq overlapped'
    BY <1>4, <2>4 DEF Begin, NoChat
  <2>6. ChatTypes /\ RoomsOK /\ RowsOnce /\ PairsOK
    BY DEF ChatInv
  <2>7. ChatTypes'
    BY <1>2, <2>3, <2>4, <2>6 DEF ChatTypes
  <2>8. RoomsOK'
    <3>1. \A q \in Room : (room'[q] = NoRoom <=> room[q] = NoRoom) /\ (IsPersonal(q)' <=> IsPersonal(q))
      BY <1>2 DEF IsPersonal
    <3>2. \A q \in Room, x \in ChatUser : room[q] = NoRoom => subs'[q][x] = subs[q][x]
      BY <1>2
    <3>3. job.of # 0 => room[job.of] # NoRoom
      BY <2>2
    <3>4. pair' = pair
      BY <1>2
    <3> QED BY <2>3, <2>4, <2>6, <3>1, <3>2, <3>3, <3>4, RoomsStay
  <2>9. RowsOnce'
    <3>1. job.pc \notin {"restore", "get", "insert"} /\ job.pc # "enrol" /\ subs' = subs
      BY <1>2, <2>2
    <3>2. \A x \in UsersOf(job.todo) : <<job.of, x>> \notin overlapped' =>
             /\ Holding(job.of, x) = {}
             /\ job.pc = "enrol" => Rows(job.of, x) = 0 /\ Once(job.todo, x)
      BY <1>4, <2>2, <3>1 DEF Begin
    <3> QED BY <2>3, <2>4, <2>5, <2>6, <3>1, <3>2, RowsTakenUp
  <2>10. PairsOK'
    <3>1. chat' = [chat EXCEPT ![w] = [pc |-> "new", of |-> 0, todo |-> <<u, v>>]]
      BY <1>4, Zenon DEF Begin
    <3> QED BY <1>2, <1>4, <2>4, <2>6, <3>1, PairsLookedFor
  <2> QED BY <2>7, <2>8, <2>9, <2>10 DEF ChatInv
<1> QED BY <1>3, <1>4, Zenon DEF StartPersonal

\* The read that writes goes on at a room both were in.
LEMMA ChatGetPersonal ==
  ASSUME ChatInv, NEW w \in ChatWorker, NEW u \in ChatUser, NEW v \in ChatUser, GetPersonal(w, u, v)
  PROVE  ChatInv'
<1>1. <<u, v>> \in Seq(ChatUser) /\ <<u, v>> # <<>>
  BY OneOrTwo
<1>2. UNCHANGED <<room, subs, pair, wiped>> /\ raced \subseteq raced'
  BY DEF GetPersonal, LookFor
<1>3. PICK r \in PersonalRooms : Begin(w, IF IsLive(r) THEN "check" ELSE "reopen", r, <<u, v>>)
  BY DEF GetPersonal
<1>4. PICK pc \in {"check", "reopen"} : pc = IF IsLive(r) THEN "check" ELSE "reopen"
  OBVIOUS
<1>5. r \in Room /\ room[r] # NoRoom /\ Begin(w, pc, r, <<u, v>>)
  BY <1>3, <1>4 DEF PersonalRooms, IsPersonal, NoRoom
<1> QED BY <1>1, <1>2, <1>5, BeginsAtRoom

\* A room is made, and its own people are to be enrolled.
Enrols(w, new, kind, two, job) ==
  /\ chat[w].of = 0 /\ new = NextRoom /\ AddRoom(kind)
  /\ kind = "personal" <=> two # {}
  /\ pair' = [pair EXCEPT ![new] = two]
  /\ job.pc = "enrol" /\ job.of = new /\ chat' = [chat EXCEPT ![w] = job]
  /\ subs' = subs /\ overlapped \subseteq overlapped'
  /\ \A u \in ChatUser : <<new, u>> \notin overlapped' => Once(job.todo, u)

\* The rooms stay numbered, and the new one's people have one row to come each.
LEMMA MakesRoom ==
  ASSUME ChatInv, NEW w \in ChatWorker, NEW new \in Room, NEW kind \in {"open", "personal"},
         NEW two \in SUBSET ChatUser, NEW job \in ChatJobs, Enrols(w, new, kind, two, job)
  PROVE  ChatTypes' /\ RoomsOK' /\ RowsOnce'
<1> SUFFICES ASSUME chat[w].of = 0, new = NextRoom, AddRoom(kind),
                    kind = "personal" <=> two # {}, pair' = [pair EXCEPT ![new] = two],
                    job.pc = "enrol", job.of = new, chat' = [chat EXCEPT ![w] = job],
                    subs' = subs, overlapped \subseteq overlapped',
                    \A u \in ChatUser : <<new, u>> \notin overlapped' => Once(job.todo, u)
             PROVE  ChatTypes' /\ RoomsOK' /\ RowsOnce'
  BY DEF Enrols
<1>1. ChatTypes /\ RoomsOK /\ RowsOnce
  BY DEF ChatInv
<1>2. /\ room[new] = NoRoom
      /\ \E n \in 0..MaxRooms : {r \in Room : room'[r] # NoRoom} = 1..n
  BY <1>1, NextIsNew
<1>3. PICK row \in RoomRow : row = [kind |-> kind, deleted |-> FALSE]
  BY DEF RoomRow
<1>4. room' = [room EXCEPT ![new] = row]
  BY <1>3, Zenon DEF AddRoom
<1>5. /\ room'[new] = row /\ row.kind = kind /\ row # NoRoom
      /\ \A r \in Room \ {new} : room'[r] = room[r]
  <2>1. room'[new] = row /\ \A r \in Room \ {new} : room'[r] = room[r]
    BY <1>1, <1>4 DEF ChatTypes
  <2>2. DOMAIN row = {"kind", "deleted"} /\ DOMAIN NoRoom = {"kind"}
    BY <1>3 DEF NoRoom
  <2>3. row # NoRoom
    BY <2>2
  <2> QED BY <1>3, <2>1, <2>3
<1>6. /\ chat'[w] = job /\ \A x \in ChatWorker \ {w} : chat'[x] = chat[x]
      /\ pair'[new] = two /\ \A r \in Room \ {new} : pair'[r] = pair[r]
  BY <1>1 DEF ChatTypes
<1>7. ChatTypes'
  BY <1>1, <1>4 DEF ChatTypes
<1>8. RoomsOK'
  <2>1. \A r \in Room : room'[r] = NoRoom => \A u \in ChatUser : subs'[r][u] = NoRows
    BY <1>1, <1>5 DEF RoomsOK
  <2>2. ASSUME NEW x \in ChatWorker, chat'[x].of # 0 PROVE room'[chat'[x].of] # NoRoom
    <3>1. CASE x = w
      BY <1>5, <1>6, <3>1
    <3>2. CASE x # w
      <4>1. chat[x].of # 0 /\ chat[x].of \in Room /\ room[chat[x].of] # NoRoom
        <5>1. chat[x].of # 0 /\ chat[x] \in ChatJobs
          BY <1>1, <1>6, <2>2, <3>2 DEF ChatTypes
        <5>2. chat[x] # NoChat
          BY <5>1 DEF NoChat
        <5>3. chat[x].of \in Room
          BY <1>1, <5>1, <5>2, JobInHand
        <5> QED BY <1>1, <5>1, <5>3 DEF RoomsOK
      <4> QED BY <1>2, <1>5, <1>6, <3>2, <4>1
    <3> QED BY <3>1, <3>2
  <2>3. \A r \in Room : IsPersonal(r)' <=> pair'[r] # {}
    BY <1>1, <1>5, <1>6 DEF RoomsOK, IsPersonal
  <2> QED BY <1>2, <2>1, <2>2, <2>3 DEF RoomsOK
<1>9. RowsOnce'
  <2>1. job.pc \notin {"restore", "get", "insert"}
    OBVIOUS
  <2>2. \A u \in ChatUser : Rows(new, u) = 0
    <3>1. \A u \in ChatUser : subs[new][u] = NoRows
      BY <1>1, <1>2 DEF RoomsOK
    <3>2. NoRows.active + NoRows.gone = 0
      BY DEF NoRows
    <3> QED BY <3>1, <3>2 DEF Rows
  <2>3. \A u \in ChatUser : Holding(new, u) = {}
    <3> SUFFICES ASSUME NEW x \in ChatWorker, chat[x].of = new PROVE FALSE
      BY DEF Holding
    <3>1. new # 0
      BY DEF Room
    <3> QED BY <1>1, <1>2, <3>1 DEF RoomsOK
  <2>4. UsersOf(job.todo) \subseteq ChatUser
    <3>1. job # NoChat
      BY DEF NoChat
    <3>2. job.todo \in Seq(ChatUser) /\ job.todo # <<>>
      BY <3>1 DEF ChatJobs
    <3> QED BY <3>2, HeadAndTail
  <2>5. \A u \in UsersOf(job.todo) : <<job.of, u>> \notin overlapped' =>
           /\ Holding(job.of, u) = {}
           /\ job.pc = "enrol" => Rows(job.of, u) = 0 /\ Once(job.todo, u)
    BY <2>2, <2>3, <2>4
  <2> QED BY <1>1, <2>1, <2>5, RowsTakenUp
<1> QED BY <1>7, <1>8, <1>9

\* perform_create: the organization's owner and members occur once each.
LEMMA ChatCreateRoom ==
  ASSUME ChatInv, NEW w \in ChatWorker, CreateRoom(w)
  PROVE  ChatInv'
<1>1. ChatTypes /\ RoomsOK /\ PairsOK
  BY DEF ChatInv
<1>2. PICK new \in Room : new = NextRoom
  BY DEF CreateRoom
<1>3. AddRoom("open") /\ UNCHANGED <<subs, pair, raced, wiped>> /\ "open" # "personal"
  BY DEF CreateRoom
<1>4. PICK job : job = [pc |-> "enrol", of |-> new, todo |-> TeamOf]
  OBVIOUS
<1>5. job.pc = "enrol" /\ job.of = new /\ job.todo = TeamOf /\ new # 0
  BY <1>4 DEF Room
<1>6. job \in ChatJobs
  <2>1. TeamOf # <<>> /\ TeamOf \in Seq(ChatUser)
    BY TeamAssumption DEF CreateRoom
  <2> QED BY <1>4, <1>5, <2>1 DEF ChatJobs
<1>7. Begin(w, "enrol", new, TeamOf)
  BY <1>2 DEF CreateRoom
<1>8. chat' = [chat EXCEPT ![w] = job] /\ chat[w] = NoChat /\ overlapped \subseteq overlapped'
  <2>1. chat' = [chat EXCEPT ![w] = job] /\ chat[w] = NoChat
    BY <1>4, <1>7, Zenon DEF Begin
  <2> QED BY <1>7, <2>1 DEF Begin
<1>9. NoChat.of = 0 /\ NoChat.pc = "free"
  BY DEF NoChat
<1>10. pair[new] = {} /\ room[new] = NoRoom
  <2>1. room[new] = NoRoom
    BY <1>1, <1>2, NextIsNew
  <2>2. ~IsPersonal(new)
    BY <2>1 DEF IsPersonal, NoRoom
  <2> QED BY <1>1, <2>1, <2>2 DEF RoomsOK
<1>11. PICK two \in SUBSET ChatUser : two = {} /\ pair' = [pair EXCEPT ![new] = two]
  BY <1>1, <1>3, <1>10 DEF ChatTypes
<1>12. \A u \in ChatUser : Once(TeamOf, u)
  BY TeamAssumption DEF Once
<1>13. ChatTypes' /\ RoomsOK' /\ RowsOnce'
  <2>1. PICK kind \in {"open", "personal"} : kind = "open"
    OBVIOUS
  <2>2. AddRoom(kind) /\ (kind = "personal" <=> two # {}) /\ subs' = subs /\ chat[w].of = 0
    BY <1>3, <1>8, <1>9, <1>11, <2>1
  <2>3. \A u \in ChatUser : <<new, u>> \notin overlapped' => Once(job.todo, u)
    BY <1>5, <1>12
  <2>4. Enrols(w, new, kind, two, job)
    BY <1>2, <1>5, <1>8, <1>11, <2>2, <2>3 DEF Enrols
  <2> QED BY <1>6, <2>4, MakesRoom
<1>14. PairsOK'
  <2>1. PICK row : row = [kind |-> "open", deleted |-> FALSE]
    OBVIOUS
  <2>2. room' = [room EXCEPT ![new] = row]
    BY <1>2, <1>3, <2>1, Zenon DEF AddRoom
  <2>3. \A r \in Room : pair[r] # {} /\ ~room[r].deleted => ~room'[r].deleted
    <3>1. \A r \in Room \ {new} : room'[r] = room[r]
      BY <1>1, <2>2 DEF ChatTypes
    <3> QED BY <1>10, <3>1
  <2>4. \A q \in Room, u \in ChatUser :
           subs[q][u].active + subs[q][u].gone > 0 => subs'[q][u].active + subs'[q][u].gone > 0
    BY <1>3
  <2>5. \A q \in Room, u \in UsersOf(chat[w].todo) :
           chat[w].pc = "enrol" /\ chat[w].of = q /\ pair[q] \notin raced' \cup {{}} =>
             \/ subs'[q][u].active + subs'[q][u].gone > 0
             \/ job.pc = "enrol" /\ job.of = q /\ u \in UsersOf(job.todo)
    BY <1>8, <1>9
  <2>6. job.pc # "new" /\ pair' = pair /\ raced \subseteq raced' /\ wiped \subseteq wiped'
    BY <1>3, <1>5
  <2> QED BY <1>1, <1>6, <1>8, <2>3, <2>4, <2>5, <2>6, PairsStay
<1> QED BY <1>13, <1>14 DEF ChatInv

\* A personal room is made for two, or for one with himself.
LEMMA ChatSaveNewPersonal ==
  ASSUME ChatInv, NEW w \in ChatWorker, SaveNewPersonal(w)
  PROVE  ChatInv'
<1>1. ChatTypes /\ RoomsOK /\ PairsOK
  BY DEF ChatInv
<1>2. PICK new \in Room : new = NextRoom
  BY DEF SaveNewPersonal
<1>3. PICK c \in ChatJobs : c = chat[w] /\ c.pc = "new" /\ c # NoChat
  <2>1. chat[w] \in ChatJobs
    BY <1>1 DEF ChatTypes
  <2>2. chat[w].pc = "new"
    BY DEF SaveNewPersonal
  <2> QED BY <2>1, <2>2, NothingInHand
<1>4. c.of = 0 /\ c.todo \in Seq(ChatUser) /\ c.todo # <<>> /\ Len(c.todo) = 2
  BY <1>3 DEF ChatJobs
<1>5. PICK job : job = [c EXCEPT !.pc = "enrol", !.of = new]
  OBVIOUS
<1>6. job \in ChatJobs /\ job.pc = "enrol" /\ job.of = new /\ job.todo = c.todo
  <2>1. new # 0 /\ new \in Room
    BY DEF Room
  <2> HIDE DEF Room
  <2> QED BY <1>3, <1>5, <2>1 DEF ChatJobs
<1>7. chat' = [chat EXCEPT ![w] = job]
  <2>1. chat' = [chat EXCEPT ![w].pc = "enrol", ![w].of = new]
    BY <1>2 DEF SaveNewPersonal
  <2> QED BY <1>1, <1>3, <1>5, <2>1 DEF ChatTypes
<1>8. PICK two \in SUBSET ChatUser :
         two = UsersOf(chat[w].todo) /\ pair' = [pair EXCEPT ![new] = two] /\ two # {}
  <2>1. UsersOf(c.todo) \in SUBSET ChatUser /\ UsersOf(c.todo) # {}
    BY <1>4, HeadAndTail
  <2> QED BY <1>2, <1>3, <2>1 DEF SaveNewPersonal
<1>9. subs' = subs /\ overlapped \subseteq overlapped'
  BY DEF SaveNewPersonal
<1>10. ASSUME NEW u \in ChatUser, <<new, u>> \notin overlapped' PROVE Once(job.todo, u)
  <2>1. DOMAIN c.todo = {1, 2}
    BY <1>4
  <2>2. c.todo[1] = c.todo[2] => <<new, c.todo[1]>> \in overlapped'
    BY <1>2, <1>3 DEF SaveNewPersonal
  <2> QED BY <1>6, <1>10, <2>1, <2>2 DEF Once
<1>11. PICK kind \in {"open", "personal"} : kind = "personal" /\ AddRoom(kind)
  BY DEF SaveNewPersonal
<1>12. Enrols(w, new, kind, two, job)
  BY <1>2, <1>3, <1>4, <1>6, <1>7, <1>8, <1>9, <1>10, <1>11 DEF Enrols
<1>13. ChatTypes' /\ RoomsOK' /\ RowsOnce'
  BY <1>6, <1>12, MakesRoom
<1>14. PairsOK'
  BY <1>1, <1>2, <1>3, PairsMade
<1> QED BY <1>13, <1>14 DEF ChatInv

\* A room that is brought back is one that was there.
LEMMA ChatReopen ==
  ASSUME ChatInv, NEW w \in ChatWorker, Reopen(w)
  PROVE  ChatInv'
<1>1. ChatTypes /\ RoomsOK /\ RowsOnce /\ PairsOK
  BY DEF ChatInv
<1>2. chat[w].pc = "reopen" /\ chat[w] # NoChat /\ chat[w].pc # "new" /\ chat[w].pc # "enrol"
  <2>1. chat[w].pc = "reopen"
    BY DEF Reopen
  <2> QED BY <2>1, NothingInHand
<1>3. /\ chat[w] \in ChatJobs /\ chat[w].of \in Room /\ chat[w].of # 0
      /\ chat[w].todo \in Seq(ChatUser) /\ chat[w].todo # <<>>
  BY <1>1, <1>2, JobInHand
<1>4. PICK r \in Room : chat[w].of = r
  BY <1>3
<1>5. room[r] # NoRoom /\ room[r] \in RoomRow
  BY <1>1, <1>3, <1>4 DEF RoomsOK, ChatTypes
<1>6. PICK job \in ChatJobs :
         /\ chat' = [chat EXCEPT ![w] = job]
         /\ job.pc \notin {"restore", "get", "insert", "enrol", "new"}
         /\ job # NoChat => job.of = chat[w].of
         /\ UsersOf(job.todo) \subseteq UsersOf(chat[w].todo)
  <2>1. CASE Goes(w, "check")
    <3>1. "check" \in {"check", "restore", "get", "insert", "enrol", "reopen"}
      OBVIOUS
    <3>2. PICK job : job = [chat[w] EXCEPT !.pc = "check"]
      OBVIOUS
    <3>3. job \in ChatJobs /\ job.pc = "check" /\ job.of = chat[w].of /\ job.todo = chat[w].todo
      BY <1>3, <3>1, <3>2, JobGoes, Zenon
    <3>4. chat' = [chat EXCEPT ![w] = job]
      BY <1>1, <2>1, <3>2 DEF Goes, ChatTypes
    <3> QED BY <3>3, <3>4
  <2>2. CASE chat' = [chat EXCEPT ![w] = NoChat]
    <3>1. NoChat \in ChatJobs /\ NoChat.pc = "free" /\ UsersOf(NoChat.todo) = {}
      BY NobodyLeft DEF ChatJobs, NoChat
    <3> QED BY <2>2, <3>1
  <2> QED BY <2>1, <2>2 DEF Reopen
<1>7. UNCHANGED <<subs, overlapped, pair, raced, wiped>>
  BY DEF Reopen
<1>8. PICK row \in RoomRow : row = [room[r] EXCEPT !.deleted = FALSE] /\ row.kind = room[r].kind /\ ~row.deleted
  <2>1. PICK row : row = [room[r] EXCEPT !.deleted = FALSE]
    OBVIOUS
  <2>2. row \in RoomRow /\ row.kind = room[r].kind /\ row.deleted = FALSE
    BY <1>5, <2>1 DEF RoomRow
  <2> QED BY <2>1, <2>2
<1>9. room' = [room EXCEPT ![r] = row]
  BY <1>1, <1>4, <1>8 DEF Reopen, ChatTypes
<1>10. room'[r] = row /\ \A q \in Room \ {r} : room'[q] = room[q]
  BY <1>1, <1>9 DEF ChatTypes
<1>11. row # NoRoom
  <2>1. DOMAIN row = {"kind", "deleted"} /\ DOMAIN NoRoom = {"kind"}
    BY DEF NoRoom, RoomRow
  <2> QED BY <2>1
<1>12. ChatTypes'
  BY <1>1, <1>6, <1>7, <1>9 DEF ChatTypes
<1>13. RoomsOK'
  <2>1. \A q \in Room : (room'[q] = NoRoom <=> room[q] = NoRoom) /\ (IsPersonal(q)' <=> IsPersonal(q))
    BY <1>5, <1>8, <1>10, <1>11 DEF IsPersonal
  <2>2. \A q \in Room, u \in ChatUser : room[q] = NoRoom => subs'[q][u] = subs[q][u]
    BY <1>7
  <2>3. job.of # 0 => room[job.of] # NoRoom
    <3>1. NoChat.of = 0
      BY DEF NoChat
    <3> QED BY <1>4, <1>5, <1>6, <3>1
  <2>4. chat' = [chat EXCEPT ![w] = job] /\ pair' = pair
    BY <1>6, <1>7
  <2> QED BY <1>1, <2>1, <2>2, <2>3, <2>4, RoomsStay
<1>14. RowsOnce'
  <2>1. KnowsRows(w, job, subs')
    BY <1>6, <1>7 DEF KnowsRows
  <2>2. /\ chat' = [chat EXCEPT ![w] = job] /\ overlapped \subseteq overlapped'
        /\ job # NoChat => job.of = chat[w].of
        /\ UsersOf(job.todo) \subseteq UsersOf(chat[w].todo)
        /\ job.pc = "enrol" => chat[w].pc = "enrol" /\ job.todo = Tail(chat[w].todo)
    BY <1>6, <1>7
  <2> QED BY <1>1, <1>2, <2>1, <2>2, RowsStay
<1>15. PairsOK'
  <2>1. \A q \in Room : pair[q] # {} /\ ~room[q].deleted => ~room'[q].deleted
    BY <1>8, <1>10
  <2>2. \A q \in Room, u \in ChatUser :
           subs[q][u].active + subs[q][u].gone > 0 => subs'[q][u].active + subs'[q][u].gone > 0
    BY <1>7
  <2>3. \A q \in Room, u \in UsersOf(chat[w].todo) :
           chat[w].pc = "enrol" /\ chat[w].of = q /\ pair[q] \notin raced' \cup {{}} =>
             \/ subs'[q][u].active + subs'[q][u].gone > 0
             \/ job.pc = "enrol" /\ job.of = q /\ u \in UsersOf(job.todo)
    BY <1>2
  <2>4. /\ chat' = [chat EXCEPT ![w] = job] /\ job.pc # "new" /\ pair' = pair
        /\ raced \subseteq raced' /\ wiped \subseteq wiped'
    BY <1>6, <1>7
  <2> QED BY <1>1, <2>1, <2>2, <2>3, <2>4, PairsStay
<1> QED BY <1>12, <1>13, <1>14, <1>15 DEF ChatInv

\* Whose work is left undone is known to have been disturbed.
LEMMA ChatDiesAtWork ==
  ASSUME ChatInv, NEW w \in ChatWorker, ChatDies(w)
  PROVE  ChatInv'
<1>1. ChatTypes /\ RoomsOK /\ RowsOnce /\ PairsOK
  BY DEF ChatInv
<1>2. PICK job \in ChatJobs : job = NoChat
  BY DEF ChatJobs
<1>3. job.pc = "free" /\ job.of = 0 /\ UsersOf(job.todo) = {}
  BY <1>2, NobodyLeft DEF NoChat
<1>4. /\ chat[w] # NoChat /\ chat' = [chat EXCEPT ![w] = job]
      /\ UNCHANGED <<room, subs, pair, wiped>>
      /\ overlapped \subseteq overlapped' /\ raced \subseteq raced'
      /\ raced' = raced \cup ({PairOf(w)} \ {{}})
  BY <1>2 DEF ChatDies
<1>5. ChatTypes'
  BY <1>1, <1>4 DEF ChatTypes
<1>6. RoomsOK'
  <2>1. \A q \in Room : (room'[q] = NoRoom <=> room[q] = NoRoom) /\ (IsPersonal(q)' <=> IsPersonal(q))
    BY <1>4 DEF IsPersonal
  <2>2. \A q \in Room, u \in ChatUser : room[q] = NoRoom => subs'[q][u] = subs[q][u]
    BY <1>4
  <2>3. (job.of # 0 => room[job.of] # NoRoom) /\ pair' = pair /\ chat' = [chat EXCEPT ![w] = job]
    BY <1>3, <1>4
  <2> QED BY <1>1, <2>1, <2>2, <2>3, RoomsStay
<1>7. RowsOnce'
  <2>1. KnowsRows(w, job, subs')
    BY <1>3, <1>4 DEF KnowsRows
  <2>2. /\ job # NoChat => job.of = chat[w].of
        /\ UsersOf(job.todo) \subseteq UsersOf(chat[w].todo)
        /\ job.pc = "enrol" => chat[w].pc = "enrol" /\ job.todo = Tail(chat[w].todo)
    BY <1>2, <1>3
  <2> QED BY <1>1, <1>4, <2>1, <2>2, RowsStay
<1>8. PairsOK'
  <2>1. \A q \in Room : pair[q] # {} /\ ~room[q].deleted => ~room'[q].deleted
    BY <1>4
  <2>2. \A q \in Room, u \in ChatUser :
           subs[q][u].active + subs[q][u].gone > 0 => subs'[q][u].active + subs'[q][u].gone > 0
    BY <1>4
  <2>3. ASSUME NEW q \in Room, NEW u \in UsersOf(chat[w].todo),
               chat[w].pc = "enrol", chat[w].of = q, pair[q] \notin raced' \cup {{}}
        PROVE  /\ subs'[q][u].active + subs'[q][u].gone > 0
               /\ job.pc = "enrol" /\ job.of = q /\ u \in UsersOf(job.todo)
    <3>1. q # 0
      BY DEF Room
    <3>2. PairOf(w) = pair[q]
      BY <2>3, <3>1 DEF PairOf
    <3> QED BY <1>4, <2>3, <3>2
  <2>4. job.pc # "new" /\ pair' = pair /\ wiped \subseteq wiped'
    BY <1>3, <1>4
  <2>5. \A q \in Room, u \in UsersOf(chat[w].todo) :
           chat[w].pc = "enrol" /\ chat[w].of = q /\ pair[q] \notin raced' \cup {{}} =>
             \/ subs'[q][u].active + subs'[q][u].gone > 0
             \/ job.pc = "enrol" /\ job.of = q /\ u \in UsersOf(job.todo)
    BY <2>3
  <2> QED BY <1>1, <1>4, <2>1, <2>2, <2>4, <2>5, PairsStay
<1> QED BY <1>5, <1>6, <1>7, <1>8 DEF ChatInv

\* The rows stay once each when a row nobody is at work on goes or is marked.
LEMMA RowsDisturbed ==
  ASSUME ChatTypes, RowsOnce, NEW r \in Room, NEW u \in ChatUser, NEW row \in SubRow,
         subs' = [subs EXCEPT ![r][u] = row], chat' = chat, Disturb(r, u),
         row.active + row.gone <= Rows(r, u)
  PROVE  RowsOnce'
<1> SUFFICES ASSUME NEW q \in Room, NEW v \in ChatUser, <<q, v>> \notin overlapped'
             PROVE  OneRow(q, v)'
  BY DEF RowsOnce
<1>1. OneRow(q, v)
  BY DEF RowsOnce, Disturb
<1>2. CASE q = r /\ v = u
  <2>1. Holding(q, v) = {}
    BY <1>2 DEF Disturb
  <2>2. subs'[q][v] = row
    BY <1>2 DEF ChatTypes
  <2>3. row.active + row.gone <= 1
    <3>1. /\ row.active \in Nat /\ row.gone \in Nat
          /\ subs[r][u].active \in Nat /\ subs[r][u].gone \in Nat
      BY DEF ChatTypes, SubRow
    <3> QED BY <1>1, <1>2, <3>1 DEF OneRow, Rows
  <2> QED BY <2>1, <2>2, <2>3 DEF OneRow, Rows, Holding, Now
<1>3. CASE q # r \/ v # u
  <2>1. subs'[q][v] = subs[q][v]
    BY <1>3 DEF ChatTypes
  <2> QED BY <1>1, <2>1 DEF OneRow, Rows, Holding, Now
<1> QED BY <1>2, <1>3

\* The rooms stay as numbered when a row goes or is marked.
LEMMA RoomsDisturbed ==
  ASSUME ChatTypes, RoomsOK, NEW r \in Room, room[r] # NoRoom, NEW u \in ChatUser, NEW row \in SubRow,
         subs' = [subs EXCEPT ![r][u] = row], UNCHANGED <<room, chat, pair>>
  PROVE  ChatTypes' /\ RoomsOK'
<1>1. \A q \in Room, v \in ChatUser : q # r => subs'[q][v] = subs[q][v]
  BY DEF ChatTypes
<1>2. ChatTypes'
  BY DEF ChatTypes
<1>3. \A q \in Room : room'[q] = NoRoom => \A v \in ChatUser : subs'[q][v] = NoRows
  BY <1>1 DEF RoomsOK
<1> QED BY <1>2, <1>3 DEF RoomsOK, IsPersonal

\* Who leaves for good leaves his rows to nobody at work on them.
LEMMA ChatUnsubscribe ==
  ASSUME ChatInv, NEW r \in Room, NEW u \in ChatUser, Unsubscribe(r, u)
  PROVE  ChatInv'
<1>1. ChatTypes /\ RoomsOK /\ RowsOnce /\ PairsOK
  BY DEF ChatInv
<1>2. /\ room[r] # NoRoom /\ subs[r][u].active = 1 /\ subs[r][u] \in SubRow
      /\ UNCHANGED <<room, chat, pair, raced>> /\ Disturb(r, u)
      /\ wiped' = IF u \in pair[r] THEN wiped \cup {pair[r]} ELSE wiped
  BY <1>1 DEF Unsubscribe, ChatTypes
<1>3. PICK row : row = [subs[r][u] EXCEPT !.active = 0]
  OBVIOUS
<1>4. row \in SubRow /\ row.active = 0 /\ row.gone = subs[r][u].gone
  BY <1>2, <1>3 DEF SubRow
<1>5. subs' = [subs EXCEPT ![r][u] = row]
  BY <1>1, <1>3 DEF Unsubscribe, ChatTypes
<1>6. ChatTypes' /\ RoomsOK'
  BY <1>1, <1>2, <1>4, <1>5, RoomsDisturbed
<1>7. row.active + row.gone <= Rows(r, u)
  BY <1>2, <1>4 DEF Rows, SubRow
<1>8. RowsOnce'
  BY <1>1, <1>2, <1>4, <1>5, <1>7, RowsDisturbed
<1>9. PairsOK'
  <2>1. ASSUME NEW q \in Room, NEW v \in ChatUser, v \in pair[q], pair[q] \notin wiped'
        PROVE  subs'[q][v] = subs[q][v]
    <3>1. q # r \/ v # u
      BY <1>2, <2>1
    <3> QED BY <1>1, <1>5, <3>1 DEF ChatTypes
  <2>2. wiped \subseteq wiped'
    BY <1>2
  <2> QED BY <1>1, <1>2, <2>1, <2>2, PairsUndisturbed
<1> QED BY <1>6, <1>8, <1>9 DEF ChatInv

\* A row that is marked is one row as before.
LEMMA ChatDeleteSubscription ==
  ASSUME ChatInv, NEW r \in Room, NEW u \in ChatUser, DeleteSubscription(r, u)
  PROVE  ChatInv'
<1>1. ChatTypes /\ RoomsOK /\ RowsOnce /\ PairsOK
  BY DEF ChatInv
<1>2. /\ room[r] # NoRoom /\ subs[r][u].active > 0 /\ subs[r][u] \in SubRow
      /\ UNCHANGED <<room, chat, pair, raced, wiped>> /\ Disturb(r, u)
  BY <1>1 DEF DeleteSubscription, ChatTypes
<1>3. PICK row : row = [active |-> subs[r][u].active - 1, gone |-> subs[r][u].gone + 1]
  OBVIOUS
<1>4. row \in SubRow /\ row.active + row.gone = Rows(r, u)
  BY <1>2, <1>3 DEF SubRow, Rows
<1>5. subs' = [subs EXCEPT ![r][u] = row]
  BY <1>1, <1>3 DEF DeleteSubscription, ChatTypes
<1>6. ChatTypes' /\ RoomsOK'
  BY <1>1, <1>2, <1>4, <1>5, RoomsDisturbed
<1>7. row.active + row.gone <= Rows(r, u)
  BY <1>2, <1>4 DEF Rows, SubRow
<1>8. RowsOnce'
  BY <1>1, <1>2, <1>4, <1>5, <1>7, RowsDisturbed
<1>9. PairsOK'
  <2>1. ASSUME NEW q \in Room, NEW v \in ChatUser, subs[q][v].active + subs[q][v].gone > 0
        PROVE  subs'[q][v].active + subs'[q][v].gone > 0
    <3>1. CASE q = r /\ v = u
      <4>1. subs'[q][v] = row
        BY <1>1, <1>5, <3>1 DEF ChatTypes
      <4> QED BY <1>4, <2>1, <3>1, <4>1 DEF Rows
    <3>2. CASE q # r \/ v # u
      <4>1. subs'[q][v] = subs[q][v]
        BY <1>1, <1>5, <3>2 DEF ChatTypes
      <4> QED BY <2>1, <4>1
    <3> QED BY <3>1, <3>2
  <2>2. wiped \subseteq wiped'
    BY <1>2
  <2> QED BY <1>1, <1>2, <2>1, <2>2, PairsUndisturbed
<1> QED BY <1>6, <1>8, <1>9 DEF ChatInv

\* A room that is deleted is no longer its pair's.
LEMMA ChatDestroyRoom ==
  ASSUME ChatInv, NEW r \in Room, DestroyRoom(r)
  PROVE  ChatInv'
<1>1. ChatTypes /\ RoomsOK /\ RowsOnce /\ PairsOK
  BY DEF ChatInv
<1>2. /\ room[r] # NoRoom /\ room[r] \in RoomRow
      /\ UNCHANGED <<subs, chat, overlapped, pair, raced>>
      /\ wiped' = IF IsPersonal(r) THEN wiped \cup {pair[r]} ELSE wiped
  BY <1>1 DEF DestroyRoom, IsLive, ChatTypes
<1>3. PICK row : row = [room[r] EXCEPT !.deleted = TRUE]
  OBVIOUS
<1>4. row \in RoomRow /\ row.kind = room[r].kind
  BY <1>2, <1>3 DEF RoomRow
<1>5. row # NoRoom
  <2>1. DOMAIN row = {"kind", "deleted"} /\ DOMAIN NoRoom = {"kind"}
    BY <1>4 DEF NoRoom, RoomRow
  <2> QED BY <2>1
<1>6. room' = [room EXCEPT ![r] = row]
  BY <1>1, <1>3 DEF DestroyRoom, ChatTypes
<1>7. room'[r] = row /\ \A q \in Room \ {r} : room'[q] = room[q]
  BY <1>1, <1>6 DEF ChatTypes
<1>8. ChatTypes'
  BY <1>1, <1>2, <1>4, <1>6 DEF ChatTypes
<1>9. RoomsOK'
  <2>1. \A q \in Room : (room'[q] = NoRoom <=> room[q] = NoRoom) /\ (IsPersonal(q)' <=> IsPersonal(q))
    BY <1>2, <1>4, <1>5, <1>7 DEF IsPersonal
  <2>2. {q \in Room : room'[q] # NoRoom} = {q \in Room : room[q] # NoRoom}
    BY <2>1
  <2>3. \A w \in ChatWorker : chat'[w].of # 0 => chat'[w].of \in Room
    <3> SUFFICES ASSUME NEW w \in ChatWorker, chat[w].of # 0 PROVE chat[w].of \in Room
      BY <1>2
    <3>1. chat[w] # NoChat
      BY DEF NoChat
    <3> QED BY <1>1, <3>1, JobInHand
  <2> QED BY <1>1, <1>2, <2>1, <2>2, <2>3 DEF RoomsOK
<1>10. RowsOnce'
  BY <1>1, <1>2 DEF RowsOnce, OneRow, Rows, Holding, Now
<1>11. PairsOK'
  <2>1. ASSUME NEW q \in Room, pair[q] # {}, pair[q] \notin wiped' PROVE room'[q] = room[q]
    <3>1. IsPersonal(q)
      BY <1>1, <2>1 DEF RoomsOK
    <3>2. q # r
      BY <1>2, <2>1, <3>1
    <3> QED BY <1>7, <3>2
  <2>2. wiped \subseteq wiped'
    BY <1>2
  <2> QED BY <1>1, <1>2, <2>1, <2>2, PairsUndisturbed
<1> QED BY <1>8, <1>9, <1>10, <1>11 DEF ChatInv

\* No step of a worker, and none of those that need none, breaks it.
LEMMA ChatStep ==
  ASSUME ChatInv, [ChatNext]_chatVars
  PROVE  ChatInv'
<1>1. CASE UNCHANGED chatVars
  BY <1>1 DEF chatVars, ChatInv, ChatTypes, RoomsOK, RowsOnce, OneRow, PairsOK, OneRoom, MakesNew,
              Rows, Holding, Now, IsPersonal
<1>2. ASSUME NEW w \in ChatWorker,
             \/ Check(w) \/ Restore(w) \/ Get(w) \/ Insert(w)
             \/ CreateRoom(w) \/ SaveNewPersonal(w) \/ Reopen(w) \/ ChatDies(w)
      PROVE  ChatInv'
  BY <1>2, ChatCheck, ChatRestore, ChatGet, ChatInsert, ChatCreateRoom, ChatSaveNewPersonal,
     ChatReopen, ChatDiesAtWork, Zenon
<1>3. ASSUME NEW w \in ChatWorker, NEW u \in ChatUser, NEW v \in ChatUser,
             StartPersonal(w, u, v) \/ GetPersonal(w, u, v)
      PROVE  ChatInv'
  BY <1>3, ChatStartPersonal, ChatGetPersonal, Zenon
<1>4. ASSUME NEW w \in ChatWorker, NEW r \in Room, NEW u \in ChatUser, Subscribe(w, r, u)
      PROVE  ChatInv'
  BY <1>4, ChatSubscribe, Zenon
<1>5. ASSUME NEW r \in Room, DestroyRoom(r) PROVE ChatInv'
  BY <1>5, ChatDestroyRoom, Zenon
<1>6. ASSUME NEW r \in Room, NEW u \in ChatUser, Unsubscribe(r, u) \/ DeleteSubscription(r, u)
      PROVE  ChatInv'
  BY <1>6, ChatUnsubscribe, ChatDeleteSubscription, Zenon
<1> QED BY <1>1, <1>2, <1>3, <1>4, <1>5, <1>6, Zenon DEF ChatNext

\* It holds when there are no rooms yet.
LEMMA ChatStarts == ChatInit => ChatInv
<1> SUFFICES ASSUME ChatInit PROVE ChatInv
  OBVIOUS
<1>1. /\ \A r \in Room : room[r] = NoRoom /\ pair[r] = {}
      /\ \A r \in Room, u \in ChatUser : subs[r][u] = NoRows
      /\ \A w \in ChatWorker : chat[w] = NoChat
      /\ NoRows.active = 0 /\ NoRows.gone = 0 /\ NoRows \in SubRow
      /\ NoChat.of = 0 /\ NoChat.pc = "free" /\ UsersOf(NoChat.todo) = {} /\ NoChat \in ChatJobs
  BY NobodyLeft DEF ChatInit, NoRows, NoChat, SubRow, ChatJobs
<1>2. ChatTypes
  BY <1>1 DEF ChatInit, ChatTypes
<1>3. RoomsOK
  <2>1. {r \in Room : room[r] # NoRoom} = 1..0 /\ 0 \in 0..MaxRooms
    BY <1>1, TeamAssumption
  <2>2. \A r \in Room : ~IsPersonal(r)
    BY <1>1 DEF IsPersonal, NoRoom
  <2> QED BY <1>1, <2>1, <2>2 DEF RoomsOK
<1>4. \A r \in Room, u \in ChatUser : Holding(r, u) = {}
  BY <1>1 DEF Holding
<1>5. RowsOnce
  <2>1. \A r \in Room, u \in ChatUser : Rows(r, u) = 0
    BY <1>1 DEF Rows
  <2> QED BY <1>4, <2>1 DEF RowsOnce, OneRow
<1>6. PairsOK
  BY <1>1 DEF PairsOK, OneRoom, MakesNew
<1> QED BY <1>2, <1>3, <1>5, <1>6 DEF ChatInv

\* One row each and one room a pair are what was promised.
LEMMA ChatIsSound == ChatInv => ChatSound
<1> SUFFICES ASSUME ChatInv PROVE ChatSound
  OBVIOUS
<1>1. SerialOneSubscription
  BY DEF ChatInv, RowsOnce, OneRow, SerialOneSubscription
<1>2. SerialOnePersonalRoom
  <2> SUFFICES ASSUME NEW r \in PersonalRooms, NEW s \in PersonalRooms,
                      pair[r] = pair[s], pair[r] \notin raced \cup wiped
               PROVE  r = s
    BY DEF SerialOnePersonalRoom
  <2>1. r \in Room /\ s \in Room /\ pair[r] # {} /\ pair[r] \in SUBSET ChatUser
    BY DEF ChatInv, RoomsOK, ChatTypes, PersonalRooms
  <2>2. OneRoom(pair[r])
    BY <2>1 DEF ChatInv, PairsOK
  <2> QED BY <2>1, <2>2 DEF OneRoom
<1> QED BY <1>1, <1>2 DEF ChatSound

\* ChatSound: who comes back to a room, leaves it, is deleted from it or is enrolled goes through
\* one row, and two users through one personal room, whatever else is done at once; for any
\* users, workers, number of rooms and calls.
THEOREM ChatStaysSound == ChatSpec => []ChatSound
<1>1. ChatInit => ChatInv
  BY ChatStarts
<1>2. ChatInv /\ [ChatNext]_chatVars => ChatInv'
  BY ChatStep
<1>3. ChatInv => ChatSound
  BY ChatIsSound
<1> QED BY <1>1, <1>2, <1>3, PTL DEF ChatSpec

--------------------------------------------------------------------------------
(* That notices are told once and of what is so, for any matters, seats,        *)
(* percentages, handlers and clerks.                                            *)
(*                                                                              *)
(* What is told of a job is counted from the queue to the mailing service, so   *)
(* that a clerk neither adds to it nor hides it (Told).  A handler that is      *)
(* alone with a matter makes its next step, and no task but those of that step  *)
(* is queued for it (AloneWithMatter, StepsToldOnce); an e-ticket task that is  *)
(* alone with the ticket alerts of what its commit crosses (CrossingsTold).     *)

\* Whom a task is about, and which task.
Job == (Matter \cup Percentages) \X DOMAIN Task

\* A bag of jobs.
JobBag(B) ==
  /\ DOMAIN B \subseteq Job /\ B = [j \in DOMAIN B |-> B[j]]
  /\ \A j \in DOMAIN B : B[j] \in Nat /\ B[j] > 0

\* How many copies a bag has.
LEMMA CopiesAreNat ==
  ASSUME NEW B, JobBag(B), NEW j
  PROVE  Copies(j, B) \in Nat /\ (j \in BagToSet(B) <=> Copies(j, B) > 0)
BY DEF JobBag, Copies, BagIn, BagToSet

\* An empty bag has none.
LEMMA NoCopies ==
  JobBag(EmptyBag) /\ \A j : Copies(j, EmptyBag) = 0
BY DEF JobBag, EmptyBag, SetToBag, Copies, BagIn, BagToSet

\* The copies of two bags together.
LEMMA CopiesTogether ==
  ASSUME NEW A, JobBag(A), NEW B, JobBag(B), NEW j
  PROVE  Copies(j, A (+) B) = Copies(j, A) + Copies(j, B)
<1>1. /\ DOMAIN (A (+) B) = DOMAIN A \cup DOMAIN B
      /\ \A i \in DOMAIN A \cup DOMAIN B :
           (A (+) B)[i] = (IF i \in DOMAIN A THEN A[i] ELSE 0)
                            + (IF i \in DOMAIN B THEN B[i] ELSE 0)
  BY DEF (+)
<1> QED BY <1>1 DEF Copies, BagIn, BagToSet, JobBag

\* One more of each.
LEMMA CopiesAdded ==
  ASSUME NEW B, JobBag(B), NEW S \in SUBSET Job
  PROVE  /\ JobBag(B (+) SetToBag(S))
         /\ \A j : Copies(j, B (+) SetToBag(S)) = Copies(j, B) + (IF j \in S THEN 1 ELSE 0)
<1> DEFINE U == SetToBag(S)
<1>1. DOMAIN U = S /\ \A j \in S : U[j] = 1
  BY DEF SetToBag
<1>2. /\ DOMAIN (B (+) U) = DOMAIN B \cup DOMAIN U
      /\ \A j \in DOMAIN B \cup DOMAIN U :
           (B (+) U)[j] = (IF j \in DOMAIN B THEN B[j] ELSE 0)
                            + (IF j \in DOMAIN U THEN U[j] ELSE 0)
      /\ B (+) U = [j \in DOMAIN (B (+) U) |-> (B (+) U)[j]]
  BY DEF (+)
<1> HIDE DEF U
<1>3. JobBag(B (+) U)
  BY <1>1, <1>2 DEF JobBag
<1>4. ASSUME NEW j
      PROVE  Copies(j, B (+) U) = Copies(j, B) + (IF j \in S THEN 1 ELSE 0)
  BY <1>1, <1>2 DEF Copies, BagIn, BagToSet, JobBag
<1> QED BY <1>3, <1>4 DEF U

\* One less of one.
LEMMA CopiesTaken ==
  ASSUME NEW B, JobBag(B), NEW j
  PROVE  /\ JobBag(B (-) SetToBag({j}))
         /\ \A i : i # j => Copies(i, B (-) SetToBag({j})) = Copies(i, B)
         /\ j \in BagToSet(B) => Copies(j, B (-) SetToBag({j})) = Copies(j, B) - 1
<1> DEFINE U == SetToBag({j})
           L == [e \in DOMAIN B |-> IF e \in DOMAIN U THEN B[e] - U[e] ELSE B[e]]
<1>1. DOMAIN U = {j} /\ U[j] = 1
  BY DEF SetToBag
<1>2. B (-) U = [e \in {d \in DOMAIN L : L[d] > 0} |-> L[e]]
  BY DEF (-)
<1>3. /\ DOMAIN L = DOMAIN B
      /\ \A e \in DOMAIN B : L[e] = (IF e \in DOMAIN U THEN B[e] - U[e] ELSE B[e])
  OBVIOUS
<1> HIDE DEF U, L
<1>4. \A e \in DOMAIN B : L[e] = (IF e = j THEN B[e] - 1 ELSE B[e]) /\ L[e] \in Nat
  BY <1>1, <1>3 DEF JobBag
<1> DEFINE R == B (-) U
<1>5. /\ DOMAIN R = {d \in DOMAIN B : L[d] > 0} /\ R = [e \in DOMAIN R |-> R[e]]
      /\ \A e \in DOMAIN R : R[e] = L[e]
  BY <1>2, <1>3
<1> HIDE DEF R
<1>6. JobBag(R)
  BY <1>4, <1>5 DEF JobBag
<1>7. ASSUME NEW i, i # j PROVE Copies(i, R) = Copies(i, B)
  BY <1>4, <1>5, <1>7 DEF Copies, BagIn, BagToSet, JobBag
<1>8. ASSUME j \in BagToSet(B) PROVE Copies(j, R) = Copies(j, B) - 1
  BY <1>4, <1>5, <1>8 DEF Copies, BagIn, BagToSet, JobBag
<1> QED BY <1>6, <1>7, <1>8 DEF R, U

\* What handlers and clerks may have in hand.
HandlerJobs ==
  {Ready} \cup [pc : {"read", "saved"}, of : Matter, to : 1..2, paid : BOOLEAN, left : Int]
ClerkJobs == {Ready} \cup [pc : {"send", "commit"}, job : Job]

NoticesTypes ==
  /\ step \in [Matter -> 0..2] /\ left \in Int
  /\ handler \in [Handler -> HandlerJobs] /\ clerk \in [Clerk -> ClerkJobs]
  /\ JobBag(waiting) /\ JobBag(inbox) /\ JobBag(handed)
  /\ crossings \in [Percentages -> Nat] /\ muddled \in BOOLEAN

\* The clerks that have taken j and not handed it over, and those that have.
With(j, pc) == {c \in Clerk : clerk[c].pc = pc /\ clerk[c].job = j}

\* As many clerks are at work as have taken tasks.
FewClerks == IsFiniteSet({c \in Clerk : clerk[c] # Ready})

\* How often j was told, is being told or is to be told.
Told(j) == Copies(j, waiting) + Cardinality(With(j, "send")) + Copies(j, handed)

\* How far a matter has come when it is told of.
StepOf(task) == IF task \in {"end", "anonymous"} THEN 2 ELSE 1

Saving(h, m, n) ==
  handler[h].pc = "saved" /\ handler[h].of = m /\ handler[h].to = n /\ handler[h].paid

\* Who is alone with a matter has read it as it is, and is about to make its next step.
AloneWithMatter ==
  \A h \in Handler : handler[h] # Ready =>
    /\ handler[h].to <= Steps(handler[h].of)
    /\ handler[h].paid \/ IsPaidFor(handler[h].of, handler[h].to)
    /\ handler[h].of \notin doubtful =>
         /\ handler[h].to = step[handler[h].of] + 1
         /\ \A g \in Handler : handler[g] # Ready /\ handler[g].of = handler[h].of => g = h

\* A step is told of once at most, when it is done or about to be committed.
StepsToldOnce ==
  \A j \in Job : j[1] \notin Percentages \cup doubtful /\ j[2] # "issue" =>
    /\ Told(j) <= 1
    /\ Told(j) > 0 => \/ step[j[1]] >= StepOf(j[2])
                      \/ \E h \in Handler : Saving(h, j[1], StepOf(j[2]))

\* The e-ticket tasks, which take seats.
AtTicket(h) == handler[h] # Ready /\ IsOrder(handler[h].of) /\ handler[h].to = 2

AloneWithTicket ==
  \A h \in Handler : AtTicket(h) =>
    /\ handler[h].left = left /\ left > 0
    /\ \A g \in Handler : AtTicket(g) => g = h

Alerting(p) == {h \in Handler : handler[h].pc = "saved" /\ <<p, "soldOut">> \in Alerts(h)}

CrossingsTold ==
  \A p \in Percentages : Told(<<p, "soldOut">>) <= crossings[p] + Cardinality(Alerting(p))

\* What is listed, or about to be, was handed over.
ListedAfterHanded ==
  \A j \in Job : "INBOX" \in Task[j[2]].channels =>
    Copies(j, inbox) + Cardinality(With(j, "commit")) <= Copies(j, handed)

NoticesInv ==
  /\ NoticesTypes /\ FewClerks /\ AloneWithMatter /\ StepsToldOnce
  /\ ~muddled => AloneWithTicket /\ CrossingsTold
  /\ ListedAfterHanded

\* The clerks with a job are counted.
LEMMA CountedClerks ==
  ASSUME FewClerks, NEW j, NEW pc \in {"send", "commit"}
  PROVE  IsFiniteSet(With(j, pc)) /\ Cardinality(With(j, pc)) \in Nat
<1>1. With(j, pc) \subseteq {c \in Clerk : clerk[c] # Ready}
  BY DEF With, Ready
<1> QED BY <1>1, FS_Subset, FS_CardinalityType DEF FewClerks

\* Without one of its elements a set is one less.
LEMMA OneOfThem ==
  ASSUME NEW S, IsFiniteSet(S), NEW x
  PROVE  Cardinality(S) = Cardinality(S \ {x}) + (IF x \in S THEN 1 ELSE 0)
<1>1. Cardinality(S) \in Nat
  BY FS_CardinalityType
<1>2. Cardinality(S \ {x}) = IF x \in S THEN Cardinality(S) - 1 ELSE Cardinality(S)
  BY FS_RemoveElement
<1> QED BY <1>1, <1>2

\* Of the clerks with j one has gone from one job to another.
Moved(j, pc, from, to) ==
  Cardinality(With(j, pc))' =
    (Cardinality(With(j, pc)) - (IF from.pc = pc /\ from.job = j THEN 1 ELSE 0))
      + (IF to.pc = pc /\ to.job = j THEN 1 ELSE 0)

\* A clerk goes on: it is with another job.
LEMMA ClerkMoves ==
  ASSUME NoticesTypes, FewClerks, NEW c \in Clerk, NEW job \in ClerkJobs,
         clerk' = [clerk EXCEPT ![c] = job]
  PROVE  /\ clerk' \in [Clerk -> ClerkJobs] /\ FewClerks'
         /\ \A j : Moved(j, "send", clerk[c], job) /\ Moved(j, "commit", clerk[c], job)
<1>1. /\ clerk' \in [Clerk -> ClerkJobs] /\ clerk'[c] = job
      /\ \A d \in Clerk \ {c} : clerk'[d] = clerk[d]
  BY DEF NoticesTypes
<1>2. FewClerks'
  <2>1. {d \in Clerk : clerk'[d] # Ready} \subseteq {d \in Clerk : clerk[d] # Ready} \cup {c}
    BY <1>1
  <2>2. IsFiniteSet({d \in Clerk : clerk[d] # Ready} \cup {c})
    BY FS_AddElement DEF FewClerks
  <2> QED BY <2>1, <2>2, FS_Subset DEF FewClerks
<1>3. ASSUME NEW j, NEW pc \in {"send", "commit"}
      PROVE  Moved(j, pc, clerk[c], job)
  <2> DEFINE S == With(j, pc)
             T == With(j, pc)'
  <2>1. /\ c \in S <=> clerk[c].pc = pc /\ clerk[c].job = j
        /\ c \in T <=> job.pc = pc /\ job.job = j
        /\ T \ {c} = S \ {c}
    BY <1>1 DEF With
  <2>2. IsFiniteSet(S) /\ Cardinality(S) \in Nat
    BY CountedClerks
  <2>3. IsFiniteSet(T)
    <3>1. T \subseteq {d \in Clerk : clerk'[d] # Ready}
      BY DEF With, Ready
    <3> QED BY <1>2, <3>1, FS_Subset DEF FewClerks
  <2> HIDE DEF S, T
  <2>4. Cardinality(S) = Cardinality(S \ {c}) + (IF c \in S THEN 1 ELSE 0)
    BY <2>2, OneOfThem
  <2>5. Cardinality(T) = Cardinality(S \ {c}) + (IF c \in T THEN 1 ELSE 0)
    BY <2>1, <2>3, OneOfThem
  <2>6. Cardinality(S \ {c}) \in Nat
    BY <2>2, FS_Subset, FS_CardinalityType
  <2>7. Cardinality(T) = (Cardinality(S) - (IF c \in S THEN 1 ELSE 0)) + (IF c \in T THEN 1 ELSE 0)
    BY <2>2, <2>4, <2>5, <2>6
  <2> QED BY <2>1, <2>7 DEF S, T, Moved
<1> QED BY <1>1, <1>2, <1>3

\* One e-ticket task at most alerts the owner, as long as no two met.
LEMMA CountedAlerts ==
  ASSUME NoticesTypes, AloneWithTicket, NEW p \in Percentages
  PROVE  /\ IsFiniteSet(Alerting(p)) /\ Cardinality(Alerting(p)) \in Nat
         /\ \A h \in Handler :
              /\ h \in Alerting(p) => Alerting(p) = {h} /\ Cardinality(Alerting(p)) = 1
              /\ AtTicket(h) /\ h \notin Alerting(p) =>
                   Alerting(p) = {} /\ Cardinality(Alerting(p)) = 0
<1>1. \A h \in Alerting(p) : h \in Handler /\ AtTicket(h)
  BY DEF Alerting, Alerts, AtTicket, Ready
<1>2. \A g, h \in Alerting(p) : g = h
  BY <1>1 DEF AloneWithTicket
<1>3. CASE Alerting(p) = {}
  BY <1>3, FS_EmptySet
<1>4. ASSUME NEW h \in Alerting(p)
      PROVE  Alerting(p) = {h} /\ IsFiniteSet(Alerting(p)) /\ Cardinality(Alerting(p)) = 1
  <2>1. Alerting(p) = {h}
    BY <1>2
  <2> QED BY <2>1, FS_Singleton
<1>5. ASSUME NEW h \in Handler, AtTicket(h), h \notin Alerting(p) PROVE Alerting(p) = {}
  BY <1>1, <1>5 DEF AloneWithTicket
<1> QED BY <1>3, <1>4, <1>5, FS_EmptySet

\* The invariant has what is to be shown.
LEMMA NoticesRight == NoticesInv => NoticesAreRight
<1> SUFFICES ASSUME NoticesInv PROVE NoticesAreRight
  OBVIOUS
<1>1. ListedWasSent
  <2> SUFFICES ASSUME NEW j \in Listed PROVE Copies(j, inbox) <= Copies(j, handed)
    BY DEF ListedWasSent
  <2>1. j \in Job /\ "INBOX" \in Task[j[2]].channels
    BY DEF Listed, NoticesInv, NoticesTypes, JobBag, BagToSet
  <2>2. Copies(j, inbox) + Cardinality(With(j, "commit")) <= Copies(j, handed)
    BY <2>1 DEF NoticesInv, ListedAfterHanded
  <2>3. Copies(j, inbox) \in Nat /\ Copies(j, handed) \in Nat
    BY CopiesAreNat DEF NoticesInv, NoticesTypes
  <2>4. Cardinality(With(j, "commit")) \in Nat
    BY CountedClerks DEF NoticesInv
  <2> QED BY <2>2, <2>3, <2>4
<1>2. ASSUME NEW j \in Job
      PROVE  /\ Copies(j, handed) \in Nat /\ Copies(j, waiting) \in Nat
             /\ Cardinality(With(j, "send")) \in Nat
  BY CopiesAreNat, CountedClerks DEF NoticesInv, NoticesTypes
<1>3. SerialNoticesAreTrue
  <2> SUFFICES ASSUME NEW j \in BagToSet(handed),
                      j[1] \notin Percentages \cup doubtful, j[2] \notin {"issue", "mail"}
               PROVE  \/ step[j[1]] >= (IF j[2] \in {"end", "anonymous"} THEN 2 ELSE 1)
                      \/ \E h \in Handler :
                           handler[h].pc = "saved" /\ handler[h].of = j[1] /\ handler[h].paid
    BY DEF SerialNoticesAreTrue
  <2>1. j \in Job /\ Copies(j, handed) > 0
    BY CopiesAreNat DEF NoticesInv, NoticesTypes, JobBag, BagToSet
  <2>2. Told(j) > 0
    BY <1>2, <2>1 DEF Told
  <2> QED BY <2>1, <2>2 DEF NoticesInv, StepsToldOnce, StepOf, Saving
<1>4. SerialToldOnceEach
  <2> DEFINE told == handed (+) waiting
  <2>1. \A j \in Job : Copies(j, told) = Copies(j, handed) + Copies(j, waiting)
    BY CopiesTogether DEF NoticesInv, NoticesTypes
  <2>2. \A j \in Job : Copies(j, told) <= Told(j) /\ Copies(j, told) \in Nat
    BY <1>2, <2>1 DEF Told
  <2>3. BagToSet(told) \subseteq Job
    BY DEF NoticesInv, NoticesTypes, JobBag, BagToSet, (+)
  <2> HIDE DEF told
  <2>4. ASSUME NEW j \in BagToSet(told), j[1] \notin Percentages \cup doubtful, j[2] # "issue"
        PROVE  Copies(j, told) <= 1
    <3>1. j \in Job /\ Told(j) <= 1 /\ Told(j) \in Nat
      BY <1>2, <2>3, <2>4 DEF NoticesInv, StepsToldOnce, Told
    <3> QED BY <2>2, <3>1
  <2>5. ASSUME ~muddled, NEW p \in Percentages
        PROVE  Copies(<<p, "soldOut">>, told) <= crossings[p] + Cardinality(Alerting(p))
    <3>1. <<p, "soldOut">> \in Job
      BY DEF Job, Task
    <3>2. Told(<<p, "soldOut">>) <= crossings[p] + Cardinality(Alerting(p))
      BY <2>5 DEF NoticesInv, CrossingsTold
    <3>3. crossings[p] \in Nat /\ Cardinality(Alerting(p)) \in Nat /\ Told(<<p, "soldOut">>) \in Nat
      BY <1>2, <2>5, <3>1, CountedAlerts DEF NoticesInv, NoticesTypes, Told
    <3> QED BY <2>2, <3>1, <3>2, <3>3
  <2> QED BY <2>4, <2>5 DEF SerialToldOnceEach, told, Alerting
<1> QED BY <1>1, <1>3, <1>4 DEF NoticesAreRight

\* Before anything was saved.
LEMMA NoticesInvInit == NoticesInit => NoticesInv
<1> SUFFICES ASSUME NoticesInit PROVE NoticesInv
  OBVIOUS
<1>1. NoticesTypes
  <2>1. step \in [Matter -> 0..2] /\ left \in Int
    <3>1. PICK before : step = [m \in Matter |-> IF m \in before THEN 1 ELSE 0]
      BY DEF NoticesInit
    <3>2. Seats \in Nat
      BY NoticesAssumption
    <3> QED BY <3>1, <3>2 DEF NoticesInit
  <2>2. handler \in [Handler -> HandlerJobs] /\ clerk \in [Clerk -> ClerkJobs]
    BY DEF NoticesInit, HandlerJobs, ClerkJobs
  <2>3. crossings \in [Percentages -> Nat] /\ muddled \in BOOLEAN
    BY DEF NoticesInit
  <2> QED BY <2>1, <2>2, <2>3, NoCopies DEF NoticesTypes, NoticesInit
<1>2. /\ \A h \in Handler : handler[h] = Ready
      /\ \A c \in Clerk : clerk[c] = Ready
  BY DEF NoticesInit
<1>3. FewClerks
  <2>1. {c \in Clerk : clerk[c] # Ready} = {}
    BY <1>2
  <2> QED BY <2>1, FS_EmptySet DEF FewClerks
<1>4. \A j : Cardinality(With(j, "send")) = 0 /\ Cardinality(With(j, "commit")) = 0
  <2>1. \A j : With(j, "send") = {} /\ With(j, "commit") = {}
    BY <1>2 DEF With, Ready
  <2> QED BY <2>1, FS_EmptySet
<1>5. \A j : Told(j) = 0
  BY <1>4, NoCopies DEF Told, NoticesInit
<1>6. AloneWithMatter /\ AloneWithTicket
  BY <1>2 DEF AloneWithMatter, AloneWithTicket, AtTicket
<1>7. StepsToldOnce
  BY <1>5 DEF StepsToldOnce
<1>8. CrossingsTold
  <2> SUFFICES ASSUME NEW p \in Percentages
               PROVE  Told(<<p, "soldOut">>) <= crossings[p] + Cardinality(Alerting(p))
    BY DEF CrossingsTold
  <2>1. Cardinality(Alerting(p)) \in Nat
    BY <1>1, <1>6, CountedAlerts
  <2> QED BY <1>5, <2>1 DEF NoticesInit
<1>9. ListedAfterHanded
  BY <1>4, NoCopies DEF ListedAfterHanded, NoticesInit
<1> QED BY <1>1, <1>3, <1>6, <1>7, <1>8, <1>9 DEF NoticesInv

\* What is told are numbers.
LEMMA ToldAreNat ==
  ASSUME NoticesTypes, FewClerks, NEW j
  PROVE  /\ Told(j) \in Nat /\ Copies(j, waiting) \in Nat /\ Copies(j, handed) \in Nat
         /\ Copies(j, inbox) \in Nat
         /\ Cardinality(With(j, "send")) \in Nat /\ Cardinality(With(j, "commit")) \in Nat
<1>1. Copies(j, waiting) \in Nat /\ Copies(j, handed) \in Nat /\ Copies(j, inbox) \in Nat
  BY CopiesAreNat DEF NoticesTypes
<1>2. Cardinality(With(j, "send")) \in Nat /\ Cardinality(With(j, "commit")) \in Nat
  BY CountedClerks
<1> QED BY <1>1, <1>2 DEF Told

\* The clerks go on, and tell no more than they took.
LEMMA ToldLess ==
  ASSUME NoticesInv, NoticesTypes', FewClerks',
         \A j \in Job : Told(j)' \in Int /\ Told(j)' <= Told(j),
         UNCHANGED <<step, left, handler, doubtful, crossings, muddled>>, ListedAfterHanded'
  PROVE  NoticesInv'
<1>1. \A j \in Job : Told(j) \in Nat /\ Told(j)' \in Int /\ Told(j)' <= Told(j)
  BY ToldAreNat DEF NoticesInv
<1>2. AloneWithMatter'
  BY DEF NoticesInv, AloneWithMatter
<1>3. StepsToldOnce'
  <2> SUFFICES ASSUME NEW j \in Job, j[1] \notin Percentages \cup doubtful, j[2] # "issue"
               PROVE  /\ Told(j)' <= 1
                      /\ Told(j)' > 0 => \/ step[j[1]] >= StepOf(j[2])
                                         \/ \E h \in Handler : Saving(h, j[1], StepOf(j[2]))
    BY DEF StepsToldOnce, Saving
  <2>1. /\ Told(j) <= 1
        /\ Told(j) > 0 => \/ step[j[1]] >= StepOf(j[2])
                          \/ \E h \in Handler : Saving(h, j[1], StepOf(j[2]))
    BY DEF NoticesInv, StepsToldOnce
  <2> QED BY <1>1, <2>1
<1>4. ASSUME ~muddled PROVE AloneWithTicket' /\ CrossingsTold'
  <2>1. AloneWithTicket'
    BY <1>4 DEF NoticesInv, AloneWithTicket, AtTicket
  <2>2. ASSUME NEW p \in Percentages
        PROVE  Told(<<p, "soldOut">>)' <= crossings[p] + Cardinality(Alerting(p))
    <3>1. <<p, "soldOut">> \in Job
      BY DEF Job, Task
    <3>2. Told(<<p, "soldOut">>) <= crossings[p] + Cardinality(Alerting(p))
      BY <1>4 DEF NoticesInv, CrossingsTold
    <3>3. crossings[p] \in Nat /\ Cardinality(Alerting(p)) \in Nat
      BY <1>4, CountedAlerts DEF NoticesInv, NoticesTypes
    <3> QED BY <1>1, <3>1, <3>2, <3>3
  <2>3. \A p \in Percentages : Alerting(p)' = Alerting(p)
    BY DEF Alerting, Alerts, SeatsLeft
  <2> QED BY <2>1, <2>2, <2>3 DEF CrossingsTold
<1> QED BY <1>2, <1>3, <1>4 DEF NoticesInv

\* What is for the inbox is inserted when its transaction is committed.
LEMMA InboxIsAtomic ==
  ASSUME NEW j \in Job, "INBOX" \in Task[j[2]].channels
  PROVE  Task[j[2]].atomic
BY DEF Job, Task, Notice, InAppEmail, EventForAdmins, TransactionIssue, OrderReceipt, EndOfOrder,
       EndOfAnonymous, EndOfWithdraw, EndOfHighlight, EndOfSubscription, NewMembership,
       NearlySoldOut

\* A clerk takes a task: it tells, or there is nothing to tell.
LEMMA TakesInv ==
  ASSUME NoticesInv, NEW c \in Clerk, NEW j \in BagToSet(waiting), TakeNotice(c, j)
  PROVE  NoticesInv'
<1> DEFINE n     == Task[j[2]]
           found == j[2] = "soldOut" \/ (step[j[1]] >= n.needs /\ (n.device => j[1] \in HasDevice))
           job   == IF found THEN [pc |-> "send", job |-> j] ELSE Ready
<1>0. NoticesTypes /\ FewClerks /\ j \in Job
  BY DEF NoticesInv, NoticesTypes, JobBag, BagToSet
<1>1. /\ clerk[c] = Ready /\ waiting' = waiting (-) SetToBag({j})
      /\ inbox' = IF found /\ ~n.atomic /\ n.channels # {} THEN inbox (+) SetToBag({j}) ELSE inbox
      /\ UNCHANGED <<step, left, handler, failures, handed, doubtful, crossings, muddled, faults>>
  BY DEF TakeNotice
<1>2. clerk' = [clerk EXCEPT ![c] = job]
  BY <1>0, <1>1 DEF TakeNotice, NoticesTypes
<1>3. job \in ClerkJobs /\ (job = Ready \/ (job.pc = "send" /\ job.job = j))
  BY <1>0 DEF ClerkJobs
<1> HIDE DEF found, job
<1>4. /\ clerk' \in [Clerk -> ClerkJobs] /\ FewClerks'
      /\ \A i : Moved(i, "send", Ready, job) /\ Moved(i, "commit", Ready, job)
  BY <1>0, <1>1, <1>2, <1>3, ClerkMoves
<1>5. /\ JobBag(waiting') /\ Copies(j, waiting') = Copies(j, waiting) - 1
      /\ \A i : i # j => Copies(i, waiting') = Copies(i, waiting)
  BY <1>0, <1>1, CopiesTaken DEF NoticesTypes
<1>6. /\ JobBag(inbox')
      /\ \A i \in Job : "INBOX" \in Task[i[2]].channels => Copies(i, inbox') = Copies(i, inbox)
  <2>1. {j} \in SUBSET Job /\ JobBag(inbox)
    BY <1>0 DEF NoticesTypes
  <2>2. \A i \in Job : "INBOX" \in Task[i[2]].channels => i # j \/ n.atomic
    BY InboxIsAtomic
  <2>3. CASE inbox' = inbox
    BY <2>1, <2>3
  <2>4. CASE inbox' = inbox (+) SetToBag({j}) /\ ~n.atomic
    <3>1. /\ JobBag(inbox')
          /\ \A i : Copies(i, inbox') = Copies(i, inbox) + (IF i \in {j} THEN 1 ELSE 0)
      BY <2>1, <2>4, CopiesAdded
    <3>2. \A i : Copies(i, inbox) \in Nat
      BY <2>1, CopiesAreNat
    <3>3. ASSUME NEW i \in Job, "INBOX" \in Task[i[2]].channels
          PROVE  Copies(i, inbox') = Copies(i, inbox)
      <4>1. i # j
        BY <2>2, <2>4, <3>3
      <4> QED BY <3>1, <3>2, <4>1
    <3> QED BY <3>1, <3>3
  <2> QED BY <1>1, <2>3, <2>4
<1>7. NoticesTypes'
  BY <1>0, <1>1, <1>4, <1>5, <1>6 DEF NoticesTypes
<1>8. \A i \in Job : Told(i)' \in Int /\ Told(i)' <= Told(i)
  <2> SUFFICES ASSUME NEW i \in Job PROVE Told(i)' \in Int /\ Told(i)' <= Told(i)
    OBVIOUS
  <2>1. Told(i)' = Copies(i, waiting') + Cardinality(With(i, "send"))' + Copies(i, handed)
    BY <1>1 DEF Told
  <2>2. Cardinality(With(i, "send"))' =
          Cardinality(With(i, "send")) + (IF job.pc = "send" /\ job.job = i THEN 1 ELSE 0)
    BY <1>0, <1>4, ToldAreNat DEF Moved, Ready
  <2>3. job.pc = "send" => job.job = j
    BY <1>3 DEF Ready
  <2> QED BY <1>0, <1>5, <2>1, <2>2, <2>3, ToldAreNat DEF Told
<1>9. ListedAfterHanded'
  <2> SUFFICES ASSUME NEW i \in Job, "INBOX" \in Task[i[2]].channels
               PROVE  Copies(i, inbox') + Cardinality(With(i, "commit"))' <= Copies(i, handed)
    BY <1>1 DEF ListedAfterHanded
  <2>1. Cardinality(With(i, "commit"))' = Cardinality(With(i, "commit"))
    BY <1>0, <1>3, <1>4, ToldAreNat DEF Moved, Ready
  <2> QED BY <1>6, <2>1 DEF NoticesInv, ListedAfterHanded
<1> QED BY <1>1, <1>4, <1>7, <1>8, <1>9, ToldLess

\* A message is handed over: it was one of those being told, and is one that was.
LEMMA HandsOverInv ==
  ASSUME NoticesInv, NEW c \in Clerk, HandOver(c)
  PROVE  NoticesInv'
<1>0. NoticesTypes /\ FewClerks /\ clerk[c] \in ClerkJobs
  BY DEF NoticesInv, NoticesTypes
<1>1. /\ clerk[c].pc = "send" /\ handed' = handed (+) SetToBag({clerk[c].job})
      /\ UNCHANGED <<step, left, handler, waiting, inbox, doubtful, crossings, muddled>>
  BY DEF HandOver
<1>2. PICK j \in Job : clerk[c].job = j
  BY <1>0, <1>1 DEF ClerkJobs, Ready
<1> DEFINE job == [clerk[c] EXCEPT !.pc = "commit"]
<1>3. job \in ClerkJobs /\ job.pc = "commit" /\ job.job = j
  BY <1>0, <1>1, <1>2 DEF ClerkJobs, Ready
<1>4. clerk' = [clerk EXCEPT ![c] = job]
  BY DEF HandOver
<1> HIDE DEF job
<1>5. /\ clerk' \in [Clerk -> ClerkJobs] /\ FewClerks'
      /\ \A i : Moved(i, "send", clerk[c], job) /\ Moved(i, "commit", clerk[c], job)
  BY <1>0, <1>3, <1>4, ClerkMoves
<1>6. /\ JobBag(handed')
      /\ \A i : Copies(i, handed') = Copies(i, handed) + (IF i \in {j} THEN 1 ELSE 0)
  <2>1. {j} \in SUBSET Job /\ JobBag(handed)
    BY <1>0 DEF NoticesTypes
  <2> QED BY <1>1, <1>2, <2>1, CopiesAdded
<1>7. NoticesTypes'
  BY <1>0, <1>1, <1>5, <1>6 DEF NoticesTypes
<1>8. ASSUME NEW i \in Job
      PROVE  /\ Cardinality(With(i, "send"))' =
                  Cardinality(With(i, "send")) - (IF i = j THEN 1 ELSE 0)
             /\ Cardinality(With(i, "commit"))' =
                  Cardinality(With(i, "commit")) + (IF i = j THEN 1 ELSE 0)
  BY <1>0, <1>1, <1>2, <1>3, <1>5, ToldAreNat DEF Moved
<1>9. \A i \in Job : Told(i)' \in Int /\ Told(i)' <= Told(i)
  <2> SUFFICES ASSUME NEW i \in Job PROVE Told(i)' \in Int /\ Told(i)' <= Told(i)
    OBVIOUS
  <2>1. Told(i)' = Copies(i, waiting) + Cardinality(With(i, "send"))' + Copies(i, handed')
    BY <1>1 DEF Told
  <2> QED BY <1>0, <1>6, <1>8, <2>1, ToldAreNat DEF Told
<1>10. ListedAfterHanded'
  <2> SUFFICES ASSUME NEW i \in Job, "INBOX" \in Task[i[2]].channels
               PROVE  Copies(i, inbox) + Cardinality(With(i, "commit"))' <= Copies(i, handed')
    BY <1>1 DEF ListedAfterHanded
  <2>1. Copies(i, inbox) + Cardinality(With(i, "commit")) <= Copies(i, handed)
    BY DEF NoticesInv, ListedAfterHanded
  <2> QED BY <1>0, <1>6, <1>8, <2>1, ToldAreNat
<1> QED BY <1>1, <1>5, <1>7, <1>9, <1>10, ToldLess

\* The clerk is done with a task, has died or was refused: what was not committed is not kept.
LEMMA DoneInv ==
  ASSUME NoticesInv, NEW c \in Clerk, Refuse(c) \/ CommitNotice(c) \/ ClerkDies(c)
  PROVE  NoticesInv'
<1>0. NoticesTypes /\ FewClerks /\ clerk[c] \in ClerkJobs /\ Ready \in ClerkJobs
  BY DEF NoticesInv, NoticesTypes, ClerkJobs
<1>1. /\ clerk[c].pc \in {"send", "commit"}
      /\ clerk' = [clerk EXCEPT ![c] = Ready]
      /\ UNCHANGED <<step, left, handler, waiting, handed, doubtful, crossings, muddled>>
  BY <1>0 DEF Refuse, CommitNotice, ClerkDies, ClerkJobs, RefusedRow
<1>2. PICK j \in Job : clerk[c].job = j
  BY <1>0, <1>1 DEF ClerkJobs, Ready
<1>3. /\ clerk' \in [Clerk -> ClerkJobs] /\ FewClerks'
      /\ \A i : Moved(i, "send", clerk[c], Ready) /\ Moved(i, "commit", clerk[c], Ready)
  BY <1>0, <1>1, ClerkMoves
<1>4. ASSUME NEW i
      PROVE  /\ Cardinality(With(i, "send"))' =
                  Cardinality(With(i, "send")) - (IF clerk[c].pc = "send" /\ i = j THEN 1 ELSE 0)
             /\ Cardinality(With(i, "commit"))' =
                  Cardinality(With(i, "commit"))
                    - (IF clerk[c].pc = "commit" /\ i = j THEN 1 ELSE 0)
  BY <1>0, <1>2, <1>3, ToldAreNat DEF Moved, Ready
<1>5. /\ JobBag(inbox')
      /\ \A i \in Job : "INBOX" \in Task[i[2]].channels =>
           /\ Copies(i, inbox') \in Nat
           /\ Copies(i, inbox') <=
                Copies(i, inbox) + (IF clerk[c].pc = "commit" /\ i = j THEN 1 ELSE 0)
  <2>1. {j} \in SUBSET Job /\ JobBag(inbox) /\ \A i : Copies(i, inbox) \in Nat
    BY <1>0, CopiesAreNat DEF NoticesTypes
  <2>2. CASE inbox' = inbox
    BY <2>1, <2>2
  <2>3. CASE inbox' = inbox (-) SetToBag({j}) /\ ~Task[j[2]].atomic
    <3>1. JobBag(inbox') /\ \A i : i # j => Copies(i, inbox') = Copies(i, inbox)
      BY <2>1, <2>3, CopiesTaken
    <3>2. \A i \in Job : "INBOX" \in Task[i[2]].channels => i # j
      BY <2>3, InboxIsAtomic
    <3> QED BY <2>1, <3>1, <3>2
  <2>4. CASE inbox' = inbox (+) SetToBag({j}) /\ clerk[c].pc = "commit"
    <3>1. /\ JobBag(inbox')
          /\ \A i : Copies(i, inbox') = Copies(i, inbox) + (IF i \in {j} THEN 1 ELSE 0)
      BY <2>1, <2>4, CopiesAdded
    <3> QED BY <2>1, <2>4, <3>1
  <2> QED BY <1>2, <2>2, <2>3, <2>4 DEF Refuse, RefusedRow, CommitNotice, ClerkDies
<1>6. NoticesTypes'
  BY <1>0, <1>1, <1>3, <1>5 DEF NoticesTypes
<1>7. \A i \in Job : Told(i)' \in Int /\ Told(i)' <= Told(i)
  <2> SUFFICES ASSUME NEW i \in Job PROVE Told(i)' \in Int /\ Told(i)' <= Told(i)
    OBVIOUS
  <2>1. Told(i)' = Copies(i, waiting) + Cardinality(With(i, "send"))' + Copies(i, handed)
    BY <1>1 DEF Told
  <2> QED BY <1>0, <1>4, <2>1, ToldAreNat DEF Told
<1>8. ListedAfterHanded'
  <2> SUFFICES ASSUME NEW i \in Job, "INBOX" \in Task[i[2]].channels
               PROVE  Copies(i, inbox') + Cardinality(With(i, "commit"))' <= Copies(i, handed)
    BY <1>1 DEF ListedAfterHanded
  <2>1. Copies(i, inbox) + Cardinality(With(i, "commit")) <= Copies(i, handed)
    BY DEF NoticesInv, ListedAfterHanded
  <2> QED BY <1>0, <1>4, <1>5, <2>1, ToldAreNat
<1> QED BY <1>1, <1>3, <1>6, <1>7, <1>8, ToldLess

\* What a save tells is told of that step alone, and of a payment that failed only the issue.
LEMMA TellsOfStep ==
  ASSUME NEW m \in Matter, NEW n \in 1..2, n <= Steps(m), NEW paid \in BOOLEAN,
         paid \/ IsPaidFor(m, n), NEW task \in Tells(m, n, paid)
  PROVE  /\ task \in DOMAIN Task /\ task # "soldOut"
         /\ task # "issue" => StepOf(task) = n /\ paid
<1>1. KindOf[m] \in {"order", "anonymous order", "withdraw", "subscription", "highlighting",
                     "membership", "account", "event"}
  BY NoticesAssumption
<1>2. n = 1 \/ n = 2
  OBVIOUS
<1>3. task \in DOMAIN Task /\ task # "soldOut"
  BY <1>1 DEF Tells, IsPaidFor, PaymentTells, IsOrder, OrderTells, RowTells, Task
<1>4. ASSUME task # "issue" PROVE StepOf(task) = n /\ paid
  <2>1. CASE IsOrder(m)
    BY <1>1, <1>2, <1>4, <2>1 DEF Tells, IsPaidFor, PaymentTells, IsOrder, OrderTells, StepOf
  <2>2. CASE ~IsOrder(m)
    <3>1. n = 1 \/ KindOf[m] = "membership"
      BY <1>2, <2>2 DEF Steps
    <3>2. CASE KindOf[m] = "membership"
      BY <1>2, <1>4, <2>2, <3>2 DEF Tells, IsPaidFor, RowTells, StepOf
    <3>3. CASE n = 1 /\ KindOf[m] # "membership"
      <4>1. task \in PaymentTells(m, paid) \/ task \in RowTells(m, n, paid)
        BY <2>2 DEF Tells
      <4>2. task \in PaymentTells(m, paid) => task \in {"subscription", "highlighting"} /\ paid
        BY <1>4 DEF PaymentTells
      <4>3. task \in RowTells(m, n, paid) =>
              /\ task \in {"withdraw", "admins", "mail"}
              /\ paid \/ KindOf[m] \in {"event", "account"}
        BY <3>3 DEF RowTells
      <4>4. KindOf[m] \in {"event", "account"} => paid
        BY DEF IsPaidFor
      <4> QED BY <3>3, <4>1, <4>2, <4>3, <4>4 DEF StepOf
    <3> QED BY <3>1, <3>2, <3>3
  <2> QED BY <2>1, <2>2
<1> QED BY <1>3, <1>4

\* Who is not told by the clerks is told by nobody.
LEMMA ClerksStay ==
  ASSUME NoticesInv, UNCHANGED <<clerk, inbox, handed>>
  PROVE  /\ FewClerks' /\ ListedAfterHanded'
         /\ JobBag(waiting') =>
              \A j : Told(j)' = Told(j) - Copies(j, waiting) + Copies(j, waiting')
         /\ UNCHANGED waiting => \A j : Told(j)' = Told(j)
<1>1. \A j, pc : With(j, pc)' = With(j, pc)
  BY DEF With
<1>2. FewClerks' /\ ListedAfterHanded'
  BY <1>1 DEF NoticesInv, FewClerks, ListedAfterHanded
<1>3. \A j : Told(j)' = Copies(j, waiting') + Cardinality(With(j, "send")) + Copies(j, handed)
  BY <1>1 DEF Told
<1>4. \A j : /\ Copies(j, waiting) \in Nat /\ Cardinality(With(j, "send")) \in Nat
             /\ Copies(j, handed) \in Nat
  BY ToldAreNat DEF NoticesInv
<1>5. JobBag(waiting') => \A j : Copies(j, waiting') \in Nat
  BY CopiesAreNat
<1> QED BY <1>2, <1>3, <1>4, <1>5 DEF Told

\* A handler reads a matter.
LEMMA ReadsInv ==
  ASSUME NoticesInv, NEW h \in Handler, NEW m \in Matter, NEW paid \in BOOLEAN,
         ReadMatter(h, m, paid)
  PROVE  NoticesInv'
<1> DEFINE job == [pc |-> "read", of |-> m, to |-> step[m] + 1, paid |-> paid, left |-> left]
<1>0. NoticesTypes
  BY DEF NoticesInv
<1>1. /\ handler[h] = Ready /\ step[m] < Steps(m) /\ (paid \/ IsPaidFor(m, step[m] + 1))
      /\ handler' = [handler EXCEPT ![h] = job]
      /\ UNCHANGED <<step, left, waiting, clerk, inbox, failures, handed, crossings>>
  BY DEF ReadMatter
<1>2. /\ \A i : i \notin doubtful' => i \notin doubtful
      /\ m \notin doubtful' => \A g \in Handler : handler[g] # Ready => handler[g].of # m
  BY DEF ReadMatter
<1>3. /\ muddled' \in BOOLEAN /\ (~muddled' => ~muddled)
      /\ ~muddled' /\ IsOrder(m) /\ step[m] = 1 => left > 0 /\ \A g \in Handler : ~AtTicket(g)
  <2> DEFINE met == IsOrder(m) /\ step[m] = 1 /\ (left <= 0 \/ \E g \in Handler : AtTicket(g))
  <2>1. muddled' = (muddled \/ met)
    BY DEF ReadMatter, AtTicket
  <2>2. muddled \in BOOLEAN /\ left \in Int
    BY <1>0 DEF NoticesTypes
  <2>3. muddled' \in BOOLEAN /\ (~muddled' => ~muddled /\ ~met)
    BY <2>1, <2>2
  <2> QED BY <2>2, <2>3
<1>4. job \in HandlerJobs /\ step[m] + 1 \in 1..2 /\ step[m] + 1 <= Steps(m)
  BY <1>0, <1>1 DEF NoticesTypes, HandlerJobs, Steps
<1>5. /\ job.pc = "read" /\ job.of = m /\ job.to = step[m] + 1 /\ job.paid = paid /\ job.left = left
      /\ job # Ready
  BY DEF Ready
<1> HIDE DEF job
<1>6. /\ handler' \in [Handler -> HandlerJobs] /\ handler'[h] = job
      /\ \A g \in Handler \ {h} : handler'[g] = handler[g]
  BY <1>0, <1>1, <1>4 DEF NoticesTypes
<1>7. NoticesTypes'
  BY <1>0, <1>1, <1>3, <1>6 DEF NoticesTypes
<1>8. FewClerks' /\ ListedAfterHanded' /\ \A j : Told(j)' = Told(j)
  BY <1>1, ClerksStay
<1>9. AloneWithMatter'
  BY <1>1, <1>2, <1>4, <1>5, <1>6 DEF NoticesInv, AloneWithMatter
<1>10. StepsToldOnce'
  <2>1. ASSUME NEW g \in Handler, NEW i, NEW n, Saving(g, i, n) PROVE Saving(g, i, n)'
    BY <1>1, <1>6, <2>1 DEF Saving, Ready
  <2> QED BY <1>1, <1>2, <1>8, <2>1 DEF NoticesInv, StepsToldOnce
<1>11. ASSUME ~muddled' PROVE AloneWithTicket' /\ CrossingsTold'
  <2>1. \A g \in Handler \ {h} : AtTicket(g)' <=> AtTicket(g)
    BY <1>6 DEF AtTicket
  <2>2. AtTicket(h)' => IsOrder(m) /\ step[m] = 1
    BY <1>0, <1>5, <1>6 DEF AtTicket, NoticesTypes
  <2>3. AloneWithTicket'
    BY <1>1, <1>3, <1>5, <1>6, <1>11, <2>1, <2>2 DEF NoticesInv, AloneWithTicket
  <2>4. \A p \in Percentages : Alerting(p)' = Alerting(p)
    BY <1>1, <1>5, <1>6 DEF Alerting, Alerts, SeatsLeft, Ready
  <2> QED BY <1>1, <1>3, <1>8, <1>11, <2>3, <2>4 DEF NoticesInv, CrossingsTold
<1> QED BY <1>7, <1>8, <1>9, <1>10, <1>11 DEF NoticesInv

\* What has been read, by a handler that is not ready.
LEMMA HandlerHolds ==
  ASSUME NoticesTypes, NEW h \in Handler, handler[h].pc \in {"read", "saved"}
  PROVE  /\ handler[h] # Ready /\ handler[h].of \in Matter /\ handler[h].to \in 1..2
         /\ handler[h].paid \in BOOLEAN /\ handler[h].left \in Int
<1>1. handler[h] \in HandlerJobs /\ handler[h] # Ready
  BY DEF NoticesTypes, Ready
<1> QED BY <1>1 DEF HandlerJobs

\* A matter is saved, and its notices are queued.
LEMMA SavesInv ==
  ASSUME NoticesInv, NEW h \in Handler, SaveMatter(h)
  PROVE  NoticesInv'
<1> DEFINE m    == handler[h].of
           jobs == ({m} \X Tells(m, handler[h].to, handler[h].paid)) \cup Alerts(h)
           job  == [handler[h] EXCEPT !.pc = "saved"]
<1>0. NoticesTypes /\ handler[h].pc = "read"
  BY DEF NoticesInv, SaveMatter
<1>1. /\ waiting' = waiting (+) SetToBag(jobs) /\ handler' = [handler EXCEPT ![h] = job]
      /\ UNCHANGED <<step, left, clerk, inbox, handed, doubtful, crossings, muddled>>
  BY DEF SaveMatter
<1>2. /\ handler[h] # Ready /\ m \in Matter /\ handler[h].to \in 1..2
      /\ handler[h].paid \in BOOLEAN /\ handler[h].left \in Int
  BY <1>0, HandlerHolds
<1>3. handler[h].to <= Steps(m) /\ (handler[h].paid \/ IsPaidFor(m, handler[h].to))
  BY <1>2 DEF NoticesInv, AloneWithMatter
<1>4. \A task \in Tells(m, handler[h].to, handler[h].paid) :
        /\ task \in DOMAIN Task /\ task # "soldOut"
        /\ task # "issue" => StepOf(task) = handler[h].to /\ handler[h].paid
  BY <1>2, <1>3, TellsOfStep
<1>5. Alerts(h) \subseteq Percentages \X {"soldOut"}
  BY DEF Alerts
<1>6. jobs \in SUBSET Job
  BY <1>2, <1>4, <1>5 DEF Job, Task
<1>7. /\ job \in HandlerJobs /\ job # Ready /\ job.pc = "saved" /\ job.of = m
      /\ job.to = handler[h].to /\ job.paid = handler[h].paid /\ job.left = handler[h].left
  <2>1. handler[h] \in HandlerJobs \ {Ready}
    BY <1>0, <1>2 DEF NoticesTypes
  <2> QED BY <2>1 DEF HandlerJobs, Ready
<1>8. /\ JobBag(waiting')
      /\ \A j : Copies(j, waiting') = Copies(j, waiting) + (IF j \in jobs THEN 1 ELSE 0)
  BY <1>0, <1>1, <1>6, CopiesAdded DEF NoticesTypes
<1>9. /\ \A p \in Percentages : <<p, "soldOut">> \in jobs <=> <<p, "soldOut">> \in Alerts(h)
      /\ \A j \in jobs : j[1] \notin Percentages =>
           j[1] = m /\ j[2] \in Tells(m, handler[h].to, handler[h].paid)
  BY <1>4, <1>5
<1> HIDE DEF jobs, job
<1>10. FewClerks' /\ ListedAfterHanded' /\ \A j : Told(j)' = Told(j) + (IF j \in jobs THEN 1 ELSE 0)
  <2>1. \A j : Copies(j, waiting) \in Nat /\ Told(j) \in Nat
    BY ToldAreNat DEF NoticesInv
  <2> QED BY <1>1, <1>8, <2>1, ClerksStay
<1>11. /\ handler' \in [Handler -> HandlerJobs] /\ handler'[h] = job
       /\ \A g \in Handler \ {h} : handler'[g] = handler[g]
  BY <1>0, <1>1, <1>7 DEF NoticesTypes
<1>12. NoticesTypes'
  BY <1>0, <1>1, <1>8, <1>11 DEF NoticesTypes
<1>13. AloneWithMatter'
  BY <1>1, <1>2, <1>7, <1>11 DEF NoticesInv, AloneWithMatter
<1>14. StepsToldOnce'
  <2>1. ASSUME NEW g \in Handler, NEW i, NEW n, Saving(g, i, n) PROVE Saving(g, i, n)'
    BY <1>0, <1>11, <2>1 DEF Saving
  <2> SUFFICES ASSUME NEW j \in Job, j[1] \notin Percentages \cup doubtful, j[2] # "issue"
               PROVE  /\ Told(j)' <= 1
                      /\ Told(j)' > 0 => \/ step[j[1]] >= StepOf(j[2])
                                         \/ \E g \in Handler : Saving(g, j[1], StepOf(j[2]))'
    BY <1>1 DEF StepsToldOnce
  <2>2. /\ Told(j) <= 1
        /\ Told(j) > 0 => \/ step[j[1]] >= StepOf(j[2])
                          \/ \E g \in Handler : Saving(g, j[1], StepOf(j[2]))
    BY DEF NoticesInv, StepsToldOnce
  <2>3. CASE j \notin jobs
    <3>1. Told(j)' = Told(j)
      BY <1>10, <2>3, ToldAreNat DEF NoticesInv
    <3> QED BY <2>1, <2>2, <3>1
  <2>4. CASE j \in jobs
    <3>1. j[1] = m /\ StepOf(j[2]) = handler[h].to /\ handler[h].paid
      BY <1>4, <1>9, <2>4
    <3>2. m \notin doubtful /\ handler[h].to = step[m] + 1
      BY <1>2, <3>1 DEF NoticesInv, AloneWithMatter
    <3>3. step[m] \in Int
      BY <1>0, <1>2 DEF NoticesTypes
    <3>4. \A g \in Handler : ~Saving(g, m, handler[h].to)
      <4> SUFFICES ASSUME NEW g \in Handler, Saving(g, m, handler[h].to) PROVE FALSE
        OBVIOUS
      <4>1. handler[g] # Ready /\ handler[g].of = m /\ handler[g].pc = "saved"
        BY DEF Saving, Ready
      <4>2. g = h
        BY <1>2, <3>2, <4>1 DEF NoticesInv, AloneWithMatter
      <4> QED BY <1>0, <4>1, <4>2
    <3>5. Told(j) \in Nat /\ Told(j)' = Told(j) + 1
      BY <1>10, <2>4, ToldAreNat DEF NoticesInv
    <3>6. Told(j) = 0
      BY <2>2, <3>1, <3>2, <3>3, <3>4, <3>5
    <3>7. Saving(h, j[1], StepOf(j[2]))'
      BY <1>7, <1>11, <3>1 DEF Saving
    <3> QED BY <3>5, <3>6, <3>7
  <2> QED BY <2>3, <2>4
<1>15. ASSUME ~muddled PROVE AloneWithTicket' /\ CrossingsTold'
  <2>1. \A g \in Handler : AtTicket(g)' <=> AtTicket(g)
    BY <1>2, <1>7, <1>11 DEF AtTicket
  <2>2. AloneWithTicket'
    BY <1>1, <1>7, <1>11, <1>15, <2>1 DEF NoticesInv, AloneWithTicket
  <2>3. ASSUME NEW p \in Percentages
        PROVE  Told(<<p, "soldOut">>)' <= crossings[p] + Cardinality(Alerting(p)')
    <3> DEFINE j == <<p, "soldOut">>
    <3>1. /\ Told(j) \in Nat /\ crossings[p] \in Nat
          /\ Told(j) <= crossings[p] + Cardinality(Alerting(p))
          /\ Told(j)' = Told(j) + (IF j \in Alerts(h) THEN 1 ELSE 0)
      BY <1>0, <1>9, <1>10, <1>15, ToldAreNat DEF NoticesInv, CrossingsTold, NoticesTypes
    <3>2. \A g \in Handler : Alerts(g)' = Alerts(g)
      BY <1>2, <1>7, <1>11 DEF Alerts, SeatsLeft
    <3>3. h \notin Alerting(p)
      BY <1>0 DEF Alerting
    <3>4. Alerting(p)' = IF j \in Alerts(h) THEN Alerting(p) \cup {h} ELSE Alerting(p)
      BY <1>7, <1>11, <3>2, <3>3 DEF Alerting
    <3>5. CASE j \in Alerts(h)
      <4>1. AtTicket(h)
        BY <1>2, <3>5 DEF Alerts, AtTicket
      <4>2. Alerting(p) = {} /\ Cardinality(Alerting(p)) = 0
        BY <1>0, <1>15, <3>3, <4>1, CountedAlerts DEF NoticesInv
      <4>3. Alerting(p)' = {h} /\ Cardinality({h}) = 1
        BY <3>4, <3>5, <4>2, FS_Singleton
      <4> QED BY <3>1, <3>5, <4>2, <4>3
    <3>6. CASE j \notin Alerts(h)
      BY <3>1, <3>4, <3>6
    <3> QED BY <3>5, <3>6
  <2> QED BY <1>1, <2>2, <2>3 DEF CrossingsTold
<1> QED BY <1>1, <1>10, <1>12, <1>13, <1>14, <1>15 DEF NoticesInv

\* A transaction ends.  What is left for the ticket may have changed if it was an e-ticket task,
\* which then had alerted the owner whenever it crosses.
LEMMA EndsInv ==
  ASSUME NoticesInv, NEW h \in Handler, handler[h].pc = "saved",
         handler' = [handler EXCEPT ![h] = Ready],
         UNCHANGED <<waiting, clerk, inbox, handed>>,
         NoticesTypes',
         \A i : i \notin doubtful' => i \notin doubtful,
         \A i \in Matter \ {handler[h].of} : step'[i] = step[i],
         handler[h].of \notin doubtful' =>
           step'[handler[h].of] = IF handler[h].paid THEN handler[h].to ELSE step[handler[h].of],
         ~muddled' => ~muddled,
         ~AtTicket(h) => left' = left,
         ~muddled' => \A p \in Percentages :
           crossings'[p] >= crossings[p] + (IF h \in Alerting(p) THEN 1 ELSE 0)
  PROVE  NoticesInv'
<1> DEFINE m == handler[h].of
<1>0. NoticesTypes
  BY DEF NoticesInv
<1>1. /\ handler[h] # Ready /\ m \in Matter /\ handler[h].to \in 1..2
      /\ handler[h].paid \in BOOLEAN
  BY <1>0, HandlerHolds
<1>2. /\ handler'[h] = Ready /\ \A g \in Handler \ {h} : handler'[g] = handler[g]
      /\ Ready.pc = "ready"
  BY <1>0 DEF NoticesTypes, Ready
<1>3. FewClerks' /\ ListedAfterHanded' /\ \A j : Told(j)' = Told(j)
  BY ClerksStay
<1>4. m \notin doubtful =>
        /\ handler[h].to = step[m] + 1
        /\ \A g \in Handler \ {h} : handler[g] # Ready => handler[g].of # m
  BY <1>1 DEF NoticesInv, AloneWithMatter
<1>5. \A g \in Handler \ {h} : handler[g] # Ready => handler[g].of \in Matter
  BY <1>0 DEF NoticesTypes, HandlerJobs
<1>6. AloneWithMatter'
  <2> SUFFICES ASSUME NEW g \in Handler, handler'[g] # Ready
               PROVE  /\ handler'[g].to <= Steps(handler'[g].of)
                      /\ handler'[g].paid \/ IsPaidFor(handler'[g].of, handler'[g].to)
                      /\ handler'[g].of \notin doubtful' =>
                           /\ handler'[g].to = step'[handler'[g].of] + 1
                           /\ \A k \in Handler :
                                handler'[k] # Ready /\ handler'[k].of = handler'[g].of => k = g
    BY DEF AloneWithMatter
  <2>1. g # h /\ handler'[g] = handler[g] /\ handler[g] # Ready
    BY <1>2
  <2>2. /\ handler[g].to <= Steps(handler[g].of)
        /\ handler[g].paid \/ IsPaidFor(handler[g].of, handler[g].to)
        /\ handler[g].of \notin doubtful =>
             /\ handler[g].to = step[handler[g].of] + 1
             /\ \A k \in Handler : handler[k] # Ready /\ handler[k].of = handler[g].of => k = g
    BY <2>1 DEF NoticesInv, AloneWithMatter
  <2>3. handler[g].of \notin doubtful => handler[g].of \in Matter \ {m}
    BY <1>1, <1>4, <1>5, <2>1
  <2> QED BY <1>2, <2>1, <2>2, <2>3
<1>7. StepsToldOnce'
  <2> SUFFICES ASSUME NEW j \in Job, j[1] \notin Percentages \cup doubtful', j[2] # "issue"
               PROVE  /\ Told(j) <= 1
                      /\ Told(j) > 0 => \/ step'[j[1]] >= StepOf(j[2])
                                        \/ \E g \in Handler : Saving(g, j[1], StepOf(j[2]))'
    BY <1>3 DEF StepsToldOnce
  <2>1. /\ Told(j) <= 1 /\ j[1] \notin doubtful
        /\ Told(j) > 0 => \/ step[j[1]] >= StepOf(j[2])
                          \/ \E g \in Handler : Saving(g, j[1], StepOf(j[2]))
    BY DEF NoticesInv, StepsToldOnce
  <2>2. j[1] \in Matter /\ step[j[1]] \in Int /\ StepOf(j[2]) \in Int
    BY <1>0 DEF Job, NoticesTypes, StepOf
  <2>3. CASE step[j[1]] >= StepOf(j[2])
    <3>1. step'[j[1]] = step[j[1]] \/ (j[1] = m /\ step'[m] = step[m] + 1)
      BY <1>4, <2>1, <2>2
    <3> QED BY <2>1, <2>2, <2>3, <3>1
  <2>4. ASSUME NEW g \in Handler, Saving(g, j[1], StepOf(j[2]))
        PROVE  step'[j[1]] >= StepOf(j[2]) \/ Saving(g, j[1], StepOf(j[2]))'
    <3>1. CASE g = h
      <4>1. j[1] = m /\ handler[h].paid /\ StepOf(j[2]) = handler[h].to
        BY <2>4, <3>1 DEF Saving
      <4>2. step'[m] = handler[h].to
        BY <4>1
      <4> QED BY <2>2, <4>1, <4>2
    <3>2. CASE g # h
      BY <1>2, <2>4, <3>2 DEF Saving
    <3> QED BY <3>1, <3>2
  <2> QED BY <2>1, <2>3, <2>4
<1>8. ASSUME ~muddled' PROVE AloneWithTicket' /\ CrossingsTold'
  <2>1. \A g \in Handler : AtTicket(g)' => g # h /\ AtTicket(g)
    BY <1>2 DEF AtTicket
  <2>2. AloneWithTicket /\ CrossingsTold
    BY <1>8 DEF NoticesInv
  <2>3. AloneWithTicket'
    <3>1. \A g \in Handler : AtTicket(g)' => ~AtTicket(h)
      BY <2>1, <2>2 DEF AloneWithTicket
    <3> QED BY <1>2, <2>1, <2>2, <3>1 DEF AloneWithTicket
  <2>4. ASSUME NEW p \in Percentages
        PROVE  Told(<<p, "soldOut">>) <= crossings'[p] + Cardinality(Alerting(p)')
    <3>1. /\ Told(<<p, "soldOut">>) \in Nat
          /\ Told(<<p, "soldOut">>) <= crossings[p] + Cardinality(Alerting(p))
      BY <2>2, ToldAreNat DEF NoticesInv, CrossingsTold
    <3>2. \A g \in Handler \ {h} : Alerts(g)' = Alerts(g)
      BY <1>2 DEF Alerts, SeatsLeft
    <3>3. Alerting(p)' = Alerting(p) \ {h}
      BY <1>2, <3>2 DEF Alerting
    <3>4. crossings[p] \in Nat /\ crossings'[p] \in Nat
      BY <1>0 DEF NoticesTypes
    <3>5. crossings'[p] >= crossings[p] + (IF h \in Alerting(p) THEN 1 ELSE 0)
      BY <1>8
    <3>6. IsFiniteSet(Alerting(p)) /\ Cardinality(Alerting(p)) \in Nat
      BY <1>0, <2>2, CountedAlerts
    <3>7. /\ Cardinality(Alerting(p)) =
               Cardinality(Alerting(p) \ {h}) + (IF h \in Alerting(p) THEN 1 ELSE 0)
          /\ Cardinality(Alerting(p) \ {h}) \in Nat
      BY <3>6, OneOfThem, FS_Subset, FS_CardinalityType
    <3> QED BY <3>1, <3>3, <3>4, <3>5, <3>7
  <2> QED BY <1>3, <2>3, <2>4 DEF CrossingsTold
<1> QED BY <1>3, <1>6, <1>7, <1>8 DEF NoticesInv

\* An e-ticket task that is alone has alerted the owner of what its commit crosses.
LEMMA CrossesAsTold ==
  ASSUME NoticesTypes, AloneWithTicket, NEW h \in Handler, handler[h].pc = "saved", AtTicket(h),
         NEW p \in Percentages
  PROVE  /\ SeatsLeft(h) \in Int
         /\ h \in Alerting(p) <=> SeatsLeft(h) * 100 <= p * Seats /\ p * Seats < left * 100
<1>1. handler[h].left = left /\ left > 0 /\ left \in Int /\ handler[h].of \in Matter
  BY HandlerHolds DEF AloneWithTicket, NoticesTypes
<1>2. SeatsOf[handler[h].of] \in Nat
  BY <1>1, NoticesAssumption
<1>3. /\ SeatsLeft(h) \in Int /\ SeatsLeft(h) + SeatsOf[handler[h].of] = left
  BY <1>1, <1>2 DEF SeatsLeft
<1>4. h \in Alerting(p) <=> <<p, "soldOut">> \in Alerts(h)
  BY DEF Alerting
<1>5. Alerts(h) = {<<q, "soldOut">> : q \in {q \in Percentages : Crosses(left, SeatsLeft(h), q)}}
  BY <1>3 DEF Alerts, AtTicket
<1>6. <<p, "soldOut">> \in Alerts(h) <=> Crosses(left, SeatsLeft(h), p)
  BY <1>5
<1> QED BY <1>3, <1>4, <1>6 DEF Crosses

\* A transaction is committed.
LEMMA CommitsInv ==
  ASSUME NoticesInv, NEW h \in Handler, CommitMatter(h)
  PROVE  NoticesInv'
<1> DEFINE m == handler[h].of
<1>0. NoticesTypes /\ Ready \in HandlerJobs
  BY DEF NoticesInv, HandlerJobs
<1>1. /\ handler[h].pc = "saved" /\ handler' = [handler EXCEPT ![h] = Ready]
      /\ step' = IF handler[h].paid THEN [step EXCEPT ![m] = handler[h].to] ELSE step
      /\ UNCHANGED <<waiting, clerk, inbox, failures, handed, doubtful, muddled, faults>>
  BY DEF CommitMatter
<1>2. /\ handler[h] # Ready /\ m \in Matter /\ handler[h].to \in 1..2
      /\ handler[h].paid \in BOOLEAN /\ handler[h].left \in Int
  BY <1>0, <1>1, HandlerHolds
<1>3. /\ step' \in [Matter -> 0..2] /\ \A i \in Matter \ {m} : step'[i] = step[i]
      /\ step'[m] = IF handler[h].paid THEN handler[h].to ELSE step[m]
  BY <1>0, <1>1, <1>2 DEF NoticesTypes
<1>4. CASE AtTicket(h)
  <2>1. /\ left' = SeatsLeft(h)
        /\ crossings' = [p \in Percentages |->
             crossings[p]
               + IF SeatsLeft(h) * 100 <= p * Seats /\ p * Seats < left * 100 THEN 1 ELSE 0]
    BY <1>4 DEF CommitMatter, AtTicket
  <2>2. \A p \in Percentages : crossings[p] \in Nat
    BY <1>0 DEF NoticesTypes
  <2>3. SeatsLeft(h) \in Int
    <3>1. SeatsOf[m] \in Nat
      BY <1>2, NoticesAssumption
    <3> QED BY <1>2, <3>1 DEF SeatsLeft
  <2>4. NoticesTypes'
    BY <1>0, <1>1, <1>2, <2>1, <2>2, <2>3 DEF NoticesTypes
  <2>5. ASSUME ~muddled, NEW p \in Percentages
        PROVE  crossings'[p] >= crossings[p] + (IF h \in Alerting(p) THEN 1 ELSE 0)
    <3>1. h \in Alerting(p) <=> SeatsLeft(h) * 100 <= p * Seats /\ p * Seats < left * 100
      BY <1>0, <1>1, <1>4, <2>5, CrossesAsTold DEF NoticesInv
    <3> QED BY <2>1, <2>2, <3>1
  <2> QED BY <1>1, <1>3, <1>4, <2>4, <2>5, EndsInv
<1>5. CASE ~AtTicket(h)
  <2>1. UNCHANGED <<left, crossings>>
    BY <1>2, <1>5 DEF CommitMatter, AtTicket
  <2>2. NoticesTypes'
    BY <1>0, <1>1, <1>2, <2>1 DEF NoticesTypes
  <2>3. ASSUME NEW p \in Percentages
        PROVE  crossings'[p] >= crossings[p] + (IF h \in Alerting(p) THEN 1 ELSE 0)
    <3>1. h \notin Alerting(p) /\ crossings[p] \in Nat
      BY <1>0, <1>2, <1>5 DEF Alerting, Alerts, AtTicket, NoticesTypes
    <3> QED BY <2>1, <3>1
  <2> QED BY <1>1, <1>3, <1>5, <2>1, <2>2, <2>3, EndsInv
<1> QED BY <1>4, <1>5

\* A transaction is rolled back.
LEMMA RollsBackInv ==
  ASSUME NoticesInv, NEW h \in Handler, RollBackMatter(h)
  PROVE  NoticesInv'
<1>0. NoticesTypes /\ Ready \in HandlerJobs
  BY DEF NoticesInv, HandlerJobs
<1>1. /\ handler[h].pc = "saved" /\ handler' = [handler EXCEPT ![h] = Ready]
      /\ doubtful' = doubtful \cup {handler[h].of}
      /\ UNCHANGED <<step, left, waiting, clerk, inbox, failures, handed, crossings>>
  BY DEF RollBackMatter
<1>2. handler[h] # Ready
  BY <1>0, <1>1, HandlerHolds
<1>3. muddled' \in BOOLEAN /\ (~muddled' => ~muddled /\ ~AtTicket(h))
  <2>1. muddled' = (muddled \/ AtTicket(h))
    BY <1>2 DEF RollBackMatter, AtTicket
  <2>2. muddled \in BOOLEAN
    BY <1>0 DEF NoticesTypes
  <2> QED BY <2>1, <2>2
<1>4. NoticesTypes'
  BY <1>0, <1>1, <1>3 DEF NoticesTypes
<1>5. ASSUME ~AtTicket(h), NEW p \in Percentages
      PROVE  crossings'[p] >= crossings[p] + (IF h \in Alerting(p) THEN 1 ELSE 0)
  <2>1. h \notin Alerting(p) /\ crossings[p] \in Nat
    BY <1>0, <1>2, <1>5 DEF Alerting, Alerts, AtTicket, NoticesTypes
  <2> QED BY <1>1, <2>1
<1> QED BY <1>1, <1>3, <1>4, <1>5, EndsInv

\* Every step keeps the invariant.
LEMMA NoticesInvNext ==
  ASSUME NoticesInv, [NoticesNext]_noticesVars
  PROVE  NoticesInv'
<1>1. CASE UNCHANGED noticesVars
  <2>1. UNCHANGED <<step, left, handler, waiting, clerk, inbox, handed, doubtful, crossings,
                    muddled>>
    BY <1>1 DEF noticesVars
  <2>2. FewClerks' /\ ListedAfterHanded' /\ \A j : Told(j)' = Told(j)
    BY <2>1, ClerksStay
  <2>3. NoticesTypes'
    BY <2>1 DEF NoticesInv, NoticesTypes
  <2>4. \A j \in Job : Told(j)' \in Int /\ Told(j)' <= Told(j)
    BY <2>2, ToldAreNat DEF NoticesInv
  <2> QED BY <2>1, <2>2, <2>3, <2>4, ToldLess
<1>2. ASSUME NEW h \in Handler, NEW m \in Matter, NEW paid \in BOOLEAN, ReadMatter(h, m, paid)
      PROVE  NoticesInv'
  BY <1>2, ReadsInv
<1>3. ASSUME NEW h \in Handler, SaveMatter(h) \/ CommitMatter(h) \/ RollBackMatter(h)
      PROVE  NoticesInv'
  BY <1>3, SavesInv, CommitsInv, RollsBackInv
<1>4. ASSUME NEW c \in Clerk, NEW j \in BagToSet(waiting), TakeNotice(c, j)
      PROVE  NoticesInv'
  BY <1>4, TakesInv
<1>5. ASSUME NEW c \in Clerk, HandOver(c) \/ Refuse(c) \/ CommitNotice(c) \/ ClerkDies(c)
      PROVE  NoticesInv'
  BY <1>5, HandsOverInv, DoneInv
<1> QED BY <1>1, <1>2, <1>3, <1>4, <1>5 DEF NoticesNext

\* on_save signals, Notification.send and bulk_send: what a user finds in his inbox was handed to
\* the mailing service; a notice is about something that is so or is about to be committed, and
\* told once, unless two handlers met about the matter or one of them rolled back; the owner
\* hears no more often that a ticket is nearly sold out than it came under a percentage, unless
\* two e-ticket tasks met; for any matters, seats, percentages, handlers, clerks and faults.
THEOREM NoticesStayRight == NoticesSpec => []NoticesAreRight
<1>1. NoticesSpec => []NoticesInv
  BY NoticesInvInit, NoticesInvNext, PTL DEF NoticesSpec
<1>2. NoticesInv => NoticesAreRight
  BY NoticesRight
<1> QED BY <1>1, <1>2, PTL
================================================================================
