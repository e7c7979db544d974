---------------------------------- MODULE Door ----------------------------------
(* An event from the outside: where it is found, how often it is looked at,   *)
(* and what its e-tickets are worth at the door.                              *)
(*                                                                            *)
(* A scan reads the e-ticket's row and saves the whole of it; the download    *)
(* and the counter of views save their own column, with a value that was read *)
(* before; an organizer's edit saves the whole row of the event.  EventAdmin  *)
(* models the organizers, and OrderPipeline where the e-tickets come from.    *)
EXTENDS Integers, FiniteSets, TLC

CONSTANTS
  Pass,          \* e-tickets of the event
  PassOf,        \* PassOf[p]: the user whose order it is of
  Scanner,       \* requests at the door
  Visitor,       \* other requests
  MaxDoorCalls   \* bound: requests that read a row in order to save it

ASSUME DoorAssumption == MaxDoorCalls \in Nat /\ DOMAIN PassOf = Pass

VARIABLES
  show,       \* the event's row
  covered,    \* its organization has a subscription
  spot,       \* its highlighting: "none", "on", or "lapsed" (active_status, past its end)
  phase,      \* "before", "running" (begun), or "over" (expired)
  pass,       \* pass[p]: the e-ticket's row
  scanner,    \* scanner[s]: the row a scan has read, or AtRest
  visitor,    \* visitor[v]: the row a visit, a download or an edit has read, or AtRest
  doorCalls,
  \* Observation only.
  admitted,   \* admitted[p]: how often the door opened
  promised,   \* e-tickets verify_ticket called valid
  fetched,    \* e-tickets whose PDF was handed out
  scannedAtOnce, \* e-tickets that were scanned while a scan, a download or a deletion was under way
  visits,     \* how often the event was looked at
  viewsMixed  \* two visits, or a visit and an edit, were under way at once

doorVars == <<show, covered, spot, phase, pass, scanner, visitor, doorCalls, admitted, promised,
              fetched, scannedAtOnce, visits, viewsMixed>>

AtRest == [pc |-> "rest"]
Request == doorCalls < MaxDoorCalls /\ doorCalls' = doorCalls + 1

--------------------------------------------------------------------------------
(* Where the event is found                                                   *)

\* (A faulty variant of the default manager.)
InEveryTable == ~show.deleted

\* Event.objects
InTable == ~show.deleted /\ ~show.ephemeral

\* ReadOnlyEventViewSet.get_queryset, of which get_object takes its page.
HasPage == InTable /\ covered /\ show.passed /\ show.valid

Upcoming == HasPage /\ phase # "over"

\* Only the plain list leaves the private events out.
Lists == {"list", "by type", "by location", "by date", "by date range", "highlighted",
          "by organization", "favourites"}
FoundIn(list) ==
  CASE list = "list" -> Upcoming /\ ~show.private
    [] list = "highlighted" -> Upcoming /\ spot = "on"
    [] list \in {"by organization", "favourites"} -> InTable
    [] OTHER -> Upcoming

\* EventFilter.filter_by_passed_events
FilteredAs(passed) == passed = (phase # "before")

FoundByCode == ~show.deleted /\ show.ephemeral /\ show.code
FoundBySuperSeller == ~show.deleted /\ show.ephemeral /\ show.creator

--------------------------------------------------------------------------------
(* E-tickets                                                                  *)

\* The public page leaves out those that were used or deleted.
OnPublicPage(p) == pass[p].active /\ ~pass[p].deleted

Verify(p) == OnPublicPage(p) /\ phase # "over" /\ show.valid

VerifyPass(p) ==
  /\ Verify(p)
  /\ promised' = promised \cup {p}
  /\ UNCHANGED <<show, covered, spot, phase, pass, scanner, visitor, doorCalls, admitted,
                 fetched, scannedAtOnce, visits, viewsMixed>>

\* Neither the expiry nor the event is looked at.
Admits(p) == pass[p].active /\ ~pass[p].deleted

BusyWith(p) == \/ \E s \in Scanner : scanner[s] # AtRest /\ scanner[s].of = p
               \/ \E v \in Visitor : visitor[v].pc = "pdf" /\ visitor[v].of = p

ScanReads(s, p) ==
  /\ scanner[s] = AtRest /\ Admits(p) /\ Request
  /\ scanner' = [scanner EXCEPT ![s] = [pc |-> "scan", of |-> p, row |-> pass[p]]]
  /\ scannedAtOnce' = IF BusyWith(p) THEN scannedAtOnce \cup {p} ELSE scannedAtOnce
  /\ UNCHANGED <<show, covered, spot, phase, pass, visitor, admitted, promised, fetched, visits,
                 viewsMixed>>

ScanSaves(s) ==
  /\ scanner[s] # AtRest
  /\ LET p == scanner[s].of IN
     /\ pass' = [pass EXCEPT ![p] = [scanner[s].row EXCEPT !.active = FALSE]]
     /\ admitted' = [admitted EXCEPT ![p] = @ + 1]
  /\ scanner' = [scanner EXCEPT ![s] = AtRest]
  /\ UNCHANGED <<show, covered, spot, phase, visitor, doorCalls, promised, fetched, scannedAtOnce,
                 visits, viewsMixed>>

Free(v) == visitor' = [visitor EXCEPT ![v] = AtRest]

\* download_pdf
ReadPass(v, p) ==
  /\ visitor[v] = AtRest /\ OnPublicPage(p) /\ Request
  /\ visitor' = [visitor EXCEPT ![v] = [pc |-> "pdf", of |-> p, row |-> pass[p]]]
  /\ UNCHANGED <<show, covered, spot, phase, pass, scanner, admitted, promised, fetched,
                 scannedAtOnce, visits, viewsMixed>>

Handed(v, row) ==
  /\ visitor[v].pc = "pdf"
  /\ LET p == visitor[v].of IN
     /\ pass' = IF visitor[v].row.downloaded THEN pass ELSE [pass EXCEPT ![p] = row]
     /\ fetched' = fetched \cup {p}
     /\ scannedAtOnce' = IF \E s \in Scanner : scanner[s] # AtRest /\ scanner[s].of = p
                         THEN scannedAtOnce \cup {p} ELSE scannedAtOnce
  /\ Free(v)
  /\ UNCHANGED <<show, covered, spot, phase, scanner, doorCalls, admitted, promised, visits,
                 viewsMixed>>

\* (A faulty variant: the download saves the whole row.)
HandOutRow(v) == Handed(v, [visitor[v].row EXCEPT !.downloaded = TRUE])

HandOut(v) == Handed(v, [pass[visitor[v].of] EXCEPT !.downloaded = TRUE])

\* ETicketViewSet.download, the owner's own: it refuses what was downloaded before; the rest
\* fails on a column that is not there, and changes nothing.
FetchImage(p) == ~pass[p].deleted /\ ~pass[p].downloaded

CancelPass(p) ==
  /\ ~pass[p].deleted /\ Request
  /\ pass' = [pass EXCEPT ![p].deleted = TRUE]
  /\ scannedAtOnce' = IF BusyWith(p) THEN scannedAtOnce \cup {p} ELSE scannedAtOnce
  /\ UNCHANGED <<show, covered, spot, phase, scanner, visitor, admitted, promised, fetched, visits,
                 viewsMixed>>

\* get_participants pages the users by a join, which counts the deleted e-tickets too, and then
\* tells the e-tickets that are left.
ParticipantsPage == {PassOf[p] : p \in Pass}
Participants == {PassOf[p] : p \in {q \in Pass : ~pass[q].deleted}}

--------------------------------------------------------------------------------
(* Views                                                                      *)

Looking == {v \in Visitor : visitor[v].pc \in {"view", "edit"}}

\* retrieve, and the public page of the ephemeral events.
LookAt(v) ==
  /\ visitor[v] = AtRest /\ Request
  /\ HasPage \/ FoundByCode
  /\ visitor' = [visitor EXCEPT ![v] = [pc |-> "view", row |-> show]]
  /\ viewsMixed' = (viewsMixed \/ Looking # {})
  /\ UNCHANGED <<show, covered, spot, phase, pass, scanner, admitted, promised, fetched,
                 scannedAtOnce, visits>>

CountView(v) ==
  /\ visitor[v].pc = "view"
  /\ show' = [show EXCEPT !.views = visitor[v].row.views + 1]
  /\ visits' = visits + 1 /\ Free(v)
  /\ UNCHANGED <<covered, spot, phase, pass, scanner, doorCalls, admitted, promised, fetched,
                 scannedAtOnce, viewsMixed>>

\* An edit may make any event ephemeral: nobody has a code for that one.
ReadShow(v, private, ephemeral) ==
  /\ visitor[v] = AtRest /\ InTable /\ Request
  /\ visitor' = [visitor EXCEPT ![v] =
       [pc |-> "edit", row |-> [show EXCEPT !.private = private, !.ephemeral = ephemeral]]]
  /\ viewsMixed' = (viewsMixed \/ Looking # {})
  /\ UNCHANGED <<show, covered, spot, phase, pass, scanner, admitted, promised, fetched,
                 scannedAtOnce, visits>>

SaveShow(v) ==
  /\ visitor[v].pc = "edit"
  /\ show' = visitor[v].row /\ Free(v)
  /\ UNCHANGED <<covered, spot, phase, pass, scanner, doorCalls, admitted, promised, fetched,
                 scannedAtOnce, visits, viewsMixed>>

--------------------------------------------------------------------------------
(* What happens around the event                                              *)

Around(row, subscription, highlight, when) ==
  /\ show' = row /\ covered' = subscription /\ spot' = highlight /\ phase' = when
  /\ UNCHANGED <<pass, scanner, visitor, doorCalls, admitted, promised, fetched, scannedAtOnce,
                 visits, viewsMixed>>

JudgeShow ==
  /\ InTable
  /\ \E valid \in BOOLEAN :
       Around([show EXCEPT !.valid = valid, !.passed = @ \/ valid], covered, spot, phase)
RemoveShow  == InTable /\ Around([show EXCEPT !.deleted = TRUE], covered, spot, phase)
Subscription == Around(show, ~covered, spot, phase)
Highlight   == Around(show, covered, CASE spot = "none" -> "on" [] spot = "on" -> "lapsed"
                                       [] OTHER -> "none", phase)
TimePasses  == phase # "over" /\ Around(show, covered, spot, IF phase = "before" THEN "running"
                                                             ELSE "over")

--------------------------------------------------------------------------------
DoorInit ==
  /\ \E ephemeral \in BOOLEAN :
       show = [valid |-> ~ephemeral, passed |-> ~ephemeral, private |-> FALSE,
               ephemeral |-> ephemeral, code |-> ephemeral, creator |-> ephemeral,
               deleted |-> FALSE, views |-> 0]
  /\ covered = TRUE /\ spot = "none" /\ phase = "before"
  /\ pass = [p \in Pass |-> [active |-> TRUE, downloaded |-> FALSE, deleted |-> FALSE]]
  /\ scanner = [s \in Scanner |-> AtRest] /\ visitor = [v \in Visitor |-> AtRest]
  /\ doorCalls = 0 /\ admitted = [p \in Pass |-> 0] /\ promised = {} /\ fetched = {}
  /\ scannedAtOnce = {} /\ visits = 0 /\ viewsMixed = FALSE

DoorNext ==
  \/ \E p \in Pass : VerifyPass(p) \/ CancelPass(p)
  \/ \E s \in Scanner : ScanSaves(s) \/ \E p \in Pass : ScanReads(s, p)
  \/ \E v \in Visitor :
       \/ LookAt(v) \/ CountView(v) \/ SaveShow(v) \/ HandOut(v)
       \/ \E private, ephemeral \in BOOLEAN : ReadShow(v, private, ephemeral)
       \/ \E p \in Pass : ReadPass(v, p)
  \/ JudgeShow \/ RemoveShow \/ Subscription \/ Highlight \/ TimePasses

DoorSpec == DoorInit /\ [][DoorNext]_doorVars

--------------------------------------------------------------------------------
(* Properties                                                                 *)

\* An e-ticket opens the door once, and not again, however often it is downloaded and verified:
\* only where it is scanned while another request has its row may it do so.
SerialAdmittedOnce ==
  \A p \in Pass \ scannedAtOnce :
    /\ admitted[p] <= 1
    /\ admitted[p] = 1 => ~Admits(p)

\* Whom verify_ticket has called valid is let in, whatever became of the event since, unless he
\* was let in before or his e-ticket was deleted; and once a PDF was handed out, the owner's own
\* download refuses.
SerialPromiseKept ==
  \A p \in Pass \ scannedAtOnce :
    /\ p \in promised /\ admitted[p] = 0 /\ ~pass[p].deleted => Admits(p)
    /\ p \in fetched => ~FetchImage(p)

\* Every visit counts, unless another visit or an edit was under way.
SerialViewsAddUp == ~viewsMixed => show.views = visits

\* What visitors find in a list they can open, filtered either way; an ephemeral event is in no
\* list, and whoever is given its code finds it for as long as its super-seller does.
FoundWhereMeant ==
  /\ \A list \in Lists \ {"by organization", "favourites"} :
       FoundIn(list) => HasPage /\ \E passed \in BOOLEAN : FilteredAs(passed)
  /\ show.ephemeral => (\A list \in Lists : ~FoundIn(list)) /\ FoundByCode = FoundBySuperSeller
  /\ Participants \subseteq ParticipantsPage

DoorSound == SerialAdmittedOnce /\ SerialPromiseKept /\ SerialViewsAddUp /\ FoundWhereMeant

DoorTypeOK ==
  /\ show \in [valid : BOOLEAN, passed : BOOLEAN, private : BOOLEAN, ephemeral : BOOLEAN,
               code : BOOLEAN, creator : BOOLEAN, deleted : BOOLEAN, views : 0..MaxDoorCalls]
  /\ pass \in [Pass -> [active : BOOLEAN, downloaded : BOOLEAN, deleted : BOOLEAN]]
================================================================================
