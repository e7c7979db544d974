---------------------------- MODULE CommunityProofs ----------------------------
(* What is proved of the reports, notifications, events, sessions, tickets and  *)
(* accounts, and of the door.                                                   *)
EXTENDS Reports, Notifications, EventAdmin, Sessions, FiniteSetTheorems,
        WellFoundedInduction, TicketShelf, Door, Accounts, TLAPS

--------------------------------------------------------------------------------
(* That the reports of a super-seller go out an hour apart, for any number of   *)
(* preferences, workers, scans and edits.                                       *)
(*                                                                              *)
(* A preference that is not muddled is in the hands of one scan at most.  The   *)
(* scan read last_sent_at when nothing had been sent that was not in it, and    *)
(* found it an hour old; until it has saved its own it alone can send.          *)

PrefRow  == [at : 0..(Day - 1), channel : Channel, active : BOOLEAN, everyDay : BOOLEAN,
             last : {Never} \cup Nat]
Building == [pc : {"build"}, todo : SUBSET Reporter, now : Nat, rows : [Reporter -> PrefRow]]
Doing    == {j \in [pc : {"send", "flag", "last"}, todo : SUBSET Reporter, now : Nat,
                    rows : [Reporter -> PrefRow], at : Reporter] : j.at \in j.todo}
Editing  == [pc : {"edit"}, of : Reporter, row : PrefRow]
Scans    == {NoScan} \cup Building \cup Doing \cup Editing

ReportTypes ==
  /\ pref \in [Reporter -> PrefRow]
  /\ slot \in Nat
  /\ scan \in [ScanWorker -> Scans]
  /\ sentAt \in [Reporter -> Seq(Nat)]

\* Worker w has sent the report of s, and not saved that it did.
HasSent(w, s) == scan[w].pc \in {"flag", "last"} /\ scan[w].at = s

InOneHand(s) == \A v, w \in Held(s) : v = w
Apart(s) == \A m, n \in DOMAIN sentAt[s] : m < n => sentAt[s][n] - sentAt[s][m] >= Hour

\* Whoever holds s has found, or has made, what was sent before an hour old.
HoldersWait(s) ==
  \A w \in Held(s), m \in DOMAIN sentAt[s] :
    IF HasSent(w, s) THEN sentAt[s][m] <= scan[w].now
    ELSE scan[w].now - sentAt[s][m] >= Hour

\* What was sent is in last_sent_at.
LastKnown(s) ==
  (\A w \in Held(s) : ~HasSent(w, s)) =>
    \A m \in DOMAIN sentAt[s] : sentAt[s][m] <= pref[s].last

InOrder(s) == InOneHand(s) /\ Apart(s) /\ HoldersWait(s) /\ LastKnown(s)

ReportInv == ReportTypes /\ \A s \in Reporter \ muddledPref : InOrder(s)

USE SlotAssumption

LEMMA ReportInvInit == ReportInit => ReportInv
<1> SUFFICES ASSUME ReportInit PROVE ReportInv
  OBVIOUS
<1>1. pref \in [Reporter -> PrefRow]
  BY DEF ReportInit, PrefRow
<1>2. ReportTypes
  BY <1>1 DEF ReportInit, ReportTypes, Scans
<1>3. \A s \in Reporter : sentAt[s] = <<>>
  BY DEF ReportInit
<1>4. \A s \in Reporter : Held(s) = {}
  BY DEF ReportInit, Held, NoScan
<1>5. ASSUME NEW s \in Reporter PROVE InOrder(s)
  BY <1>3, <1>4 DEF InOrder, InOneHand, Apart, HoldersWait, LastKnown
<1>6. QED
  BY <1>2, <1>5 DEF ReportInv

\* What a worker is in the middle of tells what he holds.
LEMMA ScanByPc ==
  ASSUME ReportTypes, NEW w \in ScanWorker
  PROVE  /\ scan[w].pc = "build" => scan[w] \in Building
         /\ scan[w].pc \in {"send", "flag", "last"} => scan[w] \in Doing
         /\ scan[w].pc = "edit" => scan[w] \in Editing
BY DEF ReportTypes, Scans, NoScan, Building, Doing, Editing

\* A worker who takes up nothing that was not his leaves the order of s as it is, when he
\* had not sent its report.
LEMMA LettingGo ==
  ASSUME ReportInv, NEW s \in Reporter \ muddledPref, NEW w \in ScanWorker, NEW job,
         scan' = [scan EXCEPT ![w] = job],
         sentAt'[s] = sentAt[s], pref'[s].last = pref[s].last,
         w \in Held(s) => ~HasSent(w, s),
         w \in Held(s)' => w \in Held(s) /\ scan'[w].now = scan[w].now /\ ~HasSent(w, s)'
  PROVE  InOrder(s)'
<1>1. InOrder(s)
  BY DEF ReportInv
<1>2. \A v \in ScanWorker : v # w => scan'[v] = scan[v]
  BY DEF ReportInv, ReportTypes
<1>3. \A v \in ScanWorker : v # w => (v \in Held(s)' <=> v \in Held(s)) /\ (HasSent(v, s)' <=> HasSent(v, s))
  BY <1>2 DEF Held, HasSent
<1>4. Held(s)' \subseteq Held(s) /\ Held(s) \subseteq ScanWorker
  BY <1>3 DEF Held
<1>5. InOneHand(s)' /\ Apart(s)'
  BY <1>1, <1>4 DEF InOrder, InOneHand, Apart
<1>6. HoldersWait(s)'
  BY <1>1, <1>2, <1>3, <1>4 DEF InOrder, HoldersWait
<1>7. LastKnown(s)'
  BY <1>1, <1>3, <1>4 DEF InOrder, LastKnown
<1>8. QED
  BY <1>5, <1>6, <1>7 DEF InOrder

\* A scan that starts takes up what nobody sent within the hour.
LEMMA StartKeepsInv ==
  ASSUME ReportInv, NEW w \in ScanWorker, StartScan(w)
  PROVE  ReportInv'
<1> DEFINE todo == {s \in Reporter : IsDue(pref[s], slot) /\ ~SentRecently(pref[s], slot)}
           job  == [pc |-> "build", todo |-> todo, now |-> slot, rows |-> pref]
<1>1. /\ scan[w] = NoScan
      /\ scan' = IF todo = {} THEN scan ELSE [scan EXCEPT ![w] = job]
      /\ muddledPref' = muddledPref \cup {s \in todo : Held(s) # {}}
      /\ UNCHANGED <<pref, slot, sentAt>>
  BY DEF StartScan
<1>2. job \in Building
  BY DEF Building, ReportInv, ReportTypes
<1>3. ReportTypes'
  BY <1>1, <1>2 DEF ReportInv, ReportTypes, Scans
<1>4. \A s : w \notin Held(s)
  BY <1>1 DEF Held, NoScan
<1>5. ASSUME NEW s \in Reporter \ muddledPref' PROVE InOrder(s)'
  <2>1. s \in Reporter \ muddledPref /\ InOrder(s)
    BY <1>1, <1>5 DEF ReportInv
  <2>2. CASE todo = {}
    BY <1>1, <2>1, <2>2 DEF InOrder, InOneHand, Apart, HoldersWait, LastKnown, Held, HasSent
  <2>3. CASE todo # {} /\ s \notin todo
    <3>1. scan' = [scan EXCEPT ![w] = job] /\ w \notin Held(s)'
      BY <1>1, <2>3 DEF Held, ReportInv, ReportTypes
    <3>2. QED
      BY <1>1, <1>4, <2>1, <3>1, LettingGo
  <2>4. CASE s \in todo
    <3>1. scan' = [scan EXCEPT ![w] = job] /\ Held(s) = {}
      BY <1>1, <1>5, <2>4
    <3>2. scan'[w] = job /\ \A v \in ScanWorker : v # w => scan'[v] = scan[v]
      BY <3>1 DEF ReportInv, ReportTypes
    <3>3. Held(s)' = {w} /\ ~HasSent(w, s)'
      BY <2>4, <3>1, <3>2 DEF Held, HasSent
    <3>4. \A m \in DOMAIN sentAt[s] : sentAt[s][m] \in Nat /\ sentAt[s][m] <= pref[s].last
      BY <2>1, <3>1 DEF InOrder, LastKnown, ReportInv, ReportTypes
    <3>5. pref[s].last = Never \/ slot - pref[s].last >= Hour
      BY <2>4 DEF SentRecently, ReportInv, ReportTypes, PrefRow
    <3>6. \A m \in DOMAIN sentAt[s] : slot - sentAt[s][m] >= Hour
      BY <3>4, <3>5 DEF ReportInv, ReportTypes, PrefRow, Never
    <3>7. HoldersWait(s)' /\ InOneHand(s)'
      BY <1>1, <3>2, <3>3, <3>6 DEF HoldersWait, InOneHand
    <3>8. LastKnown(s)' /\ Apart(s)'
      BY <1>1, <2>1, <3>4 DEF LastKnown, Apart, InOrder
    <3>9. QED
      BY <3>7, <3>8 DEF InOrder
  <2>5. QED
    BY <2>2, <2>3, <2>4
<1>6. QED
  BY <1>3, <1>5 DEF ReportInv

\* Building, marking and dying; and the edits, which leave last_sent_at alone or muddle it.
LEMMA QuietStepsKeepInv ==
  ASSUME ReportInv, NEW w \in ScanWorker,
         \/ \E s \in Reporter : BuildReport(w, s)
         \/ ScanDies(w) \/ SavePref(w)
         \/ \E s \in Reporter, at \in 0..(Day - 1), channel \in Channel, active, clears \in BOOLEAN :
              ReadPref(w, s, at, channel, active, clears)
  PROVE  ReportInv'
<1> USE DEF ReportInv
<1>1. ASSUME NEW s \in Reporter, BuildReport(w, s) PROVE ReportInv'
  <2> DEFINE j   == scan[w]
             job == [pc |-> "send", todo |-> j.todo, now |-> j.now, rows |-> j.rows, at |-> s]
  <2>1. /\ j.pc = "build" /\ s \in j.todo /\ scan' = [scan EXCEPT ![w] = job]
        /\ UNCHANGED <<pref, slot, sentAt, muddledPref>>
    BY <1>1 DEF BuildReport
  <2>2. j \in Building
    BY <2>1, ScanByPc
  <2>3. job \in Doing
    BY <2>1, <2>2 DEF Building, Doing
  <2>4. ReportTypes'
    BY <2>1, <2>3 DEF ReportTypes, Scans
  <2>5. scan'[w] = job
    BY <2>1 DEF ReportTypes
  <2>6. ASSUME NEW r \in Reporter \ muddledPref' PROVE InOrder(r)'
    <3>1. /\ ~HasSent(w, r) /\ ~HasSent(w, r)' /\ scan'[w].now = scan[w].now
          /\ w \in Held(r)' => w \in Held(r)
      BY <2>1, <2>5 DEF HasSent, Held
    <3>2. QED
      BY <2>1, <2>6, <3>1, LettingGo
  <2>7. QED
    BY <2>4, <2>6
<1>2. CASE ScanDies(w)
  <2>1. /\ scan[w].pc \in {"build", "send", "flag", "last"}
        /\ muddledPref' = muddledPref \cup scan[w].todo /\ scan' = [scan EXCEPT ![w] = NoScan]
        /\ UNCHANGED <<pref, slot, sentAt>>
    BY <1>2 DEF ScanDies
  <2>2. ReportTypes'
    BY <2>1 DEF ReportTypes, Scans
  <2>3. ASSUME NEW r \in Reporter \ muddledPref' PROVE InOrder(r)'
    <3>1. w \notin Held(r) /\ w \notin Held(r)' /\ r \in Reporter \ muddledPref
      BY <2>1, <2>3 DEF Held, NoScan, ReportTypes
    <3>2. QED
      BY <2>1, <3>1, LettingGo
  <2>4. QED
    BY <2>2, <2>3
<1>3. CASE SavePref(w)
  <2> DEFINE j == scan[w]
  <2>1. /\ j.pc = "edit" /\ pref' = [pref EXCEPT ![j.of] = j.row]
        /\ muddledPref' = IF j.row.last # pref[j.of].last THEN muddledPref \cup {j.of}
                          ELSE muddledPref
        /\ scan' = [scan EXCEPT ![w] = NoScan] /\ UNCHANGED <<slot, sentAt>>
    BY <1>3 DEF SavePref
  <2>2. j \in Editing
    BY <2>1, ScanByPc
  <2>3. ReportTypes'
    BY <2>1, <2>2 DEF ReportTypes, Scans, Editing
  <2>4. ASSUME NEW r \in Reporter \ muddledPref' PROVE InOrder(r)'
    <3>1. r \in Reporter \ muddledPref /\ pref'[r].last = pref[r].last
      BY <2>1, <2>4 DEF ReportTypes
    <3>2. w \notin Held(r) /\ w \notin Held(r)'
      BY <2>1 DEF Held, NoScan, ReportTypes
    <3>3. QED
      BY <2>1, <3>1, <3>2, LettingGo
  <2>5. QED
    BY <2>3, <2>4
<1>4. ASSUME NEW s \in Reporter, NEW at \in 0..(Day - 1), NEW channel \in Channel,
             NEW active \in BOOLEAN, NEW clears \in BOOLEAN,
             ReadPref(w, s, at, channel, active, clears)
      PROVE  ReportInv'
  <2> DEFINE row == [at |-> at, channel |-> channel, active |-> active,
                     everyDay |-> pref[s].everyDay,
                     last |-> IF clears THEN Never ELSE pref[s].last]
             job == [pc |-> "edit", of |-> s, row |-> row]
  <2>1. /\ scan[w] = NoScan /\ scan' = [scan EXCEPT ![w] = job]
        /\ UNCHANGED <<pref, slot, sentAt, muddledPref>>
    BY <1>4 DEF ReadPref
  <2>2. pref[s].everyDay \in BOOLEAN /\ pref[s].last \in {Never} \cup Nat
    BY DEF ReportTypes, PrefRow
  <2>3. row \in PrefRow
    BY <2>2 DEF PrefRow
  <2>4. job \in Editing
    BY <2>3 DEF Editing
  <2>5. ReportTypes'
    BY <2>1, <2>4 DEF ReportTypes, Scans
  <2>6. ASSUME NEW r \in Reporter \ muddledPref' PROVE InOrder(r)'
    <3>1. w \notin Held(r) /\ w \notin Held(r)'
      BY <2>1 DEF Held, NoScan, ReportTypes
    <3>2. QED
      BY <2>1, <2>6, <3>1, LettingGo
  <2>7. QED
    BY <2>5, <2>6
<1>5. QED
  BY <1>1, <1>2, <1>3, <1>4

\* The report leaves, or the mail's helper raises.
LEMMA SendKeepsReports ==
  ASSUME ReportInv, NEW w \in ScanWorker, SendReport(w)
  PROVE  ReportInv'
<1> DEFINE j == scan[w]
<1> USE DEF ReportInv
<1>1. j.pc = "send" /\ UNCHANGED <<pref, slot, muddledPref>>
  BY DEF SendReport
<1>2. j \in Doing
  BY <1>1, ScanByPc
<1>3. \A r \in Reporter : ~HasSent(w, r)
  BY <1>1 DEF HasSent
<1>4. CASE scan' = [scan EXCEPT ![w] = NoScan] /\ UNCHANGED sentAt
  <2>1. ReportTypes'
    BY <1>1, <1>4 DEF ReportTypes, Scans
  <2>2. \A r : w \notin Held(r)'
    BY <1>4 DEF Held, NoScan, ReportTypes
  <2>3. \A r \in Reporter \ muddledPref' : InOrder(r)'
    BY <1>1, <1>3, <1>4, <2>2, LettingGo
  <2>4. QED
    BY <2>1, <2>3
<1>5. CASE /\ scan' = [scan EXCEPT ![w].pc = "flag"]
           /\ sentAt' = [sentAt EXCEPT ![j.at] = Append(@, j.now)]
  <2> DEFINE job == [j EXCEPT !.pc = "flag"]
  <2>1. /\ job \in Doing /\ job.todo = j.todo /\ job.now = j.now /\ job.at = j.at
        /\ j.at \in j.todo /\ j.at \in Reporter /\ j.now \in Nat
    BY <1>2 DEF Doing
  <2>2. scan' = [scan EXCEPT ![w] = job] /\ scan'[w] = job /\ job.pc = "flag"
    BY <1>2, <1>5 DEF ReportTypes, Doing
  <2>3. ReportTypes'
    BY <1>1, <1>5, <2>1, <2>2 DEF ReportTypes, Scans
  <2>4. ASSUME NEW r \in Reporter \ muddledPref', r # j.at PROVE InOrder(r)'
    <3>1. /\ ~HasSent(w, r)' /\ sentAt'[r] = sentAt[r] /\ scan'[w].now = scan[w].now
          /\ w \in Held(r)' => w \in Held(r)
      BY <1>1, <1>5, <2>1, <2>2, <2>4 DEF HasSent, Held, ReportTypes
    <3>2. QED
      BY <1>1, <1>3, <2>2, <2>4, <3>1, LettingGo
  <2>5. ASSUME NEW r \in Reporter \ muddledPref', r = j.at PROVE InOrder(r)'
    <3>1. InOrder(r)
      BY <1>1, <2>5
    <3>2. /\ Held(r)' = Held(r) /\ Held(r) = {w}
          /\ HasSent(w, r)'
      <4>1. \A v \in ScanWorker : v # w => scan'[v] = scan[v]
        BY <2>2 DEF ReportTypes
      <4>2. w \in Held(r)
        BY <1>1, <2>1, <2>5 DEF Held
      <4>3. w \in Held(r)' /\ HasSent(w, r)'
        BY <2>1, <2>2, <2>5 DEF Held, HasSent
      <4>4. \A v \in ScanWorker : v \in Held(r)' <=> v \in Held(r)
        BY <4>1, <4>2, <4>3 DEF Held
      <4>5. QED
        BY <3>1, <4>2, <4>3, <4>4 DEF InOrder, InOneHand, Held
    <3>3. /\ sentAt[r] \in Seq(Nat) /\ sentAt'[r] = Append(sentAt[r], j.now)
      BY <1>5, <2>5 DEF ReportTypes
    <3>4. \A m \in DOMAIN sentAt[r] : j.now - sentAt[r][m] >= Hour
      BY <1>3, <3>1, <3>2 DEF InOrder, HoldersWait
    <3>5. /\ DOMAIN sentAt'[r] = 1..(Len(sentAt[r]) + 1) /\ DOMAIN sentAt[r] = 1..Len(sentAt[r])
          /\ \A m \in DOMAIN sentAt[r] : sentAt'[r][m] = sentAt[r][m] /\ sentAt[r][m] \in Nat
          /\ sentAt'[r][Len(sentAt[r]) + 1] = j.now
          /\ Len(sentAt[r]) \in Nat
      <4>1. j.now \in Nat
        BY <2>1
      <4>2. DOMAIN sentAt[r] = 1..Len(sentAt[r]) /\ Len(sentAt[r]) \in Nat
            /\ \A m \in DOMAIN sentAt[r] : sentAt[r][m] \in Nat
        BY <3>3
      <4>3. DOMAIN Append(sentAt[r], j.now) = 1..(Len(sentAt[r]) + 1)
        BY <3>3, <4>1
      <4>4. \A m \in 1..Len(sentAt[r]) : Append(sentAt[r], j.now)[m] = sentAt[r][m]
        BY <3>3, <4>1
      <4>5. Append(sentAt[r], j.now)[Len(sentAt[r]) + 1] = j.now
        BY <3>3, <4>1
      <4>6. QED
        BY <3>3, <4>2, <4>3, <4>4, <4>5
    <3>6. Apart(r)'
      <4>1. ASSUME NEW m \in DOMAIN sentAt'[r], NEW n \in DOMAIN sentAt'[r], m < n
            PROVE  sentAt'[r][n] - sentAt'[r][m] >= Hour
        <5>1. m \in DOMAIN sentAt[r]
          BY <3>5, <4>1
        <5>2. CASE n \in DOMAIN sentAt[r]
          BY <3>1, <3>5, <4>1, <5>1, <5>2 DEF Apart, InOrder
        <5>3. CASE n = Len(sentAt[r]) + 1
          BY <3>4, <3>5, <5>1, <5>3
        <5>4. QED
          BY <3>5, <4>1, <5>2, <5>3
      <4>2. QED
        BY <4>1 DEF Apart
    <3>7. ASSUME NEW m \in DOMAIN sentAt'[r] PROVE sentAt'[r][m] <= j.now
      <4>1. CASE m \in DOMAIN sentAt[r]
        <5>1. j.now - sentAt[r][m] >= Hour /\ sentAt'[r][m] = sentAt[r][m] /\ sentAt[r][m] \in Nat
          BY <3>4, <3>5, <4>1
        <5>2. QED
          BY <2>1, <5>1
      <4>2. CASE m = Len(sentAt[r]) + 1
        BY <2>1, <3>5, <4>2
      <4>3. QED
        BY <3>5, <3>7, <4>1, <4>2
    <3>8. HoldersWait(r)'
      BY <2>1, <2>2, <3>2, <3>7 DEF HoldersWait
    <3>9. LastKnown(r)' /\ InOneHand(r)'
      BY <3>2 DEF LastKnown, InOneHand
    <3>10. QED
      BY <3>6, <3>8, <3>9 DEF InOrder
  <2>6. QED
    BY <2>3, <2>4, <2>5
<1>6. QED
  BY <1>4, <1>5 DEF SendReport

\* What was sent is marked in the archive: the scan still holds the preference.
LEMMA FlagKeepsInv ==
  ASSUME ReportInv, NEW w \in ScanWorker, FlagReport(w)
  PROVE  ReportInv'
<1> DEFINE j   == scan[w]
           job == [j EXCEPT !.pc = "last"]
<1> USE DEF ReportInv
<1>1. /\ j.pc = "flag" /\ scan' = [scan EXCEPT ![w] = job]
      /\ UNCHANGED <<pref, slot, sentAt, muddledPref>>
  BY DEF FlagReport
<1>2. j \in Doing
  BY <1>1, ScanByPc
<1>3. /\ job \in Doing /\ job.todo = j.todo /\ job.now = j.now /\ job.at = j.at
      /\ job.pc = "last"
  BY <1>2 DEF Doing
<1>4. ReportTypes'
  BY <1>1, <1>3 DEF ReportTypes, Scans
<1>5. scan'[w] = job /\ \A v \in ScanWorker : v # w => scan'[v] = scan[v]
  BY <1>1 DEF ReportTypes
<1>6. ASSUME NEW s \in Reporter \ muddledPref' PROVE InOrder(s)'
  <2>1. InOrder(s)
    BY <1>1, <1>6
  <2>2. \A v \in ScanWorker : /\ v \in Held(s)' <=> v \in Held(s)
                              /\ HasSent(v, s)' <=> HasSent(v, s)
                              /\ scan'[v].now = scan[v].now
    BY <1>1, <1>3, <1>5 DEF Held, HasSent
  <2>3. Held(s)' = Held(s) /\ Held(s) \subseteq ScanWorker
    BY <2>2 DEF Held
  <2>4. QED
    BY <1>1, <2>1, <2>2, <2>3 DEF InOrder, InOneHand, Apart, HoldersWait, LastKnown
<1>7. QED
  BY <1>4, <1>6

\* last_sent_at is saved, and the preference let go.
LEMMA LastKeepsInv ==
  ASSUME ReportInv, NEW w \in ScanWorker, SaveLast(w)
  PROVE  ReportInv'
<1> DEFINE j    == scan[w]
           todo == j.todo \ {j.at}
           job  == IF todo = {} THEN NoScan
                   ELSE [pc |-> "build", todo |-> todo, now |-> j.now, rows |-> j.rows]
<1> USE DEF ReportInv
<1>1. /\ j.pc = "last" /\ scan' = [scan EXCEPT ![w] = job]
      /\ pref' = [pref EXCEPT ![j.at].last = j.now]
      /\ UNCHANGED <<slot, sentAt, muddledPref>>
  BY DEF SaveLast
<1>2. j \in Doing
  BY <1>1, ScanByPc
<1>3. /\ j.at \in j.todo /\ j.at \in Reporter /\ j.now \in Nat /\ j.todo \subseteq Reporter
      /\ j.rows \in [Reporter -> PrefRow]
  BY <1>2 DEF Doing
<1>4. job \in Scans
  BY <1>3 DEF Scans, Building
<1>5. /\ pref' \in [Reporter -> PrefRow] /\ pref'[j.at].last = j.now
      /\ \A s \in Reporter : s # j.at => pref'[s] = pref[s]
  <2>1. pref[j.at] \in PrefRow
    BY <1>3 DEF ReportTypes
  <2>2. [pref[j.at] EXCEPT !.last = j.now] \in PrefRow
        /\ [pref[j.at] EXCEPT !.last = j.now].last = j.now
    BY <1>3, <2>1 DEF PrefRow
  <2>3. QED
    BY <1>1, <1>3, <2>2 DEF ReportTypes
<1>6. ReportTypes'
  BY <1>1, <1>4, <1>5 DEF ReportTypes
<1>7. scan'[w] = job
  BY <1>1 DEF ReportTypes
<1>8. ASSUME NEW s \in Reporter \ muddledPref', s # j.at PROVE InOrder(s)'
  <2>1. ~HasSent(w, s) /\ ~HasSent(w, s)' /\ pref'[s].last = pref[s].last
    BY <1>5, <1>7, <1>8 DEF HasSent, NoScan
  <2>2. w \in Held(s)' => w \in Held(s) /\ scan'[w].now = scan[w].now
    BY <1>1, <1>7 DEF Held, NoScan
  <2>3. QED
    BY <1>1, <1>8, <2>1, <2>2, LettingGo
<1>9. ASSUME NEW s \in Reporter \ muddledPref', s = j.at PROVE InOrder(s)'
  <2>1. InOrder(s)
    BY <1>1, <1>9
  <2>2. w \in Held(s) /\ HasSent(w, s)
    BY <1>1, <1>3, <1>9 DEF Held, HasSent
  <2>3. w \notin Held(s)' /\ \A v \in ScanWorker : v # w => scan'[v] = scan[v]
    BY <1>1, <1>7, <1>9 DEF Held, NoScan, ReportTypes
  <2>4. Held(s)' = {}
    BY <2>1, <2>2, <2>3 DEF Held, InOrder, InOneHand
  <2>5. \A m \in DOMAIN sentAt[s] : sentAt[s][m] <= j.now
    BY <2>1, <2>2 DEF InOrder, HoldersWait
  <2>6. LastKnown(s)' /\ HoldersWait(s)' /\ InOneHand(s)' /\ Apart(s)'
    BY <1>1, <1>5, <1>9, <2>1, <2>4, <2>5 DEF LastKnown, HoldersWait, InOneHand, Apart, InOrder
  <2>7. QED
    BY <2>6 DEF InOrder
<1>10. QED
  BY <1>6, <1>8, <1>9

LEMMA ReportInvNext == ReportInv /\ [ReportNext]_reportVars => ReportInv'
<1> SUFFICES ASSUME ReportInv, [ReportNext]_reportVars PROVE ReportInv'
  OBVIOUS
<1>1. ASSUME UNCHANGED <<pref, scan, sentAt, muddledPref>>, slot' = slot \/ slot' = slot + 1
      PROVE  ReportInv'
  BY <1>1 DEF ReportInv, ReportTypes, InOrder, InOneHand, Apart, HoldersWait, LastKnown, Held,
              HasSent
<1>2. CASE UNCHANGED reportVars
  BY <1>1, <1>2 DEF reportVars
<1>3. CASE Beat
  BY <1>1, <1>3 DEF Beat
<1>4. ASSUME NEW s \in Reporter, GenerateNow(s) PROVE ReportInv'
  BY <1>1, <1>4 DEF GenerateNow
<1>5. ASSUME NEW w \in ScanWorker,
             \/ StartScan(w) \/ SendReport(w) \/ FlagReport(w) \/ SaveLast(w) \/ ScanDies(w)
             \/ SavePref(w)
             \/ \E s \in Reporter :
                  \/ BuildReport(w, s)
                  \/ \E at \in 0..(Day - 1), channel \in Channel, active, clears \in BOOLEAN :
                       ReadPref(w, s, at, channel, active, clears)
      PROVE  ReportInv'
  BY <1>5, StartKeepsInv, SendKeepsReports, FlagKeepsInv, LastKeepsInv, QuietStepsKeepInv
<1>6. QED
  BY <1>2, <1>3, <1>4, <1>5 DEF ReportNext

\* generate_scheduled_reports: however late and however many the scans are, and wherever the
\* time of day is moved meanwhile, the reports of a preference that is not muddled go out an
\* hour apart at least.
THEOREM ReportsAnHourApart == ReportSpec => []SerialReportsAnHourApart
<1>1. ReportInv => SerialReportsAnHourApart
  BY DEF ReportInv, InOrder, Apart, SerialReportsAnHourApart
<1>2. QED
  BY <1>1, ReportInvInit, ReportInvNext, PTL DEF ReportSpec

--------------------------------------------------------------------------------
(* That no device is told an announcement twice and no user a reminder, for any *)
(* number of users, devices, moments and workers.                               *)
(*                                                                              *)
(* A pair (to whom, of what) that two tasks never had at once, and that was     *)
(* never taken back after its message left, is in one of five places: nowhere   *)
(* yet, in the queue, with a task about to send, with one that has sent, noted. *)
(* It goes only forward.  For a reminder the committed row is what keeps it     *)
(* from starting again; for an announcement it is that its message is queued    *)
(* once for each passage of validation, and taken once.                         *)

Has(w, p) == p \in batch[w].pairs
MidSend(w, p) == Has(w, p) /\ batch[w].pc = "send"
Committing(w, p) == Has(w, p) /\ batch[w].pc = "commit"
Untouched(p) == toldTo[p] = 0 /\ \A w \in NoticeWorker : ~Has(w, p)

BatchesOK ==
  /\ batch = [w \in NoticeWorker |-> batch[w]]
  /\ \A w \in NoticeWorker :
       \/ batch[w] = NoBatch
       \/ /\ batch[w] = [pc |-> batch[w].pc, pairs |-> batch[w].pairs,
                          reached |-> batch[w].reached]
          /\ batch[w].pc \in {"send", "commit"}
          /\ batch[w].reached \subseteq batch[w].pairs

QueueOK ==
  /\ passages \in Nat
  /\ \A m \in queued : \/ m[1] = "scan"
                       \/ m[1] \in Announcement /\ m[2] \in 1..passages

\* What is still to be announced has not reached anybody.
FreshOK ==
  \A p \in Pair : p[2][1] \in Announcement /\ p[2][2] > passages => Untouched(p)

OnceOK(p) ==
  /\ toldTo[p] \in {0, 1}
  /\ toldTo[p] = 1 => p \in noted \/ \E w \in NoticeWorker : Committing(w, p)
  /\ \A w \in NoticeWorker : MidSend(w, p) => toldTo[p] = 0
  /\ \A v, w \in NoticeWorker : Has(v, p) /\ Has(w, p) => v = w
  /\ p[2] \in queued => Untouched(p)

\* Of a user's devices, one hears of what he is told once.
OneDevice ==
  \A p, q \in Pair \ blurred :
    p[2] = q[2] /\ p[2][1] \in OncePerUser /\ OwnerOf[p[1]] = OwnerOf[q[1]]
      /\ ~Untouched(p) /\ ~Untouched(q) => p = q

NoticeInv ==
  /\ BatchesOK /\ QueueOK /\ FreshOK /\ OneDevice
  /\ toldTo \in [Pair -> Nat]
  /\ \A p \in Pair \ blurred : OnceOK(p)

\* No topic is both.
LEMMA TopicKinds ==
  /\ \A p \in Pair : /\ p[2][1] \in Announcement \cup {"approach"}
                     /\ p = <<p[1], p[2]>> /\ p[2] = <<p[2][1], p[2][2]>>
                     /\ p[2][1] \in Announcement => p[2][2] \in Int
  /\ "approach" \notin Announcement /\ "scan" \notin Announcement
BY DEF Pair, Reminder, Announcement

LEMMA NoticeInvInit == NoticeInit => NoticeInv
<1> SUFFICES ASSUME NoticeInit PROVE NoticeInv
  OBVIOUS
<1> USE DEF NoticeInit
<1>1. \A w \in NoticeWorker : batch[w] = NoBatch
  OBVIOUS
<1>2. BatchesOK
  BY <1>1 DEF BatchesOK
<1>3. QueueOK /\ toldTo \in [Pair -> Nat] /\ \A p \in Pair : toldTo[p] = 0
  BY DEF QueueOK
<1>4. \A p \in Pair, w \in NoticeWorker : ~Has(w, p)
  BY <1>1 DEF Has, NoBatch
<1>5. \A p \in Pair : Untouched(p)
  BY <1>3, <1>4 DEF Untouched
<1>6. \A p \in Pair : OnceOK(p)
  BY <1>3, <1>4, <1>5 DEF OnceOK, MidSend, Committing
<1>7. OneDevice
  BY <1>5 DEF OneDevice
<1>8. QED
  BY <1>2, <1>3, <1>5, <1>6, <1>7 DEF NoticeInv, FreshOK

\* Where nothing is reached that was not, the devices stay one for each.
LEMMA OneDeviceKept ==
  ASSUME OneDevice, blurred \subseteq blurred', \A p \in Pair : Untouched(p) => Untouched(p)'
  PROVE  OneDevice'
BY DEF OneDevice

\* The event is saved, an hour passes: only the queue grows, by what is fresh, or by a scan.
LEMMA QueueingKeepsInv ==
  ASSUME NoticeInv, UNCHANGED <<batch, noted, toldTo, blurred>>,
         \/ (\E new \in [valid : BOOLEAN, passed : BOOLEAN, deleted : BOOLEAN] : Hook(new))
         \/ /\ UNCHANGED passages
            /\ \A m \in queued' : m \in queued \/ m[1] = "scan"
  PROVE  NoticeInv'
<1> USE DEF NoticeInv
<1>1. /\ passages' = passages \/ passages' = passages + 1
      /\ \A m \in queued' : \/ m \in queued
                            \/ m[1] = "scan"
                            \/ /\ passages' = passages + 1
                               /\ m[1] \in Announcement /\ m[2] = passages + 1
  BY DEF Hook
<1>2. QueueOK'
  BY <1>1 DEF QueueOK
<1>3. \A p \in Pair : Untouched(p)' <=> Untouched(p)
  BY DEF Untouched, Has
<1>4. FreshOK'
  BY <1>1, <1>3, TopicKinds DEF FreshOK, QueueOK
<1>5. ASSUME NEW p \in Pair \ blurred PROVE OnceOK(p)'
  <2>1. p[2] \in queued' => p[2] \in queued \/ (p[2][1] \in Announcement /\ p[2][2] > passages)
    BY <1>1, TopicKinds DEF QueueOK
  <2>2. p[2] \in queued' => Untouched(p)'
    BY <2>1, <1>3 DEF OnceOK, FreshOK
  <2>3. QED
    BY <2>2 DEF OnceOK, MidSend, Committing, Has
<1>6. OneDevice'
  BY <1>3, OneDeviceKept
<1>7. QED
  BY <1>2, <1>4, <1>5, <1>6 DEF BatchesOK

\* A task that takes a message: what it finds to tell is untouched, or another task is at it.
LEMMA TakeKeepsInv ==
  ASSUME NoticeInv, NEW w \in NoticeWorker, NEW m \in queued, Take(w, m)
  PROVE  NoticeInv'
<1>0. PICK pairs \in ToTell(m) :
        /\ batch' = IF pairs = {} THEN batch
                    ELSE [batch EXCEPT ![w] = [pc |-> "send", pairs |-> pairs,
                                               reached |-> {p \in pairs : HasChannel(p)}]]
        /\ blurred' = blurred \cup {p \in pairs : \E v \in NoticeWorker : p \in batch[v].pairs}
  BY DEF Take
<1> DEFINE taken == [pc |-> "send", pairs |-> pairs, reached |-> {p \in pairs : HasChannel(p)}]
<1> USE DEF NoticeInv
<1>1. /\ batch[w] = NoBatch /\ queued' = queued \ {m}
      /\ batch' = IF pairs = {} THEN batch ELSE [batch EXCEPT ![w] = taken]
      /\ blurred' = blurred \cup {p \in pairs : \E v \in NoticeWorker : p \in batch[v].pairs}
      /\ UNCHANGED <<noted, toldTo, passages>>
  BY <1>0 DEF Take
<1>2. /\ batch' = [v \in NoticeWorker |-> batch'[v]]
      /\ \A v \in NoticeWorker : v # w => batch'[v] = batch[v]
      /\ batch'[w] = batch[w] \/ batch'[w] = taken
  BY <1>1 DEF BatchesOK
<1>3. /\ \A p : Has(w, p)' => p \in pairs /\ batch'[w] = taken
      /\ \A v \in NoticeWorker : v # w => \A p : (Has(v, p)' <=> Has(v, p))
      /\ \A p : ~Has(w, p)
  BY <1>1, <1>2 DEF Has, NoBatch
<1>4. BatchesOK'
  BY <1>2 DEF BatchesOK
<1>5. QueueOK'
  BY <1>1 DEF QueueOK
<1>6. \A p \in pairs : \/ p[2][1] = "approach" /\ p \notin noted
                       \/ p[2] = m /\ m[1] \in Announcement /\ m[2] \in 1..passages
  BY <1>0 DEF ToTell, Reminders, Noted, QueueOK
<1>7. FreshOK'
  <2>1. ASSUME NEW p \in Pair, p[2][1] \in Announcement, p[2][2] > passages
        PROVE  Untouched(p)'
    <3>1. Untouched(p)
      BY <2>1 DEF FreshOK
    <3>2. p \notin pairs
      BY <2>1, <1>6, TopicKinds DEF QueueOK
    <3>3. QED
      BY <1>1, <1>3, <3>1, <3>2 DEF Untouched
  <2>2. QED
    BY <1>1, <2>1 DEF FreshOK
<1>8. ASSUME NEW p \in Pair \ blurred' PROVE OnceOK(p)'
  <2>1. p \in Pair \ blurred /\ OnceOK(p)
    BY <1>1, <1>8
  <2>2. CASE p \in pairs
    <3>1. \A v \in NoticeWorker : ~Has(v, p)
      BY <1>1, <1>8, <2>2 DEF Has
    <3>2. toldTo[p] = 0
      BY <1>6, <2>1, <2>2, <3>1 DEF OnceOK, Committing, Untouched
    <3>3. p[2] \notin queued'
      BY <1>1, <1>6, <2>2, TopicKinds DEF QueueOK
    <3>4. QED
      BY <1>1, <1>3, <2>1, <3>1, <3>2, <3>3 DEF OnceOK
  <2>3. CASE p \notin pairs
    <3>1. \A v \in NoticeWorker : Has(v, p)' <=> Has(v, p)
      BY <1>3, <2>3
    <3>2. \A v \in NoticeWorker : Has(v, p) => batch'[v] = batch[v]
      BY <1>2, <1>3
    <3>3. QED
      BY <1>1, <2>1, <3>1, <3>2 DEF OnceOK, MidSend, Committing, Untouched
  <2>4. QED
    BY <2>2, <2>3
<1>9. ASSUME NEW p \in Pair \ blurred', NEW q \in Pair \ blurred',
             p[2] = q[2], p[2][1] \in OncePerUser, OwnerOf[p[1]] = OwnerOf[q[1]],
             ~Untouched(p)', ~Untouched(q)'
      PROVE  p = q
  <2>1. \A x \in Pair : x \notin pairs /\ Untouched(x) => Untouched(x)'
    BY <1>1, <1>3 DEF Untouched
  <2>2. OnceOK(p) /\ OnceOK(q) /\ p \notin blurred /\ q \notin blurred
    BY <1>1, <1>9
  <2>3. CASE p \notin pairs /\ q \notin pairs
    BY <1>9, <2>1, <2>2, <2>3 DEF OneDevice
  <2>4. CASE p \in pairs \/ q \in pairs
    <3>1. p[2] = m /\ m[1] \in OncePerUser /\ m[1] # "scan"
      BY <1>6, <1>9, <2>4, TopicKinds DEF OncePerUser
    <3>2. Untouched(p) /\ Untouched(q)
      BY <1>9, <2>2, <3>1 DEF OnceOK
    <3>3. p \in pairs /\ q \in pairs
      BY <1>9, <2>1, <3>2
    <3>4. PICK phones : /\ pairs = phones \X {m}
                        /\ \A d, e \in phones : OwnerOf[d] = OwnerOf[e] => d = e
      BY <1>0, <3>1, <3>3 DEF ToTell, Audience, OneOfEach
    <3>5. p[1] = q[1]
      BY <1>9, <3>3, <3>4
    <3> QED BY <1>9, <3>5, TopicKinds
  <2> QED BY <2>3, <2>4
<1>10. OneDevice'
  BY <1>9 DEF OneDevice
<1>11. QED
  BY <1>1, <1>4, <1>5, <1>7, <1>8, <1>10

\* The message leaves: once for each pair that has a channel.
LEMMA SendKeepsInv ==
  ASSUME NoticeInv, NEW w \in NoticeWorker, BulkSend(w)
  PROVE  NoticeInv'
<1> USE DEF NoticeInv
<1>1. /\ batch[w].pc = "send" /\ batch' = [batch EXCEPT ![w].pc = "commit"]
      /\ toldTo' = [p \in Pair |-> IF p \in batch[w].reached THEN toldTo[p] + 1 ELSE toldTo[p]]
      /\ UNCHANGED <<queued, noted, blurred, passages>>
  BY DEF BulkSend
<1>2. /\ batch[w] = [pc |-> "send", pairs |-> batch[w].pairs, reached |-> batch[w].reached]
      /\ batch[w].reached \subseteq batch[w].pairs
  BY <1>1 DEF BatchesOK, NoBatch
<1>3. /\ batch' = [v \in NoticeWorker |-> batch'[v]]
      /\ \A v \in NoticeWorker : v # w => batch'[v] = batch[v]
      /\ batch'[w] = [batch[w] EXCEPT !.pc = "commit"]
  BY <1>1 DEF BatchesOK
<1>4. batch'[w] = [pc |-> "commit", pairs |-> batch[w].pairs, reached |-> batch[w].reached]
  BY <1>2, <1>3
<1>5. \A v \in NoticeWorker : \A p : Has(v, p)' <=> Has(v, p)
  BY <1>3, <1>4 DEF Has
<1>6. BatchesOK' /\ QueueOK' /\ toldTo' \in [Pair -> Nat]
  BY <1>1, <1>2, <1>3, <1>4 DEF BatchesOK, QueueOK
<1>7. \A p \in Pair : Untouched(p) => Untouched(p)'
  BY <1>1, <1>2, <1>5 DEF Untouched, Has
<1>8. ASSUME NEW p \in Pair \ blurred' PROVE OnceOK(p)'
  <2>1. p \in Pair \ blurred /\ OnceOK(p)
    BY <1>1, <1>8
  <2>2. CASE Has(w, p)
    <3>1. toldTo[p] = 0 /\ toldTo'[p] \in {0, 1}
      BY <1>1, <2>1, <2>2 DEF OnceOK, MidSend
    <3>2. Committing(w, p)'
      BY <1>4, <2>2 DEF Committing, Has
    <3>3. \A v \in NoticeWorker : ~MidSend(v, p)'
      BY <1>4, <1>5, <2>1, <2>2 DEF OnceOK, MidSend
    <3>4. p[2] \notin queued
      BY <2>1, <2>2 DEF OnceOK, Untouched
    <3>5. QED
      BY <1>1, <1>5, <2>1, <3>1, <3>2, <3>3, <3>4 DEF OnceOK
  <2>3. CASE ~Has(w, p)
    <3>1. toldTo'[p] = toldTo[p]
      BY <1>1, <1>2, <2>1, <2>3 DEF Has
    <3>2. \A v \in NoticeWorker : Has(v, p) => batch'[v] = batch[v]
      BY <1>3, <2>3
    <3>3. QED
      BY <1>1, <1>5, <2>1, <3>1, <3>2 DEF OnceOK, MidSend, Committing, Untouched
  <2>4. QED
    BY <2>2, <2>3
<1>9. OneDevice'
  BY <1>1, <1>7, OneDeviceKept
<1>10. QED
  BY <1>1, <1>6, <1>7, <1>8, <1>9 DEF FreshOK

\* The task ends: before its message left, or with its rows noted, or with them taken back.
LEMMA EndKeepsInv ==
  ASSUME NoticeInv, NEW w \in NoticeWorker,
         BulkSendRaises(w) \/ CommitNotices(w) \/ RollBackNotices(w)
  PROVE  NoticeInv'
<1> USE DEF NoticeInv
<1>1. /\ batch' = [batch EXCEPT ![w] = NoBatch]
      /\ UNCHANGED <<queued, toldTo, passages>>
      /\ noted \subseteq noted' /\ blurred \subseteq blurred'
      /\ \/ batch[w].pc = "send"
         \/ batch[w].pc = "commit" /\ (\A p : Has(w, p) => p \in noted' \/ p \in blurred')
  BY DEF BulkSendRaises, CommitNotices, RollBackNotices, Has
<1>2. /\ batch' = [v \in NoticeWorker |-> batch'[v]]
      /\ \A v \in NoticeWorker : v # w => batch'[v] = batch[v]
      /\ batch'[w] = NoBatch
  BY <1>1 DEF BatchesOK
<1>3. \A v \in NoticeWorker : \A p : Has(v, p)' => v # w /\ Has(v, p) /\ batch'[v] = batch[v]
  BY <1>2 DEF Has, NoBatch
<1>4. BatchesOK' /\ QueueOK' /\ toldTo' \in [Pair -> Nat]
  BY <1>1, <1>2 DEF BatchesOK, QueueOK
<1>5. \A p : Untouched(p) => Untouched(p)'
  BY <1>1, <1>3 DEF Untouched
<1>6. ASSUME NEW p \in Pair \ blurred' PROVE OnceOK(p)'
  <2>1. p \in Pair \ blurred /\ OnceOK(p)
    BY <1>1, <1>6
  <2>2. ASSUME toldTo[p] = 1 PROVE p \in noted' \/ \E v \in NoticeWorker : Committing(v, p)'
    <3>1. CASE p \in noted
      BY <1>1, <3>1
    <3>2. ASSUME NEW v \in NoticeWorker, Committing(v, p), v # w PROVE Committing(v, p)'
      BY <1>2, <3>2 DEF Committing, Has
    <3>3. CASE Committing(w, p)
      BY <1>1, <1>6, <3>3 DEF Committing
    <3>4. QED
      BY <2>1, <2>2, <3>1, <3>2, <3>3 DEF OnceOK
  <2>3. \A v \in NoticeWorker : MidSend(v, p)' => toldTo[p] = 0
    BY <1>3, <2>1 DEF OnceOK, MidSend
  <2>4. QED
    BY <1>1, <1>3, <1>5, <2>1, <2>2, <2>3 DEF OnceOK
<1>7. OneDevice'
  BY <1>1, <1>5, OneDeviceKept
<1>8. QED
  BY <1>1, <1>4, <1>5, <1>6, <1>7 DEF FreshOK

LEMMA NoticeInvNext == NoticeInv /\ [NoticeNext]_noticeVars => NoticeInv'
<1> SUFFICES ASSUME NoticeInv, [NoticeNext]_noticeVars PROVE NoticeInv'
  OBVIOUS
<1>1. CASE UNCHANGED noticeVars
  BY <1>1, QueueingKeepsInv DEF noticeVars
<1>2. ASSUME NEW new \in [valid : BOOLEAN, passed : BOOLEAN, deleted : BOOLEAN],
             SaveHappening(new)
      PROVE  NoticeInv'
  BY <1>2, QueueingKeepsInv DEF SaveHappening
<1>3. ASSUME NEW u \in Reader,
             \/ \E how \in {"mail", "no mail"} : Choose(u, how)
             \/ GiveUp(u)
             \/ \E k \in {"nearby", "type"} : SubscribeTo(k, u) \/ UnsubscribeFrom(k, u)
      PROVE  NoticeInv'
  BY <1>3, QueueingKeepsInv DEF Choose, GiveUp, SubscribeTo, UnsubscribeFrom
<1>4. CASE HourPasses
  <2>1. \A m \in queued' : m \in queued \/ m[1] = "scan"
    BY <1>4 DEF HourPasses
  <2>2. QED
    BY <1>4, <2>1, QueueingKeepsInv DEF HourPasses
<1>5. ASSUME NEW w \in NoticeWorker,
             \/ \E m \in queued : Take(w, m)
             \/ BulkSendRaises(w) \/ BulkSend(w) \/ CommitNotices(w) \/ RollBackNotices(w)
      PROVE  NoticeInv'
  BY <1>5, TakeKeepsInv, SendKeepsInv, EndKeepsInv
<1>6. QED
  BY <1>1, <1>2, <1>3, <1>4, <1>5 DEF NoticeNext

\* Whatever is given up and chosen again, however often the event passes validation, and
\* however late and many the hourly scans are, a device is told an announcement, and a user a
\* reminder, at most once, unless two tasks had it at once or a rollback took it back; and of
\* the announcements that go to one device of each user, no user is told by two.
THEOREM NoticesToldOnce == NoticeSpec => []SerialToldOnce
<1>1. NoticeInv => SerialToldOnce
  <2>1. NoticeInv => \A p \in Pair \ blurred : toldTo[p] <= 1
    BY DEF NoticeInv, OnceOK
  <2>2. \A p : toldTo[p] # 0 => ~Untouched(p)
    BY DEF Untouched
  <2> QED BY <2>1, <2>2 DEF NoticeInv, OneDevice, SerialToldOnce
<1>2. QED
  BY <1>1, NoticeInvInit, NoticeInvNext, PTL DEF NoticeSpec

--------------------------------------------------------------------------------
(* That an event sells within its limit, is shown when it was approved, and an  *)
(* ephemeral one stays apart; for any events, workers, limits and quantities.   *)
(*                                                                              *)
(* Edits save rows that may be long out of date; what each property needs is    *)
(* one column, and the column is either still what the others know of it, or    *)
(* marked as muddled.  An ephemeral event is on nobody's desk but its maker's,  *)
(* so no edit, sale or verdict of it can be under way.                          *)

EventRow == [kind : {"ordinary", "ephemeral"}, private : BOOLEAN, limit : Nat, passed : BOOLEAN,
             valid : BOOLEAN, deleted : BOOLEAN, count : Nat, code : BOOLEAN, room : BOOLEAN]

\* What is saved again is as it was created, and only an ephemeral event waits for its code.
FreshRow     == {row \in EventRow : ~row.valid /\ ~row.room /\ row.count = 0}
Inserted     == [pc : {"again"}, of : Event, row : FreshRow, next : {"done", "room", "code"}]
SavingAgain  == {job \in Inserted : job.row.kind = "ephemeral" => job.next = "code"}
Finishing    == [pc : {"room", "code"}, of : Event]
EditingEvent == [pc : {"edit", "limit"}, of : Event, row : EventRow]
Issuing      == [pc : {"task"}, of : Event, q : Quantity, count : Nat]
DeskJobs     == {NoDesk} \cup SavingAgain \cup Finishing \cup EditingEvent \cup Issuing

EventTypes ==
  /\ event \in [Event -> EventRow \cup {NoEvent}]
  /\ ticketed \subseteq Event
  /\ started \in [Event -> [Quantity -> Nat]]
  /\ desk \in [EventWorker -> DeskJobs]
  /\ issued \in [Event -> Nat]
  /\ verdict \in [Event -> {"none", "activated", "deactivated", "destroyed"}]
  /\ muddledEv \in [Event -> SUBSET {"kind", "count", "valid", "deleted"}]

\* Worker w is busy with event e.
OnEvent(w, e) == desk[w] # NoDesk /\ desk[w].of = e

\* Nothing is known of an event that is not there.
Unborn(e) ==
  ~Exists(e) => issued[e] = 0 /\ e \notin ticketed /\ \A w \in EventWorker : ~OnEvent(w, e)

\* Only events with a ticket are sold.
SoldWithTicket(e) ==
  e \notin ticketed =>
    /\ \A q \in Quantity : started[e][q] = 0
    /\ \A w \in EventWorker : OnEvent(w, e) => desk[w].pc # "task"

CountIsIssued(e) == Exists(e) /\ "count" \notin muddledEv[e] => event[e].count = issued[e]

ShownWasApproved(e) ==
  Exists(e) /\ muddledEv[e] \cap {"valid", "deleted"} = {} /\ event[e].valid /\ ~event[e].deleted
    => verdict[e] = "activated"

\* An ephemeral event is known to the worker who creates it, and to nobody else.
ServedApart(e) ==
  Exists(e) /\ event[e].kind = "ephemeral" /\ "kind" \notin muddledEv[e] =>
    /\ ~event[e].valid /\ ~event[e].room /\ e \notin ticketed /\ issued[e] = 0
    /\ \A w \in EventWorker : OnEvent(w, e) => desk[w].pc \in {"again", "code"}
    /\ event[e].code \/ e \in orphans \/ \E w \in EventWorker : OnEvent(w, e)

EventOK(e) ==
  /\ Unborn(e) /\ SoldWithTicket(e) /\ CountIsIssued(e) /\ ShownWasApproved(e) /\ ServedApart(e)
  /\ Exists(e) => RowAllowed(event[e])

EventInv == EventTypes /\ \A e \in Event : EventOK(e)

USE DefaultLimitAssumption, QuantityAssumption

LEMMA EventInvInit == EventInit => EventInv
  BY DEF EventInit, EventInv, EventTypes, DeskJobs, Unborn, SoldWithTicket, CountIsIssued,
         ShownWasApproved, ServedApart, EventOK, Exists, OnEvent

\* What is on a desk, by what its worker does.
LEMMA DeskRows ==
  ASSUME EventTypes, NEW w \in EventWorker
  PROVE  /\ desk[w] \in DeskJobs
         /\ desk[w].pc \in {"free", "again", "room", "code", "edit", "limit", "task"}
         /\ desk[w] = NoDesk <=> desk[w].pc = "free"
         /\ desk[w].pc = "again" => desk[w] \in SavingAgain
         /\ desk[w].pc \in {"room", "code"} => desk[w] \in Finishing
         /\ desk[w].pc \in {"edit", "limit"} => desk[w] \in EditingEvent
         /\ desk[w].pc = "task" => desk[w] \in Issuing
  BY DEF EventTypes, DeskJobs, NoDesk, Inserted, SavingAgain, Finishing, EditingEvent, Issuing

\* An event that a step does not touch stays as it should be.
LEMMA ElsewhereOK ==
  ASSUME NEW x \in Event, EventOK(x),
         event'[x] = event[x], issued'[x] = issued[x], verdict'[x] = verdict[x],
         muddledEv'[x] = muddledEv[x], started'[x] = started[x],
         x \in ticketed' <=> x \in ticketed, x \in orphans' <=> x \in orphans,
         \A v \in EventWorker : /\ OnEvent(v, x)' <=> OnEvent(v, x)
                                /\ OnEvent(v, x) => desk'[v] = desk[v]
  PROVE  EventOK(x)'
  BY DEF EventOK, Unborn, SoldWithTicket, CountIsIssued, ShownWasApproved, ServedApart, Exists, RowAllowed

\* A worker who takes up or puts down event e changes his own desk, for e alone.
LEMMA DeskMoves ==
  ASSUME EventTypes, NEW w \in EventWorker, NEW e \in Event, desk[w] = NoDesk \/ desk[w].of = e,
         NEW job, job = NoDesk \/ job.of = e, desk' = [desk EXCEPT ![w] = job]
  PROVE  /\ desk'[w] = job
         /\ \A v \in EventWorker : v # w => desk'[v] = desk[v] /\ (\A x : OnEvent(v, x)' <=> OnEvent(v, x))
         /\ \A x \in Event \ {e} : ~OnEvent(w, x) /\ ~OnEvent(w, x)'
<1>1. desk'[w] = job /\ \A v \in EventWorker : v # w => desk'[v] = desk[v]
  BY DEF EventTypes
<1>2. \A x \in Event \ {e} : ~OnEvent(w, x) /\ ~OnEvent(w, x)'
  BY <1>1 DEF OnEvent
<1> QED BY <1>1, <1>2 DEF OnEvent

\* An event is there that was not, and its creator is the only one who knows it.
LEMMA InsertInv ==
  ASSUME EventInv, NEW w \in EventWorker, NEW e \in Event, NEW row \in FreshRow,
         NEW next \in {"done", "room", "code"}, row.kind = "ephemeral" => next = "code",
         InsertEvent(w, e, row, next)
  PROVE  EventInv'
<1> DEFINE job == [pc |-> "again", of |-> e, row |-> row, next |-> next]
<1>1. /\ row \in EventRow /\ ~row.valid /\ ~row.room /\ row.count = 0 /\ RowAllowed(row)
      /\ row # NoEvent
  BY DEF FreshRow, EventRow, RowAllowed, NoEvent
<1>2. job \in SavingAgain /\ job.pc = "again" /\ job.of = e /\ job # NoDesk
  BY DEF Inserted, SavingAgain, NoDesk
<1>3. desk[w] = NoDesk /\ desk' = [desk EXCEPT ![w] = job]
  BY DEF InsertEvent
<1>4. /\ event' = [event EXCEPT ![e] = row] /\ ~Exists(e)
      /\ UNCHANGED <<ticketed, started, issued, verdict, muddledEv, orphans>>
  BY DEF InsertEvent, Exists
<1> HIDE DEF job
<1>5. EventTypes'
  BY <1>1, <1>2, <1>3, <1>4 DEF EventInv, EventTypes, DeskJobs
<1>6. /\ desk'[w] = job
      /\ \A v \in EventWorker : v # w => desk'[v] = desk[v] /\ (\A x : OnEvent(v, x)' <=> OnEvent(v, x))
      /\ \A x \in Event \ {e} : ~OnEvent(w, x) /\ ~OnEvent(w, x)'
  <2>1. EventTypes /\ desk[w] = NoDesk /\ desk' = [desk EXCEPT ![w] = job] /\ job.of = e
    BY <1>2, <1>3 DEF EventInv
  <2> QED BY <2>1, DeskMoves
<1>7. ASSUME NEW x \in Event \ {e} PROVE EventOK(x)'
  BY <1>4, <1>6, ElsewhereOK DEF EventInv, EventTypes
<1>8. event'[e] = row
  BY <1>4 DEF EventInv, EventTypes
<1>9. OnEvent(w, e)' /\ \A v \in EventWorker : OnEvent(v, e)' => desk'[v].pc = "again"
  BY <1>2, <1>4, <1>6 DEF EventInv, EventOK, Unborn, OnEvent
<1>10. EventOK(e)'
  BY <1>1, <1>4, <1>8, <1>9 DEF EventInv, EventOK, Unborn, SoldWithTicket, CountIsIssued,
        ShownWasApproved, ServedApart, Exists, RowAllowed
<1> QED BY <1>5, <1>7, <1>10 DEF EventInv

\* An ordinary event is created, or an ephemeral one.
LEMMA CreateEventInv ==
  ASSUME EventInv, NEW w \in EventWorker, NEW e \in Event, NEW private \in BOOLEAN,
         NEW passed \in BOOLEAN, NEW subscription \in BOOLEAN, NEW withRoom \in BOOLEAN,
         NEW limit \in Limit,
         \/ CreateEvent(w, e, private, limit, passed, subscription, withRoom)
         \/ CreateEphemeral(w, e, limit)
  PROVE  EventInv'
<1>1. ASSUME NEW kind \in {"ordinary", "ephemeral"}, NEW p \in BOOLEAN, NEW q \in BOOLEAN
      PROVE  /\ NewEvent(kind, p, limit, q) \in FreshRow
             /\ NewEvent(kind, p, limit, q).kind = kind
  BY DEF NewEvent, EventRow, FreshRow
<1>2. CASE CreateEvent(w, e, private, limit, passed, subscription, withRoom)
  <2> DEFINE row  == NewEvent("ordinary", private, limit, passed)
             next == IF withRoom THEN "room" ELSE "done"
  <2>1. row \in FreshRow /\ row.kind # "ephemeral" /\ next \in {"done", "room", "code"}
    BY <1>1
  <2>2. InsertEvent(w, e, row, next)
    BY <1>2 DEF CreateEvent
  <2> HIDE DEF row, next
  <2> QED BY <2>1, <2>2, InsertInv
<1>3. CASE CreateEphemeral(w, e, limit)
  <2> DEFINE row == NewEvent("ephemeral", TRUE, limit, FALSE)
  <2>1. row \in FreshRow
    BY <1>1
  <2>2. InsertEvent(w, e, row, "code")
    BY <1>3 DEF CreateEphemeral
  <2> HIDE DEF row
  <2> QED BY <2>1, <2>2, InsertInv
<1> QED BY <1>2, <1>3

LEMMA FinishCreationInv ==
  ASSUME EventInv, NEW w \in EventWorker, FinishCreation(w)
  PROVE  EventInv'
<1> PICK e \in Event : e = desk[w].of
  BY DeskRows DEF FinishCreation, EventInv, Finishing
<1> DEFINE row == event'[e]
<1>1. /\ e \in Event /\ desk[w] # NoDesk /\ OnEvent(w, e) /\ desk[w].pc \in {"room", "code"}
  BY DeskRows DEF FinishCreation, EventInv, Finishing, OnEvent, NoDesk
<1>2. Exists(e) /\ event[e] \in EventRow
  BY <1>1 DEF EventInv, EventOK, Unborn, EventTypes, Exists
<1>3. /\ row = IF desk[w].pc = "room" THEN [event[e] EXCEPT !.room = TRUE]
                                      ELSE [event[e] EXCEPT !.code = TRUE]
      /\ event' = [event EXCEPT ![e] = row]
      /\ desk' = [desk EXCEPT ![w] = NoDesk]
      /\ UNCHANGED <<ticketed, started, issued, verdict, muddledEv, orphans>>
  BY <1>1 DEF FinishCreation, EventInv, EventTypes
<1>4. /\ row \in EventRow /\ row # NoEvent
      /\ row.kind = event[e].kind /\ row.valid = event[e].valid /\ row.deleted = event[e].deleted
      /\ row.count = event[e].count /\ row.private = event[e].private /\ row.limit = event[e].limit
      /\ desk[w].pc = "code" => row.code /\ row.room = event[e].room
  <2>1. CASE desk[w].pc = "room"
    <3>1. event[e] \in EventRow /\ row = [event[e] EXCEPT !.room = TRUE]
      BY <1>2, <1>3, <2>1
    <3> QED BY <2>1, <3>1 DEF EventRow, NoEvent
  <2>2. CASE desk[w].pc = "code"
    <3>1. event[e] \in EventRow /\ row = [event[e] EXCEPT !.code = TRUE]
      BY <1>2, <1>3, <2>2
    <3> QED BY <2>2, <3>1 DEF EventRow, NoEvent
  <2> QED BY <1>1, <2>1, <2>2
<1> HIDE DEF row
<1>5. EventTypes'
  BY <1>1, <1>3, <1>4 DEF EventInv, EventTypes, DeskJobs
<1>6. /\ desk'[w] = NoDesk
      /\ \A v \in EventWorker : v # w => desk'[v] = desk[v] /\ (\A x : OnEvent(v, x)' <=> OnEvent(v, x))
      /\ \A x \in Event \ {e} : ~OnEvent(w, x) /\ ~OnEvent(w, x)'
  BY <1>1, <1>3, DeskMoves DEF EventInv, OnEvent
<1>7. ASSUME NEW x \in Event \ {e} PROVE EventOK(x)'
  BY <1>1, <1>3, <1>6, ElsewhereOK DEF EventInv, EventTypes
<1>8. event'[e] = row
  BY <1>1, <1>3 DEF EventInv, EventTypes
<1>9. ASSUME NEW v \in EventWorker, OnEvent(v, e)' PROVE v # w /\ OnEvent(v, e) /\ desk'[v] = desk[v]
  <2>1. v # w
    BY <1>6, <1>9 DEF OnEvent
  <2> QED BY <1>6, <1>9, <2>1
<1>10. EventOK(e)
  BY <1>1 DEF EventInv
<1>11. EventOK(e)'
  <2>1. Unborn(e)' /\ SoldWithTicket(e)' /\ CountIsIssued(e)'
    <3>1. Unborn(e)'
      BY <1>4, <1>8 DEF Unborn, Exists
    <3>2. SoldWithTicket(e)'
      BY <1>3, <1>9, <1>10 DEF EventOK, SoldWithTicket
    <3>3. CountIsIssued(e)'
      BY <1>2, <1>3, <1>4, <1>8, <1>10 DEF EventOK, CountIsIssued
    <3> QED BY <3>1, <3>2, <3>3
  <2>2. ShownWasApproved(e)' /\ (Exists(e) => RowAllowed(event[e]))'
    BY <1>2, <1>3, <1>4, <1>8, <1>10 DEF EventOK, ShownWasApproved, Exists, RowAllowed
  <2>3. ServedApart(e)'
    <3>1. CASE desk[w].pc = "room"
      BY <1>1, <1>2, <1>3, <1>4, <1>8, <1>10, <3>1 DEF EventOK, ServedApart, Exists
    <3>2. CASE desk[w].pc = "code"
      <4>1. row.code /\ row.room = event[e].room /\ row.kind = event[e].kind /\ row.valid = event[e].valid
        BY <1>4, <3>2
      <4>2. SUFFICES ASSUME event[e].kind = "ephemeral", "kind" \notin muddledEv[e] PROVE ServedApart(e)'
        BY <1>3, <1>8, <4>1 DEF ServedApart
      <4>3. /\ ~event[e].valid /\ ~event[e].room /\ e \notin ticketed /\ issued[e] = 0
            /\ \A v \in EventWorker : OnEvent(v, e) => desk[v].pc \in {"again", "code"}
        BY <1>2, <1>10, <4>2 DEF EventOK, ServedApart
      <4>4. \A v \in EventWorker : OnEvent(v, e)' => desk'[v].pc \in {"again", "code"}
        BY <1>9, <4>3
      <4> QED BY <1>3, <1>8, <4>1, <4>3, <4>4 DEF ServedApart
    <3> QED BY <1>1, <3>1, <3>2
  <2> QED BY <2>1, <2>2, <2>3 DEF EventOK
<1> QED BY <1>5, <1>7, <1>11 DEF EventInv

LEMMA DieInCreationInv ==
  ASSUME EventInv, NEW w \in EventWorker, DieInCreation(w)
  PROVE  EventInv'
<1> PICK e \in Event : e = desk[w].of
  BY DeskRows DEF DieInCreation, EventInv, Inserted, SavingAgain, Finishing
<1>1. /\ OnEvent(w, e) /\ desk[w].pc \in {"again", "room", "code"}
      /\ orphans' = orphans \cup {e} /\ desk' = [desk EXCEPT ![w] = NoDesk]
      /\ UNCHANGED <<event, ticketed, started, issued, verdict, muddledEv>>
  BY DeskRows DEF DieInCreation, EventInv, OnEvent, NoDesk
<1>2. EventTypes'
  BY <1>1 DEF EventInv, EventTypes, DeskJobs
<1>3. /\ desk'[w] = NoDesk
      /\ \A v \in EventWorker : v # w => desk'[v] = desk[v] /\ (\A x : OnEvent(v, x)' <=> OnEvent(v, x))
      /\ \A x \in Event \ {e} : ~OnEvent(w, x) /\ ~OnEvent(w, x)'
  BY <1>1, DeskMoves DEF EventInv, OnEvent
<1>4. ASSUME NEW x \in Event \ {e} PROVE EventOK(x)'
  BY <1>1, <1>3, ElsewhereOK DEF EventInv
<1>5. ASSUME NEW v \in EventWorker, OnEvent(v, e)' PROVE OnEvent(v, e) /\ desk'[v] = desk[v]
  <2>1. v # w
    BY <1>3, <1>5 DEF OnEvent
  <2> QED BY <1>3, <1>5, <2>1
<1>6. EventOK(e)'
  BY <1>1, <1>5 DEF EventInv, EventOK, Unborn, SoldWithTicket, CountIsIssued, ShownWasApproved, ServedApart,
        Exists, RowAllowed
<1> QED BY <1>2, <1>4, <1>6 DEF EventInv

LEMMA ReadToEditInv ==
  ASSUME EventInv, NEW w \in EventWorker, NEW e \in Event, NEW what \in {"edit", "limit"},
         ReadToEdit(w, e, what)
  PROVE  EventInv'
<1> DEFINE job == [pc |-> what, of |-> e, row |-> event[e]]
<1>1. /\ desk[w] = NoDesk /\ desk' = [desk EXCEPT ![w] = job]
      /\ Exists(e) /\ event[e].kind = "ordinary" /\ event[e] \in EventRow
      /\ UNCHANGED <<event, ticketed, started, issued, verdict, muddledEv, orphans>>
  BY DEF ReadToEdit, VisibleEvent, EventInv, EventTypes, Exists
<1>2. job \in EditingEvent /\ job.pc # "task" /\ job.of = e
  BY <1>1 DEF EditingEvent
<1> HIDE DEF job
<1>3. EventTypes'
  BY <1>1, <1>2 DEF EventInv, EventTypes, DeskJobs
<1>4. /\ desk'[w] = job
      /\ \A v \in EventWorker : v # w => desk'[v] = desk[v] /\ (\A x : OnEvent(v, x)' <=> OnEvent(v, x))
      /\ \A x \in Event \ {e} : ~OnEvent(w, x) /\ ~OnEvent(w, x)'
  <2>1. EventTypes
    BY DEF EventInv
  <2>2. desk[w] = NoDesk /\ desk' = [desk EXCEPT ![w] = job] /\ job.of = e
    BY <1>1, <1>2
  <2> QED BY <2>1, <2>2, DeskMoves
<1>5. ASSUME NEW x \in Event \ {e} PROVE EventOK(x)'
  BY <1>1, <1>4, ElsewhereOK DEF EventInv
<1>6. \A v \in EventWorker : OnEvent(v, e)' /\ desk'[v].pc = "task" => OnEvent(v, e) /\ desk[v].pc = "task"
  BY <1>2, <1>4
<1>7. EventOK(e)'
  BY <1>1, <1>6 DEF EventInv, EventOK, Unborn, SoldWithTicket, CountIsIssued, ShownWasApproved, ServedApart,
        Exists, RowAllowed
<1> QED BY <1>3, <1>5, <1>7 DEF EventInv

\* A whole row is saved: what it changes of what others wrote is noticed.
LEMMA WriteRowInv ==
  ASSUME EventInv, NEW w \in EventWorker, NEW e \in Event, NEW row \in EventRow,
         OnEvent(w, e), RowAllowed(row), WriteRow(e, row),
         NEW job \in DeskJobs, job = NoDesk \/ job.of = e, job.pc # "task",
         desk' = [desk EXCEPT ![w] = job], UNCHANGED <<ticketed, started, issued, verdict, orphans>>,
         row.kind = "ephemeral" /\ "kind" \notin muddledEv[e] /\ event[e].kind = "ephemeral" =>
           ~row.valid /\ ~row.room /\ job.pc = "code"
  PROVE  EventInv'
<1>1. /\ event' = [event EXCEPT ![e] = row]
      /\ muddledEv' = [muddledEv EXCEPT ![e] = @ \cup Differing(e, row)]
  BY DEF WriteRow
<1>2. EventTypes'
  <2>1. EventTypes
    BY DEF EventInv
  <2>2. desk' \in [EventWorker -> DeskJobs]
    BY <2>1 DEF EventTypes
  <2>3. event' \in [Event -> EventRow \cup {NoEvent}]
    BY <1>1, <2>1 DEF EventTypes
  <2>4. Differing(e, row) \in SUBSET {"kind", "count", "valid", "deleted"}
    BY DEF Differing
  <2>5. muddledEv' \in [Event -> SUBSET {"kind", "count", "valid", "deleted"}]
    BY <1>1, <2>1, <2>4 DEF EventTypes
  <2> QED BY <2>1, <2>2, <2>3, <2>5 DEF EventTypes
<1>3. /\ desk'[w] = job
      /\ \A v \in EventWorker : v # w => desk'[v] = desk[v] /\ (\A x : OnEvent(v, x)' <=> OnEvent(v, x))
      /\ \A x \in Event \ {e} : ~OnEvent(w, x) /\ ~OnEvent(w, x)'
  <2>1. EventTypes /\ desk[w].of = e
    BY DEF EventInv, OnEvent
  <2> QED BY <2>1, DeskMoves
<1>4. ASSUME NEW x \in Event \ {e} PROVE EventOK(x)'
  <2>1. event'[x] = event[x] /\ muddledEv'[x] = muddledEv[x]
    BY <1>1 DEF EventInv, EventTypes
  <2> QED BY <1>3, <2>1, ElsewhereOK DEF EventInv
<1>5. ASSUME NEW v \in EventWorker, v # w, OnEvent(v, e)' PROVE OnEvent(v, e) /\ desk'[v] = desk[v]
  BY <1>3, <1>5
<1>6. EventOK(e) /\ Exists(e)
  BY DEF EventInv, EventOK, Unborn
<1>7. event'[e] = row /\ row # NoEvent /\ muddledEv'[e] = muddledEv[e] \cup Differing(e, row)
  BY <1>1 DEF EventInv, EventTypes, EventRow, NoEvent
<1>8. Unborn(e)' /\ (Exists(e) => RowAllowed(event[e]))'
  BY <1>7 DEF Unborn, Exists, RowAllowed
<1>9. SoldWithTicket(e)'
  BY <1>3, <1>5, <1>6 DEF EventOK, SoldWithTicket
<1>10. CountIsIssued(e)'
  BY <1>6, <1>7 DEF EventOK, CountIsIssued, Differing
<1>11. ShownWasApproved(e)'
  <2>1. CASE row.valid = event[e].valid /\ row.deleted = event[e].deleted
    BY <1>6, <1>7, <2>1 DEF EventOK, ShownWasApproved
  <2>2. CASE ~(row.valid = event[e].valid /\ row.deleted = event[e].deleted)
    BY <1>7, <2>2 DEF ShownWasApproved, Differing
  <2> QED BY <2>1, <2>2
<1>12. ServedApart(e)'
  <2>1. CASE row.kind = event[e].kind
    <3>1. SUFFICES ASSUME row.kind = "ephemeral", "kind" \notin muddledEv[e] PROVE ServedApart(e)'
      BY <1>7 DEF ServedApart
    <3>2. ~row.valid /\ ~row.room /\ job.pc = "code" /\ job # NoDesk
      BY <2>1, <3>1 DEF NoDesk
    <3>3. /\ e \notin ticketed /\ issued[e] = 0
          /\ \A v \in EventWorker : OnEvent(v, e) => desk[v].pc \in {"again", "code"}
      BY <1>6, <2>1, <3>1 DEF EventOK, ServedApart
    <3>4. OnEvent(w, e)' /\ \A v \in EventWorker : OnEvent(v, e)' => desk'[v].pc \in {"again", "code"}
      BY <1>3, <1>5, <3>2, <3>3 DEF OnEvent
    <3> QED BY <1>7, <3>2, <3>3, <3>4 DEF ServedApart
  <2>2. CASE row.kind # event[e].kind
    BY <1>7, <2>2 DEF ServedApart, Differing
  <2> QED BY <2>1, <2>2
<1>13. EventOK(e)'
  BY <1>8, <1>9, <1>10, <1>11, <1>12 DEF EventOK
<1> QED BY <1>2, <1>4, <1>13 DEF EventInv

\* The creator saves what it has created once more.
LEMMA SaveAgainInv ==
  ASSUME EventInv, NEW w \in EventWorker, SaveAgain(w)
  PROVE  EventInv'
<1> DEFINE j == desk[w]
           next == IF j.next = "done" THEN NoDesk ELSE [pc |-> j.next, of |-> j.of]
<1>1. j.pc = "again" /\ j \in SavingAgain
  BY DeskRows DEF SaveAgain, EventInv
<1> HIDE DEF j
<1>2. PICK e \in Event, row \in FreshRow : e = j.of /\ row = j.row
  BY <1>1 DEF SavingAgain, Inserted
<1>3. /\ j.next \in {"done", "room", "code"} /\ (row.kind = "ephemeral" => j.next = "code")
      /\ row \in EventRow /\ ~row.valid /\ ~row.room /\ row.count = 0
  BY <1>1, <1>2 DEF SavingAgain, Inserted, FreshRow
<1>4. RowAllowed(row)
  BY <1>3 DEF RowAllowed, EventRow
<1>5. /\ next \in DeskJobs /\ (next = NoDesk \/ next.of = e) /\ next.pc # "task"
      /\ row.kind = "ephemeral" => next.pc = "code"
  BY <1>2, <1>3 DEF DeskJobs, NoDesk, Finishing
<1>6. /\ WriteRow(e, row) /\ desk' = [desk EXCEPT ![w] = next]
      /\ UNCHANGED <<ticketed, started, issued, verdict, orphans>>
  BY <1>2 DEF SaveAgain, EventInv, EventTypes, j
<1>7. OnEvent(w, e)
  BY <1>1, <1>2 DEF OnEvent, NoDesk, j
<1> HIDE DEF next
<1> QED BY <1>3, <1>4, <1>5, <1>6, <1>7, WriteRowInv

\* An edit saves the row it had read: nobody reads an ephemeral event to edit it.
LEMMA SaveRowInv ==
  ASSUME EventInv, NEW w \in EventWorker, desk[w].pc \in {"edit", "limit"}, NEW row \in EventRow,
         SaveRow(w, row)
  PROVE  EventInv'
<1> PICK e \in Event : e = desk[w].of
  BY DeskRows DEF EventInv, EditingEvent
<1>1. /\ OnEvent(w, e) /\ desk' = [desk EXCEPT ![w] = NoDesk]
      /\ UNCHANGED <<ticketed, started, issued, verdict, orphans>>
  BY DeskRows DEF SaveRow, EventInv, OnEvent, NoDesk
<1>2. EventOK(e) /\ Exists(e) /\ (event[e].kind = "ephemeral" => "kind" \in muddledEv[e])
  BY <1>1 DEF EventInv, EventOK, Unborn, ServedApart
<1>3. CASE RowAllowed(row)
  <2>1. WriteRow(e, row) /\ NoDesk \in DeskJobs /\ NoDesk.pc = "free"
    BY <1>3 DEF SaveRow, DeskJobs, NoDesk
  <2> QED BY <1>1, <1>2, <1>3, <2>1, WriteRowInv
<1>4. CASE ~RowAllowed(row)
  <2>1. UNCHANGED <<event, muddledEv>>
    BY <1>4 DEF SaveRow
  <2>2. EventTypes'
    BY <1>1, <2>1 DEF EventInv, EventTypes, DeskJobs
  <2>3. /\ desk'[w] = NoDesk
        /\ \A v \in EventWorker : v # w => desk'[v] = desk[v] /\ (\A x : OnEvent(v, x)' <=> OnEvent(v, x))
        /\ \A x \in Event \ {e} : ~OnEvent(w, x) /\ ~OnEvent(w, x)'
    BY <1>1, DeskMoves DEF EventInv, OnEvent
  <2>4. ASSUME NEW x \in Event \ {e} PROVE EventOK(x)'
    BY <1>1, <2>1, <2>3, ElsewhereOK DEF EventInv
  <2>5. ASSUME NEW v \in EventWorker, OnEvent(v, e)' PROVE OnEvent(v, e) /\ desk'[v] = desk[v]
    <3>1. v # w
      BY <2>3, <2>5 DEF OnEvent
    <3> QED BY <2>3, <2>5, <3>1
  <2>6. EventOK(e)'
    BY <1>1, <1>2, <2>1, <2>5 DEF EventOK, Unborn, SoldWithTicket, CountIsIssued, ShownWasApproved,
          ServedApart, Exists, RowAllowed
  <2> QED BY <2>2, <2>4, <2>6 DEF EventInv
<1> QED BY <1>3, <1>4

\* A verdict or a deletion writes its own columns of a row that organizers see.
LEMMA JudgeInv ==
  ASSUME EventInv, NEW e \in Event, NEW row \in EventRow,
         NEW how \in {"activated", "deactivated", "destroyed"}, Judge(e, row, how),
         row.count = event[e].count, row.kind = event[e].kind,
         row.private = event[e].private, row.limit = event[e].limit,
         row.valid /\ ~row.deleted => how = "activated"
  PROVE  EventInv'
<1>1. /\ event' = [event EXCEPT ![e] = row] /\ Exists(e) /\ row # NoEvent
      /\ event[e].kind = "ordinary" /\ verdict' = [verdict EXCEPT ![e] = how]
      /\ UNCHANGED <<ticketed, started, desk, issued, muddledEv, orphans>>
  BY DEF Judge, VisibleEvent, EventRow, NoEvent
<1>2. EventTypes'
  BY <1>1 DEF EventInv, EventTypes
<1>3. ASSUME NEW x \in Event \ {e} PROVE EventOK(x)'
  BY <1>1, ElsewhereOK DEF EventInv, EventTypes, OnEvent
<1>4. event'[e] = row /\ verdict'[e] = how
  BY <1>1 DEF EventInv, EventTypes
<1>5. EventOK(e)'
  BY <1>1, <1>4 DEF EventInv, EventOK, Unborn, SoldWithTicket, CountIsIssued, ShownWasApproved, ServedApart,
        Exists, RowAllowed, OnEvent
<1> QED BY <1>2, <1>3, <1>5 DEF EventInv

LEMMA AddTicketInv ==
  ASSUME EventInv, NEW e \in Event, AddTicket(e)
  PROVE  EventInv'
<1>1. /\ Exists(e) /\ event[e].kind = "ordinary" /\ ticketed' = ticketed \cup {e}
      /\ UNCHANGED <<event, started, desk, issued, verdict, muddledEv, orphans>>
  BY DEF AddTicket, VisibleEvent
<1>2. EventTypes'
  BY <1>1 DEF EventInv, EventTypes
<1>3. ASSUME NEW x \in Event PROVE EventOK(x)'
  BY <1>1 DEF EventInv, EventOK, Unborn, SoldWithTicket, CountIsIssued, ShownWasApproved, ServedApart,
        Exists, RowAllowed, OnEvent
<1> QED BY <1>2, <1>3 DEF EventInv

LEMMA StartOrderInv ==
  ASSUME EventInv, NEW e \in Event, NEW q \in Quantity, StartOrder(e, q)
  PROVE  EventInv'
<1>1. /\ e \in ticketed /\ started' = [started EXCEPT ![e][q] = @ + 1]
      /\ UNCHANGED <<event, ticketed, desk, issued, verdict, muddledEv, orphans>>
  BY DEF StartOrder
<1>2. EventTypes' /\ \A x \in Event \ {e} : started'[x] = started[x]
  BY <1>1 DEF EventInv, EventTypes
<1>3. ASSUME NEW x \in Event PROVE EventOK(x)'
  BY <1>1, <1>2 DEF EventInv, EventOK, Unborn, SoldWithTicket, CountIsIssued, ShownWasApproved, ServedApart,
        Exists, RowAllowed, OnEvent
<1> QED BY <1>2, <1>3 DEF EventInv

LEMMA TaskReadInv ==
  ASSUME EventInv, NEW w \in EventWorker, NEW e \in Event, NEW q \in Quantity, TaskRead(w, e, q)
  PROVE  EventInv'
<1> DEFINE job == [pc |-> "task", of |-> e, q |-> q, count |-> event[e].count]
<1>1. /\ desk[w] = NoDesk /\ started[e][q] > 0
      /\ started' = [started EXCEPT ![e][q] = @ - 1] /\ desk' = [desk EXCEPT ![w] = job]
      /\ UNCHANGED <<event, ticketed, issued, verdict, muddledEv, orphans>>
  BY DEF TaskRead
<1>2. e \in ticketed /\ Exists(e) /\ event[e] \in EventRow
      /\ (event[e].kind = "ephemeral" => "kind" \in muddledEv[e])
  BY <1>1 DEF EventInv, EventOK, EventTypes, SoldWithTicket, Unborn, ServedApart, Exists
<1>3. job \in Issuing /\ job.of = e
  BY <1>2 DEF Issuing, EventRow
<1> HIDE DEF job
<1>4. EventTypes'
  <2>1. started' \in [Event -> [Quantity -> Nat]]
    BY <1>1 DEF EventInv, EventTypes
  <2> QED BY <1>1, <1>3, <2>1 DEF EventInv, EventTypes, DeskJobs
<1>5. /\ desk'[w] = job
      /\ \A v \in EventWorker : v # w => desk'[v] = desk[v] /\ (\A x : OnEvent(v, x)' <=> OnEvent(v, x))
      /\ \A x \in Event \ {e} : ~OnEvent(w, x) /\ ~OnEvent(w, x)'
  <2>1. EventTypes /\ desk[w] = NoDesk /\ desk' = [desk EXCEPT ![w] = job] /\ job.of = e
    BY <1>1, <1>3 DEF EventInv
  <2> QED BY <2>1, DeskMoves
<1>6. ASSUME NEW x \in Event \ {e} PROVE EventOK(x)'
  <2>1. started'[x] = started[x]
    BY <1>1 DEF EventInv, EventTypes
  <2> QED BY <1>1, <1>5, <2>1, ElsewhereOK DEF EventInv
<1>7. EventOK(e)'
  BY <1>1, <1>2 DEF EventInv, EventOK, Unborn, SoldWithTicket, CountIsIssued, ShownWasApproved, ServedApart,
        Exists, RowAllowed
<1> QED BY <1>4, <1>6, <1>7 DEF EventInv

\* More are issued and counted: by the task, from what it had read, and by a direct sale.
LEMMA MoreIssued ==
  ASSUME EventInv, NEW e \in Event, Exists(e), e \in ticketed, NEW n \in Nat, NEW q \in Nat,
         LET row == [event[e] EXCEPT !.count = n]
         IN RowAllowed(row) /\ event' = [event EXCEPT ![e] = row],
         issued' = [issued EXCEPT ![e] = @ + q],
         muddledEv' = [muddledEv EXCEPT ![e] =
                         IF n = event[e].count + q THEN @ ELSE @ \cup {"count"}],
         UNCHANGED <<ticketed, started, verdict, orphans>>,
         desk' \in [EventWorker -> DeskJobs],
         \A v \in EventWorker : desk'[v] = desk[v] \/ (OnEvent(v, e) /\ desk'[v] = NoDesk)
  PROVE  EventInv'
<1> DEFINE row == [event[e] EXCEPT !.count = n]
<1>1. event[e] \in EventRow
  BY DEF EventInv, EventTypes, Exists
<1>2. /\ row \in EventRow /\ row # NoEvent /\ row.count = n /\ row.kind = event[e].kind
      /\ row.valid = event[e].valid /\ row.deleted = event[e].deleted
      /\ RowAllowed(row) /\ event' = [event EXCEPT ![e] = row]
  BY <1>1 DEF EventRow, NoEvent
<1> HIDE DEF row
<1>3. EventTypes'
  <2>1. event' \in [Event -> EventRow \cup {NoEvent}]
    BY <1>2 DEF EventInv, EventTypes
  <2>3. issued' \in [Event -> Nat]
    BY DEF EventInv, EventTypes
  <2>2. muddledEv' \in [Event -> SUBSET {"kind", "count", "valid", "deleted"}]
    BY DEF EventInv, EventTypes
  <2> QED BY <2>1, <2>2, <2>3 DEF EventInv, EventTypes
<1>4. /\ event'[e] = row /\ issued'[e] = issued[e] + q
      /\ muddledEv'[e] = IF n = event[e].count + q THEN muddledEv[e] ELSE muddledEv[e] \cup {"count"}
      /\ \A x \in Event \ {e} : /\ event'[x] = event[x] /\ issued'[x] = issued[x]
                                /\ muddledEv'[x] = muddledEv[x]
  BY <1>2 DEF EventInv, EventTypes
<1>5. ASSUME NEW v \in EventWorker, NEW x \in Event, OnEvent(v, x)'
      PROVE  OnEvent(v, x) /\ desk'[v] = desk[v]
  BY <1>5 DEF OnEvent
<1>6. ASSUME NEW x \in Event \ {e} PROVE EventOK(x)'
  <2>1. \A v \in EventWorker : OnEvent(v, x) => desk'[v] = desk[v] /\ OnEvent(v, x)'
    BY DEF OnEvent
  <2> QED BY <1>4, <1>5, <2>1, ElsewhereOK DEF EventInv
<1>7. EventOK(e)'
  <2>1. EventOK(e)
    BY DEF EventInv
  <2>2. Unborn(e)' /\ SoldWithTicket(e)' /\ (Exists(e) => RowAllowed(event[e]))'
    BY <1>2, <1>4 DEF Unborn, SoldWithTicket, Exists, RowAllowed
  <2>3. CountIsIssued(e)'
    BY <1>2, <1>4, <2>1 DEF EventOK, CountIsIssued
  <2>4. ShownWasApproved(e)'
    BY <1>2, <1>4, <2>1 DEF EventOK, ShownWasApproved
  <2>5. ServedApart(e)'
    BY <1>2, <1>4, <2>1 DEF EventOK, ServedApart
  <2> QED BY <2>2, <2>3, <2>4, <2>5 DEF EventOK
<1> QED BY <1>3, <1>6, <1>7 DEF EventInv

LEMMA TaskCommitInv ==
  ASSUME EventInv, NEW w \in EventWorker, TaskCommit(w)
  PROVE  EventInv'
<1> PICK e \in Event : e = desk[w].of
  BY DeskRows DEF TaskCommit, EventInv, Issuing
<1> DEFINE n == desk[w].count + desk[w].q
           row == [event[e] EXCEPT !.count = n]
<1>1. /\ desk[w].pc = "task" /\ desk[w] # NoDesk /\ desk[w].q \in Nat /\ desk[w].count \in Nat
      /\ n \in Nat /\ OnEvent(w, e) /\ desk' = [desk EXCEPT ![w] = NoDesk]
      /\ UNCHANGED <<ticketed, started, verdict, orphans>>
  BY DeskRows DEF TaskCommit, EventInv, Issuing, OnEvent, NoDesk
<1>2. Exists(e) /\ e \in ticketed /\ event[e] \in EventRow
  BY <1>1 DEF EventInv, EventOK, Unborn, SoldWithTicket, EventTypes, Exists
<1>3. /\ \A v \in EventWorker : desk'[v] = desk[v] \/ (OnEvent(v, e) /\ desk'[v] = NoDesk)
      /\ desk' \in [EventWorker -> DeskJobs]
  BY <1>1 DEF EventInv, EventTypes, DeskJobs
<1>4. CASE RowAllowed(row)
  <2>1. /\ RowAllowed(row) /\ event' = [event EXCEPT ![e] = row]
        /\ issued' = [issued EXCEPT ![e] = @ + desk[w].q]
        /\ muddledEv' = [muddledEv EXCEPT ![e] =
                           IF desk[w].count = event[e].count THEN @ ELSE @ \cup {"count"}]
    BY <1>4 DEF TaskCommit
  <2>2. desk[w].count = event[e].count <=> n = event[e].count + desk[w].q
    BY <1>1, <1>2 DEF EventRow
  <2>3. muddledEv' = [muddledEv EXCEPT ![e] =
                        IF n = event[e].count + desk[w].q THEN @ ELSE @ \cup {"count"}]
    BY <2>1, <2>2
  <2> HIDE DEF n
  <2> QED BY <1>1, <1>2, <1>3, <2>1, <2>3, MoreIssued
<1>5. CASE ~RowAllowed(row)
  <2>1. UNCHANGED <<event, issued, muddledEv>>
    BY <1>5 DEF TaskCommit
  <2>2. EventTypes'
    BY <1>1, <1>3, <2>1 DEF EventInv, EventTypes
  <2>3. ASSUME NEW v \in EventWorker, NEW x \in Event, OnEvent(v, x)'
        PROVE  OnEvent(v, x) /\ desk'[v] = desk[v]
    BY <1>3, <2>3 DEF OnEvent
  <2>4. \A v \in EventWorker, x \in Event : OnEvent(v, x) /\ x # e => OnEvent(v, x)'
    BY <1>3 DEF OnEvent
  <2>5. EventOK(e)'
    BY <1>1, <1>2, <2>1, <2>3 DEF EventInv, EventOK, Unborn, SoldWithTicket, CountIsIssued,
       ShownWasApproved, ServedApart, Exists, RowAllowed
  <2>6. ASSUME NEW x \in Event \ {e} PROVE EventOK(x)'
    BY <1>1, <2>1, <2>3, <2>4, ElsewhereOK DEF EventInv
  <2> QED BY <2>2, <2>5, <2>6 DEF EventInv
<1> QED BY <1>4, <1>5

LEMMA DirectSaleInv ==
  ASSUME EventInv, NEW e \in Event, NEW q \in Quantity, DirectSale(e, q)
  PROVE  EventInv'
<1> DEFINE n == event[e].count + q
<1>1. e \in ticketed /\ Exists(e) /\ event[e] \in EventRow
  BY DEF DirectSale, EventInv, EventOK, Unborn, EventTypes, Exists
<1>2. /\ n \in Nat /\ q \in Nat /\ issued' = [issued EXCEPT ![e] = @ + q]
      /\ LET row == [event[e] EXCEPT !.count = n]
         IN RowAllowed(row) /\ event' = [event EXCEPT ![e] = row]
      /\ UNCHANGED <<ticketed, started, desk, verdict, muddledEv, orphans>>
  BY <1>1 DEF DirectSale, EventRow
<1>3. muddledEv' = [muddledEv EXCEPT ![e] =
                      IF n = event[e].count + q THEN @ ELSE @ \cup {"count"}]
  BY <1>2 DEF EventInv, EventTypes
<1>4. desk' \in [EventWorker -> DeskJobs]
  BY <1>2 DEF EventInv, EventTypes
<1> HIDE DEF n
<1> QED BY <1>1, <1>2, <1>3, <1>4, MoreIssued

LEMMA EventInvNext == EventInv /\ [EventNext]_eventVars => EventInv'
<1> SUFFICES ASSUME EventInv, [EventNext]_eventVars PROVE EventInv'
  OBVIOUS
<1>1. ASSUME NEW w \in EventWorker, NEW e \in Event,
             \/ \E private, passed, withRoom \in BOOLEAN, limit \in Limit :
                  CreateEvent(w, e, private, limit, passed, Subscribed(limit), withRoom)
             \/ \E limit \in Limit : CreateEphemeral(w, e, limit)
             \/ \E what \in {"edit", "limit"} : ReadToEdit(w, e, what)
             \/ \E q \in Quantity : TaskRead(w, e, q)
      PROVE  EventInv'
  <2>1. \A limit \in Limit : Subscribed(limit) \in BOOLEAN
    BY DEF Subscribed
  <2>2. ASSUME NEW limit \in Limit, CreateEphemeral(w, e, limit) PROVE EventInv'
    BY <2>2, CreateEventInv
  <2> QED BY <1>1, <2>1, <2>2, CreateEventInv, ReadToEditInv, TaskReadInv
<1>2. ASSUME NEW w \in EventWorker,
             SaveAgain(w) \/ FinishCreation(w) \/ DieInCreation(w) \/ TaskCommit(w)
      PROVE  EventInv'
  BY <1>2, SaveAgainInv, FinishCreationInv, DieInCreationInv, TaskCommitInv
<1>3. ASSUME NEW w \in EventWorker, NEW limit \in Limit, SaveLimit(w, limit)
      PROVE  EventInv'
  <2>1. desk[w].pc = "limit" /\ desk[w].row \in EventRow
    BY <1>3, DeskRows DEF SaveLimit, EventInv, EditingEvent
  <2>2. [desk[w].row EXCEPT !.limit = limit] \in EventRow
    BY <2>1 DEF EventRow
  <2> QED BY <1>3, <2>1, <2>2, SaveRowInv DEF SaveLimit
<1>4. ASSUME NEW w \in EventWorker, desk[w].pc = "edit",
             LET row == desk[w].row IN
               \/ \E private, passed \in BOOLEAN, limit \in Limit, count \in {0, row.count} :
                    SaveEdit(w, row.kind, private, passed, limit, count, Subscribed(limit))
               \/ SaveEdit(w, "ephemeral", row.private, row.passed, row.limit, row.count, FALSE)
      PROVE  EventInv'
  <2>1. desk[w].row \in EventRow
    BY <1>4, DeskRows DEF EventInv, EditingEvent
  <2>2. ASSUME NEW kind \in {"ordinary", "ephemeral"}, NEW private \in BOOLEAN, NEW passed \in BOOLEAN,
               NEW limit \in Nat, NEW count \in Nat, NEW subscription \in BOOLEAN,
               SaveEdit(w, kind, private, passed, limit, count, subscription)
        PROVE  EventInv'
    <3> DEFINE row == [desk[w].row EXCEPT !.kind = kind, !.private = private, !.passed = passed,
                                          !.limit = limit, !.count = count]
    <3>1. row \in EventRow
      BY <2>1 DEF EventRow
    <3>2. SaveRow(w, row)
      BY <2>2 DEF SaveEdit
    <3> HIDE DEF row
    <3> QED BY <1>4, <3>1, <3>2, SaveRowInv
  <2>3. /\ desk[w].row.kind \in {"ordinary", "ephemeral"} /\ desk[w].row.private \in BOOLEAN
        /\ desk[w].row.passed \in BOOLEAN /\ desk[w].row.limit \in Nat /\ desk[w].row.count \in Nat
    BY <2>1 DEF EventRow
  <2>4. \A limit \in Limit : limit \in Nat /\ Subscribed(limit) \in BOOLEAN
    BY DEF Subscribed
  <2>5. CASE SaveEdit(w, "ephemeral", desk[w].row.private, desk[w].row.passed, desk[w].row.limit,
                      desk[w].row.count, FALSE)
    BY <2>2, <2>3, <2>5
  <2>6. ASSUME NEW private \in BOOLEAN, NEW passed \in BOOLEAN, NEW limit \in Limit,
               NEW count \in {0, desk[w].row.count},
               SaveEdit(w, desk[w].row.kind, private, passed, limit, count, Subscribed(limit))
        PROVE  EventInv'
    BY <2>2, <2>3, <2>4, <2>6
  <2> QED BY <1>4, <2>5, <2>6
<1>5. ASSUME NEW e \in Event, Activate(e) \/ Deactivate(e) \/ DestroyEvent(e) PROVE EventInv'
  <2>1. event[e] \in EventRow
    BY <1>5 DEF Activate, Deactivate, DestroyEvent, Judge, VisibleEvent, EventInv, EventTypes, Exists
  <2>2. CASE Activate(e)
    <3> DEFINE row == [event[e] EXCEPT !.valid = TRUE, !.passed = TRUE]
    <3>1. /\ row \in EventRow /\ row.count = event[e].count /\ row.kind = event[e].kind
          /\ row.private = event[e].private /\ row.limit = event[e].limit
      BY <2>1 DEF EventRow
    <3>2. Judge(e, row, "activated")
      BY <2>2 DEF Activate
    <3> HIDE DEF row
    <3> QED BY <3>1, <3>2, JudgeInv
  <2>3. CASE Deactivate(e)
    <3> DEFINE row == [event[e] EXCEPT !.valid = FALSE]
    <3>1. /\ row \in EventRow /\ row.count = event[e].count /\ row.kind = event[e].kind
          /\ row.private = event[e].private /\ row.limit = event[e].limit /\ ~row.valid
      BY <2>1 DEF EventRow
    <3>2. Judge(e, row, "deactivated")
      BY <2>3 DEF Deactivate
    <3> HIDE DEF row
    <3> QED BY <3>1, <3>2, JudgeInv
  <2>4. CASE DestroyEvent(e)
    <3> DEFINE row == [event[e] EXCEPT !.deleted = TRUE]
    <3>1. /\ row \in EventRow /\ row.count = event[e].count /\ row.kind = event[e].kind
          /\ row.private = event[e].private /\ row.limit = event[e].limit /\ row.deleted
      BY <2>1 DEF EventRow
    <3>2. Judge(e, row, "destroyed")
      BY <2>4 DEF DestroyEvent
    <3> HIDE DEF row
    <3> QED BY <3>1, <3>2, JudgeInv
  <2> QED BY <1>5, <2>2, <2>3, <2>4
<1>6. ASSUME NEW e \in Event, NEW q \in Quantity, StartOrder(e, q) \/ DirectSale(e, q)
      PROVE  EventInv'
  BY <1>6, StartOrderInv, DirectSaleInv
<1>7. CASE UNCHANGED eventVars
  BY <1>7 DEF eventVars, EventInv, EventTypes, EventOK, Unborn, SoldWithTicket, CountIsIssued,
     ShownWasApproved, ServedApart, Exists, RowAllowed, OnEvent
<1>8. ASSUME NEW e \in Event, AddTicket(e) PROVE EventInv'
  BY <1>8, AddTicketInv
<1> QED BY <1>1, <1>2, <1>3, <1>4, <1>5, <1>6, <1>7, <1>8 DEF EventNext

\* An event sells no more e-tickets than its limit, is shown when it was approved, and an
\* ephemeral one stays apart, except where a stale or a manual value was saved over it
\* (EventAdmin.tla says which column in each case).
THEOREM EventsStaySound == EventSpec => []EventsSound
<1>1. EventInv => EventsSound
  <2> SUFFICES ASSUME EventInv PROVE EventsSound
    OBVIOUS
  <2>1. SerialTicketsWithinLimit
    BY DEF EventInv, EventTypes, EventOK, CountIsIssued, RowAllowed, SerialTicketsWithinLimit, Exists,
       EventRow
  <2>2. SerialListedWasApproved
    BY DEF EventInv, EventOK, ShownWasApproved, SerialListedWasApproved, ListedEvent, VisibleEvent
  <2>3. EphemeralStaysApart
    <3> SUFFICES ASSUME NEW e \in Event, Exists(e), event[e].kind = "ephemeral",
                        "kind" \notin muddledEv[e]
                 PROVE  /\ ~event[e].valid /\ ~event[e].room /\ e \notin ticketed /\ issued[e] = 0
                        /\ \/ event[e].code \/ e \in orphans
                           \/ \E w \in EventWorker : desk[w].pc \in {"again", "code"} /\ desk[w].of = e
      BY DEF EphemeralStaysApart
    <3>1. ServedApart(e)
      BY DEF EventInv, EventOK
    <3>2. \A w \in EventWorker : OnEvent(w, e) => desk[w].pc \in {"again", "code"} /\ desk[w].of = e
      BY <3>1 DEF ServedApart, OnEvent
    <3> QED BY <3>1, <3>2 DEF ServedApart
  <2> QED BY <2>1, <2>2, <2>3 DEF EventsSound
<1> QED BY <1>1, EventInvInit, EventInvNext, PTL DEF EventSpec

--------------------------------------------------------------------------------
(* That a session has one refresh token that works, and a device that was       *)
(* signed out is quiet; for any accounts, tokens, devices and workers.          *)
(*                                                                              *)
(* The two are about different rows.  While calls about a session come one      *)
(* after the other, the token that the one under way has read is the only one   *)
(* that works (Orderly).  A pair of registration and user that was let go is    *)
(* taken back by whoever makes a row of it.                                     *)

Token      == [id : Nat, of : Client, session : Nat]
Rotating   == [pc : {"rotate"}, token : Token]
SigningOut == [pc : {"blacklist", "device"}, token : Token, registration : Registration]
DeviceRow  == [chip : Chip, registration : Registration \cup {"anonymous"},
               owner : Client \cup {Nobody}]

SessionTypes ==
  /\ minted \in Nat /\ refresh \subseteq Token /\ access \subseteq Client
  /\ \A t \in refresh : t.session <= minted
  /\ \A s \in signedOut : s \in Nat /\ s <= minted
  /\ serving \in [SessionWorker -> {NoServing} \cup Rotating \cup SigningOut]
  /\ \A w \in SessionWorker : serving[w] # NoServing => serving[w].token.session <= minted

\* One call at a time; what it has read is the one token that works.
Orderly(s) ==
  /\ \A v, w \in Using(s) : v = w
  /\ \A a, b \in Live(s) : a = b
  /\ s \in signedOut => Live(s) = {}
  /\ \A w \in Using(s) : serving[w].pc \in {"rotate", "blacklist"} =>
       s \notin signedOut /\ \A a \in Live(s) : a = serving[w].token

TokenInv == SessionTypes /\ \A s \in Nat \ jostled : Orderly(s)

DeviceInv ==
  /\ device \subseteq DeviceRow /\ IsFiniteSet(device)
  /\ letGo \subseteq Registration \X Nat
  /\ SignedOutDeviceIsQuiet

USE SessionsAssumption

LEMMA SessionInvInit == SessionInit => TokenInv /\ DeviceInv
<1> SUFFICES ASSUME SessionInit PROVE TokenInv /\ DeviceInv
  OBVIOUS
<1>1. TokenInv
  BY DEF SessionInit, TokenInv, SessionTypes, Orderly, Using, Live, NoServing
<1>2. DeviceInv
  BY FS_EmptySet DEF SessionInit, DeviceInv, SignedOutDeviceIsQuiet
<1> QED BY <1>1, <1>2

\* A call in progress has its fields.
LEMMA ServingRows ==
  ASSUME SessionTypes, NEW w \in SessionWorker
  PROVE  /\ serving[w] = NoServing <=> serving[w].pc = "rest"
         /\ serving[w].pc = "rotate" => serving[w] \in Rotating
         /\ serving[w].pc \in {"blacklist", "device"} => serving[w] \in SigningOut
         /\ serving[w] # NoServing => serving[w].token \in Token
  BY DEF SessionTypes, NoServing, Rotating, SigningOut

\* A session that no call took up, and of which no token was minted, stays orderly.
LEMMA StaysOrderly ==
  ASSUME NEW s, Orderly(s), Live(s)' \subseteq Live(s), Using(s)' \subseteq Using(s),
         \A w \in Using(s)' : serving'[w] = serving[w],
         s \in signedOut' <=> s \in signedOut
  PROVE  Orderly(s)'
  BY DEF Orderly

\* Minting a token keeps the types.
LEMMA TypesAfterMint ==
  ASSUME SessionTypes, NEW new \in Token, new.session <= minted + 1, NEW u \in Client,
         minted' = minted + 1, refresh' = refresh \cup {new}, access' = access \cup {u},
         UNCHANGED signedOut, \A w \in SessionWorker : serving'[w] \in {serving[w], NoServing},
         serving' \in [SessionWorker -> {NoServing} \cup Rotating \cup SigningOut]
  PROVE  SessionTypes'
<1>1. minted' \in Nat /\ refresh' \subseteq Token /\ access' \subseteq Client
  BY DEF SessionTypes
<1>2. \A t \in refresh' : t.session <= minted'
  BY DEF SessionTypes, Token
<1>3. \A s \in signedOut' : s \in Nat /\ s <= minted'
  BY DEF SessionTypes
<1>4. ASSUME NEW w \in SessionWorker, serving'[w] # NoServing
      PROVE  serving'[w].token.session <= minted'
  <2>1. serving'[w] = serving[w] /\ serving[w].token \in Token
    BY <1>4, ServingRows
  <2> QED BY <1>4, <2>1 DEF SessionTypes, Token
<1> QED BY <1>1, <1>2, <1>3, <1>4 DEF SessionTypes

\* A new session has the token it starts with.
LEMMA NewSession ==
  ASSUME TokenInv, NEW u \in Client, Mint(u, minted + 1),
         UNCHANGED <<blacklist, serving, signedOut, jostled>>
  PROVE  TokenInv'
<1> PICK m \in Nat : m = minted + 1
  BY DEF TokenInv, SessionTypes
<1> DEFINE new == [id |-> m, of |-> u, session |-> m]
<1>1. /\ minted' = minted + 1 /\ refresh' = refresh \cup {new} /\ access' = access \cup {u}
      /\ new \in Token /\ new.session = m /\ m <= minted + 1 /\ minted \in Nat
  BY DEF Mint, TokenInv, SessionTypes, Token
<1> HIDE DEF new
<1>2. SessionTypes'
  <2>1. serving' \in [SessionWorker -> {NoServing} \cup Rotating \cup SigningOut]
    BY DEF TokenInv, SessionTypes
  <2> QED BY <1>1, <2>1, TypesAfterMint DEF TokenInv
<1>3. ASSUME NEW s \in Nat \ jostled, s # m PROVE Orderly(s)'
  <2>1. Live(s)' = Live(s) /\ Using(s)' = Using(s)
    BY <1>1, <1>3 DEF Live, Using
  <2> QED BY <1>3, <2>1, StaysOrderly DEF TokenInv
<1>4. /\ \A t \in refresh : t.session # m
      /\ m \notin signedOut
      /\ \A w \in SessionWorker : serving[w] # NoServing => serving[w].token.session # m
  BY <1>1, ServingRows DEF TokenInv, SessionTypes, Token
<1>5. Orderly(m)'
  <2>1. Using(m)' = {}
    BY <1>4, ServingRows DEF TokenInv, Using
  <2>2. Live(m)' \subseteq {new}
    BY <1>1, <1>4 DEF Live
  <2> QED BY <1>4, <2>1, <2>2 DEF Orderly
<1> QED BY <1>2, <1>3, <1>5 DEF TokenInv

\* A call begins with a token that works.
LEMMA CallBegins ==
  ASSUME TokenInv, NEW w \in SessionWorker, NEW t \in refresh, t.id \notin blacklist,
         NEW served \in Rotating \cup SigningOut, served.token = t, served.pc \in {"rotate", "blacklist"},
         Serve(w, t, served), UNCHANGED <<refresh, access, blacklist, minted, signedOut>>
  PROVE  TokenInv'
<1>1. /\ serving[w] = NoServing /\ serving' = [serving EXCEPT ![w] = served] /\ serving'[w] = served
      /\ jostled' = IF Using(t.session) # {} THEN jostled \cup {t.session} ELSE jostled
      /\ t \in Token
  BY DEF Serve, TokenInv, SessionTypes
<1>2. SessionTypes'
  BY <1>1 DEF TokenInv, SessionTypes, Token
<1>3. \A v \in SessionWorker : v # w => serving'[v] = serving[v]
  BY <1>1 DEF TokenInv, SessionTypes
<1>4. w \notin Using(t.session) /\ \A s : Using(s)' \subseteq Using(s) \cup {w}
  BY <1>1, <1>3 DEF Using, NoServing
<1>5. ASSUME NEW s \in Nat \ jostled, s # t.session PROVE Orderly(s)'
  <2>1. Live(s)' = Live(s) /\ Using(s)' \subseteq Using(s) /\ w \notin Using(s)'
    BY <1>1, <1>3, <1>5 DEF Live, Using
  <2>2. \A v \in Using(s)' : serving'[v] = serving[v]
    BY <1>3, <2>1 DEF Using
  <2> QED BY <1>5, <2>1, <2>2, StaysOrderly DEF TokenInv
<1>6. ASSUME t.session \notin jostled' PROVE Orderly(t.session)'
  <2>1. Using(t.session) = {} /\ Orderly(t.session)
    BY <1>1, <1>6 DEF TokenInv, Token
  <2>2. t \in Live(t.session) /\ Live(t.session)' = Live(t.session)
    BY DEF Live
  <2>3. Using(t.session)' \subseteq {w}
    BY <1>4, <2>1
  <2> QED BY <1>1, <2>1, <2>2, <2>3 DEF Orderly
<1>7. jostled \subseteq jostled'
  BY <1>1
<1> QED BY <1>2, <1>5, <1>6, <1>7 DEF TokenInv

LEMMA RotateInv ==
  ASSUME TokenInv, NEW w \in SessionWorker, Rotate(w)
  PROVE  TokenInv'
<1> PICK t \in Token : t = serving[w].token
  BY ServingRows DEF Rotate, TokenInv, NoServing
<1> PICK s \in Nat : s = t.session
  BY DEF Token
<1> DEFINE new == [id |-> minted + 1, of |-> t.of, session |-> s]
<1>1. /\ minted' = minted + 1 /\ refresh' = refresh \cup {new} /\ access' = access \cup {t.of}
      /\ new \in Token /\ new.session = s /\ t.of \in Client /\ minted \in Nat /\ s <= minted
      /\ blacklist' = blacklist \cup {t.id} /\ serving' = [serving EXCEPT ![w] = NoServing]
      /\ serving[w].pc = "rotate" /\ UNCHANGED <<signedOut, jostled>>
  BY DEF Rotate, Mint, Answer, TokenInv, SessionTypes, Token, NoServing
<1> HIDE DEF new
<1>2. SessionTypes'
  <2>1. /\ serving' \in [SessionWorker -> {NoServing} \cup Rotating \cup SigningOut]
        /\ \A v \in SessionWorker : serving'[v] \in {serving[v], NoServing}
    BY <1>1 DEF TokenInv, SessionTypes
  <2>2. new.session <= minted + 1
    BY <1>1
  <2> QED BY <1>1, <2>1, <2>2, TypesAfterMint DEF TokenInv
<1>3. /\ serving'[w] = NoServing /\ w \in Using(s)
      /\ \A v \in SessionWorker : v # w => serving'[v] = serving[v]
      /\ \A x : w \notin Using(x)'
  BY <1>1 DEF TokenInv, SessionTypes, Using, NoServing
<1>4. ASSUME NEW x \in Nat \ jostled, x # s PROVE Orderly(x)'
  <2>1. Live(x)' \subseteq Live(x) /\ Using(x)' \subseteq Using(x)
    BY <1>1, <1>3, <1>4 DEF Live, Using
  <2>2. \A v \in Using(x)' : serving'[v] = serving[v]
    BY <1>3 DEF Using
  <2> QED BY <1>1, <1>4, <2>1, <2>2, StaysOrderly DEF TokenInv
<1>5. ASSUME s \notin jostled PROVE Orderly(s)'
  <2>1. /\ Orderly(s) /\ s \notin signedOut /\ \A a \in Live(s) : a = t
        /\ \A v \in Using(s) : v = w
    BY <1>1, <1>3, <1>5 DEF TokenInv, Orderly
  <2>2. Using(s)' = {}
    BY <1>3, <2>1 DEF Using
  <2>3. Live(s)' \subseteq {new}
    BY <1>1, <2>1 DEF Live
  <2> QED BY <1>1, <2>1, <2>2, <2>3 DEF Orderly
<1> QED BY <1>1, <1>2, <1>4, <1>5 DEF TokenInv

\* A call that mints nothing goes on or ends; it may refuse its token from now on.
LEMMA CallGoesOn ==
  ASSUME TokenInv, NEW w \in SessionWorker, serving[w] # NoServing,
         UNCHANGED <<refresh, access, minted, jostled>>,
         \/ serving' = [serving EXCEPT ![w] = NoServing] /\ UNCHANGED signedOut
         \/ /\ serving[w].pc = "blacklist" /\ serving' = [serving EXCEPT ![w].pc = "device"]
            /\ signedOut' = signedOut \cup {serving[w].token.session}
            /\ serving[w].token.id \in blacklist',
         blacklist \subseteq blacklist'
  PROVE  TokenInv'
<1> PICK t \in Token : t = serving[w].token
  BY ServingRows DEF TokenInv
<1> PICK s \in Nat : s = t.session
  BY DEF Token
<1>1. SessionTypes'
  <2>1. CASE serving' = [serving EXCEPT ![w] = NoServing] /\ UNCHANGED signedOut
    BY <2>1 DEF TokenInv, SessionTypes
  <2>2. CASE /\ serving[w].pc = "blacklist" /\ serving' = [serving EXCEPT ![w].pc = "device"]
             /\ signedOut' = signedOut \cup {serving[w].token.session}
    <3>1. serving[w] \in SigningOut
      BY <2>2, ServingRows DEF TokenInv
    <3>2. [serving[w] EXCEPT !.pc = "device"] \in SigningOut
           /\ [serving[w] EXCEPT !.pc = "device"].token = t
      BY <3>1 DEF SigningOut
    <3> QED BY <2>2, <3>2 DEF TokenInv, SessionTypes, NoServing
  <2> QED BY <2>1, <2>2
<1>2. /\ w \in Using(s) /\ \A v \in SessionWorker : v # w => serving'[v] = serving[v]
      /\ w \in Using(s)' => serving'[w].pc = "device" /\ serving'[w].token = t
      /\ \A x : w \in Using(x)' => x = s
  <2>1. w \in Using(s) /\ \A v \in SessionWorker : v # w => serving'[v] = serving[v]
    BY ServingRows DEF TokenInv, SessionTypes, Using
  <2>2. \/ serving'[w] = NoServing
        \/ serving[w] \in SigningOut /\ serving'[w] = [serving[w] EXCEPT !.pc = "device"]
    BY ServingRows DEF TokenInv, SessionTypes
  <2>3. \/ serving'[w].pc = "rest"
        \/ serving'[w].pc = "device" /\ serving'[w].token = t
    BY <2>2 DEF SigningOut, NoServing
  <2> QED BY <2>1, <2>3 DEF Using
<1>3. \A x : Live(x)' \subseteq Live(x) /\ Using(x)' \subseteq Using(x)
  BY <1>2 DEF Live, Using
<1>4. ASSUME NEW x \in Nat \ jostled, x # s PROVE Orderly(x)'
  <2>1. \A v \in Using(x)' : serving'[v] = serving[v]
    BY <1>2, <1>4 DEF Using
  <2> QED BY <1>3, <1>4, <2>1, StaysOrderly DEF TokenInv
<1>5. ASSUME s \notin jostled PROVE Orderly(s)'
  <2>1. Orderly(s) /\ \A v \in Using(s) : v = w
    BY <1>2, <1>5 DEF TokenInv, Orderly
  <2>2. s \in signedOut' => Live(s)' = {}
    <3>1. CASE UNCHANGED signedOut
      BY <1>3, <2>1, <3>1 DEF Orderly
    <3>2. CASE serving[w].pc = "blacklist" /\ t.id \in blacklist'
      BY <1>2, <1>3, <2>1, <3>2 DEF Orderly, Live
    <3> QED BY <3>1, <3>2
  <2>3. \A v \in Using(s)' : serving'[v].pc = "device"
    BY <1>2, <1>3, <2>1
  <2> QED BY <1>3, <2>1, <2>2, <2>3 DEF Orderly
<1> QED BY <1>1, <1>4, <1>5 DEF TokenInv

LEMMA TokenInvNext == TokenInv /\ [SessionNext]_sessionVars => TokenInv'
<1> SUFFICES ASSUME TokenInv, [SessionNext]_sessionVars PROVE TokenInv'
  OBVIOUS
<1>1. ASSUME NEW u \in Client, NEW m \in Mailbox, SignUp(u, m) PROVE TokenInv'
  BY <1>1, NewSession DEF SignUp
<1>2. ASSUME NEW u \in Client, NEW asAdmin \in BOOLEAN, SignIn(u, asAdmin) PROVE TokenInv'
  BY <1>2, NewSession DEF SignIn
<1>3. ASSUME UNCHANGED <<minted, refresh, blacklist, signedOut, serving, jostled>>,
             access' \subseteq Client
      PROVE  TokenInv'
  BY <1>3 DEF TokenInv, SessionTypes, Orderly, Live, Using
<1>4. ASSUME NEW u \in Client, \/ SetRole(u) \/ Disable(u) \/ ExpireAccess(u)
                               \/ \E m \in Mailbox : SignUpGuest(u, m) \/ SaveClient(u, m)
      PROVE  TokenInv'
  <2>1. access' \subseteq Client
    BY <1>4 DEF TokenInv, SessionTypes, SetRole, Disable, ExpireAccess, SignUpGuest, SaveClient
  <2> QED BY <1>3, <1>4, <2>1 DEF SetRole, Disable, ExpireAccess, SignUpGuest, SaveClient
<1>5. ASSUME NEW w \in SessionWorker, NEW t \in refresh, BeginRefresh(w, t) PROVE TokenInv'
  <2> DEFINE served == [pc |-> "rotate", token |-> t]
  <2>1. /\ served \in Rotating /\ served.token = t /\ served.pc = "rotate" /\ Serve(w, t, served)
        /\ t.id \notin blacklist /\ UNCHANGED <<refresh, access, blacklist, minted, signedOut>>
    BY <1>5 DEF BeginRefresh, Rotating, TokenInv, SessionTypes
  <2> HIDE DEF served
  <2> QED BY <2>1, CallBegins
<1>6. ASSUME NEW w \in SessionWorker, NEW t \in refresh, NEW u \in Client, NEW r \in Registration,
             BeginSignOut(w, u, t, r)
      PROVE  TokenInv'
  <2> DEFINE served == [pc |-> "blacklist", token |-> t, registration |-> r]
  <2>1. /\ served \in SigningOut /\ served.token = t /\ served.pc = "blacklist" /\ Serve(w, t, served)
        /\ t.id \notin blacklist /\ UNCHANGED <<refresh, access, blacklist, minted, signedOut>>
    BY <1>6 DEF BeginSignOut, SigningOut, TokenInv, SessionTypes
  <2> HIDE DEF served
  <2> QED BY <2>1, CallBegins
<1>7. ASSUME NEW w \in SessionWorker, RotateInVain(w) \/ SaveBlacklist(w) \/ DropDevice(w)
      PROVE  TokenInv'
  <2>1. serving[w] # NoServing /\ blacklist \subseteq blacklist'
        /\ UNCHANGED <<refresh, access, minted, jostled>>
    BY <1>7 DEF RotateInVain, SaveBlacklist, DropDevice, NoServing
  <2>2. CASE RotateInVain(w) \/ DropDevice(w)
    BY <2>1, <2>2, CallGoesOn DEF RotateInVain, DropDevice, Answer
  <2>3. CASE SaveBlacklist(w)
    BY <2>1, <2>3, CallGoesOn DEF SaveBlacklist
  <2> QED BY <1>7, <2>2, <2>3
<1>8. ASSUME NEW t \in refresh, ExpireToken(t) PROVE TokenInv'
  <2>1. refresh' \subseteq refresh
        /\ UNCHANGED <<minted, access, blacklist, signedOut, serving, jostled>>
    BY <1>8 DEF ExpireToken
  <2>2. SessionTypes'
    BY <2>1 DEF TokenInv, SessionTypes
  <2>3. ASSUME NEW s \in Nat \ jostled PROVE Orderly(s)'
    BY <2>1, StaysOrderly DEF TokenInv, Live, Using
  <2> QED BY <2>1, <2>2, <2>3 DEF TokenInv
<1>9. ASSUME NEW c \in Chip,
             \/ \E r \in Registration : AdoptDevice(c, r)
             \/ \E r \in Registration \cup {"anonymous"}, u \in Client \cup {Nobody} :
                  AddDevice(c, r, u)
      PROVE  TokenInv'
  <2>1. UNCHANGED <<minted, refresh, blacklist, signedOut, serving, jostled, access>>
    BY <1>9 DEF AdoptDevice, AddDevice
  <2>2. access' \subseteq Client
    BY <2>1 DEF TokenInv, SessionTypes
  <2> QED BY <1>3, <2>1, <2>2
<1>10. CASE UNCHANGED sessionVars
  <2>1. access' \subseteq Client
    BY <1>10 DEF sessionVars, TokenInv, SessionTypes
  <2> QED BY <1>3, <1>10, <2>1 DEF sessionVars
<1> QED BY <1>1, <1>2, <1>4, <1>5, <1>6, <1>7, <1>8, <1>9, <1>10, RotateInv DEF SessionNext

\* Where the rows of a pair are the same as before, there is not one of them now.
LEMMA StaysQuiet ==
  ASSUME DeviceInv, NEW p \in letGo, RowsOf(p[1], p[2])' = RowsOf(p[1], p[2])
  PROVE  Cardinality(RowsOf(p[1], p[2])') # 1
  BY DEF DeviceInv, SignedOutDeviceIsQuiet

LEMMA DropDeviceInv ==
  ASSUME SessionTypes, DeviceInv, NEW w \in SessionWorker, DropDevice(w)
  PROVE  DeviceInv'
<1> PICK r \in Registration : r = serving[w].registration
  BY ServingRows DEF DropDevice, SigningOut
<1> PICK u \in Client : u = serving[w].token.of
  BY ServingRows DEF DropDevice, SigningOut, Token
<1>1. device' = device \ Removed(r, u) /\ letGo' = letGo \cup {<<r, u>>}
  BY DEF DropDevice
<1>2. device' \subseteq DeviceRow /\ IsFiniteSet(device')
  BY <1>1, FS_Subset DEF DeviceInv
<1>3. letGo' \subseteq Registration \X Nat
  BY <1>1 DEF DeviceInv, Client
<1>4. ASSUME NEW p \in letGo, p # <<r, u>> PROVE Cardinality(RowsOf(p[1], p[2])') # 1
  <2>1. p[1] # r \/ p[2] # u
    BY <1>4 DEF DeviceInv
  <2>2. RowsOf(p[1], p[2])' = RowsOf(p[1], p[2])
    BY <1>1, <2>1 DEF RowsOf, Removed
  <2> QED BY <2>2, StaysQuiet
<1>5. Cardinality(RowsOf(r, u)') # 1
  <2>1. RowsOf(r, u)' = RowsOf(r, u) \ Removed(r, u)
    BY <1>1 DEF RowsOf
  <2>2. CASE Cardinality(RowsOf(r, u)) = 1
    <3>1. RowsOf(r, u)' = {}
      BY <2>1, <2>2 DEF Removed
    <3> QED BY <3>1, FS_EmptySet
  <2>3. CASE Cardinality(RowsOf(r, u)) # 1
    <3>1. RowsOf(r, u)' = RowsOf(r, u)
      BY <2>1, <2>3 DEF Removed
    <3> QED BY <2>3, <3>1
  <2> QED BY <2>2, <2>3
<1>6. SignedOutDeviceIsQuiet'
  <2> SUFFICES ASSUME NEW p \in letGo' PROVE Cardinality(RowsOf(p[1], p[2])') # 1
    BY DEF SignedOutDeviceIsQuiet
  <2>1. CASE p = <<r, u>>
    BY <1>5, <2>1
  <2>2. CASE p # <<r, u>>
    BY <1>1, <1>4, <2>2
  <2> QED BY <2>1, <2>2
<1> QED BY <1>2, <1>3, <1>6 DEF DeviceInv

\* A row that takes the place of one without a registration, or of none, claims its pair.
LEMMA NewDeviceInv ==
  ASSUME DeviceInv, NEW d \in DeviceRow, NEW S \in SUBSET device,
         \A x \in S : x.registration = "anonymous",
         device' = {d} \cup (device \ S), letGo' = letGo \ {<<d.registration, d.owner>>}
  PROVE  DeviceInv'
<1>1. device' \subseteq DeviceRow /\ letGo' \subseteq Registration \X Nat
  BY DEF DeviceInv
<1>2. IsFiniteSet(device')
  <2>1. IsFiniteSet(device \ S)
    BY FS_Subset DEF DeviceInv
  <2>2. device' = (device \ S) \cup {d}
    OBVIOUS
  <2> QED BY <2>1, <2>2, FS_AddElement
<1>3. ASSUME NEW p \in letGo' PROVE Cardinality(RowsOf(p[1], p[2])') # 1
  <2>1. p \in letGo /\ p[1] # "anonymous" /\ ~(d.registration = p[1] /\ d.owner = p[2])
    BY DEF DeviceInv
  <2>2. RowsOf(p[1], p[2])' = RowsOf(p[1], p[2])
    BY <2>1 DEF RowsOf
  <2> QED BY <2>1, <2>2, StaysQuiet
<1> QED BY <1>1, <1>2, <1>3 DEF DeviceInv, SignedOutDeviceIsQuiet

LEMMA AdoptDeviceInv ==
  ASSUME DeviceInv, NEW c \in Chip, NEW r \in Registration, AdoptDevice(c, r)
  PROVE  DeviceInv'
<1> DEFINE rows == {d \in device : d.chip = c}
<1>1. PICK d : rows = {d}
  BY FS_Singleton, FS_Subset DEF AdoptDevice, DeviceInv
<1> DEFINE new == [d EXCEPT !.registration = r]
<1>2. /\ d \in device /\ d \in DeviceRow /\ d.registration = "anonymous"
      /\ device' = {new} \cup (device \ {d}) /\ letGo' = letGo \ {<<r, d.owner>>}
  BY <1>1 DEF AdoptDevice, Claim, DeviceInv
<1>3. new \in DeviceRow /\ new.registration = r /\ new.owner = d.owner
  BY <1>2 DEF DeviceRow
<1> HIDE DEF new, rows
<1> QED BY <1>2, <1>3, NewDeviceInv

LEMMA AddDeviceInv ==
  ASSUME DeviceInv, NEW c \in Chip, NEW r \in Registration \cup {"anonymous"},
         NEW u \in Client \cup {Nobody}, AddDevice(c, r, u)
  PROVE  DeviceInv'
<1> DEFINE new == [chip |-> c, registration |-> r, owner |-> u]
<1>1. /\ new \in DeviceRow /\ new.registration = r /\ new.owner = u
      /\ device' = device \cup {new} /\ letGo' = letGo \ {<<r, u>>}
  BY DEF DeviceRow, AddDevice, Claim
<1> HIDE DEF new
<1> PICK S \in SUBSET device : S = {}
  OBVIOUS
<1>2. device' = {new} \cup (device \ S) /\ \A x \in S : x.registration = "anonymous"
  BY <1>1
<1>3. letGo' = letGo \ {<<new.registration, new.owner>>}
  BY <1>1
<1> QED BY <1>1, <1>2, <1>3, NewDeviceInv

LEMMA DeviceInvNext == SessionTypes /\ DeviceInv /\ [SessionNext]_sessionVars => DeviceInv'
<1> SUFFICES ASSUME SessionTypes, DeviceInv, [SessionNext]_sessionVars PROVE DeviceInv'
  OBVIOUS
<1>1. ASSUME UNCHANGED <<device, letGo>> PROVE DeviceInv'
  BY <1>1 DEF DeviceInv, SignedOutDeviceIsQuiet, RowsOf
<1>2. ASSUME NEW u \in Client,
             \/ SetRole(u) \/ Disable(u) \/ ExpireAccess(u)
             \/ \E m \in Mailbox : SignUp(u, m) \/ SignUpGuest(u, m) \/ SaveClient(u, m)
             \/ \E asAdmin \in BOOLEAN : SignIn(u, asAdmin)
      PROVE  DeviceInv'
  BY <1>1, <1>2 DEF SetRole, Disable, ExpireAccess, SignUp, SignUpGuest, SaveClient, SignIn
<1>3. ASSUME NEW w \in SessionWorker,
             \/ Rotate(w) \/ RotateInVain(w) \/ SaveBlacklist(w)
             \/ \E t \in refresh : \/ BeginRefresh(w, t)
                                   \/ \E u \in Client, r \in Registration : BeginSignOut(w, u, t, r)
      PROVE  DeviceInv'
  BY <1>1, <1>3 DEF Rotate, RotateInVain, SaveBlacklist, BeginRefresh, BeginSignOut
<1>4. ASSUME NEW t \in refresh, ExpireToken(t) PROVE DeviceInv'
  BY <1>1, <1>4 DEF ExpireToken
<1>5. CASE UNCHANGED sessionVars
  BY <1>1, <1>5 DEF sessionVars
<1> QED BY <1>2, <1>3, <1>4, <1>5, DropDeviceInv, AdoptDeviceInv, AddDeviceInv DEF SessionNext

\* Of a session whose calls come one after the other at most one refresh token works, and none
\* once it was signed out; and a device that was signed out is told nothing more.
THEOREM SessionsStaySound == SessionSpec => []SessionsSound
<1>1. TokenInv => SerialOneTokenPerSession
  <2> SUFFICES ASSUME TokenInv, NEW s \in 1..minted \ jostled
               PROVE  /\ Cardinality(Live(s)) <= 1
                      /\ s \in signedOut => Live(s) = {}
    BY DEF SerialOneTokenPerSession
  <2>1. Orderly(s)
    BY DEF TokenInv, SessionTypes
  <2>2. CASE Live(s) = {}
    BY <2>2, FS_EmptySet
  <2>3. CASE Live(s) # {}
    <3>1. PICK a : Live(s) = {a}
      BY <2>1, <2>3 DEF Orderly
    <3>2. Cardinality(Live(s)) = 1
      BY <3>1, FS_Singleton
    <3> QED BY <2>1, <3>2 DEF Orderly
  <2> QED BY <2>2, <2>3
<1>3. TokenInv /\ DeviceInv => SessionsSound
  BY <1>1 DEF SessionsSound, DeviceInv
<1>4. TokenInv => SessionTypes
  BY DEF TokenInv
<1> QED BY <1>3, <1>4, SessionInvInit, TokenInvNext, DeviceInvNext, PTL DEF SessionSpec

--------------------------------------------------------------------------------
(* That what is left of a ticket adds up and the event outlasts its tickets,    *)
(* for any tickets, workers, quantities and dates.                              *)
(*                                                                              *)
(* An order, and the task at work on it, are for a row that is there.  A ticket *)
(* that outlasts its event has a signal coming that will move the event far     *)
(* enough: the signal compares with the event it read, which is the one there   *)
(* unless that is noted as stale.                                               *)

TicketRow  == [here : {TRUE}, available : Int, initial : Int, expiry : Nat, deleted : BOOLEAN]
Saving     == [pc : {"save"}, of : TicketClass, seen : {NoTicket} \cup TicketRow, eventSeen : Nat,
               row : TicketRow]
Signalling == [pc : {"signal"}, expiry : Nat, eventSeen : Nat]
Deleting   == [pc : {"deleted"}, expiry : Nat]
SavingEvent == [pc : {"event"}, eventSeen : Nat]
AtTask     == [pc : {"task"}, of : TicketClass, available : Int, expiry : Nat, eventSeen : Nat]
AtTill     == {NoTill} \cup Saving \cup Deleting \cup Signalling \cup SavingEvent \cup AtTask

ShelfTypes ==
  /\ shelf \in [TicketClass -> {NoTicket} \cup TicketRow]
  /\ till \in [TillWorker -> AtTill]
  /\ eventExpiry \in Nat /\ staleExpiry \in BOOLEAN
  /\ ordered \in [TicketClass -> Nat] /\ madeOf \in [TicketClass -> Nat]
  /\ putOnSale \in [TicketClass -> Int]

\* Orders are for tickets that are there, and what is left of one is what it had less its e-tickets.
TicketOK(t) ==
  /\ ordered[t] > 0 => shelf[t].here
  /\ \A w \in TillWorker : till[w].pc = "task" /\ till[w].of = t => shelf[t].here
  /\ shelf[t].here /\ t \notin staleCount /\ shelf[t].available > 0 =>
       shelf[t].available = putOnSale[t] - madeOf[t]

Covered(t) ==
  OnShelf(t) => \/ shelf[t].expiry <= eventExpiry
                \/ \E w \in TillWorker : till[w].pc = "signal" /\ till[w].expiry >= shelf[t].expiry

ShelfInv ==
  /\ ShelfTypes
  /\ \A t \in TicketClass : TicketOK(t)
  /\ ~staleExpiry => \A t \in TicketClass : Covered(t)

USE ShelfAssumption

\* Nothing is on the shelf, and nobody is at a till.
LEMMA ShelfInvInit == ShelfInit => ShelfInv
<1> SUFFICES ASSUME ShelfInit PROVE ShelfInv
  OBVIOUS
<1>1. ShelfTypes
  <2>1. shelf \in [TicketClass -> {NoTicket} \cup TicketRow] /\ till \in [TillWorker -> AtTill]
    BY DEF ShelfInit, AtTill
  <2>2. eventExpiry \in Nat /\ staleExpiry \in BOOLEAN
    BY DEF ShelfInit
  <2>3. /\ ordered \in [TicketClass -> Nat] /\ madeOf \in [TicketClass -> Nat]
        /\ putOnSale \in [TicketClass -> Int]
    BY DEF ShelfInit
  <2> QED BY <2>1, <2>2, <2>3 DEF ShelfTypes
<1>2. \A t \in TicketClass : TicketOK(t) /\ Covered(t)
  BY DEF ShelfInit, TicketOK, Covered, OnShelf, NoTicket, NoTill
<1> QED BY <1>1, <1>2 DEF ShelfInv

\* What is on the shelf, and at a till.
LEMMA ShelfRows ==
  ASSUME ShelfTypes
  PROVE  /\ \A t \in TicketClass : shelf[t].here <=> shelf[t] \in TicketRow
         /\ \A t \in TicketClass : shelf[t] \in TicketRow =>
              shelf[t].available \in Int /\ shelf[t].initial \in Int /\ shelf[t].expiry \in Nat
         /\ \A w \in TillWorker : /\ till[w].pc \in {"free", "save", "deleted", "signal", "event", "task"}
                                  /\ till[w].pc = "save" => till[w] \in Saving
                                  /\ till[w].pc = "deleted" => till[w] \in Deleting
                                  /\ till[w].pc = "signal" => till[w] \in Signalling
                                  /\ till[w].pc = "event" => till[w] \in SavingEvent
                                  /\ till[w].pc = "task" => till[w] \in AtTask
<1>1. ~NoTicket.here /\ \A r \in TicketRow : r.here
  BY DEF NoTicket, TicketRow
<1>2. \A t \in TicketClass : shelf[t] = NoTicket \/ shelf[t] \in TicketRow
  BY DEF ShelfTypes
<1>3. \A t \in TicketClass : shelf[t].here <=> shelf[t] \in TicketRow
  BY <1>1, <1>2, Zenon
<1>4. \A w \in TillWorker : till[w] \in AtTill
  BY DEF ShelfTypes
<1>5. ASSUME NEW j \in AtTill
      PROVE  /\ j.pc \in {"free", "save", "deleted", "signal", "event", "task"}
             /\ j.pc = "save" => j \in Saving
             /\ j.pc = "deleted" => j \in Deleting
             /\ j.pc = "signal" => j \in Signalling
             /\ j.pc = "event" => j \in SavingEvent
             /\ j.pc = "task" => j \in AtTask
  BY DEF AtTill, NoTill, Saving, Deleting, Signalling, SavingEvent, AtTask
<1>6. \A r \in TicketRow : r.available \in Int /\ r.initial \in Int /\ r.expiry \in Nat
  BY DEF TicketRow
<1> QED BY <1>3, <1>4, <1>5, <1>6

\* A worker comes to a free till: for a row that is there, if it is for an order.
LEMMA ComesToTill ==
  ASSUME ShelfInv, NEW w \in TillWorker, till[w] = NoTill, NEW job \in AtTill,
         till' = [till EXCEPT ![w] = job],
         job.pc = "task" => shelf[job.of].here,
         ordered' \in [TicketClass -> Nat], \A t \in TicketClass : ordered'[t] > 0 => ordered[t] > 0,
         UNCHANGED <<shelf, eventExpiry, madeOf, putOnSale, staleCount, staleExpiry>>
  PROVE  ShelfInv'
<1>1. /\ till' \in [TillWorker -> AtTill] /\ till'[w] = job
      /\ \A v \in TillWorker : v # w => till'[v] = till[v]
      /\ till[w].pc = "free"
  BY DEF ShelfInv, ShelfTypes, NoTill
<1>2. ShelfTypes'
  BY <1>1 DEF ShelfInv, ShelfTypes
<1>3. ASSUME NEW t \in TicketClass PROVE TicketOK(t)'
  <2>1. TicketOK(t)
    BY DEF ShelfInv
  <2> QED BY <1>1, <2>1 DEF TicketOK
<1>4. ASSUME NEW t \in TicketClass, Covered(t) PROVE Covered(t)'
  BY <1>1, <1>4 DEF Covered, OnShelf
<1> QED BY <1>2, <1>3, <1>4 DEF ShelfInv

\* A creation, an edit or a task reads a row: what it will save is a row, and a task's is there.
LEMMA BeginsInv ==
  ASSUME ShelfInv, NEW w \in TillWorker, NEW t \in TicketClass,
         \/ \E quantity \in OnSale, expiry \in Expiry : BeginCreate(w, t, quantity, expiry)
         \/ /\ OnShelf(t)
            /\ \E available \in OnSale \cup {shelf[t].available}, initial \in {0, shelf[t].initial},
                  expiry \in Expiry : BeginEdit(w, t, available, initial, expiry)
         \/ TakeOrder(w, t)
  PROVE  ShelfInv'
<1>0. /\ ordered \in [TicketClass -> Nat] /\ eventExpiry \in Nat
      /\ shelf[t].here <=> shelf[t] \in TicketRow
      /\ shelf[t] \in TicketRow => shelf[t].available \in Int /\ shelf[t].initial \in Int /\ shelf[t].expiry \in Nat
  BY ShelfRows DEF ShelfInv, ShelfTypes
<1>1. ASSUME NEW quantity \in OnSale, NEW expiry \in Expiry, BeginCreate(w, t, quantity, expiry)
      PROVE  ShelfInv'
  <2> DEFINE row == [here |-> TRUE, available |-> quantity, initial |-> 0, expiry |-> expiry,
                     deleted |-> FALSE]
             job == [pc |-> "save", of |-> t, seen |-> NoTicket, eventSeen |-> eventExpiry, row |-> row]
  <2>1. quantity \in Int /\ expiry \in Nat
    OBVIOUS
  <2>2. row \in TicketRow
    BY <2>1 DEF TicketRow
  <2> HIDE DEF row
  <2>3. job \in Saving /\ job.pc = "save"
    BY <1>0, <2>2 DEF Saving
  <2>4. /\ till[w] = NoTill /\ till' = [till EXCEPT ![w] = job]
        /\ UNCHANGED <<shelf, eventExpiry, ordered, madeOf, putOnSale, staleCount, staleExpiry>>
    BY <1>1 DEF BeginCreate, row
  <2> HIDE DEF job
  <2> QED BY <1>0, <2>3, <2>4, ComesToTill DEF AtTill
<1>2. ASSUME OnShelf(t), NEW available \in OnSale \cup {shelf[t].available},
             NEW initial \in {0, shelf[t].initial}, NEW expiry \in Expiry,
             BeginEdit(w, t, available, initial, expiry)
      PROVE  ShelfInv'
  <2>0. shelf[t] \in TicketRow
    BY <1>0, <1>2, Zenon DEF OnShelf
  <2>1. shelf[t] \in TicketRow /\ available \in Int /\ initial \in Int /\ expiry \in Nat
    <3> DEFINE r == shelf[t]
    <3>1. r.available \in Int /\ r.initial \in Int
      BY <1>0, <2>0
    <3>2. available \in OnSale \/ available = r.available
      OBVIOUS
    <3>3. initial = 0 \/ initial = r.initial
      OBVIOUS
    <3> HIDE DEF r
    <3>4. available \in Int
      BY <3>1, <3>2
    <3>5. initial \in Int
      BY <3>1, <3>3
    <3> QED BY <2>0, <3>4, <3>5
  <2>2. \A r \in TicketRow :
          [r EXCEPT !.available = available, !.initial = initial, !.expiry = expiry] \in TicketRow
    BY <2>1 DEF TicketRow
  <2>3. PICK row \in TicketRow : row = [shelf[t] EXCEPT !.available = available, !.initial = initial,
                                                        !.expiry = expiry]
    BY <2>1, <2>2, Zenon
  <2> DEFINE job == [pc |-> "save", of |-> t, seen |-> shelf[t], eventSeen |-> eventExpiry, row |-> row]
  <2>4. job \in Saving /\ job.pc = "save"
    BY <1>0, <2>1 DEF Saving
  <2>5. /\ till[w] = NoTill /\ till' = [till EXCEPT ![w] = job]
        /\ UNCHANGED <<shelf, eventExpiry, ordered, madeOf, putOnSale, staleCount, staleExpiry>>
    BY <1>2, <2>3, Zenon DEF BeginEdit
  <2> HIDE DEF job
  <2> QED BY <1>0, <2>4, <2>5, ComesToTill DEF AtTill
<1>3. CASE TakeOrder(w, t)
  <2> DEFINE job == [pc |-> "task", of |-> t, available |-> shelf[t].available,
                     expiry |-> shelf[t].expiry, eventSeen |-> eventExpiry]
  <2>1. /\ till[w] = NoTill /\ till' = [till EXCEPT ![w] = job]
        /\ ordered[t] > 0 /\ ordered' = [ordered EXCEPT ![t] = @ - 1]
        /\ UNCHANGED <<shelf, eventExpiry, madeOf, putOnSale, staleCount, staleExpiry>>
    BY <1>3 DEF TakeOrder
  <2>2. shelf[t].here /\ shelf[t] \in TicketRow
    BY <1>0, <2>1 DEF ShelfInv, TicketOK
  <2>3. job \in AtTask /\ job.pc = "task" /\ job.of = t
    BY <1>0, <2>2 DEF AtTask
  <2>4. ordered' \in [TicketClass -> Nat] /\ \A x \in TicketClass : ordered'[x] > 0 => ordered[x] > 0
    BY <1>0, <2>1
  <2> HIDE DEF job
  <2> QED BY <2>1, <2>2, <2>3, <2>4, ComesToTill DEF AtTill
<1> QED BY <1>1, <1>2, <1>3

\* A ticket is saved as it was read and edited: the signal it owes is there.
LEMMA SaveTicketInv ==
  ASSUME ShelfInv, NEW w \in TillWorker, SaveTicket(w)
  PROVE  ShelfInv'
<1>1. till[w].pc = "save" /\ till[w] \in Saving
  BY ShelfRows DEF SaveTicket, ShelfInv
<1>2. PICK t \in TicketClass : t = till[w].of
  BY <1>1 DEF Saving
<1>3. PICK row \in TicketRow : row = SavedTicket(till[w].seen, till[w].row) /\ row.available = till[w].row.available
  <2>1. till[w].row \in TicketRow
    BY <1>1 DEF Saving
  <2>2. ASSUME NEW new \in TicketRow, NEW i \in Int
        PROVE  [new EXCEPT !.initial = i] \in TicketRow /\ [new EXCEPT !.initial = i].available = new.available
    BY DEF TicketRow
  <2>3. ASSUME NEW new \in TicketRow PROVE new.initial \in Int /\ new.available \in Int
    BY DEF TicketRow
  <2>4. PICK i \in Int : i = IF till[w].seen.here THEN till[w].row.initial ELSE till[w].row.available
    BY <2>1, <2>3
  <2>5. SavedTicket(till[w].seen, till[w].row) = [till[w].row EXCEPT !.initial = i]
    BY <2>4 DEF SavedTicket
  <2> QED BY <2>1, <2>2, <2>5
<1> DEFINE job == [pc |-> "signal", expiry |-> row.expiry, eventSeen |-> till[w].eventSeen]
<1>4. /\ shelf' = [shelf EXCEPT ![t] = row]
      /\ putOnSale' = [putOnSale EXCEPT ![t] = madeOf[t] + row.available]
      /\ staleCount \subseteq staleCount'
      /\ till' = [till EXCEPT ![w] = job]
      /\ UNCHANGED <<eventExpiry, ordered, madeOf, staleExpiry>>
  BY <1>2, <1>3 DEF SaveTicket
<1>5. row.here /\ row.expiry \in Nat /\ row.available \in Int /\ till[w].eventSeen \in Nat
  BY <1>1 DEF TicketRow, Saving
<1>6. job \in Signalling /\ job.pc = "signal" /\ job.expiry = row.expiry
  BY <1>5 DEF Signalling
<1> HIDE DEF job
<1>7. /\ till' \in [TillWorker -> AtTill] /\ till'[w] = job
      /\ \A v \in TillWorker : v # w => till'[v] = till[v]
  BY <1>4, <1>6 DEF ShelfInv, ShelfTypes, AtTill
<1>8. /\ shelf' \in [TicketClass -> {NoTicket} \cup TicketRow] /\ shelf'[t] = row
      /\ \A x \in TicketClass : x # t => shelf'[x] = shelf[x]
  BY <1>4 DEF ShelfInv, ShelfTypes
<1>9. /\ putOnSale' \in [TicketClass -> Int] /\ putOnSale'[t] = madeOf[t] + row.available /\ madeOf[t] \in Nat
      /\ \A x \in TicketClass : x # t => putOnSale'[x] = putOnSale[x]
  BY <1>4, <1>5 DEF ShelfInv, ShelfTypes
<1>10. ShelfTypes'
  BY <1>4, <1>7, <1>8, <1>9 DEF ShelfInv, ShelfTypes
<1>11. ASSUME NEW x \in TicketClass PROVE TicketOK(x)'
  <2>1. TicketOK(x)
    BY DEF ShelfInv
  <2>2. shelf[x].here => shelf'[x].here
    BY <1>5, <1>8
  <2>3. (ordered'[x] > 0 => shelf'[x].here) /\ \A v \in TillWorker : till'[v].pc = "task" /\ till'[v].of = x => shelf'[x].here
    BY <1>4, <1>6, <1>7, <2>1, <2>2 DEF TicketOK
  <2>4. CASE x = t
    BY <1>4, <1>5, <1>8, <1>9, <2>3, <2>4 DEF TicketOK
  <2>5. CASE x # t
    BY <1>4, <1>8, <1>9, <2>1, <2>3, <2>5 DEF TicketOK
  <2> QED BY <2>4, <2>5
<1>12. ASSUME NEW x \in TicketClass, Covered(x) PROVE Covered(x)'
  <2>1. CASE x = t
    BY <1>5, <1>6, <1>7, <1>8, <2>1 DEF Covered
  <2>2. CASE x # t
    BY <1>1, <1>4, <1>7, <1>8, <1>12, <2>2 DEF Covered, OnShelf
  <2> QED BY <2>1, <2>2
<1> QED BY <1>4, <1>10, <1>11, <1>12 DEF ShelfInv

\* A worker leaves its till, and the event's expiry is what it makes it: not earlier, and late enough
\* for the ticket it signals, unless that is noticed.
LEMMA LeavesTill ==
  ASSUME ShelfTypes, NEW w \in TillWorker, till' = [till EXCEPT ![w] = NoTill],
         ~staleExpiry => \A t \in TicketClass : Covered(t),
         ~staleExpiry' => ~staleExpiry /\ eventExpiry <= eventExpiry',
         ~staleExpiry' /\ till[w].pc = "signal" => till[w].expiry <= eventExpiry',
         eventExpiry' \in Nat,
         \A t \in TicketClass : /\ shelf'[t].here <=> shelf[t].here
                                /\ shelf[t].here => /\ shelf'[t].deleted = shelf[t].deleted
                                                    /\ shelf'[t].expiry = shelf[t].expiry
  PROVE  /\ till' \in [TillWorker -> AtTill]
         /\ \A v \in TillWorker : till'[v].pc = "task" => till[v].pc = "task" /\ till'[v].of = till[v].of
         /\ ~staleExpiry' => \A t \in TicketClass : Covered(t)'
<1>1. /\ till' \in [TillWorker -> AtTill] /\ till'[w].pc = "free"
      /\ \A v \in TillWorker : v # w => till'[v] = till[v]
  BY DEF ShelfTypes, AtTill, NoTill
<1>2. ASSUME ~staleExpiry', NEW t \in TicketClass, OnShelf(t)' PROVE Covered(t)'
  <2>1. Covered(t) /\ OnShelf(t) /\ shelf'[t].expiry = shelf[t].expiry /\ shelf[t].expiry \in Nat
    BY <1>2, ShelfRows DEF OnShelf
  <2>2. CASE shelf[t].expiry <= eventExpiry
    BY <1>2, <2>1, <2>2 DEF Covered, ShelfTypes
  <2>3. ASSUME NEW v \in TillWorker, till[v].pc = "signal", till[v].expiry >= shelf[t].expiry
        PROVE  Covered(t)'
    <3>1. till[v].expiry \in Nat
      BY <2>3, ShelfRows DEF Signalling
    <3>2. CASE v = w
      BY <1>2, <2>1, <2>3, <3>1, <3>2 DEF Covered
    <3>3. CASE v # w
      BY <1>1, <2>1, <2>3, <3>3 DEF Covered
    <3> QED BY <3>2, <3>3
  <2> QED BY <2>1, <2>2, <2>3 DEF Covered
<1>3. ~staleExpiry' => \A t \in TicketClass : Covered(t)'
  BY <1>2 DEF Covered
<1> QED BY <1>1, <1>3

\* The event is saved, or a signal is done or cut off: each leaves the till.
LEMMA EventsInv ==
  ASSUME ShelfInv, NEW w \in TillWorker, Signal(w) \/ DieBeforeSignal(w) \/ SaveEvent(w)
  PROVE  ShelfInv'
<1>1. till' = [till EXCEPT ![w] = NoTill] /\ UNCHANGED <<shelf, ordered, madeOf, putOnSale, staleCount>>
  BY DEF Signal, DieBeforeSignal, SaveEvent
<1>2. /\ eventExpiry' \in Nat /\ staleExpiry' \in BOOLEAN
      /\ ~staleExpiry' => ~staleExpiry /\ eventExpiry <= eventExpiry'
      /\ ~staleExpiry' /\ till[w].pc = "signal" => till[w].expiry <= eventExpiry'
  <2>0. eventExpiry \in Nat /\ staleExpiry \in BOOLEAN
    BY DEF ShelfInv, ShelfTypes
  <2>1. CASE Signal(w)
    <3>1. till[w].pc = "signal" /\ till[w].expiry \in Nat /\ till[w].eventSeen \in Nat
      BY <2>1, ShelfRows DEF Signal, ShelfInv, Signalling
    <3>2. /\ eventExpiry' = IF till[w].expiry > till[w].eventSeen THEN till[w].expiry ELSE eventExpiry
          /\ staleExpiry' = (staleExpiry \/ till[w].eventSeen # eventExpiry)
      BY <2>1 DEF Signal, Stretch, Stretches
    <3>3. staleExpiry' \in BOOLEAN /\ (~staleExpiry' => ~staleExpiry /\ till[w].eventSeen = eventExpiry)
      BY <2>0, <3>2
    <3> QED BY <2>0, <3>1, <3>2, <3>3
  <2>2. CASE DieBeforeSignal(w)
    BY <2>0, <2>2 DEF DieBeforeSignal
  <2>3. CASE SaveEvent(w)
    <3>1. till[w].pc = "event" /\ till[w].eventSeen \in Nat
      BY <2>3, ShelfRows DEF SaveEvent, ShelfInv, SavingEvent
    <3>2. eventExpiry' = till[w].eventSeen /\ staleExpiry' = (staleExpiry \/ till[w].eventSeen # eventExpiry)
      BY <2>3 DEF SaveEvent
    <3>3. staleExpiry' \in BOOLEAN /\ (~staleExpiry' => ~staleExpiry /\ till[w].eventSeen = eventExpiry)
      BY <2>0, <3>2
    <3> QED BY <2>0, <3>1, <3>2, <3>3
  <2> QED BY <2>1, <2>2, <2>3
<1>3. /\ till' \in [TillWorker -> AtTill]
      /\ \A v \in TillWorker : till'[v].pc = "task" => till[v].pc = "task" /\ till'[v].of = till[v].of
      /\ ~staleExpiry' => \A t \in TicketClass : Covered(t)'
  BY <1>1, <1>2, LeavesTill DEF ShelfInv
<1>4. ShelfTypes'
  BY <1>1, <1>2, <1>3 DEF ShelfInv, ShelfTypes
<1>5. ASSUME NEW t \in TicketClass PROVE TicketOK(t)'
  <2>1. TicketOK(t)
    BY DEF ShelfInv
  <2> QED BY <1>1, <1>3, <2>1 DEF TicketOK
<1> QED BY <1>3, <1>4, <1>5 DEF ShelfInv

\* The task counts down from what it read; if that was stale, the ticket is noted.
LEMMA IssueOrderInv ==
  ASSUME ShelfInv, NEW w \in TillWorker, IssueOrder(w)
  PROVE  ShelfInv'
<1>1. /\ till[w].pc = "task" /\ till[w] \in AtTask /\ till[w].of \in TicketClass
      /\ till[w].available \in Int /\ till[w].expiry \in Nat /\ till[w].eventSeen \in Nat
  BY ShelfRows DEF IssueOrder, ShelfInv, AtTask
<1>2. PICK t \in TicketClass : t = till[w].of
  BY <1>1
<1>3. PICK n \in Int : n = Left(till[w].available)
  BY <1>1 DEF Left
<1>4. /\ shelf' = [shelf EXCEPT ![t].available = n]
      /\ madeOf' = [madeOf EXCEPT ![t] = @ + OrderSize]
      /\ staleCount' = (IF shelf[t].available = till[w].available THEN staleCount ELSE staleCount \cup {t})
      /\ till' = [till EXCEPT ![w] = NoTill] /\ UNCHANGED <<ordered, putOnSale>>
  BY <1>2, <1>3 DEF IssueOrder
<1>5. shelf[t].here /\ shelf[t] \in TicketRow
  BY <1>1, <1>2, ShelfRows DEF ShelfInv, TicketOK
<1>6. ASSUME NEW r \in TicketRow
      PROVE  LET after == [r EXCEPT !.available = n]
             IN /\ after \in TicketRow /\ after.available = n /\ after.expiry = r.expiry
                /\ after.deleted = r.deleted /\ after.here
  BY DEF TicketRow
<1>7. /\ shelf' \in [TicketClass -> {NoTicket} \cup TicketRow]
      /\ shelf'[t].here /\ shelf'[t].available = n
      /\ shelf'[t].deleted = shelf[t].deleted /\ shelf'[t].expiry = shelf[t].expiry
      /\ \A x \in TicketClass : x # t => shelf'[x] = shelf[x]
  <2>1. PICK row \in TicketRow : row = [shelf[t] EXCEPT !.available = n]
    BY <1>5, <1>6
  <2>2. shelf' = [shelf EXCEPT ![t] = row]
    BY <1>4, <2>1
  <2>3. row.here /\ row.available = n /\ row.deleted = shelf[t].deleted /\ row.expiry = shelf[t].expiry
    BY <1>5, <1>6, <2>1
  <2> QED BY <2>2, <2>3 DEF ShelfInv, ShelfTypes
<1>8. /\ eventExpiry' \in Nat /\ staleExpiry' \in BOOLEAN
      /\ ~staleExpiry' => ~staleExpiry /\ eventExpiry <= eventExpiry'
  <2>0. eventExpiry \in Nat /\ staleExpiry \in BOOLEAN
    BY DEF ShelfInv, ShelfTypes
  <2>1. /\ eventExpiry' = IF till[w].expiry > till[w].eventSeen THEN till[w].expiry ELSE eventExpiry
        /\ staleExpiry' = (staleExpiry \/ till[w].eventSeen # eventExpiry)
    BY DEF IssueOrder, Stretch, Stretches
  <2>2. staleExpiry' \in BOOLEAN /\ (~staleExpiry' => ~staleExpiry /\ till[w].eventSeen = eventExpiry)
    BY <2>0, <2>1
  <2> QED BY <1>1, <2>0, <2>1, <2>2
<1>9. /\ till' \in [TillWorker -> AtTill]
      /\ \A v \in TillWorker : till'[v].pc = "task" => till[v].pc = "task" /\ till'[v].of = till[v].of
      /\ ~staleExpiry' => \A x \in TicketClass : Covered(x)'
  <2>1. \A x \in TicketClass : /\ shelf'[x].here <=> shelf[x].here
                               /\ shelf[x].here => /\ shelf'[x].deleted = shelf[x].deleted
                                                   /\ shelf'[x].expiry = shelf[x].expiry
    BY <1>5, <1>7
  <2> QED BY <1>1, <1>4, <1>8, <2>1, LeavesTill DEF ShelfInv
<1>10. /\ madeOf' \in [TicketClass -> Nat] /\ madeOf'[t] = madeOf[t] + OrderSize
       /\ \A x \in TicketClass : x # t => madeOf'[x] = madeOf[x]
  BY <1>4 DEF ShelfInv, ShelfTypes
<1>11. ShelfTypes'
  BY <1>4, <1>7, <1>8, <1>9, <1>10 DEF ShelfInv, ShelfTypes
<1>12. ASSUME NEW x \in TicketClass PROVE TicketOK(x)'
  <2>1. TicketOK(x)
    BY DEF ShelfInv
  <2>2. (ordered'[x] > 0 => shelf'[x].here) /\ \A v \in TillWorker : till'[v].pc = "task" /\ till'[v].of = x => shelf'[x].here
    BY <1>4, <1>5, <1>7, <1>9, <2>1 DEF TicketOK
  <2>3. ASSUME x = t, t \notin staleCount', n > 0 PROVE n = putOnSale'[t] - madeOf'[t]
    <3>1. t \notin staleCount /\ shelf[t].available = till[w].available
      BY <1>4, <2>3
    <3>2. till[w].available > 0 /\ n = till[w].available - OrderSize
      BY <1>1, <1>3, <2>3 DEF Left
    <3>3. shelf[t].available = putOnSale[t] - madeOf[t] /\ putOnSale[t] \in Int /\ madeOf[t] \in Nat
      BY <1>5, <2>1, <2>3, <3>1, <3>2 DEF TicketOK, ShelfInv, ShelfTypes
    <3> QED BY <1>1, <1>4, <1>10, <3>1, <3>2, <3>3
  <2>4. CASE x = t
    BY <1>7, <2>2, <2>3, <2>4 DEF TicketOK
  <2>5. CASE x # t
    BY <1>4, <1>7, <1>10, <2>1, <2>2, <2>5 DEF TicketOK
  <2> QED BY <2>4, <2>5
<1> QED BY <1>9, <1>11, <1>12 DEF ShelfInv

\* A deletion leaves the row, and what is off the shelf need not be covered.
LEMMA DestroyTicketInv ==
  ASSUME ShelfInv, NEW w \in TillWorker, NEW t \in TicketClass, DestroyTicket(w, t)
  PROVE  ShelfInv'
<1>1. /\ shelf[t].here /\ shelf[t] \in TicketRow /\ shelf[t].expiry \in Nat
      /\ till[w] = NoTill /\ till[w].pc = "free"
      /\ shelf' = [shelf EXCEPT ![t].deleted = TRUE]
      /\ till' = [till EXCEPT ![w] = [pc |-> "deleted", expiry |-> shelf[t].expiry]]
      /\ UNCHANGED <<eventExpiry, ordered, madeOf, putOnSale, staleCount, staleExpiry>>
  BY ShelfRows DEF DestroyTicket, OnShelf, ShelfInv, NoTill
<1>2. ASSUME NEW r \in TicketRow
      PROVE  LET after == [r EXCEPT !.deleted = TRUE]
             IN after \in TicketRow /\ after.available = r.available /\ after.deleted /\ after.here
  BY DEF TicketRow
<1>3. PICK row \in TicketRow : /\ row = [shelf[t] EXCEPT !.deleted = TRUE]
                               /\ row.available = shelf[t].available /\ row.deleted /\ row.here
  BY <1>1, <1>2
<1>4. PICK job \in Deleting : /\ job = [pc |-> "deleted", expiry |-> shelf[t].expiry]
                              /\ job.pc = "deleted"
  <2>1. [pc |-> "deleted", expiry |-> shelf[t].expiry] \in Deleting
    BY <1>1 DEF Deleting
  <2> QED BY <2>1
<1>5. /\ shelf' \in [TicketClass -> {NoTicket} \cup TicketRow] /\ shelf'[t] = row
      /\ \A x \in TicketClass : x # t => shelf'[x] = shelf[x]
  BY <1>1, <1>3 DEF ShelfInv, ShelfTypes
<1>6. /\ till' \in [TillWorker -> AtTill] /\ till'[w] = job
      /\ \A v \in TillWorker : v # w => till'[v] = till[v]
  BY <1>1, <1>4 DEF ShelfInv, ShelfTypes, AtTill
<1>7. ShelfTypes'
  BY <1>1, <1>5, <1>6 DEF ShelfInv, ShelfTypes
<1>8. ASSUME NEW x \in TicketClass PROVE TicketOK(x)'
  <2>1. TicketOK(x)
    BY DEF ShelfInv
  <2>2. /\ shelf'[x].here <=> shelf[x].here
        /\ shelf'[x].available = shelf[x].available \/ ~shelf[x].here
    BY <1>1, <1>3, <1>5
  <2>3. \A v \in TillWorker : till'[v].pc = "task" => till'[v] = till[v]
    BY <1>4, <1>6
  <2> QED BY <1>1, <2>1, <2>2, <2>3 DEF TicketOK
<1>9. ASSUME NEW x \in TicketClass, Covered(x) PROVE Covered(x)'
  <2>1. CASE x = t
    BY <1>3, <1>5, <2>1 DEF Covered, OnShelf
  <2>2. CASE x # t
    BY <1>1, <1>5, <1>6, <1>9, <2>2 DEF Covered, OnShelf
  <2> QED BY <2>1, <2>2
<1> QED BY <1>1, <1>7, <1>8, <1>9 DEF ShelfInv

\* The signal of a deletion reads the event as it is.
LEMMA ReadItsEventInv ==
  ASSUME ShelfInv, NEW w \in TillWorker, ReadItsEvent(w)
  PROVE  ShelfInv'
<1>1. till[w].pc = "deleted" /\ till[w].expiry \in Nat /\ eventExpiry \in Nat
  BY ShelfRows DEF ReadItsEvent, ShelfInv, ShelfTypes, Deleting
<1>2. PICK job \in Signalling :
        /\ job = [pc |-> "signal", expiry |-> till[w].expiry, eventSeen |-> eventExpiry]
        /\ job.pc = "signal"
  <2>1. [pc |-> "signal", expiry |-> till[w].expiry, eventSeen |-> eventExpiry] \in Signalling
    BY <1>1 DEF Signalling
  <2> QED BY <2>1
<1>3. /\ till' = [till EXCEPT ![w] = job]
      /\ UNCHANGED <<shelf, eventExpiry, ordered, madeOf, putOnSale, staleCount, staleExpiry>>
  BY <1>2 DEF ReadItsEvent
<1>4. /\ till' \in [TillWorker -> AtTill] /\ till'[w] = job
      /\ \A v \in TillWorker : v # w => till'[v] = till[v]
  BY <1>3 DEF ShelfInv, ShelfTypes, AtTill
<1>5. ShelfTypes'
  BY <1>3, <1>4 DEF ShelfInv, ShelfTypes
<1>6. ASSUME NEW x \in TicketClass PROVE TicketOK(x)'
  <2>1. TicketOK(x)
    BY DEF ShelfInv
  <2>2. \A v \in TillWorker : till'[v].pc = "task" => till'[v] = till[v]
    BY <1>2, <1>4
  <2> QED BY <1>3, <2>1, <2>2 DEF TicketOK
<1>7. ASSUME NEW x \in TicketClass, Covered(x) PROVE Covered(x)'
  BY <1>1, <1>3, <1>4, <1>7 DEF Covered, OnShelf
<1> QED BY <1>3, <1>5, <1>6, <1>7 DEF ShelfInv

\* An order is made of a ticket on the shelf alone.
LEMMA OrderTicketInv ==
  ASSUME ShelfInv, NEW t \in TicketClass, OrderTicket(t)
  PROVE  ShelfInv'
<1>1. /\ shelf[t].here /\ ordered' = [ordered EXCEPT ![t] = @ + 1]
      /\ UNCHANGED <<shelf, eventExpiry, till, madeOf, putOnSale, staleCount, staleExpiry>>
  BY DEF OrderTicket, OnShelf
<1>2. /\ ordered' \in [TicketClass -> Nat] /\ \A x \in TicketClass : x # t => ordered'[x] = ordered[x]
  BY <1>1 DEF ShelfInv, ShelfTypes
<1>3. ShelfTypes'
  BY <1>1, <1>2 DEF ShelfInv, ShelfTypes
<1>4. ASSUME NEW x \in TicketClass PROVE TicketOK(x)'
  <2>1. TicketOK(x)
    BY DEF ShelfInv
  <2> QED BY <1>1, <1>2, <2>1 DEF TicketOK
<1>5. ASSUME NEW x \in TicketClass, Covered(x) PROVE Covered(x)'
  BY <1>1, <1>5 DEF Covered, OnShelf
<1> QED BY <1>1, <1>3, <1>4, <1>5 DEF ShelfInv

\* Every step, one case per action.
LEMMA ShelfInvNext ==
  ASSUME ShelfInv, [ShelfNext]_shelfVars
  PROVE  ShelfInv'
<1>1. ASSUME NEW w \in TillWorker,
             \/ SaveTicket(w) \/ Signal(w) \/ DieBeforeSignal(w) \/ SaveEvent(w) \/ IssueOrder(w)
             \/ ReadItsEvent(w)
      PROVE  ShelfInv'
  BY <1>1, SaveTicketInv, EventsInv, IssueOrderInv, ReadItsEventInv
<1>2. ASSUME NEW w \in TillWorker, NEW t \in TicketClass,
             \/ TakeOrder(w, t)
             \/ \E quantity \in OnSale, expiry \in Expiry : BeginCreate(w, t, quantity, expiry)
             \/ /\ OnShelf(t)
                /\ \E available \in OnSale \cup {shelf[t].available}, initial \in {0, shelf[t].initial},
                      expiry \in Expiry : BeginEdit(w, t, available, initial, expiry)
      PROVE  ShelfInv'
  BY <1>2, BeginsInv
<1>3. ASSUME NEW w \in TillWorker, ReadEvent(w) PROVE ShelfInv'
  <2> DEFINE job == [pc |-> "event", eventSeen |-> eventExpiry]
  <2>1. job \in AtTill /\ job.pc = "event" /\ ordered \in [TicketClass -> Nat]
    BY DEF SavingEvent, AtTill, ShelfInv, ShelfTypes
  <2>2. /\ till[w] = NoTill /\ till' = [till EXCEPT ![w] = job]
        /\ UNCHANGED <<shelf, eventExpiry, ordered, madeOf, putOnSale, staleCount, staleExpiry>>
    BY <1>3 DEF ReadEvent
  <2> HIDE DEF job
  <2> QED BY <2>1, <2>2, ComesToTill
<1>4. ASSUME NEW t \in TicketClass,
             (\E w \in TillWorker : DestroyTicket(w, t)) \/ OrderTicket(t)
      PROVE  ShelfInv'
  BY <1>4, DestroyTicketInv, OrderTicketInv
<1>5. CASE UNCHANGED shelfVars
  BY <1>5 DEF shelfVars, ShelfInv, ShelfTypes, TicketOK, Covered, OnShelf
<1> QED BY <1>1, <1>2, <1>3, <1>4, <1>5 DEF ShelfNext

\* WriteOnlyTicketViewSet, update_event_expiry_datetime and the generation task: what is left of a
\* ticket is what was last put on sale less the e-tickets made since, and the event lasts as long as
\* its tickets or will when a signal is done, unless somebody saved over what another had saved or a
\* signal was cut off; for any tickets, workers, quantities, dates, orders and deletions.
THEOREM ShelfStaysSound == ShelfSpec => []ShelfSound
<1>1. ShelfInv => ShelfSound
  BY DEF ShelfInv, TicketOK, Covered, ShelfSound, SerialCountAddsUp, SerialExpiryCovers
<1>2. ShelfSpec => []ShelfInv
  BY ShelfInvInit, ShelfInvNext, PTL DEF ShelfSpec
<1> QED BY <1>1, <1>2, PTL

--------------------------------------------------------------------------------
(* That an e-ticket opens the door once and what was promised of it is kept,    *)
(* that visits add up, and that what visitors find they can open; for any       *)
(* e-tickets, scanners, visitors and edits.                                     *)
(*                                                                              *)
(* Of an e-ticket that no other request had in hand during a scan, the scan has *)
(* the row as it is, alone, so the door opens exactly when is_active goes; what *)
(* a download has read to be downloaded stays so.                               *)

ShowRow  == [valid : BOOLEAN, passed : BOOLEAN, private : BOOLEAN, ephemeral : BOOLEAN,
             code : BOOLEAN, creator : BOOLEAN, deleted : BOOLEAN, views : Nat]
PassRow  == [active : BOOLEAN, downloaded : BOOLEAN, deleted : BOOLEAN]
Scanning == [pc : {"scan"}, of : Pass, row : PassRow]
Fetching == [pc : {"pdf"}, of : Pass, row : PassRow]
WithShow == [pc : {"view", "edit"}, row : ShowRow]

DoorTypes ==
  /\ show \in ShowRow
  /\ pass \in [Pass -> PassRow]
  /\ scanner \in [Scanner -> {AtRest} \cup Scanning]
  /\ visitor \in [Visitor -> {AtRest} \cup Fetching \cup WithShow]
  /\ admitted \in [Pass -> Nat]
  /\ visits \in Nat /\ viewsMixed \in BOOLEAN

AtScanner(s, p)   == scanner[s] # AtRest /\ scanner[s].of = p
Fetches(v, p) == visitor[v].pc = "pdf" /\ visitor[v].of = p

\* Of an e-ticket that nobody touched during a scan: the door opened for it if it is used, whoever
\* scans it has its row as it is, alone, and what was downloaded stays so.
PassOK(p) ==
  /\ admitted[p] = IF pass[p].active THEN 0 ELSE 1
  /\ \A s \in Scanner : AtScanner(s, p) => /\ scanner[s].row = pass[p] /\ pass[p].active
                                       /\ \A t \in Scanner : AtScanner(t, p) => t = s
  /\ \A v \in Visitor : Fetches(v, p) => (visitor[v].row.downloaded => pass[p].downloaded)
  /\ p \in fetched => pass[p].downloaded

\* Of visits and edits that came one after the other: whoever has the event has all its views.
ViewsOK ==
  /\ show.views = visits
  /\ \A v \in Looking : visitor[v].row.views = show.views /\ \A u \in Looking : u = v

\* An event that has a code has a super-seller, and no edit tells them apart.
CodeOK ==
  /\ show.code = show.creator
  /\ \A v \in Looking : visitor[v].row.code = visitor[v].row.creator

DoorInv ==
  /\ DoorTypes
  /\ CodeOK
  /\ \A p \in Pass \ scannedAtOnce : PassOK(p)
  /\ ~viewsMixed => ViewsOK

\* Nobody has been at the door yet.
LEMMA DoorInvInit == DoorInit => DoorInv
<1> SUFFICES ASSUME DoorInit PROVE DoorInv
  OBVIOUS
<1>1. /\ show \in ShowRow /\ show.code = show.creator /\ show.views = 0
      /\ pass \in [Pass -> PassRow] /\ \A p \in Pass : pass[p].active
  BY DEF DoorInit, ShowRow, PassRow
<1>2. /\ scanner = [s \in Scanner |-> AtRest] /\ visitor = [v \in Visitor |-> AtRest]
      /\ admitted = [p \in Pass |-> 0] /\ visits = 0 /\ viewsMixed = FALSE
      /\ scannedAtOnce = {} /\ fetched = {}
  BY DEF DoorInit
<1>3. DoorTypes
  BY <1>1, <1>2 DEF DoorTypes
<1>4. Looking = {}
  BY <1>2 DEF Looking, AtRest
<1>5. \A p \in Pass : PassOK(p)
  BY <1>1, <1>2 DEF PassOK, AtScanner, Fetches, AtRest
<1> QED BY <1>1, <1>2, <1>3, <1>4, <1>5 DEF DoorInv, CodeOK, ViewsOK

\* What a scanner and a visitor have at hand.
LEMMA AtTheDoor ==
  ASSUME DoorTypes
  PROVE  /\ \A s \in Scanner : scanner[s] # AtRest => scanner[s] \in Scanning
         /\ \A v \in Visitor : /\ visitor[v].pc = "pdf" => visitor[v] \in Fetching
                               /\ visitor[v].pc \in {"view", "edit"} => visitor[v] \in WithShow
<1>1. \A s \in Scanner : scanner[s] \in {AtRest} \cup Scanning
  BY DEF DoorTypes
<1>2. \A v \in Visitor : visitor[v] \in {AtRest} \cup Fetching \cup WithShow
  BY DEF DoorTypes
<1>3. ASSUME NEW j \in {AtRest} \cup Fetching \cup WithShow
      PROVE  /\ j.pc = "pdf" => j \in Fetching
             /\ j.pc \in {"view", "edit"} => j \in WithShow
  BY DEF AtRest, Fetching, WithShow
<1> QED BY <1>1, <1>2, <1>3

\* Nothing but the e-tickets.
LEMMA SameShow ==
  ASSUME DoorInv, UNCHANGED <<show, visits, viewsMixed>>,
         Looking' = Looking, \A v \in Looking : visitor'[v] = visitor[v]
  PROVE  CodeOK' /\ (~viewsMixed' => ViewsOK')
BY DEF DoorInv, CodeOK, ViewsOK

\* A scan reads the e-ticket: alone with it, or the meeting is noted.
LEMMA ScanReadsInv ==
  ASSUME DoorInv, NEW s \in Scanner, NEW p \in Pass, ScanReads(s, p)
  PROVE  DoorInv'
<1> DEFINE job == [pc |-> "scan", of |-> p, row |-> pass[p]]
<1>1. /\ scanner[s] = AtRest /\ Admits(p) /\ scanner' = [scanner EXCEPT ![s] = job]
      /\ scannedAtOnce' = IF BusyWith(p) THEN scannedAtOnce \cup {p} ELSE scannedAtOnce
      /\ UNCHANGED <<show, pass, visitor, admitted, fetched, visits, viewsMixed>>
  BY DEF ScanReads
<1>2. job \in Scanning /\ job.of = p /\ job.row = pass[p] /\ job # AtRest
  BY DEF Scanning, DoorInv, DoorTypes, AtRest
<1> HIDE DEF job
<1>3. DoorTypes'
  BY <1>1, <1>2 DEF DoorInv, DoorTypes
<1>4. CodeOK' /\ (~viewsMixed' => ViewsOK')
  BY <1>1, SameShow DEF Looking
<1>5. ASSUME NEW q \in Pass \ scannedAtOnce' PROVE PassOK(q)'
  <2>0. scanner \in [Scanner -> {AtRest} \cup Scanning]
    BY DEF DoorInv, DoorTypes
  <2>1. PassOK(q)
    BY <1>1 DEF DoorInv
  <2>2. CASE q # p
    <3>1. \A t \in Scanner : AtScanner(t, q)' => AtScanner(t, q) /\ scanner'[t] = scanner[t]
      BY <1>1, <1>2, <2>0, <2>2 DEF AtScanner
    <3> QED BY <1>1, <2>1, <3>1 DEF PassOK, Fetches
  <2>3. CASE q = p
    <3>1. ~BusyWith(p)
      BY <1>1, <2>3
    <3>2. \A t \in Scanner : AtScanner(t, p)' <=> t = s
      BY <1>1, <1>2, <2>0, <3>1 DEF AtScanner, BusyWith
    <3>3. scanner'[s].row = pass[p] /\ pass[p].active
      BY <1>1, <1>2, <2>0 DEF Admits
    <3> QED BY <1>1, <2>1, <2>3, <3>2, <3>3 DEF PassOK, Fetches
  <2> QED BY <2>2, <2>3
<1> QED BY <1>3, <1>4, <1>5 DEF DoorInv

\* A scan that had the e-ticket alone saves what it read, used.
LEMMA ScanSavesInv ==
  ASSUME DoorInv, NEW s \in Scanner, ScanSaves(s)
  PROVE  DoorInv'
<1>1. scanner[s] # AtRest /\ scanner[s] \in Scanning
  BY AtTheDoor DEF ScanSaves, DoorInv
<1>2. PICK p \in Pass : p = scanner[s].of
  BY <1>1 DEF Scanning
<1>3. PICK row \in PassRow : row = [scanner[s].row EXCEPT !.active = FALSE]
  <2>1. scanner[s].row \in PassRow
    BY <1>1 DEF Scanning
  <2> QED BY <2>1 DEF PassRow
<1>4. /\ pass' = [pass EXCEPT ![p] = row] /\ admitted' = [admitted EXCEPT ![p] = @ + 1]
      /\ scanner' = [scanner EXCEPT ![s] = AtRest]
      /\ UNCHANGED <<show, visitor, fetched, scannedAtOnce, visits, viewsMixed>>
  BY <1>2, <1>3 DEF ScanSaves
<1>5. row.active = FALSE /\ row.downloaded = scanner[s].row.downloaded
  <2>1. scanner[s].row \in PassRow
    BY <1>1 DEF Scanning
  <2> QED BY <1>3, <2>1 DEF PassRow
<1>6. DoorTypes'
  BY <1>4 DEF DoorInv, DoorTypes
<1>7. CodeOK' /\ (~viewsMixed' => ViewsOK')
  BY <1>4, SameShow DEF Looking
<1>8. ASSUME NEW q \in Pass \ scannedAtOnce' PROVE PassOK(q)'
  <2>0. /\ scanner \in [Scanner -> {AtRest} \cup Scanning] /\ pass \in [Pass -> PassRow]
        /\ admitted \in [Pass -> Nat]
    BY DEF DoorInv, DoorTypes
  <2>1. PassOK(q)
    BY <1>4 DEF DoorInv
  <2>2. \A t \in Scanner : AtScanner(t, q)' => t # s /\ AtScanner(t, q) /\ scanner'[t] = scanner[t]
    BY <1>4, <2>0 DEF AtScanner
  <2>3. CASE q # p
    <3>1. pass'[q] = pass[q] /\ admitted'[q] = admitted[q]
      BY <1>4, <2>0, <2>3
    <3> QED BY <1>4, <2>1, <2>2, <3>1 DEF PassOK, Fetches
  <2>4. CASE q = p
    <3>1. AtScanner(s, p)
      BY <1>1, <1>2 DEF AtScanner
    <3>2. admitted[p] = 0 /\ scanner[s].row = pass[p] /\ \A t \in Scanner : AtScanner(t, p) => t = s
      BY <2>1, <2>4, <3>1 DEF PassOK
    <3>3. pass'[p] = row /\ admitted'[p] = 1 /\ row.downloaded = pass[p].downloaded
      BY <1>4, <1>5, <2>0, <3>2
    <3>4. \A t \in Scanner : ~AtScanner(t, p)'
      BY <2>2, <2>4, <3>2
    <3>5. /\ \A v \in Visitor : Fetches(v, p) => (visitor[v].row.downloaded => pass[p].downloaded)
          /\ p \in fetched => pass[p].downloaded
      BY <2>1, <2>4 DEF PassOK
    <3> QED BY <1>4, <1>5, <2>4, <3>3, <3>4, <3>5 DEF PassOK, Fetches
  <2> QED BY <2>3, <2>4
<1> QED BY <1>6, <1>7, <1>8 DEF DoorInv

\* download_pdf reads the e-ticket and touches nothing.
LEMMA ReadPassInv ==
  ASSUME DoorInv, NEW v \in Visitor, NEW p \in Pass, ReadPass(v, p)
  PROVE  DoorInv'
<1> DEFINE job == [pc |-> "pdf", of |-> p, row |-> pass[p]]
<1>1. /\ visitor[v] = AtRest /\ visitor' = [visitor EXCEPT ![v] = job]
      /\ UNCHANGED <<show, pass, scanner, admitted, fetched, scannedAtOnce, visits, viewsMixed>>
  BY DEF ReadPass
<1>2. job \in Fetching /\ job.of = p /\ job.row = pass[p] /\ job.pc = "pdf"
  BY DEF Fetching, DoorInv, DoorTypes
<1> HIDE DEF job
<1>3. DoorTypes'
  BY <1>1, <1>2 DEF DoorInv, DoorTypes
<1>4. visitor \in [Visitor -> {AtRest} \cup Fetching \cup WithShow] /\ visitor[v].pc = "rest"
  BY <1>1 DEF DoorInv, DoorTypes, AtRest
<1>5. CodeOK' /\ (~viewsMixed' => ViewsOK')
  <2>1. Looking' = Looking /\ \A u \in Looking : visitor'[u] = visitor[u]
    BY <1>1, <1>2, <1>4 DEF Looking
  <2> QED BY <1>1, <2>1, SameShow
<1>6. ASSUME NEW q \in Pass \ scannedAtOnce' PROVE PassOK(q)'
  <2>1. PassOK(q)
    BY <1>1 DEF DoorInv
  <2>2. \A u \in Visitor : Fetches(u, q)' => \/ u # v /\ Fetches(u, q) /\ visitor'[u] = visitor[u]
                                             \/ u = v /\ q = p /\ visitor'[u].row = pass[q]
    BY <1>1, <1>2, <1>4 DEF Fetches
  <2> QED BY <1>1, <2>1, <2>2 DEF PassOK, AtScanner
<1> QED BY <1>3, <1>5, <1>6 DEF DoorInv

\* The download saves is_downloaded alone, and leaves is_active to the scans.
LEMMA HandOutInv ==
  ASSUME DoorInv, NEW v \in Visitor, HandOut(v)
  PROVE  DoorInv'
<1>1. visitor[v].pc = "pdf" /\ visitor[v] \in Fetching
  BY AtTheDoor DEF HandOut, Handed, DoorInv
<1>2. PICK p \in Pass : p = visitor[v].of
  BY <1>1 DEF Fetching
<1>3. PICK row \in PassRow : row = [pass[p] EXCEPT !.downloaded = TRUE]
  <2>1. pass[p] \in PassRow
    BY DEF DoorInv, DoorTypes
  <2> QED BY <2>1 DEF PassRow
<1>4. /\ pass' = IF visitor[v].row.downloaded THEN pass ELSE [pass EXCEPT ![p] = row]
      /\ fetched' = fetched \cup {p} /\ visitor' = [visitor EXCEPT ![v] = AtRest]
      /\ scannedAtOnce' = IF \E s \in Scanner : AtScanner(s, p) THEN scannedAtOnce \cup {p}
                          ELSE scannedAtOnce
      /\ UNCHANGED <<show, scanner, admitted, visits, viewsMixed>>
  BY <1>2, <1>3 DEF HandOut, Handed, Free, AtScanner
<1>5. row.active = pass[p].active /\ row.downloaded
  <2>1. pass[p] \in PassRow
    BY DEF DoorInv, DoorTypes
  <2> QED BY <1>3, <2>1 DEF PassRow
<1>6. DoorTypes'
  BY <1>4 DEF DoorInv, DoorTypes
<1>7. visitor \in [Visitor -> {AtRest} \cup Fetching \cup WithShow] /\ pass \in [Pass -> PassRow]
  BY DEF DoorInv, DoorTypes
<1>8. CodeOK' /\ (~viewsMixed' => ViewsOK')
  <2>1. AtRest.pc = "rest"
    BY DEF AtRest
  <2>2. Looking' = Looking /\ \A u \in Looking : visitor'[u] = visitor[u]
    BY <1>1, <1>4, <1>7, <2>1 DEF Looking
  <2> QED BY <1>4, <2>2, SameShow
<1>9. ASSUME NEW q \in Pass \ scannedAtOnce' PROVE PassOK(q)'
  <2>1. PassOK(q) /\ q \notin scannedAtOnce
    BY <1>4 DEF DoorInv
  <2>2. \A u \in Visitor : Fetches(u, q)' => Fetches(u, q) /\ visitor'[u] = visitor[u]
    BY <1>4, <1>7 DEF Fetches, AtRest
  <2>3. CASE q # p
    <3>1. pass'[q] = pass[q] /\ (q \in fetched' => q \in fetched)
      BY <1>4, <1>7, <2>3
    <3> QED BY <1>4, <2>1, <2>2, <3>1 DEF PassOK, AtScanner
  <2>4. CASE q = p
    <3>1. \A s \in Scanner : ~AtScanner(s, p)
      BY <1>4, <2>4
    <3>2. Fetches(v, p)
      BY <1>1, <1>2 DEF Fetches
    <3>3. pass'[p].active = pass[p].active /\ pass'[p].downloaded
      <4>1. CASE visitor[v].row.downloaded
        BY <1>4, <2>1, <2>4, <3>2, <4>1 DEF PassOK
      <4>2. CASE ~visitor[v].row.downloaded
        BY <1>4, <1>5, <1>7, <4>2
      <4> QED BY <4>1, <4>2
    <3>4. \A s \in Scanner : ~AtScanner(s, p)'
      BY <1>4, <3>1 DEF AtScanner
    <3>5. admitted'[p] = IF pass[p].active THEN 0 ELSE 1
      BY <1>4, <2>1, <2>4 DEF PassOK
    <3> QED BY <2>4, <3>3, <3>4, <3>5 DEF PassOK
  <2> QED BY <2>3, <2>4
<1> QED BY <1>6, <1>8, <1>9 DEF DoorInv

\* An e-ticket is deleted: it keeps whether it was used and downloaded.
LEMMA CancelPassInv ==
  ASSUME DoorInv, NEW p \in Pass, CancelPass(p)
  PROVE  DoorInv'
<1>1. PICK row \in PassRow : row = [pass[p] EXCEPT !.deleted = TRUE]
  <2>1. pass[p] \in PassRow
    BY DEF DoorInv, DoorTypes
  <2> QED BY <2>1 DEF PassRow
<1>2. /\ pass' = [pass EXCEPT ![p] = row]
      /\ scannedAtOnce' = IF BusyWith(p) THEN scannedAtOnce \cup {p} ELSE scannedAtOnce
      /\ UNCHANGED <<show, scanner, visitor, admitted, fetched, visits, viewsMixed>>
  BY <1>1 DEF CancelPass
<1>3. row.active = pass[p].active /\ row.downloaded = pass[p].downloaded
  <2>1. pass[p] \in PassRow
    BY DEF DoorInv, DoorTypes
  <2> QED BY <1>1, <2>1 DEF PassRow
<1>4. DoorTypes'
  BY <1>2 DEF DoorInv, DoorTypes
<1>5. CodeOK' /\ (~viewsMixed' => ViewsOK')
  BY <1>2, SameShow DEF Looking
<1>6. ASSUME NEW q \in Pass \ scannedAtOnce' PROVE PassOK(q)'
  <2>0. pass \in [Pass -> PassRow]
    BY DEF DoorInv, DoorTypes
  <2>1. PassOK(q)
    BY <1>2 DEF DoorInv
  <2>2. CASE q # p
    <3>1. pass'[q] = pass[q]
      BY <1>2, <2>0, <2>2
    <3> QED BY <1>2, <2>1, <3>1 DEF PassOK, AtScanner, Fetches
  <2>3. CASE q = p
    <3>1. \A s \in Scanner : ~AtScanner(s, p)
      BY <1>2, <2>3 DEF BusyWith, AtScanner
    <3>2. pass'[p].active = pass[p].active /\ pass'[p].downloaded = pass[p].downloaded
      BY <1>2, <1>3, <2>0
    <3> QED BY <1>2, <2>1, <2>3, <3>1, <3>2 DEF PassOK, AtScanner, Fetches
  <2> QED BY <2>2, <2>3
<1> QED BY <1>4, <1>5, <1>6 DEF DoorInv

\* Nothing but the event and who looks at it.
LEMMA SamePasses ==
  ASSUME DoorInv, UNCHANGED <<pass, scanner, admitted, fetched, scannedAtOnce>>,
         \A v \in Visitor, p \in Pass : Fetches(v, p)' => Fetches(v, p) /\ visitor'[v] = visitor[v]
  PROVE  \A p \in Pass \ scannedAtOnce' : PassOK(p)'
BY DEF DoorInv, PassOK, AtScanner

\* The event is read, to be saved.
LEMMA ShowReadInv ==
  ASSUME DoorInv, NEW v \in Visitor, LookAt(v) \/ \E private, ephemeral \in BOOLEAN : ReadShow(v, private, ephemeral)
  PROVE  DoorInv'
<1>0. /\ show \in ShowRow /\ show.code = show.creator
      /\ visitor \in [Visitor -> {AtRest} \cup Fetching \cup WithShow]
  BY DEF DoorInv, DoorTypes, CodeOK
<1>1. PICK job \in WithShow :
        /\ visitor[v] = AtRest /\ visitor' = [visitor EXCEPT ![v] = job]
        /\ job.row.code = job.row.creator /\ job.row.views = show.views
        /\ viewsMixed' = (viewsMixed \/ Looking # {})
        /\ UNCHANGED <<show, pass, scanner, admitted, fetched, scannedAtOnce, visits>>
  <2>1. CASE LookAt(v)
    <3> DEFINE job == [pc |-> "view", row |-> show]
    <3>1. job \in WithShow /\ job.row = show
      BY <1>0 DEF WithShow
    <3>2. /\ visitor[v] = AtRest /\ visitor' = [visitor EXCEPT ![v] = job]
          /\ viewsMixed' = (viewsMixed \/ Looking # {})
          /\ UNCHANGED <<show, pass, scanner, admitted, fetched, scannedAtOnce, visits>>
      BY <2>1 DEF LookAt
    <3> HIDE DEF job
    <3> QED BY <1>0, <3>1, <3>2
  <2>2. ASSUME NEW private \in BOOLEAN, NEW ephemeral \in BOOLEAN, ReadShow(v, private, ephemeral)
        PROVE  \E job \in WithShow :
                 /\ visitor[v] = AtRest /\ visitor' = [visitor EXCEPT ![v] = job]
                 /\ job.row.code = job.row.creator /\ job.row.views = show.views
                 /\ viewsMixed' = (viewsMixed \/ Looking # {})
                 /\ UNCHANGED <<show, pass, scanner, admitted, fetched, scannedAtOnce, visits>>
    <3>1. ASSUME NEW r \in ShowRow, r.code = r.creator
          PROVE  LET n == [r EXCEPT !.private = private, !.ephemeral = ephemeral]
                 IN n \in ShowRow /\ n.code = n.creator /\ n.views = r.views
      BY <3>1 DEF ShowRow
    <3>2. PICK row \in ShowRow :
            /\ row = [show EXCEPT !.private = private, !.ephemeral = ephemeral]
            /\ row.code = row.creator /\ row.views = show.views
      BY <1>0, <3>1, Zenon
    <3> DEFINE job == [pc |-> "edit", row |-> row]
    <3>3. job \in WithShow /\ job.row = row
      BY DEF WithShow
    <3>4. /\ visitor[v] = AtRest /\ visitor' = [visitor EXCEPT ![v] = job]
          /\ viewsMixed' = (viewsMixed \/ Looking # {})
          /\ UNCHANGED <<show, pass, scanner, admitted, fetched, scannedAtOnce, visits>>
      BY <2>2, <3>2, Zenon DEF ReadShow
    <3> HIDE DEF job
    <3> QED BY <3>2, <3>3, <3>4
  <2> QED BY <2>1, <2>2
<1>2. job.pc \in {"view", "edit"}
  BY DEF WithShow
<1>3. DoorTypes'
  BY <1>1 DEF DoorInv, DoorTypes
<1>4. \A p \in Pass \ scannedAtOnce' : PassOK(p)'
  <2>1. \A u \in Visitor, p \in Pass : Fetches(u, p)' => Fetches(u, p) /\ visitor'[u] = visitor[u]
    BY <1>0, <1>1, <1>2 DEF Fetches
  <2> QED BY <1>1, <2>1, SamePasses
<1>5. Looking' = Looking \cup {v} /\ visitor'[v] = job /\ \A u \in Looking : u # v /\ visitor'[u] = visitor[u]
  <2>1. visitor[v].pc = "rest"
    BY <1>1 DEF AtRest
  <2> QED BY <1>0, <1>1, <1>2, <2>1 DEF Looking
<1>6. CodeOK'
  BY <1>1, <1>5 DEF DoorInv, CodeOK
<1>7. ASSUME ~viewsMixed' PROVE ViewsOK'
  BY <1>1, <1>5, <1>7 DEF DoorInv, ViewsOK
<1> QED BY <1>3, <1>4, <1>6, <1>7 DEF DoorInv

\* The event is saved, as it was read.
LEMMA ShowSavedInv ==
  ASSUME DoorInv, NEW v \in Visitor, CountView(v) \/ SaveShow(v)
  PROVE  DoorInv'
<1>0. /\ show \in ShowRow /\ visits \in Nat
      /\ visitor \in [Visitor -> {AtRest} \cup Fetching \cup WithShow]
  BY DEF DoorInv, DoorTypes
<1>1. visitor[v].pc \in {"view", "edit"} /\ visitor[v] \in WithShow /\ visitor[v].row \in ShowRow
  <2>1. visitor[v].pc \in {"view", "edit"} /\ visitor[v] \in WithShow
    BY AtTheDoor DEF CountView, SaveShow, DoorInv
  <2> QED BY <2>1 DEF WithShow
<1>2. /\ visitor' = [visitor EXCEPT ![v] = AtRest]
      /\ UNCHANGED <<pass, scanner, admitted, fetched, scannedAtOnce, viewsMixed>>
  BY DEF CountView, SaveShow, Free
<1>3. /\ show' \in ShowRow /\ visits' \in Nat /\ show'.code = show'.creator
      /\ ~viewsMixed => show'.views = visits'
  <2>0. /\ show.code = show.creator /\ visitor[v].row.code = visitor[v].row.creator
        /\ ~viewsMixed => show.views = visits /\ visitor[v].row.views = visits
    BY <1>1 DEF DoorInv, CodeOK, ViewsOK, Looking
  <2>1. CASE CountView(v)
    <3>1. show' = [show EXCEPT !.views = visitor[v].row.views + 1] /\ visits' = visits + 1
      BY <2>1 DEF CountView
    <3>2. visitor[v].row.views \in Nat
      BY <1>1 DEF ShowRow
    <3>3. /\ show' \in ShowRow /\ show'.code = show.code /\ show'.creator = show.creator
          /\ show'.views = visitor[v].row.views + 1
      BY <1>0, <3>1, <3>2 DEF ShowRow
    <3> QED BY <1>0, <2>0, <3>1, <3>2, <3>3
  <2>2. CASE SaveShow(v)
    BY <1>0, <1>1, <2>0, <2>2 DEF SaveShow
  <2> QED BY <2>1, <2>2
<1>4. DoorTypes'
  BY <1>2, <1>3 DEF DoorInv, DoorTypes
<1>5. \A p \in Pass \ scannedAtOnce' : PassOK(p)'
  <2>1. \A u \in Visitor, p \in Pass : Fetches(u, p)' => Fetches(u, p) /\ visitor'[u] = visitor[u]
    BY <1>0, <1>2 DEF Fetches, AtRest
  <2> QED BY <1>2, <2>1, SamePasses
<1>6. Looking' = Looking \ {v} /\ \A u \in Looking' : visitor'[u] = visitor[u]
  BY <1>0, <1>2 DEF Looking, AtRest
<1>7. CodeOK'
  BY <1>3, <1>6 DEF DoorInv, CodeOK
<1>8. ASSUME ~viewsMixed' PROVE ViewsOK'
  <2>1. v \in Looking /\ \A u \in Looking : u = v
    BY <1>1, <1>2, <1>8 DEF DoorInv, ViewsOK, Looking
  <2>2. Looking' = {}
    BY <1>6, <2>1
  <2> QED BY <1>2, <1>3, <1>8, <2>2 DEF ViewsOK
<1> QED BY <1>4, <1>5, <1>7, <1>8 DEF DoorInv

\* What happens around the event leaves its views and its code alone.
LEMMA AroundInv ==
  ASSUME DoorInv, JudgeShow \/ RemoveShow \/ Subscription \/ Highlight \/ TimePasses
  PROVE  DoorInv'
<1>0. show \in ShowRow
  BY DEF DoorInv, DoorTypes
<1>1. /\ show' \in ShowRow /\ show'.views = show.views /\ show'.code = show.code
      /\ show'.creator = show.creator
  <2>1. CASE JudgeShow
    <3>1. PICK valid \in BOOLEAN : show' = [show EXCEPT !.valid = valid, !.passed = @ \/ valid]
      BY <2>1 DEF JudgeShow, Around
    <3>2. ASSUME NEW r \in ShowRow
          PROVE  LET n == [r EXCEPT !.valid = valid, !.passed = @ \/ valid]
                 IN n \in ShowRow /\ n.views = r.views /\ n.code = r.code /\ n.creator = r.creator
      BY DEF ShowRow
    <3> QED BY <1>0, <3>1, <3>2, Zenon
  <2>2. CASE RemoveShow
    <3>1. show' = [show EXCEPT !.deleted = TRUE]
      BY <2>2 DEF RemoveShow, Around
    <3> QED BY <1>0, <3>1 DEF ShowRow
  <2>3. CASE Subscription \/ Highlight \/ TimePasses
    BY <1>0, <2>3 DEF Subscription, Highlight, TimePasses, Around
  <2> QED BY <2>1, <2>2, <2>3
<1>2. UNCHANGED <<pass, scanner, visitor, admitted, fetched, scannedAtOnce, visits, viewsMixed>>
  BY DEF JudgeShow, RemoveShow, Subscription, Highlight, TimePasses, Around
<1>3. DoorTypes'
  BY <1>1, <1>2 DEF DoorInv, DoorTypes
<1>4. \A p \in Pass \ scannedAtOnce' : PassOK(p)'
  BY <1>2, SamePasses DEF Fetches
<1>5. CodeOK' /\ (~viewsMixed' => ViewsOK')
  BY <1>1, <1>2 DEF DoorInv, CodeOK, ViewsOK, Looking
<1> QED BY <1>3, <1>4, <1>5 DEF DoorInv

\* Every step.
LEMMA DoorInvNext ==
  ASSUME DoorInv, [DoorNext]_doorVars
  PROVE  DoorInv'
<1>1. ASSUME NEW p \in Pass, VerifyPass(p) PROVE DoorInv'
  BY <1>1 DEF VerifyPass, DoorInv, DoorTypes, PassOK, AtScanner, Fetches, CodeOK, ViewsOK, Looking
<1>2. ASSUME NEW p \in Pass, CancelPass(p) PROVE DoorInv'
  BY <1>2, CancelPassInv
<1>3. ASSUME NEW s \in Scanner, ScanSaves(s) \/ \E p \in Pass : ScanReads(s, p) PROVE DoorInv'
  BY <1>3, ScanSavesInv, ScanReadsInv
<1>4. ASSUME NEW v \in Visitor,
             \/ LookAt(v) \/ CountView(v) \/ SaveShow(v) \/ HandOut(v)
             \/ \E private, ephemeral \in BOOLEAN : ReadShow(v, private, ephemeral)
             \/ \E p \in Pass : ReadPass(v, p)
      PROVE  DoorInv'
  BY <1>4, ShowReadInv, ShowSavedInv, HandOutInv, ReadPassInv
<1>5. CASE JudgeShow \/ RemoveShow \/ Subscription \/ Highlight \/ TimePasses
  BY <1>5, AroundInv
<1>6. CASE UNCHANGED doorVars
  BY <1>6 DEF doorVars, DoorInv, DoorTypes, PassOK, AtScanner, Fetches, CodeOK, ViewsOK, Looking
<1> QED BY <1>1, <1>2, <1>3, <1>4, <1>5, <1>6 DEF DoorNext

\* What visitors find in a list has a page, and ephemeral events are found by their code alone.
LEMMA FoundIsMeant ==
  ASSUME DoorInv
  PROVE  FoundWhereMeant
<1>0. show \in ShowRow /\ show.code = show.creator
  BY DEF DoorInv, DoorTypes, CodeOK
<1>1. ASSUME NEW list \in Lists \ {"by organization", "favourites"}, FoundIn(list)
      PROVE  HasPage /\ \E passed \in BOOLEAN : FilteredAs(passed)
  <2>1. Upcoming
    BY <1>1 DEF FoundIn, Lists
  <2>2. FilteredAs(phase # "before")
    BY DEF FilteredAs
  <2>3. (phase # "before") \in BOOLEAN
    OBVIOUS
  <2> QED BY <2>1, <2>2, <2>3 DEF Upcoming
<1>2. ASSUME show.ephemeral
      PROVE  (\A list \in Lists : ~FoundIn(list)) /\ FoundByCode = FoundBySuperSeller
  <2>1. ~InTable /\ ~Upcoming
    BY <1>2 DEF InTable, Upcoming, HasPage
  <2>2. \A list \in Lists : ~FoundIn(list)
    BY <2>1 DEF FoundIn, Lists
  <2>3. FoundByCode = FoundBySuperSeller
    BY <1>0 DEF FoundByCode, FoundBySuperSeller, ShowRow
  <2> QED BY <2>2, <2>3
<1>3. Participants \subseteq ParticipantsPage
  BY DEF Participants, ParticipantsPage
<1> QED BY <1>1, <1>2, <1>3 DEF FoundWhereMeant

\* The scan, verify_ticket, the download, the views and the lists: an e-ticket opens the door once
\* and what was promised of it is kept, unless another request had its row during a scan; visits
\* add up unless they met; what visitors find they can open, and an ephemeral event is found by its
\* code alone; for any e-tickets, owners, scanners, visitors and edits.
THEOREM DoorStaysSound == DoorSpec => []DoorSound
<1>1. DoorInv => DoorSound
  <2> SUFFICES ASSUME DoorInv PROVE DoorSound
    OBVIOUS
  <2>1. ASSUME NEW p \in Pass \ scannedAtOnce
        PROVE  /\ admitted[p] <= 1 /\ (admitted[p] = 1 => ~Admits(p))
               /\ p \in promised /\ admitted[p] = 0 /\ ~pass[p].deleted => Admits(p)
               /\ p \in fetched => ~FetchImage(p)
    BY DEF DoorInv, PassOK, Admits, FetchImage
  <2>2. SerialViewsAddUp
    BY DEF DoorInv, ViewsOK, SerialViewsAddUp
  <2> QED BY <2>1, <2>2, FoundIsMeant DEF DoorSound, SerialAdmittedOnce, SerialPromiseKept
<1>2. DoorSpec => []DoorInv
  BY DoorInvInit, DoorInvNext, PTL DEF DoorSpec
<1> QED BY <1>1, <1>2, PTL

--------------------------------------------------------------------------------
(* That an address leads to one active account, and that the last code that was *)
(* mailed works until it is used or expires, for any accounts, workers, codes   *)
(* and expiries.                                                                *)
(*                                                                              *)
(* An address that no two calls were about, nor a guest spelled in another way, *)
(* is had by one active account, or asked for by one call, never both.  Of an   *)
(* account that calls are about one by one, the row in a worker's hands is the  *)
(* row of the table, and the code that was mailed last is in the table or in    *)
(* the hands of the worker who is about to save it.                             *)

UserRow == [here : {TRUE}, active : BOOLEAN, mail : Address, validated : BOOLEAN, conf : Nat]
CodeRow == [id : Nat, of : Account, kind : Kind, code : Nat, born : Nat]

\* What is saved of an address and an activation is what was read, or the address that was asked for.
AsAsked(c) == /\ c.row.active = c.seen.active
              /\ c.row.mail = IF c.mail = "none" THEN c.seen.mail ELSE c.mail

Registering  == [pc : {"register", "guest"}, of : {0}, mail : Address]
SavingUser   == {c \in [pc : {"save"}, of : Account, mail : {"none"} \cup Address, seen : UserRow,
                        row : UserRow] : AsAsked(c)}
SendingCode  == {c \in [pc : {"mail", "conf", "request"}, of : Account, mail : {"none"},
                        seen : UserRow, req : CodeRow] :
                   c.req.of = c.of /\ (c.pc # "mail" => c.req.id # 0)}
RedeemingOne == {c \in [pc : {"redeem", "close"}, of : Account, mail : {"none"}, req : CodeRow,
                        seen : UserRow, row : UserRow] : c.req.of = c.of /\ c.req.id # 0 /\ AsAsked(c)}
AccountCalls == {NoCall} \cup Registering \cup SavingUser \cup SendingCode \cup RedeemingOne

AccTypes ==
  /\ account \in [Account -> {NoAccount} \cup UserRow]
  /\ request \subseteq CodeRow
  /\ call \in [AccountWorker -> AccountCalls]
  /\ epoch \in Nat /\ codes \in Nat
  /\ mailed \in [Account -> [Kind -> Nat]]
  /\ \A w \in AccountWorker : call[w].of \in Account => IsHere(call[w].of)

\* An address that no two calls were about has one account, and none while somebody asks for it.
OneEach(m) ==
  /\ \A a, b \in Account : IsActive(a) /\ account[a].mail = m /\ IsActive(b) /\ account[b].mail = m => a = b
  /\ \A v, w \in Seeking(m) : v = w
  /\ Seeking(m) # {} => ~Taken(m)

AddressesOK == \A m \in Address \ clashed : OneEach(m)

\* The rows of requests that are in the table or in somebody's hands.
WithRow == {w \in AccountWorker : call[w].pc \in {"mail", "conf", "request", "redeem", "close"} /\
                                    call[w].req.id # 0}
KnownRows == request \cup {call[w].req : w \in WithRow}

RowsOK ==
  /\ \A q \in KnownRows : q.id \in 1..codes /\ IsHere(q.of)
  /\ \A q, r \in KnownRows : q.id = r.id => q.of = r.of /\ q.kind = r.kind
  /\ \A q, r \in request : q.id = r.id => q = r

Works(a, k) == \E q \in Open(a, k) : q.code = mailed[a][k] /\ ~IsOld(q)

\* Of an account that calls are about one by one: what a worker sends was mailed, and is not too old
\* unless that is noted; what he redeems is the row there is; and a code that was mailed works or
\* is about to.
CallOK(a, w) ==
  /\ call[w].pc \in {"mail", "conf", "request"} /\ call[w].req.id # 0 =>
       <<a, call[w].req.kind>> \in aged \/ ~IsOld(call[w].req)
  /\ call[w].pc \in {"conf", "request"} => call[w].req.code = mailed[a][call[w].req.kind]
  /\ call[w].pc \in {"redeem", "close"} =>
       \A q \in request : q.id = call[w].req.id => q.code = call[w].req.code

InHand(a, k) == \E w \in About(a) : call[w].pc \in {"conf", "request"} /\ call[w].req.kind = k

Kept(a, k) ==
  mailed[a][k] # 0 /\ mailed[a][k] \notin spent /\ <<a, k>> \notin aged => Works(a, k) \/ InHand(a, k)

CodesOK(a) ==
  /\ \A v, w \in About(a) : v = w
  /\ \A w \in About(a) : CallOK(a, w)
  /\ \A k \in Kind : Kept(a, k)

AccInv ==
  /\ AccTypes
  /\ AddressesOK
  /\ RowsOK
  /\ \A a \in Account \ crossed : CodesOK(a)

USE AccountsAssumption

\* No account is numbered 0.
LEMMA NobodysNumber == 0 \notin Account
BY DEF Account

\* There is nobody, and nothing to be about.
LEMMA AccInvInit == AccountInit => AccInv
<1> SUFFICES ASSUME AccountInit PROVE AccInv
  OBVIOUS
<1>0. /\ account = [a \in Account |-> NoAccount] /\ request = {} /\ call = [w \in AccountWorker |-> NoCall]
      /\ epoch = 0 /\ codes = 0 /\ mailed = [a \in Account |-> [k \in Kind |-> 0]]
  BY DEF AccountInit
<1>1. \A w \in AccountWorker : call[w].pc = "free" /\ call[w].of = 0 /\ call[w].mail = "none"
  BY <1>0 DEF NoCall
<1>2. AccTypes
  BY <1>0, <1>1, NobodysNumber DEF AccTypes, AccountCalls
<1>3. \A a \in Account : ~IsActive(a)
  BY <1>0 DEF IsActive, IsHere, NoAccount
<1>4. AddressesOK
  BY <1>1, <1>3 DEF AddressesOK, OneEach, Seeking
<1>5. KnownRows = {}
  BY <1>0, <1>1 DEF KnownRows, WithRow
<1>6. \A a \in Account : CodesOK(a)
  <2> TAKE a \in Account
  <2>1. About(a) = {}
    BY <1>1, NobodysNumber DEF About
  <2>2. \A k \in Kind : mailed[a][k] = 0
    BY <1>0
  <2> QED BY <2>1, <2>2 DEF CodesOK, Kept
<1> QED BY <1>0, <1>2, <1>4, <1>5, <1>6 DEF AccInv, RowsOK

\* What a worker has at hand.
LEMMA AtCall ==
  ASSUME AccTypes, NEW w \in AccountWorker
  PROVE  /\ call[w] \in AccountCalls
         /\ call[w].of \in {0} \cup Account /\ call[w].mail \in {"none"} \cup Address
         /\ call[w].pc \in {"register", "guest"} => call[w] \in Registering
         /\ call[w].pc = "save" => call[w] \in SavingUser
         /\ call[w].pc \in {"mail", "conf", "request"} =>
              call[w] \in SendingCode /\ call[w].of \in Account /\ call[w].req.of = call[w].of
         /\ call[w].pc \in {"redeem", "close"} =>
              call[w] \in RedeemingOne /\ call[w].of \in Account /\ call[w].req.of = call[w].of
         /\ call[w].pc \in {"mail", "conf", "request", "redeem", "close"} =>
              call[w].req \in CodeRow /\ call[w].mail = "none"
<1>1. ASSUME NEW c \in AccountCalls
      PROVE  /\ c.of \in {0} \cup Account /\ c.mail \in {"none"} \cup Address
             /\ c.pc \in {"register", "guest"} => c \in Registering
             /\ c.pc = "save" => c \in SavingUser
             /\ c.pc \in {"mail", "conf", "request"} =>
                  c \in SendingCode /\ c.of \in Account /\ c.req.of = c.of
             /\ c.pc \in {"redeem", "close"} =>
                  c \in RedeemingOne /\ c.of \in Account /\ c.req.of = c.of
             /\ c.pc \in {"mail", "conf", "request", "redeem", "close"} =>
                  c.req \in CodeRow /\ c.mail = "none"
  <2>1. CASE c = NoCall
    BY <2>1 DEF NoCall
  <2>2. CASE c \in Registering
    BY <2>2 DEF Registering
  <2>3. CASE c \in SavingUser
    BY <2>3 DEF SavingUser
  <2>4. CASE c \in SendingCode
    BY <2>4 DEF SendingCode
  <2>5. CASE c \in RedeemingOne
    BY <2>5 DEF RedeemingOne
  <2> QED BY <2>1, <2>2, <2>3, <2>4, <2>5 DEF AccountCalls
<1>2. call[w] \in AccountCalls
  BY DEF AccTypes
<1> QED BY <1>1, <1>2

\* A call is taken up, about an account that is there and an address that nobody has; what it takes
\* of the requests is what is old.
LEMMA TakesUpInv ==
  ASSUME AccInv, NEW w \in AccountWorker, NEW c \in AccountCalls, TakeUp(w, c),
         UNCHANGED <<account, epoch, codes, mailed, spent, aged>>,
         request' \subseteq request, \A q \in request \ request' : IsOld(q),
         c.of \in {0} \cup Account, c.of \in Account => IsHere(c.of),
         c.mail \in Address => ~Taken(c.mail),
         c.pc \in {"register", "guest", "save", "mail", "redeem"},
         c.pc = "redeem" => c.req \in request',
         c.pc = "mail" /\ c.req.id # 0 => c.req \in request' /\ ~IsOld(c.req)
  PROVE  AccInv'
<1>0. AccTypes /\ call \in [AccountWorker -> AccountCalls]
  BY DEF AccInv, AccTypes
<1>1. /\ call[w] = NoCall /\ call' = [call EXCEPT ![w] = c]
      /\ crossed' = IF c.of # 0 /\ About(c.of) # {} THEN crossed \cup {c.of} ELSE crossed
      /\ clashed' = IF c.mail \in Address /\ Seeking(c.mail) # {} THEN clashed \cup {c.mail} ELSE clashed
  BY DEF TakeUp
<1>2. /\ call'[w] = c /\ \A v \in AccountWorker \ {w} : call'[v] = call[v]
      /\ call[w].pc = "free" /\ call[w].of = 0 /\ call[w].mail = "none"
  BY <1>0, <1>1 DEF NoCall
<1>3. AccTypes'
  BY <1>0, <1>1, <1>2 DEF AccTypes, IsHere
<1>4. AddressesOK'
  <2>1. ASSUME NEW m \in Address \ clashed' PROVE OneEach(m)'
    <3>1. OneEach(m)
      BY <1>1 DEF AccInv, AddressesOK
    <3>2. Seeking(m)' = IF c.mail = m THEN Seeking(m) \cup {w} ELSE Seeking(m)
      BY <1>2 DEF Seeking
    <3>3. c.mail = m => Seeking(m) = {} /\ ~Taken(m)
      BY <1>1
    <3> QED BY <3>1, <3>2, <3>3 DEF OneEach, IsActive, IsHere, Taken
  <2> QED BY <2>1 DEF AddressesOK
<1>5. KnownRows' \subseteq KnownRows
  <2>1. \A v \in AccountWorker : v \in WithRow' => \/ v # w /\ v \in WithRow /\ call'[v].req = call[v].req
                                                   \/ v = w /\ call'[v].req \in request'
    BY <1>2 DEF WithRow
  <2> QED BY <2>1 DEF KnownRows, WithRow
<1>6. RowsOK'
  BY <1>5 DEF AccInv, RowsOK, IsHere
<1>7. ASSUME NEW a \in Account \ crossed' PROVE CodesOK(a)'
  <2>1. CodesOK(a)
    BY <1>1 DEF AccInv
  <2>2. About(a)' = IF c.of = a THEN About(a) \cup {w} ELSE About(a)
    BY <1>2, NobodysNumber DEF About
  <2>3. c.of = a => About(a) = {}
    BY <1>1, NobodysNumber
  <2>4. \A v \in About(a) : v # w /\ call'[v] = call[v]
    BY <1>2, NobodysNumber DEF About
  <2>5. \A v, u \in About(a)' : v = u
    BY <2>1, <2>2, <2>3 DEF CodesOK
  <2>6. ASSUME NEW v \in About(a)' PROVE CallOK(a, v)'
    <3>1. CASE v = w
      <4>1. \A q, r \in request : q.id = r.id => q = r
        BY DEF AccInv, RowsOK
      <4>2. call'[v] = c
        BY <1>2, <3>1
      <4>3. c.pc = "mail" /\ c.req.id # 0 => ~IsOld(c.req)'
        BY DEF IsOld
      <4>4. c.pc = "redeem" => \A q \in request' : q.id = c.req.id => q.code = c.req.code
        BY <4>1
      <4> QED BY <4>2, <4>3, <4>4 DEF CallOK, IsOld
    <3>2. CASE v \in About(a)
      <4>1. CallOK(a, v) /\ call'[v] = call[v]
        BY <2>1, <2>4, <3>2 DEF CodesOK
      <4> QED BY <4>1 DEF CallOK, IsOld
    <3> QED BY <2>2, <3>1, <3>2
  <2>7. \A k \in Kind : Works(a, k) => Works(a, k)'
    BY DEF Works, Open, IsOld
  <2>8. \A k \in Kind : InHand(a, k) => InHand(a, k)'
    BY <2>2, <2>4 DEF InHand
  <2>9. ASSUME NEW k \in Kind PROVE Kept(a, k)'
    <3>1. Kept(a, k)
      BY <2>1 DEF CodesOK
    <3> QED BY <2>7, <2>8, <3>1 DEF Kept
  <2> QED BY <2>5, <2>6, <2>9 DEF CodesOK
<1> QED BY <1>3, <1>4, <1>6, <1>7 DEF AccInv

\* A row is saved that is as its worker read it, but for what he asked for.
LEMMA SavesUserAddress ==
  ASSUME AccInv, NEW w \in AccountWorker, NEW a \in Account, NEW row \in UserRow,
         a = call[w].of, account' = [account EXCEPT ![a] = row],
         clashed' = IF Stale(w) THEN clashed \cup {row.mail} ELSE clashed,
         row.active = call[w].seen.active,
         row.mail = IF call[w].mail = "none" THEN call[w].seen.mail ELSE call[w].mail,
         call[w].mail \in {"none"} \cup Address,
         \A m \in Address : Seeking(m)' \subseteq Seeking(m),
         \A m \in Address : w \notin Seeking(m)'
  PROVE  AddressesOK'
<1>0. account \in [Account -> {NoAccount} \cup UserRow]
  BY DEF AccInv, AccTypes
<1>1. \A b \in Account \ {a} : account'[b] = account[b]
  BY <1>0
<1>2. account'[a] = row
  BY <1>0
<1>3. ASSUME NEW m \in Address \ clashed' PROVE OneEach(m)'
  <2>1. OneEach(m)
    BY DEF AccInv, AddressesOK
  <2>2. \A b \in Account \ {a} : (IsActive(b) /\ account[b].mail = m)' <=> IsActive(b) /\ account[b].mail = m
    BY <1>1 DEF IsActive, IsHere
  <2>3. ASSUME row.mail # m PROVE OneEach(m)'
    <3>1. \A b \in Account : (IsActive(b) /\ account[b].mail = m)' => IsActive(b) /\ account[b].mail = m
      BY <1>2, <2>2, <2>3
    <3> QED BY <2>1, <3>1 DEF OneEach, Taken
  <2>4. ASSUME row.mail = m PROVE OneEach(m)'
    <3>1. ~Stale(w) /\ account[a].active = row.active /\ account[a].mail = call[w].seen.mail
      BY <2>4 DEF Stale
    <3>2. CASE call[w].mail = "none"
      <4>1. account[a].mail = m
        BY <2>4, <3>1, <3>2
      <4>2. IsHere(a)
        BY DEF AccInv, AccTypes
      <4>3. (IsActive(a) /\ account[a].mail = m)' => IsActive(a) /\ account[a].mail = m
        BY <1>2, <3>1, <4>1, <4>2 DEF IsActive, IsHere
      <4>4. \A b \in Account : (IsActive(b) /\ account[b].mail = m)' => IsActive(b) /\ account[b].mail = m
        BY <2>2, <4>3
      <4> QED BY <2>1, <4>4 DEF OneEach, Taken
    <3>3. CASE call[w].mail # "none"
      <4>1. w \in Seeking(m)
        BY <2>4, <3>3 DEF Seeking
      <4>2. ~Taken(m) /\ Seeking(m) = {w}
        BY <2>1, <4>1 DEF OneEach
      <4>3. Seeking(m)' = {}
        BY <4>2
      <4>4. \A b \in Account : (IsActive(b) /\ account[b].mail = m)' => b = a
        BY <2>2, <4>2 DEF Taken
      <4> QED BY <4>3, <4>4 DEF OneEach
    <3> QED BY <3>2, <3>3
  <2> QED BY <2>3, <2>4
<1> QED BY <1>3 DEF AddressesOK

\* Nothing but calls that end or go on, and accounts that leave or are deactivated.
LEMMA SameAddresses ==
  ASSUME AccInv, UNCHANGED clashed,
         \A a \in Account : IsActive(a)' => IsActive(a) /\ account'[a].mail = account[a].mail,
         \A m \in Address : Seeking(m)' \subseteq Seeking(m)
  PROVE  AddressesOK'
<1>1. ASSUME NEW m \in Address \ clashed' PROVE OneEach(m)'
  <2>1. OneEach(m)
    BY DEF AccInv, AddressesOK
  <2> QED BY <2>1 DEF OneEach, Taken
<1> QED BY <1>1 DEF AddressesOK

\* A worker that has nothing to do with requests any more, or never had: the codes stay.
LEMMA SameCodes ==
  ASSUME AccInv, NEW w \in AccountWorker,
         UNCHANGED <<request, epoch, codes, mailed, spent, aged>>,
         \A v \in AccountWorker \ {w} : call'[v] = call[v],
         \/ /\ call'[w].of = 0
            /\ call'[w].pc \notin {"mail", "conf", "request", "redeem", "close"}
            /\ call[w].of \in Account \ crossed' => call[w].pc \in {"save"}
         \/ /\ call'[w].of = call[w].of /\ call'[w].req = call[w].req
            /\ \/ call[w].pc = "conf" /\ call'[w].pc = "request"
               \/ call[w].pc = "redeem" /\ call'[w].pc = "close",
         \A a \in Account : IsHere(a) => IsHere(a)',
         crossed \subseteq crossed'
  PROVE  RowsOK' /\ \A a \in Account \ crossed' : CodesOK(a)'
<1>1. KnownRows' \subseteq KnownRows
  <2>1. \A v \in AccountWorker : v \in WithRow' => v \in WithRow /\ call'[v].req = call[v].req
    BY DEF WithRow
  <2> QED BY <2>1 DEF KnownRows, WithRow
<1>2. RowsOK'
  <2>1. \A q \in KnownRows : q.of \in Account
    <3>1. AccTypes /\ request \subseteq CodeRow
      BY DEF AccInv, AccTypes
    <3>2. \A v \in WithRow : call[v].req \in CodeRow
      BY <3>1, AtCall DEF WithRow
    <3> QED BY <3>1, <3>2 DEF KnownRows, CodeRow
  <2> QED BY <1>1, <2>1 DEF AccInv, RowsOK
<1>3. ASSUME NEW a \in Account \ crossed' PROVE CodesOK(a)'
  <2>1. CodesOK(a)
    BY DEF AccInv
  <2>2. About(a)' \subseteq About(a)
    BY NobodysNumber DEF About
  <2>3. \A v \in About(a)' : \/ call'[v] = call[v]
                             \/ /\ v = w /\ call'[w].req = call[w].req
                                /\ \/ call[w].pc = "conf" /\ call'[w].pc = "request"
                                   \/ call[w].pc = "redeem" /\ call'[w].pc = "close"
    BY NobodysNumber DEF About
  <2>4. \A v \in About(a) : call[v].pc \in {"conf", "request"} =>
          v \in About(a)' /\ call'[v].pc \in {"conf", "request"} /\ call'[v].req = call[v].req
    <3>1. \A v \in About(a) : call[v].of = a
      BY DEF About
    <3> QED BY <3>1 DEF About
  <2>5. ASSUME NEW v \in About(a)' PROVE CallOK(a, v)'
    <3>1. CallOK(a, v)
      BY <2>1, <2>2 DEF CodesOK
    <3>2. CASE call'[v] = call[v]
      BY <3>1, <3>2 DEF CallOK, IsOld
    <3>3. CASE call'[v].req = call[v].req /\ call[v].pc = "conf" /\ call'[v].pc = "request"
      BY <3>1, <3>3 DEF CallOK, IsOld
    <3>4. CASE call'[v].req = call[v].req /\ call[v].pc = "redeem" /\ call'[v].pc = "close"
      BY <3>1, <3>4 DEF CallOK
    <3> QED BY <2>3, <3>2, <3>3, <3>4
  <2>6. ASSUME NEW k \in Kind PROVE Kept(a, k)'
    <3>1. Works(a, k) => Works(a, k)'
      BY DEF Works, Open, IsOld
    <3>2. InHand(a, k) => InHand(a, k)'
      BY <2>4 DEF InHand
    <3>3. Kept(a, k)
      BY <2>1 DEF CodesOK
    <3> QED BY <3>1, <3>2, <3>3 DEF Kept
  <2>7. \A v, u \in About(a)' : v = u
    BY <2>1, <2>2 DEF CodesOK
  <2> QED BY <2>5, <2>6, <2>7 DEF CodesOK
<1> QED BY <1>2, <1>3

\* A registration, an edit, and a code that is presented.
LEMMA CallsBeginInv ==
  ASSUME AccInv, NEW w \in AccountWorker,
         \/ \E m \in Address : Register(w, m) \/ RegisterGuest(w, m)
         \/ \E a \in Account : \/ ChangeProfile(w, a) \/ RedeemConfNum(w, a)
                               \/ \E m \in Address : ChangeAddress(w, a, m)
         \/ \E q \in request : Redeem(w, q)
  PROVE  AccInv'
<1>0. /\ account \in [Account -> {NoAccount} \cup UserRow] /\ request \subseteq CodeRow
      /\ \A a \in Account : IsHere(a) => account[a] \in UserRow
  BY DEF AccInv, AccTypes, IsHere, NoAccount
<1>1. ASSUME NEW m \in Address, Register(w, m) \/ RegisterGuest(w, m) PROVE AccInv'
  <2>0. PICK pc \in {"register", "guest"} :
          /\ TakeUp(w, [pc |-> pc, of |-> 0, mail |-> m])
          /\ ~Taken(m) /\ UNCHANGED <<account, request, epoch, codes, mailed, spent, aged>>
    BY <1>1, Zenon DEF Register, RegisterGuest
  <2> DEFINE c == [pc |-> pc, of |-> 0, mail |-> m]
  <2>1. c \in AccountCalls /\ c.pc \in {"register", "guest"} /\ c.of = 0 /\ c.mail = m
    BY DEF AccountCalls, Registering
  <2>2. TakeUp(w, c) /\ ~Taken(m) /\ UNCHANGED <<account, request, epoch, codes, mailed, spent, aged>>
    BY <2>0
  <2> HIDE DEF c
  <2> QED BY <2>1, <2>2, NobodysNumber, TakesUpInv
<1>2. ASSUME NEW a \in Account, ChangeProfile(w, a) \/ RedeemConfNum(w, a) PROVE AccInv'
  <2>1. IsHere(a) /\ account[a] \in UserRow
    BY <1>0, <1>2 DEF ChangeProfile, RedeemConfNum, IsActive
  <2>2. ASSUME NEW r \in UserRow
        PROVE  LET n == [r EXCEPT !.validated = TRUE]
               IN n \in UserRow /\ n.active = r.active /\ n.mail = r.mail
    BY DEF UserRow
  <2>3. PICK row \in UserRow : /\ ChangeProfile(w, a) => row = account[a]
                               /\ RedeemConfNum(w, a) /\ ~ChangeProfile(w, a) =>
                                    row = [account[a] EXCEPT !.validated = TRUE]
                               /\ row.active = account[a].active /\ row.mail = account[a].mail
    BY <2>1, <2>2, Zenon
  <2> DEFINE c == [pc |-> "save", of |-> a, mail |-> "none", seen |-> account[a], row |-> row]
  <2>4. /\ c \in AccountCalls /\ c.pc = "save" /\ c.of = a /\ c.mail = "none"
    BY <2>1, <2>3 DEF AccountCalls, SavingUser, AsAsked
  <2>5. TakeUp(w, c) /\ UNCHANGED <<account, request, epoch, codes, mailed, spent, aged>>
    <3>1. CASE ChangeProfile(w, a)
      BY <2>3, <3>1 DEF ChangeProfile
    <3>2. CASE ~ChangeProfile(w, a)
      BY <1>2, <2>3, <3>2, Zenon DEF RedeemConfNum
    <3> QED BY <3>1, <3>2
  <2> HIDE DEF c
  <2> QED BY <2>1, <2>4, <2>5, TakesUpInv
<1>3. ASSUME NEW a \in Account, NEW m \in Address, ChangeAddress(w, a, m) PROVE AccInv'
  <2>1. IsHere(a) /\ account[a] \in UserRow /\ ~Taken(m)
    BY <1>0, <1>3 DEF ChangeAddress, IsActive, EverTaken, Taken
  <2>2. ASSUME NEW r \in UserRow
        PROVE  LET n == [r EXCEPT !.mail = m]
               IN n \in UserRow /\ n.active = r.active /\ n.mail = m
    BY DEF UserRow
  <2>3. PICK row \in UserRow : /\ row = [account[a] EXCEPT !.mail = m]
                               /\ row.active = account[a].active /\ row.mail = m
    BY <2>1, <2>2, Zenon
  <2> DEFINE c == [pc |-> "save", of |-> a, mail |-> m, seen |-> account[a], row |-> row]
  <2>4. /\ c \in AccountCalls /\ c.pc = "save" /\ c.of = a /\ c.mail = m
    BY <2>1, <2>3 DEF AccountCalls, SavingUser, AsAsked
  <2>5. TakeUp(w, c) /\ UNCHANGED <<account, request, epoch, codes, mailed, spent, aged>>
    BY <1>3, <2>3, Zenon DEF ChangeAddress
  <2> HIDE DEF c
  <2> QED BY <2>1, <2>4, <2>5, TakesUpInv
<1>4. ASSUME NEW q \in request, Redeem(w, q) PROVE AccInv'
  <2>0. PICK a \in Account : a = q.of
    BY <1>0 DEF CodeRow
  <2>1. IsHere(a) /\ account[a] \in UserRow /\ q \in CodeRow /\ q.id # 0
    BY <1>0, <2>0 DEF AccInv, RowsOK, KnownRows
  <2>2. ASSUME NEW r \in UserRow
        PROVE  LET n == [r EXCEPT !.validated = @ \/ q.kind = "validation"]
               IN n \in UserRow /\ n.active = r.active /\ n.mail = r.mail
    BY DEF UserRow
  <2>3. PICK row \in UserRow : /\ row = [account[a] EXCEPT !.validated = @ \/ q.kind = "validation"]
                               /\ row.active = account[a].active /\ row.mail = account[a].mail
    BY <2>1, <2>2, Zenon
  <2> DEFINE c == [pc |-> "redeem", of |-> a, mail |-> "none", req |-> q, seen |-> account[a], row |-> row]
  <2>4. /\ c \in AccountCalls /\ c.pc = "redeem" /\ c.of = a /\ c.mail = "none" /\ c.req = q
    BY <2>0, <2>1, <2>3 DEF AccountCalls, RedeemingOne, AsAsked
  <2>5. TakeUp(w, c) /\ UNCHANGED <<account, request, epoch, codes, mailed, spent, aged>>
    BY <1>4, <2>0, <2>3, Zenon DEF Redeem
  <2> HIDE DEF c
  <2> QED BY <2>1, <2>4, <2>5, TakesUpInv
<1> QED BY <1>1, <1>2, <1>3, <1>4

\* A code is asked for: the old requests are cleared, and an open one is taken or made.
LEMMA SendCodeInv ==
  ASSUME AccInv, NEW w \in AccountWorker, NEW a \in Account, NEW k \in Kind, SendCode(w, a, k)
  PROVE  AccInv'
<1>0. /\ request \subseteq CodeRow /\ IsHere(a) /\ account[a] \in UserRow
  BY DEF AccInv, AccTypes, IsHere, NoAccount, SendCode, IsActive
<1>1. PICK q : /\ q = [id |-> 0, of |-> a, kind |-> k, code |-> 0, born |-> 0] \/
                    (q \in request' /\ q.of = a /\ q.kind = k)
               /\ TakeUp(w, [pc |-> "mail", of |-> a, mail |-> "none", seen |-> account[a], req |-> q])
               /\ request' = {r \in request : r.kind # k \/ ~IsOld(r)}
               /\ UNCHANGED <<account, epoch, codes, mailed, spent, aged>>
  BY DEF SendCode
<1>2. q \in CodeRow /\ q.of = a /\ (q.id # 0 => q \in request' /\ ~IsOld(q))
  <2>1. CASE q = [id |-> 0, of |-> a, kind |-> k, code |-> 0, born |-> 0]
    BY <2>1 DEF CodeRow
  <2>2. CASE q \in request' /\ q.of = a /\ q.kind = k
    BY <1>0, <1>1, <2>2
  <2> QED BY <1>1, <2>1, <2>2
<1> DEFINE c == [pc |-> "mail", of |-> a, mail |-> "none", seen |-> account[a], req |-> q]
<1>3. c \in AccountCalls /\ c.pc = "mail" /\ c.of = a /\ c.mail = "none" /\ c.req = q
  BY <1>0, <1>2 DEF AccountCalls, SendingCode
<1>4. request' \subseteq request /\ \A r \in request \ request' : IsOld(r)
  BY <1>1
<1> HIDE DEF c
<1>5. TakeUp(w, c)
  BY <1>1 DEF c
<1> QED BY <1>0, <1>1, <1>2, <1>3, <1>4, <1>5, TakesUpInv

\* The row of a new account.
LEMMA NewUserRow ==
  ASSUME NEW m \in Address
  PROVE  NewUser(m) \in UserRow /\ NewUser(m).here /\ NewUser(m).active /\ NewUser(m).mail = m
BY DEF NewUser, UserRow

\* An address that was asked for, and that nobody had, is given to one account.
LEMMA NewAddress ==
  ASSUME AccInv, NEW w \in AccountWorker, NEW a \in Account, NEW mail \in Address, NEW row \in UserRow,
         call[w].mail \in Address, row.mail = mail,
         account' = [account EXCEPT ![a] = row], call'[w].mail = "none",
         \A v \in AccountWorker \ {w} : call'[v] = call[v],
         clashed' = IF mail # call[w].mail THEN clashed \cup {mail} ELSE clashed
  PROVE  AddressesOK'
<1>1. account'[a] = row /\ \A b \in Account \ {a} : account'[b] = account[b]
  BY DEF AccInv, AccTypes
<1>2. ASSUME NEW m \in Address \ clashed' PROVE OneEach(m)'
  <2>1. OneEach(m)
    BY DEF AccInv, AddressesOK
  <2>2. Seeking(m)' = Seeking(m) \ {w}
    BY DEF Seeking
  <2>3. CASE m # mail
    <3>1. \A b \in Account : (IsActive(b) /\ account[b].mail = m)' => IsActive(b) /\ account[b].mail = m
      BY <1>1, <2>3 DEF IsActive, IsHere
    <3> QED BY <2>1, <2>2, <3>1 DEF OneEach, Taken
  <2>4. CASE m = mail
    <3>1. w \in Seeking(m)
      BY <2>4 DEF Seeking
    <3>2. Seeking(m) = {w} /\ ~Taken(m)
      BY <2>1, <3>1 DEF OneEach
    <3>3. \A b \in Account : (IsActive(b) /\ account[b].mail = m)' => b = a
      BY <1>1, <3>2 DEF IsActive, IsHere, Taken
    <3>4. Seeking(m)' = {}
      BY <2>2, <3>2
    <3> QED BY <3>3, <3>4 DEF OneEach
  <2> QED BY <2>3, <2>4
<1> QED BY <1>2 DEF AddressesOK

\* A new account has a number of its own, and the address nobody had.
LEMMA AccountMade ==
  ASSUME AccInv, NEW w \in AccountWorker, NEW a \in Account, NEW mail \in Address, NEW row \in UserRow,
         a = NextAccount, call[w].of = 0, call[w].mail \in Address, row.here, row.mail = mail,
         account' = [account EXCEPT ![a] = row], call' = [call EXCEPT ![w] = NoCall],
         clashed' = IF mail # call[w].mail THEN clashed \cup {mail} ELSE clashed,
         UNCHANGED <<request, epoch, codes, mailed, spent, aged, crossed>>
  PROVE  AccInv'
<1>0. /\ AccTypes /\ account \in [Account -> {NoAccount} \cup UserRow]
      /\ call \in [AccountWorker -> AccountCalls]
  BY DEF AccInv, AccTypes
<1>1. /\ call'[w] = NoCall /\ call'[w].pc = "free" /\ call'[w].of = 0 /\ call'[w].mail = "none"
      /\ \A v \in AccountWorker \ {w} : call'[v] = call[v]
      /\ account'[a] = row /\ \A b \in Account \ {a} : account'[b] = account[b]
  BY <1>0 DEF NoCall
<1>2. \A b \in Account : IsHere(b) => IsHere(b)'
  BY <1>1 DEF IsHere
<1>3. AccTypes'
  <2>1. ASSUME NEW v \in AccountWorker, call'[v].of \in Account PROVE account'[call'[v].of].here
    <3>1. call'[v] = call[v]
      BY <1>1, <2>1, NobodysNumber
    <3> QED BY <1>0, <1>2, <2>1, <3>1 DEF AccTypes, IsHere
  <2>2. call' \in [AccountWorker -> AccountCalls] /\ account' \in [Account -> {NoAccount} \cup UserRow]
    BY <1>0 DEF AccountCalls
  <2> QED BY <1>0, <2>1, <2>2 DEF AccTypes, IsHere
<1>4. AddressesOK'
  BY <1>1, NewAddress, ZenonT(30)
<1>5. RowsOK' /\ \A b \in Account \ crossed' : CodesOK(b)'
  BY <1>1, <1>2, NobodysNumber, SameCodes
<1> QED BY <1>3, <1>4, <1>5 DEF AccInv

LEMMA SaveRegisteredInv ==
  ASSUME AccInv, NEW w \in AccountWorker, SaveRegistered(w)
  PROVE  AccInv'
<1>0. AccTypes /\ call \in [AccountWorker -> AccountCalls]
  BY DEF AccInv, AccTypes
<1>1. PICK a \in Account : a = NextAccount
  BY DEF SaveRegistered
<1>2. PICK mail \in Address : mail = call[w].mail /\ call[w].of = 0
  BY <1>0, AtCall DEF SaveRegistered, Registering
<1>3. PICK row \in UserRow : row = NewUser(mail) /\ row.here /\ row.mail = mail
  BY NewUserRow
<1>4. /\ account' = [account EXCEPT ![a] = row] /\ call' = [call EXCEPT ![w] = NoCall]
      /\ clashed' = IF mail # call[w].mail THEN clashed \cup {mail} ELSE clashed
      /\ UNCHANGED <<request, epoch, codes, mailed, spent, aged, crossed>>
  BY <1>1, <1>2, <1>3 DEF SaveRegistered, Hang
<1> QED BY <1>1, <1>2, <1>3, <1>4, AccountMade, ZenonT(30)

\* A guest's account is made under the address as it is kept.
LEMMA SaveGuestInv ==
  ASSUME AccInv, NEW w \in AccountWorker, SaveGuest(w)
  PROVE  AccInv'
<1>0. AccTypes /\ call \in [AccountWorker -> AccountCalls] /\ NormalOf \in [Address -> Address]
  BY AccountsAssumption DEF AccInv, AccTypes
<1>1. PICK a \in Account : a = NextAccount
  BY DEF SaveGuest
<1>2. call[w].mail \in Address /\ call[w].of = 0
  BY <1>0, AtCall DEF SaveGuest, Registering
<1>3. PICK mail \in Address : mail = NormalOf[call[w].mail]
  BY <1>0, <1>2
<1>4. PICK row \in UserRow : row = NewUser(mail) /\ row.here /\ row.mail = mail
  BY NewUserRow
<1>5. /\ account' = [account EXCEPT ![a] = row] /\ call' = [call EXCEPT ![w] = NoCall]
      /\ clashed' = IF mail # call[w].mail THEN clashed \cup {mail} ELSE clashed
      /\ UNCHANGED <<request, epoch, codes, mailed, spent, aged, crossed>>
  BY <1>1, <1>3, <1>4, Zenon DEF SaveGuest, Hang
<1> QED BY <1>1, <1>2, <1>4, <1>5, AccountMade, ZenonT(30)

\* The row of the account is saved, with the address that was asked for or a new password.
LEMMA UserSavedInv ==
  ASSUME AccInv, NEW w \in AccountWorker, SaveChange(w) \/ SaveConfNum(w) \/ RedeemSavesUser(w)
  PROVE  AccInv'
<1>0. /\ AccTypes /\ account \in [Account -> {NoAccount} \cup UserRow]
      /\ call \in [AccountWorker -> AccountCalls]
  BY DEF AccInv, AccTypes
<1>1. PICK a \in Account, row \in UserRow, job \in AccountCalls :
        /\ a = call[w].of /\ account' = [account EXCEPT ![a] = row]
        /\ clashed' = IF Stale(w) THEN clashed \cup {row.mail} ELSE clashed
        /\ row.active = call[w].seen.active
        /\ row.mail = IF call[w].mail = "none" THEN call[w].seen.mail ELSE call[w].mail
        /\ call' = [call EXCEPT ![w] = job] /\ job.mail = "none"
        /\ \/ /\ job = NoCall /\ call[w].pc = "save"
           \/ /\ job.of = a /\ job.req = call[w].req
              /\ \/ call[w].pc = "conf" /\ job.pc = "request"
                 \/ call[w].pc = "redeem" /\ job.pc = "close"
  <2>1. CASE SaveChange(w)
    <3>1. call[w] \in SavingUser /\ call[w].pc = "save"
      BY <1>0, <2>1, AtCall DEF SaveChange
    <3>2. call[w].of \in Account /\ call[w].row \in UserRow /\ AsAsked(call[w])
      BY <3>1 DEF SavingUser
    <3>3. NoCall \in AccountCalls /\ NoCall.mail = "none"
      BY DEF AccountCalls, NoCall
    <3> QED BY <2>1, <3>1, <3>2, <3>3 DEF SaveChange, SaveUser, Hang, AsAsked
  <2>2. CASE SaveConfNum(w)
    <3>1. call[w] \in SendingCode /\ call[w].pc = "conf"
      BY <1>0, <2>2, AtCall DEF SaveConfNum
    <3>2. /\ call[w].of \in Account /\ call[w].seen \in UserRow /\ call[w].req \in CodeRow
          /\ call[w].mail = "none" /\ call[w].req.code \in Nat
      BY <3>1 DEF SendingCode, CodeRow
    <3>3. PICK s \in UserRow, num \in Nat : s = call[w].seen /\ num = call[w].req.code
      BY <3>2
    <3>4. PICK row : row = [s EXCEPT !.conf = num]
      OBVIOUS
    <3>5. /\ row \in UserRow /\ row = [call[w].seen EXCEPT !.conf = call[w].req.code]
          /\ row.active = call[w].seen.active /\ row.mail = call[w].seen.mail
      BY <3>3, <3>4 DEF UserRow
    <3>6. ASSUME NEW c \in SendingCode, c.pc = "conf"
          PROVE  LET n == [c EXCEPT !.pc = "request"]
                 IN /\ n \in SendingCode /\ n.pc = "request" /\ n.of = c.of /\ n.req = c.req
                    /\ n.mail = "none"
      BY <3>6 DEF SendingCode
    <3>7. PICK job \in SendingCode : /\ job = [call[w] EXCEPT !.pc = "request"] /\ job.pc = "request"
                                     /\ job.of = call[w].of /\ job.req = call[w].req /\ job.mail = "none"
      BY <3>1, <3>6, Zenon
    <3>8. call' = [call EXCEPT ![w] = job]
      BY <1>0, <2>2, <3>7 DEF SaveConfNum
    <3>9. /\ account' = [account EXCEPT ![call[w].of] = row]
          /\ clashed' = IF Stale(w) THEN clashed \cup {row.mail} ELSE clashed
      BY <2>2, <3>5, Zenon DEF SaveConfNum, SaveUser
    <3>10. job \in AccountCalls
      BY <3>7 DEF AccountCalls
    <3>11. PICK a \in Account : a = call[w].of
      BY <3>2
    <3>12. /\ a = call[w].of /\ account' = [account EXCEPT ![a] = row]
           /\ clashed' = IF Stale(w) THEN clashed \cup {row.mail} ELSE clashed
           /\ row.active = call[w].seen.active
           /\ row.mail = IF call[w].mail = "none" THEN call[w].seen.mail ELSE call[w].mail
           /\ call' = [call EXCEPT ![w] = job] /\ job.mail = "none"
           /\ job.of = a /\ job.req = call[w].req
           /\ \/ call[w].pc = "conf" /\ job.pc = "request"
              \/ call[w].pc = "redeem" /\ job.pc = "close"
      BY <3>1, <3>2, <3>5, <3>7, <3>8, <3>9, <3>11
    <3> QED BY <3>5, <3>10, <3>12, Zenon
  <2>3. CASE RedeemSavesUser(w)
    <3>1. call[w] \in RedeemingOne /\ call[w].pc = "redeem"
      BY <1>0, <2>3, AtCall DEF RedeemSavesUser
    <3>2. /\ call[w].of \in Account /\ call[w].row \in UserRow /\ AsAsked(call[w])
          /\ call[w].mail = "none"
      BY <3>1 DEF RedeemingOne
    <3>5. ASSUME NEW c \in RedeemingOne
          PROVE  LET n == [c EXCEPT !.pc = "close"]
                 IN /\ n \in RedeemingOne /\ n.pc = "close" /\ n.of = c.of /\ n.req = c.req
                    /\ n.mail = "none"
      BY DEF RedeemingOne, AsAsked
    <3>6. PICK job \in RedeemingOne : /\ job = [call[w] EXCEPT !.pc = "close"] /\ job.pc = "close"
                                      /\ job.of = call[w].of /\ job.req = call[w].req /\ job.mail = "none"
      BY <3>1, <3>5, Zenon
    <3>7. call' = [call EXCEPT ![w] = job]
      BY <1>0, <2>3, <3>6 DEF RedeemSavesUser
    <3>8. /\ account' = [account EXCEPT ![call[w].of] = call[w].row]
          /\ clashed' = IF Stale(w) THEN clashed \cup {call[w].row.mail} ELSE clashed
      BY <2>3, Zenon DEF RedeemSavesUser, SaveUser
    <3>9. job \in AccountCalls
      BY <3>6 DEF AccountCalls
    <3>4. PICK row \in UserRow : row = call[w].row
      BY <3>2
    <3>10. PICK a \in Account : a = call[w].of
      BY <3>2
    <3>11. /\ a = call[w].of /\ account' = [account EXCEPT ![a] = row]
           /\ clashed' = IF Stale(w) THEN clashed \cup {row.mail} ELSE clashed
           /\ row.active = call[w].seen.active
           /\ row.mail = IF call[w].mail = "none" THEN call[w].seen.mail ELSE call[w].mail
           /\ call' = [call EXCEPT ![w] = job] /\ job.mail = "none"
           /\ job.of = a /\ job.req = call[w].req
           /\ \/ call[w].pc = "conf" /\ job.pc = "request"
              \/ call[w].pc = "redeem" /\ job.pc = "close"
      BY <3>1, <3>2, <3>4, <3>6, <3>7, <3>8, <3>10 DEF AsAsked
    <3> QED BY <3>9, <3>11, Zenon
  <2> QED BY <2>1, <2>2, <2>3
<1>2. UNCHANGED <<request, epoch, codes, mailed, spent, aged, crossed>>
  BY DEF SaveChange, SaveConfNum, RedeemSavesUser
<1>3. /\ call'[w] = job /\ \A v \in AccountWorker \ {w} : call'[v] = call[v]
      /\ account'[a] = row /\ \A b \in Account \ {a} : account'[b] = account[b]
      /\ NoCall.of = 0 /\ NoCall.pc = "free" /\ row.here
  BY <1>0, <1>1 DEF NoCall, UserRow
<1>4. \A b \in Account : IsHere(b) => IsHere(b)'
  BY <1>3 DEF IsHere
<1>5. AccTypes'
  <2>1. ASSUME NEW v \in AccountWorker, call'[v].of \in Account PROVE account'[call'[v].of].here
    <3>1. CASE v = w
      BY <1>1, <1>3, <2>1, <3>1, NobodysNumber
    <3>2. CASE v # w
      BY <1>0, <1>3, <1>4, <2>1, <3>2 DEF AccTypes, IsHere
    <3> QED BY <3>1, <3>2
  <2>2. call' \in [AccountWorker -> AccountCalls] /\ account' \in [Account -> {NoAccount} \cup UserRow]
    BY <1>0, <1>1
  <2> QED BY <1>0, <1>2, <2>1, <2>2 DEF AccTypes, IsHere
<1>6. AddressesOK'
  <2>1. \A m \in Address : Seeking(m)' \subseteq Seeking(m) /\ w \notin Seeking(m)'
    BY <1>1, <1>3 DEF Seeking
  <2>2. call[w].mail \in {"none"} \cup Address
    BY <1>0, AtCall
  <2> QED BY <1>1, <2>1, <2>2, SavesUserAddress
<1>7. RowsOK' /\ \A b \in Account \ crossed' : CodesOK(b)'
  BY <1>1, <1>2, <1>3, <1>4, SameCodes
<1> QED BY <1>5, <1>6, <1>7 DEF AccInv

\* A call is cut short: what it was about is crossed.
LEMMA EndsInv ==
  ASSUME AccInv, NEW w \in AccountWorker, CallDies(w)
  PROVE  AccInv'
<1>0. AccTypes /\ call \in [AccountWorker -> AccountCalls]
  BY DEF AccInv, AccTypes
<1>1. /\ call' = [call EXCEPT ![w] = NoCall] /\ crossed' = crossed \cup ({call[w].of} \cap Account)
      /\ UNCHANGED <<account, request, epoch, codes, mailed, spent, aged, clashed>>
  BY DEF CallDies, Hang
<1>2. /\ call'[w] = NoCall /\ call'[w].pc = "free" /\ call'[w].of = 0 /\ call'[w].mail = "none"
      /\ \A v \in AccountWorker \ {w} : call'[v] = call[v]
  BY <1>0, <1>1 DEF NoCall
<1>3. AccTypes'
  BY <1>0, <1>1, <1>2, NobodysNumber DEF AccTypes, AccountCalls, IsHere
<1>4. AddressesOK'
  <2>1. \A m \in Address : Seeking(m)' \subseteq Seeking(m)
    BY <1>2 DEF Seeking
  <2> QED BY <1>1, <2>1, SameAddresses DEF IsActive, IsHere
<1>5. RowsOK' /\ \A b \in Account \ crossed' : CodesOK(b)'
  <2>1. \A b \in Account : IsHere(b) => IsHere(b)'
    BY <1>1 DEF IsHere
  <2>2. call[w].of \notin Account \ crossed'
    BY <1>1
  <2> QED BY <1>1, <1>2, <2>1, <2>2, SameCodes
<1> QED BY <1>3, <1>4, <1>5 DEF AccInv

\* An account is deactivated, which frees its address.
LEMMA DeactivateInv ==
  ASSUME AccInv, NEW a \in Account, DeactivateUser(a)
  PROVE  AccInv'
<1>0. AccTypes /\ account \in [Account -> {NoAccount} \cup UserRow] /\ account[a] \in UserRow
  BY DEF AccInv, AccTypes, DeactivateUser, IsActive, IsHere, NoAccount
<1>1. PICK row \in UserRow : row = [account[a] EXCEPT !.active = FALSE] /\ row.here /\ ~row.active
  <2>1. ASSUME NEW r \in UserRow
        PROVE  LET n == [r EXCEPT !.active = FALSE] IN n \in UserRow /\ n.here /\ ~n.active
    BY DEF UserRow
  <2> QED BY <1>0, <2>1, Zenon
<1>2. /\ account' = [account EXCEPT ![a] = row] /\ crossed \subseteq crossed'
      /\ UNCHANGED <<request, call, epoch, codes, mailed, spent, aged, clashed>>
  BY <1>0, <1>1 DEF DeactivateUser
<1>3. account'[a] = row /\ \A b \in Account \ {a} : account'[b] = account[b]
  BY <1>0, <1>2
<1>4. \A b \in Account : IsHere(b) => IsHere(b)'
  BY <1>1, <1>3 DEF IsHere
<1>5. AccTypes'
  BY <1>0, <1>2, <1>4 DEF AccTypes
<1>6. AddressesOK'
  <2>1. \A b \in Account : IsActive(b)' => IsActive(b) /\ account'[b].mail = account[b].mail
    BY <1>1, <1>3 DEF IsActive, IsHere
  <2>2. \A m \in Address : Seeking(m)' \subseteq Seeking(m)
    BY <1>2 DEF Seeking
  <2> QED BY <1>2, <2>1, <2>2, SameAddresses
<1>7. RowsOK'
  <2>1. KnownRows' = KnownRows /\ \A q \in KnownRows : q.of \in Account
    <3>1. \A v \in WithRow : call[v].req \in CodeRow
      BY <1>0, AtCall DEF WithRow
    <3> QED BY <1>0, <1>2, <3>1 DEF KnownRows, WithRow, AccTypes, CodeRow
  <2> QED BY <1>2, <1>4, <2>1 DEF AccInv, RowsOK
<1>8. \A b \in Account \ crossed' : CodesOK(b)'
  BY <1>2 DEF AccInv, CodesOK, CallOK, Kept, InHand, About, Works, Open, IsOld
<1> QED BY <1>5, <1>6, <1>7, <1>8 DEF AccInv

\* Time passes: what was open is old.
LEMMA ExpireInv ==
  ASSUME AccInv, Expire
  PROVE  AccInv'
<1>0. AccTypes /\ epoch \in Nat /\ request \subseteq CodeRow
  BY DEF AccInv, AccTypes
<1>1. /\ epoch' = epoch + 1
      /\ aged' = aged \cup {<<q.of, q.kind>> : q \in request \cup {call[w].req : w \in Sending}}
      /\ UNCHANGED <<account, request, call, codes, mailed, spent, clashed, crossed>>
  BY DEF Expire
<1>2. AccTypes'
  BY <1>0, <1>1 DEF AccTypes, IsHere
<1>3. AddressesOK'
  <2>1. \A m \in Address : Seeking(m)' \subseteq Seeking(m)
    BY <1>1 DEF Seeking
  <2> QED BY <1>1, <2>1, SameAddresses DEF IsActive, IsHere
<1>4. RowsOK'
  BY <1>1 DEF AccInv, RowsOK, KnownRows, WithRow, IsHere
<1>5. ASSUME NEW a \in Account \ crossed' PROVE CodesOK(a)'
  <2>1. CodesOK(a)
    BY <1>1 DEF AccInv
  <2>2. ASSUME NEW w \in About(a), call[w].pc \in {"mail", "conf", "request"}
        PROVE  <<a, call[w].req.kind>> \in aged'
    <3>1. w \in Sending /\ call[w].req.of = a
      BY <1>0, <2>2, AtCall DEF About, Sending
    <3> QED BY <1>1, <3>1
  <2>3. \A k \in Kind : Works(a, k) => <<a, k>> \in aged'
    BY <1>1 DEF Works, Open
  <2>4. About(a)' = About(a)
    BY <1>1 DEF About
  <2>5. ASSUME NEW w \in About(a) PROVE CallOK(a, w)'
    BY <1>1, <2>1, <2>2, <2>5 DEF CodesOK, CallOK
  <2>6. ASSUME NEW k \in Kind PROVE Kept(a, k)'
    <3>1. Kept(a, k) /\ (InHand(a, k) => InHand(a, k)')
      BY <1>1, <2>1, <2>4 DEF CodesOK, InHand
    <3> QED BY <1>1, <2>3, <3>1 DEF Kept
  <2> QED BY <2>1, <2>4, <2>5, <2>6 DEF CodesOK
<1> QED BY <1>2, <1>3, <1>4, <1>5 DEF AccInv

\* What is too old is cleared.
LEMMA ClearedInv ==
  ASSUME AccInv, (\E k \in Kind : ClearExpired(k)) \/ \E q \in request : RefuseExpired(q)
  PROVE  AccInv'
<1>1. /\ request' \subseteq request /\ \A q \in request \ request' : IsOld(q)
      /\ UNCHANGED <<account, call, epoch, codes, mailed, spent, aged, clashed, crossed>>
  BY DEF ClearExpired, RefuseExpired
<1>2. AccTypes'
  BY <1>1 DEF AccInv, AccTypes, IsHere
<1>3. AddressesOK'
  <2>1. \A m \in Address : Seeking(m)' \subseteq Seeking(m)
    BY <1>1 DEF Seeking
  <2> QED BY <1>1, <2>1, SameAddresses DEF IsActive, IsHere
<1>4. RowsOK'
  <2>1. KnownRows' \subseteq KnownRows
    BY <1>1 DEF KnownRows, WithRow
  <2> QED BY <1>1, <2>1 DEF AccInv, RowsOK, IsHere
<1>5. ASSUME NEW a \in Account \ crossed' PROVE CodesOK(a)'
  <2>1. CodesOK(a)
    BY <1>1 DEF AccInv
  <2>2. \A k \in Kind : Works(a, k) => Works(a, k)'
    BY <1>1 DEF Works, Open, IsOld
  <2>3. About(a)' = About(a)
    BY <1>1 DEF About
  <2>4. ASSUME NEW w \in About(a) PROVE CallOK(a, w)'
    BY <1>1, <2>1 DEF CodesOK, CallOK, IsOld
  <2>5. ASSUME NEW k \in Kind PROVE Kept(a, k)'
    <3>1. Kept(a, k) /\ (InHand(a, k) => InHand(a, k)')
      BY <1>1, <2>1, <2>3 DEF CodesOK, InHand
    <3> QED BY <1>1, <2>2, <3>1 DEF Kept
  <2> QED BY <2>1, <2>3, <2>4, <2>5 DEF CodesOK
<1> QED BY <1>2, <1>3, <1>4, <1>5 DEF AccInv

\* The code is drawn and mailed; the row that keeps it is in the hands of its worker.
LEMMA MailCodeInv ==
  ASSUME AccInv, NEW w \in AccountWorker, MailCode(w)
  PROVE  AccInv'
<1>0. /\ AccTypes /\ call \in [AccountWorker -> AccountCalls] /\ codes \in Nat /\ epoch \in Nat
      /\ mailed \in [Account -> [Kind -> Nat]]
  BY DEF AccInv, AccTypes
<1>1. /\ call[w] \in SendingCode /\ call[w].pc = "mail" /\ call[w].mail = "none"
      /\ call[w].req \in CodeRow /\ call[w].of \in Account /\ call[w].req.of = call[w].of
  BY <1>0, AtCall DEF MailCode
<1>2. PICK a \in Account, k \in Kind, q \in CodeRow :
        a = call[w].of /\ q = call[w].req /\ q.of = a /\ q.kind = k
  BY <1>1 DEF CodeRow
<1>3. PICK n \in Nat : n = codes + 1
  BY <1>0
<1>4. PICK to \in {"conf", "request"}, sent \in CodeRow :
        /\ to = IF q.id = 0 /\ q.kind = "validation" THEN "conf" ELSE "request"
        /\ sent = IF q.id = 0 THEN [q EXCEPT !.code = n, !.id = n, !.born = epoch]
                  ELSE [q EXCEPT !.code = n]
        /\ sent.of = a /\ sent.kind = k /\ sent.code = n /\ sent.id # 0
        /\ q.id = 0 => sent.id = n /\ sent.born = epoch
        /\ q.id # 0 => sent.id = q.id /\ sent.born = q.born
  <2>1. PICK e \in Nat : e = epoch
    BY <1>0
  <2>2. PICK x : x = IF q.id = 0 THEN [q EXCEPT !.code = n, !.id = n, !.born = e]
                     ELSE [q EXCEPT !.code = n]
    OBVIOUS
  <2>3. n # 0
    BY <1>0, <1>3
  <2>4. /\ x \in CodeRow /\ x.of = q.of /\ x.kind = q.kind /\ x.code = n
        /\ q.id = 0 => x.id = n /\ x.born = e
        /\ q.id # 0 => x.id = q.id /\ x.born = q.born
    <3>1. CASE q.id = 0
      <4>1. x = [q EXCEPT !.code = n, !.id = n, !.born = e]
        BY <2>2, <3>1
      <4> QED BY <3>1, <4>1 DEF CodeRow
    <3>2. CASE q.id # 0
      <4>1. x = [q EXCEPT !.code = n]
        BY <2>2, <3>2
      <4> QED BY <3>2, <4>1 DEF CodeRow
    <3> QED BY <3>1, <3>2
  <2>5. PICK to \in {"conf", "request"} :
          to = IF q.id = 0 /\ q.kind = "validation" THEN "conf" ELSE "request"
    OBVIOUS
  <2>6. x.id # 0
    BY <2>3, <2>4
  <2>7. x = IF q.id = 0 THEN [q EXCEPT !.code = n, !.id = n, !.born = epoch]
            ELSE [q EXCEPT !.code = n]
    BY <2>1, <2>2
  <2>8. x.of = a /\ x.kind = k /\ (q.id = 0 => x.id = n /\ x.born = epoch)
    BY <1>2, <2>1, <2>4
  <2> QED BY <2>4, <2>5, <2>6, <2>7, <2>8, Zenon
<1>5. /\ codes' = n /\ mailed' = [mailed EXCEPT ![a][k] = n]
      /\ call' = [call EXCEPT ![w].pc = to, ![w].req = sent]
      /\ aged' = IF q.id = 0 THEN aged \ {<<a, k>>} ELSE aged
      /\ UNCHANGED <<account, request, epoch, spent, clashed, crossed>>
  <2>1. codes' = codes + 1 /\ UNCHANGED <<account, request, epoch, spent, clashed, crossed>>
    BY DEF MailCode
  <2> QED BY <1>2, <1>3, <1>4, <2>1 DEF MailCode
<1>6. PICK job \in SendingCode : /\ job = [call[w] EXCEPT !.pc = to, !.req = sent]
                                 /\ job.pc = to /\ job.req = sent /\ job.of = a /\ job.mail = "none"
  <2>1. ASSUME NEW c \in SendingCode, c.of = a
        PROVE  LET x == [c EXCEPT !.pc = to, !.req = sent]
               IN x \in SendingCode /\ x.pc = to /\ x.req = sent /\ x.of = a /\ x.mail = "none"
    BY <1>4, <2>1 DEF SendingCode
  <2> QED BY <1>1, <1>2, <2>1, Zenon
<1>7. call' = [call EXCEPT ![w] = job]
  BY <1>0, <1>5, <1>6
<1>8. /\ call'[w] = job /\ \A v \in AccountWorker \ {w} : call'[v] = call[v]
      /\ \A v \in AccountWorker : call'[v].of = call[v].of /\ call'[v].mail = call[v].mail
  BY <1>0, <1>1, <1>2, <1>6, <1>7
<1>9. AccTypes'
  <2>1. mailed' \in [Account -> [Kind -> Nat]]
    BY <1>0, <1>3, <1>5
  <2>2. call' \in [AccountWorker -> AccountCalls]
    BY <1>0, <1>7 DEF AccountCalls
  <2> QED BY <1>0, <1>3, <1>5, <1>8, <2>1, <2>2 DEF AccTypes, IsHere
<1>10. AddressesOK'
  <2>1. \A m \in Address : Seeking(m)' \subseteq Seeking(m)
    BY <1>8 DEF Seeking
  <2> QED BY <1>5, <2>1, SameAddresses DEF IsActive, IsHere
<1>11. RowsOK'
  <2>1. RowsOK /\ \A r \in KnownRows : r \in CodeRow
    <3>1. \A v \in WithRow : call[v].req \in CodeRow
      BY <1>0, AtCall DEF WithRow
    <3> QED BY <1>0, <3>1 DEF AccInv, AccTypes, KnownRows
  <2>2. KnownRows' \subseteq KnownRows \cup {sent}
    <3>1. \A v \in AccountWorker : v \in WithRow' => \/ v # w /\ v \in WithRow /\ call'[v].req = call[v].req
                                                     \/ v = w /\ call'[v].req = sent
      BY <1>6, <1>8 DEF WithRow
    <3> QED BY <1>5, <3>1 DEF KnownRows, WithRow
  <2>3. \A r \in KnownRows : r.id \in 1..codes
    BY <2>1 DEF RowsOK
  <2>4. IsHere(a) /\ (q.id # 0 => q \in KnownRows)
    BY <1>1, <1>2 DEF AccInv, AccTypes, KnownRows, WithRow
  <2>5. /\ sent.id \in 1..n
        /\ \A r \in KnownRows : r.id = sent.id => r.of = a /\ r.kind = k
    <3>1. CASE q.id = 0
      BY <1>0, <1>3, <1>4, <2>3, <3>1
    <3>2. CASE q.id # 0
      BY <1>0, <1>2, <1>3, <1>4, <2>1, <2>3, <2>4, <3>2 DEF RowsOK
    <3> QED BY <3>1, <3>2
  <2>6. \A r \in KnownRows : r.id \in 1..n
    BY <1>0, <1>3, <2>3
  <2>7. \A r \in KnownRows' : r.id \in 1..codes' /\ IsHere(r.of)'
    <3>1. \A r \in KnownRows \cup {sent} : r.id \in 1..n /\ IsHere(r.of)
      BY <1>4, <2>1, <2>4, <2>5, <2>6 DEF RowsOK
    <3>2. codes' = n /\ \A r \in KnownRows' : IsHere(r.of)' <=> IsHere(r.of)
      BY <1>5 DEF IsHere
    <3> QED BY <2>2, <3>1, <3>2, Zenon
  <2>8. \A r, x \in KnownRows' : r.id = x.id => r.of = x.of /\ r.kind = x.kind
    <3>1. \A r, x \in KnownRows \cup {sent} : r.id = x.id => r.of = x.of /\ r.kind = x.kind
      <4>1. \A r, x \in KnownRows : r.id = x.id => r.of = x.of /\ r.kind = x.kind
        BY <2>1 DEF RowsOK
      <4>2. sent.of = a /\ sent.kind = k /\ \A r \in KnownRows : r.id = sent.id => r.of = a /\ r.kind = k
        BY <1>4, <2>5
      <4> QED BY <4>1, <4>2, Zenon
    <3> QED BY <2>2, <3>1, Zenon
  <2> QED BY <1>5, <2>1, <2>7, <2>8 DEF RowsOK
<1>12. ASSUME NEW b \in Account \ crossed' PROVE CodesOK(b)'
  <2>1. CodesOK(b) /\ About(b)' = About(b)
    BY <1>5, <1>8 DEF AccInv, About
  <2>2. CASE b # a
    <3>1. /\ \A v \in About(b) : call'[v] = call[v]
          /\ mailed'[b] = mailed[b] /\ \A x \in Kind : <<b, x>> \in aged' <=> <<b, x>> \in aged
      BY <1>0, <1>2, <1>5, <1>8, <2>2 DEF About
    <3>2. ASSUME NEW v \in About(b) PROVE CallOK(b, v)'
      <4>1. CallOK(b, v) /\ (call[v].pc \in {"mail", "conf", "request"} => call[v].req.kind \in Kind)
        BY <1>0, <2>1, AtCall DEF CodesOK, About, CodeRow
      <4> QED BY <1>5, <3>1, <4>1 DEF CallOK, IsOld
    <3>3. ASSUME NEW x \in Kind PROVE Kept(b, x)'
      <4>1. Kept(b, x) /\ (InHand(b, x) => InHand(b, x)')
        BY <2>1, <3>1 DEF CodesOK, InHand
      <4>2. Works(b, x) => Works(b, x)'
        BY <1>5, <3>1 DEF Works, Open, IsOld
      <4> QED BY <1>5, <3>1, <4>1, <4>2 DEF Kept
    <3> QED BY <2>1, <3>2, <3>3 DEF CodesOK
  <2>3. CASE b = a
    <3>1. About(a) = {w}
      BY <1>2, <2>1, <2>3 DEF CodesOK, About
    <3>2. mailed'[a][k] = n /\ \A x \in Kind \ {k} : mailed'[a][x] = mailed[a][x]
      BY <1>0, <1>5
    <3>3. <<a, k>> \in aged' \/ ~IsOld(sent)'
      <4>1. CASE q.id = 0
        <5>1. sent.born = epoch'
          BY <1>4, <1>5, <4>1
        <5> QED BY <1>0, <1>5, <5>1 DEF IsOld
      <4>2. CASE q.id # 0
        <5>1. CallOK(a, w)
          BY <2>1, <2>3, <3>1 DEF CodesOK
        <5>2. <<a, k>> \in aged \/ ~IsOld(q)
          BY <1>1, <1>2, <4>2, <5>1 DEF CallOK
        <5> QED BY <1>4, <1>5, <4>2, <5>2 DEF IsOld
      <4> QED BY <4>1, <4>2
    <3>4. CallOK(a, w)'
      <4>1. call'[w].pc \in {"conf", "request"} /\ call'[w].req = sent
        BY <1>4, <1>6, <1>8
      <4> QED BY <1>4, <3>2, <3>3, <4>1 DEF CallOK, IsOld
    <3>5. ASSUME NEW x \in Kind PROVE Kept(a, x)'
      <4>1. CASE x = k
        <5>1. InHand(a, k)'
          <6>1. call'[w].pc \in {"conf", "request"} /\ call'[w].req.kind = k
            BY <1>4, <1>6, <1>8
          <6>2. w \in About(a)'
            BY <2>1, <2>3, <3>1
          <6> QED BY <6>1, <6>2 DEF InHand
        <5> QED BY <4>1, <5>1 DEF Kept
      <4>2. CASE x # k
        <5>1. Kept(a, x) /\ ~InHand(a, x)
          BY <1>1, <2>1, <2>3, <3>1 DEF CodesOK, InHand
        <5>2. Works(a, x) => Works(a, x)'
          BY <1>5, <3>2, <4>2 DEF Works, Open, IsOld
        <5>3. <<a, x>> \in aged' <=> <<a, x>> \in aged
          BY <1>5, <4>2
        <5> QED BY <1>5, <3>2, <4>2, <5>1, <5>2, <5>3 DEF Kept
      <4> QED BY <4>1, <4>2
    <3> QED BY <2>1, <2>3, <3>1, <3>4, <3>5 DEF CodesOK
  <2> QED BY <2>2, <2>3
<1> QED BY <1>9, <1>10, <1>11, <1>12 DEF AccInv

\* The row is saved: the code that was mailed works, or has been used.
LEMMA RequestSavedInv ==
  ASSUME AccInv, NEW w \in AccountWorker, SaveRequest(w) \/ CloseRequest(w)
  PROVE  AccInv'
<1>0. /\ AccTypes /\ call \in [AccountWorker -> AccountCalls] /\ request \subseteq CodeRow /\ RowsOK
  BY DEF AccInv, AccTypes
<1>1. /\ call[w].pc \in {"request", "close"} /\ call[w].req \in CodeRow /\ call[w].req.id # 0
      /\ call[w].of \in Account /\ call[w].req.of = call[w].of
  <2>1. call[w].pc \in {"request", "close"}
    BY DEF SaveRequest, CloseRequest
  <2>2. call[w].req.id # 0
    BY <1>0, <2>1, AtCall DEF SendingCode, RedeemingOne
  <2> QED BY <1>0, <2>1, <2>2, AtCall
<1>2. PICK a \in Account, k \in Kind, q \in CodeRow :
        a = call[w].of /\ q = call[w].req /\ q.of = a /\ q.kind = k /\ q.id # 0
  BY <1>1 DEF CodeRow
<1>3. /\ call' = [call EXCEPT ![w] = NoCall]
      /\ UNCHANGED <<account, epoch, codes, mailed, aged, clashed, crossed>>
      /\ \/ /\ call[w].pc = "request" /\ spent' = spent
            /\ request' = {r \in request : r.id # q.id} \cup {q}
         \/ /\ call[w].pc = "close" /\ spent' = spent \cup {q.code}
            /\ request' = {r \in request : r.id # q.id}
  <2>1. CASE SaveRequest(w)
    BY <1>2, <2>1 DEF SaveRequest, SavedRequest, Hang
  <2>2. CASE CloseRequest(w)
    BY <1>2, <2>2 DEF CloseRequest, Hang
  <2> QED BY <2>1, <2>2
<1>4. /\ call'[w].of = 0 /\ call'[w].mail = "none" /\ call'[w].pc = "free"
      /\ \A v \in AccountWorker \ {w} : call'[v] = call[v]
  BY <1>0, <1>3 DEF NoCall
<1>5. AccTypes'
  <2>1. request' \subseteq CodeRow
    BY <1>0, <1>3
  <2>2. call' \in [AccountWorker -> AccountCalls]
    BY <1>0, <1>3 DEF AccountCalls
  <2>3. ASSUME NEW v \in AccountWorker, call'[v].of \in Account PROVE account'[call'[v].of].here
    <3>1. call'[v] = call[v]
      BY <1>4, <2>3, NobodysNumber
    <3> QED BY <1>0, <1>3, <2>3, <3>1 DEF AccTypes, IsHere
  <2> QED BY <1>0, <1>3, <2>1, <2>2, <2>3 DEF AccTypes, IsHere
<1>6. AddressesOK'
  <2>1. \A m \in Address : Seeking(m)' \subseteq Seeking(m)
    BY <1>4, AccountsAssumption DEF Seeking
  <2> QED BY <1>3, <2>1, SameAddresses DEF IsActive, IsHere
<1>7. KnownRows' \subseteq KnownRows /\ q \in KnownRows
  <2>1. \A v \in AccountWorker : v \in WithRow' => v \in WithRow /\ call'[v].req = call[v].req
    BY <1>4 DEF WithRow
  <2>2. q \in KnownRows
    BY <1>1, <1>2 DEF KnownRows, WithRow
  <2> QED BY <1>3, <2>1, <2>2 DEF KnownRows, WithRow
<1>8. RowsOK'
  <2>1. \A r, x \in request' : r.id = x.id => r = x
    BY <1>0, <1>3 DEF RowsOK
  <2> QED BY <1>0, <1>3, <1>7, <2>1 DEF RowsOK, IsHere
<1>9. \A r \in request : r.id = q.id => r.of = a /\ r.kind = k
  BY <1>0, <1>2, <1>7 DEF RowsOK, KnownRows
<1>10. \A b \in Account : About(b)' = IF b = a THEN About(a) \ {w} ELSE About(b)
  BY <1>2, <1>4, NobodysNumber DEF About
<1>11. ASSUME NEW b \in Account \ crossed', b # a PROVE CodesOK(b)'
  <2>1. CodesOK(b) /\ \A v \in About(b) : v # w /\ call'[v] = call[v]
    BY <1>2, <1>3, <1>4, <1>11 DEF AccInv, About
  <2>2. ASSUME NEW v \in About(b) PROVE CallOK(b, v)'
    <3>1. CallOK(b, v) /\ (call[v].pc \in {"redeem", "close"} => call[v].req.id # q.id)
      <4>1. CallOK(b, v)
        BY <2>1 DEF CodesOK
      <4>2. ASSUME call[v].pc \in {"redeem", "close"} PROVE call[v].req.id # q.id
        <5>1. call[v].req \in KnownRows /\ call[v].req.of = b
          BY <1>0, <4>2, AtCall DEF About, KnownRows, WithRow, RedeemingOne
        <5> QED BY <1>0, <1>2, <1>7, <1>11, <5>1 DEF RowsOK
      <4> QED BY <4>1, <4>2
    <3>2. call[v].pc \in {"redeem", "close"} => \A r \in request' : r.id = call[v].req.id => r \in request
      BY <1>3, <3>1
    <3> QED BY <1>3, <2>1, <3>1, <3>2 DEF CallOK, IsOld
  <2>3. ASSUME NEW x \in Kind PROVE Kept(b, x)'
    <3>1. Kept(b, x) /\ (InHand(b, x) => InHand(b, x)')
      BY <1>10, <1>11, <2>1 DEF CodesOK, InHand
    <3>2. Works(b, x) => Works(b, x)'
      <4>1. \A r \in request : r.of = b => r \in request'
        BY <1>3, <1>9, <1>11
      <4> QED BY <1>3, <4>1 DEF Works, Open, IsOld
    <3>3. mailed'[b][x] \notin spent' => mailed[b][x] \notin spent
      BY <1>3
    <3> QED BY <1>3, <3>1, <3>2, <3>3 DEF Kept
  <2> QED BY <1>10, <1>11, <2>1, <2>2, <2>3 DEF CodesOK
<1>12. ASSUME a \notin crossed' PROVE CodesOK(a)'
  <2>1. CodesOK(a) /\ About(a) = {w} /\ About(a)' = {}
    BY <1>2, <1>3, <1>10, <1>12 DEF AccInv, CodesOK, About
  <2>2. CallOK(a, w)
    BY <2>1 DEF CodesOK
  <2>3. ASSUME NEW x \in Kind PROVE Kept(a, x)'
    <3>1. Kept(a, x)
      BY <2>1 DEF CodesOK
    <3>2. CASE call[w].pc = "request" /\ x = k
      <4>1. q.code = mailed[a][k] /\ (<<a, k>> \in aged \/ ~IsOld(q)) /\ q \in request'
        BY <1>2, <1>3, <2>2, <3>2 DEF CallOK
      <4>2. <<a, k>> \notin aged => Works(a, k)'
        BY <1>2, <1>3, <4>1 DEF Works, Open, IsOld
      <4> QED BY <1>3, <3>2, <4>2 DEF Kept
    <3>3. CASE call[w].pc = "request" /\ x # k
      <4>1. ~InHand(a, x)
        BY <1>2, <2>1, <3>3 DEF InHand
      <4>2. \A r \in request : r.kind = x => r \in request'
        BY <1>3, <1>9, <3>3
      <4>3. Works(a, x) => Works(a, x)'
        BY <1>3, <4>2 DEF Works, Open, IsOld
      <4> QED BY <1>3, <3>1, <3>3, <4>1, <4>3 DEF Kept
    <3>4. CASE call[w].pc = "close"
      <4>1. ~InHand(a, x) /\ spent' = spent \cup {q.code}
        BY <1>3, <2>1, <3>4 DEF InHand
      <4>2. \A r \in request : r.id = q.id => r.code = q.code
        BY <1>2, <2>2, <3>4 DEF CallOK
      <4>3. \A r \in request : r.code # q.code => r \in request'
        BY <1>3, <4>2
      <4>4. Works(a, x) /\ mailed[a][x] # q.code => Works(a, x)'
        BY <1>3, <4>3 DEF Works, Open, IsOld
      <4> QED BY <1>3, <3>1, <4>1, <4>4 DEF Kept
    <3> QED BY <1>1, <3>2, <3>3, <3>4
  <2> QED BY <2>1, <2>3 DEF CodesOK
<1>13. \A b \in Account \ crossed' : CodesOK(b)'
  BY <1>11, <1>12
<1> QED BY <1>5, <1>6, <1>8, <1>13 DEF AccInv

\* Each step keeps it.
LEMMA AccInvNext ==
  ASSUME AccInv, [AccountNext]_accountVars
  PROVE  AccInv'
<1>1. ASSUME NEW w \in AccountWorker,
             \/ \E m \in Address : Register(w, m) \/ RegisterGuest(w, m)
             \/ \E a \in Account : \/ ChangeProfile(w, a) \/ RedeemConfNum(w, a)
                                   \/ \E m \in Address : ChangeAddress(w, a, m)
             \/ \E q \in request : Redeem(w, q)
      PROVE  AccInv'
  BY <1>1, CallsBeginInv
<1>2. ASSUME NEW w \in AccountWorker,
             \/ SaveRegistered(w) \/ SaveGuest(w) \/ SaveChange(w) \/ MailCode(w) \/ SaveConfNum(w)
             \/ SaveRequest(w) \/ RedeemSavesUser(w) \/ CloseRequest(w) \/ CallDies(w)
      PROVE  AccInv'
  BY <1>2, SaveRegisteredInv, SaveGuestInv, UserSavedInv, MailCodeInv, RequestSavedInv, EndsInv
<1>3. ASSUME NEW w \in AccountWorker, NEW a \in Account,
             SendValidationCode(w, a) \/ SendPasswordReset(w, a)
      PROVE  AccInv'
  <2>1. "validation" \in Kind /\ "reset" \in Kind
    BY DEF Kind
  <2> QED BY <1>3, <2>1, SendCodeInv DEF SendValidationCode, SendPasswordReset
<1>4. ASSUME NEW a \in Account, DeactivateUser(a) PROVE AccInv'
  BY <1>4, DeactivateInv
<1>5. CASE Expire \/ (\E k \in Kind : ClearExpired(k)) \/ \E q \in request : RefuseExpired(q)
  BY <1>5, ExpireInv, ClearedInv
<1>6. CASE UNCHANGED accountVars
  <2>1. UNCHANGED <<account, request, call, epoch, codes, mailed, spent, aged, clashed, crossed>>
    BY <1>6 DEF accountVars
  <2>2. AccTypes' /\ RowsOK'
    BY <2>1 DEF AccInv, AccTypes, RowsOK, KnownRows, WithRow, IsHere
  <2>3. AddressesOK'
    BY <2>1 DEF AccInv, AddressesOK, OneEach, Seeking, Taken, IsActive, IsHere
  <2>4. \A a \in Account \ crossed' : CodesOK(a)'
    BY <2>1 DEF AccInv, CodesOK, CallOK, Kept, InHand, About, Works, Open, IsOld
  <2> QED BY <2>2, <2>3, <2>4 DEF AccInv
<1> QED BY <1>1, <1>2, <1>3, <1>4, <1>5, <1>6 DEF AccountNext

\* Registration, the change of an address, and the codes for validation and password: an address
\* leads to one active account unless two calls met about it, a row was put back or a guest spelled it
\* in another way than it is kept, and the last code that was mailed works until it is used or
\* expires, unless two calls met about the account or one was cut short; for any accounts, addresses
\* and spellings, workers, codes and expiries.
THEOREM AccountsStaySound == AccountSpec => []AccountsSound
<1>1. AccInv => AccountsSound
  <2> SUFFICES ASSUME AccInv PROVE AccountsSound
    OBVIOUS
  <2>1. ASSUME NEW a \in Account, NEW b \in Account, a # b, IsActive(a), IsActive(b),
               account[a].mail = account[b].mail
        PROVE  account[a].mail \in clashed
    <3>1. account[a].mail \in Address
      <4>1. account[a] \in UserRow
        BY <2>1 DEF AccInv, AccTypes, IsActive, IsHere, NoAccount
      <4> QED BY <4>1 DEF UserRow
    <3> QED BY <2>1, <3>1 DEF AccInv, AddressesOK, OneEach
  <2>2. ASSUME NEW a \in Account \ crossed, NEW k \in Kind, mailed[a][k] # 0, mailed[a][k] \notin spent,
               <<a, k>> \notin aged, About(a) = {}
        PROVE  \E q \in Open(a, k) : q.code = mailed[a][k] /\ ~IsOld(q)
    <3>1. Kept(a, k) /\ ~InHand(a, k)
      BY <2>2 DEF AccInv, CodesOK, InHand
    <3> QED BY <2>2, <3>1 DEF Kept, Works
  <2> QED BY <2>1, <2>2 DEF AccountsSound, SerialAddressIsUnique, SerialLastCodeWorks
<1>2. AccountSpec => []AccInv
  BY AccInvInit, AccInvNext, PTL DEF AccountSpec
<1> QED BY <1>1, <1>2, PTL
================================================================================
