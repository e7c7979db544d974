--------------------------------- MODULE Reports ---------------------------------
(* The sales reports of super-sellers: a beat queues a scan of the            *)
(* preferences every five minutes, and a scan builds, archives and sends the  *)
(* reports that are due at the minute it runs.                                *)
(*                                                                            *)
(* A scan reads all preferences at once and works through what it read.  The  *)
(* mail's helper names a module that is not imported: it raises, and the scan *)
(* ends there, its report archived and the preferences behind it not looked   *)
(* at.  The WhatsApp helper answers that it has sent.                         *)
EXTENDS Integers, Sequences, FiniteSets

CONSTANTS
  Reporter,      \* super-sellers that have a preference
  ScanWorker,    \* task workers and web workers
  Day,           \* scans' slots of five minutes in a day
  Hour,          \* slots in an hour
  LastSlot,      \* bound: slots of a run
  MaxPrefCalls,  \* bound: edits and reports asked for at once
  MaxScans       \* bound: scans that wait

ASSUME SlotAssumption == Day \in Nat \ {0} /\ Hour \in Nat /\ LastSlot \in Nat

VARIABLES
  pref,        \* pref[s]: the SalesReportPreference row
  slot,        \* the time, in slots
  scans,       \* scans queued
  scan,        \* scan[w]: a scan, or an edit, under way
  archive,     \* archived reports: [of, at, sent]
  sentAt,      \* sentAt[s]: the slots at which a report went out (history)
  muddledPref, \* preferences two scans held at once, one was cut on, or edited meanwhile (history)
  prefCalls

reportVars == <<pref, slot, scans, scan, archive, sentAt, muddledPref, prefCalls>>

Channel == {"EMAIL", "WHATSAPP"}   \* BOTH sends the mail first
NoScan  == [pc |-> "free"]
Never   == -1

CountPrefCall == prefCalls < MaxPrefCalls /\ prefCalls' = prefCalls + 1

--------------------------------------------------------------------------------
\* The beat's crontab: a scan for every slot, whether or not the last has run.
Beat ==
  /\ slot < LastSlot /\ slot' = slot + 1
  /\ scans' = IF scans < MaxScans THEN scans + 1 ELSE scans
  /\ UNCHANGED <<pref, scan, archive, sentAt, muddledPref, prefCalls>>

\* The hour and the minute of the preference are those of now; its day is a due one.
IsDue(p, now) == p.active /\ p.at = now % Day /\ (p.everyDay \/ now < Day)

\* (A faulty variant: what was sent before is not looked at.)
NeverSent(p, now) == FALSE

\* "Eviter le double-envoi si envoie recent"
SentRecently(p, now) == p.last # Never /\ now - p.last < Hour

Held(s) == {w \in ScanWorker : scan[w].pc \in {"build", "send", "flag", "last"} /\ s \in scan[w].todo}

StartScan(w) ==
  /\ scan[w] = NoScan /\ scans > 0
  /\ scans' = scans - 1
  /\ LET todo == {s \in Reporter : IsDue(pref[s], slot) /\ ~SentRecently(pref[s], slot)}
     IN /\ scan' = IF todo = {} THEN scan
                   ELSE [scan EXCEPT ![w] =
                          [pc |-> "build", todo |-> todo, now |-> slot, rows |-> pref]]
        /\ muddledPref' = muddledPref \cup {s \in todo : Held(s) # {}}
  /\ UNCHANGED <<pref, slot, archive, sentAt, prefCalls>>

Report(s, now) == [of |-> s, at |-> now, sent |-> FALSE]

\* build_and_archive_report: the file, then the row.
BuildReport(w, s) ==
  /\ scan[w].pc = "build" /\ s \in scan[w].todo
  /\ archive' = archive \cup {Report(s, scan[w].now)}
  /\ scan' = [scan EXCEPT ![w] = [pc |-> "send", todo |-> @.todo, now |-> @.now,
                                  rows |-> @.rows, at |-> s]]
  /\ UNCHANGED <<pref, slot, scans, sentAt, muddledPref, prefCalls>>

\* send_report_via_email raises; send_report_via_whatsapp returns True.
SendReport(w) ==
  /\ scan[w].pc = "send"
  /\ IF scan[w].rows[scan[w].at].channel = "EMAIL"
     THEN /\ scan' = [scan EXCEPT ![w] = NoScan]
          /\ UNCHANGED sentAt
     ELSE /\ scan' = [scan EXCEPT ![w].pc = "flag"]
          /\ sentAt' = [sentAt EXCEPT ![scan[w].at] = Append(@, scan[w].now)]
  /\ UNCHANGED <<pref, slot, scans, archive, muddledPref, prefCalls>>

FlagReport(w) ==
  /\ scan[w].pc = "flag"
  /\ archive' = (archive \ {Report(scan[w].at, scan[w].now)})
                  \cup {[Report(scan[w].at, scan[w].now) EXCEPT !.sent = TRUE]}
  /\ scan' = [scan EXCEPT ![w].pc = "last"]
  /\ UNCHANGED <<pref, slot, scans, sentAt, muddledPref, prefCalls>>

\* last_sent_at, its column only; then the next preference.
SaveLast(w) ==
  /\ scan[w].pc = "last"
  /\ pref' = [pref EXCEPT ![scan[w].at].last = scan[w].now]
  /\ LET todo == scan[w].todo \ {scan[w].at}
     IN scan' = [scan EXCEPT ![w] =
                   IF todo = {} THEN NoScan
                   ELSE [pc |-> "build", todo |-> todo, now |-> scan[w].now, rows |-> scan[w].rows]]
  /\ UNCHANGED <<slot, scans, archive, sentAt, muddledPref, prefCalls>>

\* The worker dies, or a save fails.
ScanDies(w) ==
  /\ scan[w].pc \in {"build", "send", "flag", "last"}
  /\ muddledPref' = muddledPref \cup scan[w].todo
  /\ scan' = [scan EXCEPT ![w] = NoScan]
  /\ UNCHANGED <<pref, slot, scans, archive, sentAt, prefCalls>>

--------------------------------------------------------------------------------
(* ReportPreferenceView and ReportGenerateNowView                             *)

\* put saves the whole row it read; last_sent_at is among the fields a client may set.
ReadPref(w, s, at, channel, active, clears) ==
  /\ scan[w] = NoScan /\ CountPrefCall
  /\ scan' = [scan EXCEPT ![w] =
       [pc |-> "edit", of |-> s,
        row |-> [at |-> at, channel |-> channel, active |-> active,
                 everyDay |-> pref[s].everyDay, last |-> IF clears THEN Never ELSE pref[s].last]]]
  /\ UNCHANGED <<pref, slot, scans, archive, sentAt, muddledPref>>

SavePref(w) ==
  /\ scan[w].pc = "edit"
  /\ LET s == scan[w].of IN
     /\ pref' = [pref EXCEPT ![s] = scan[w].row]
     /\ muddledPref' = IF scan[w].row.last # pref[s].last THEN muddledPref \cup {s}
                       ELSE muddledPref
  /\ scan' = [scan EXCEPT ![w] = NoScan]
  /\ UNCHANGED <<slot, scans, archive, sentAt, prefCalls>>

\* A report that is asked for is archived, and not sent.
GenerateNow(s) ==
  /\ CountPrefCall
  /\ archive' = archive \cup {Report(s, slot)}
  /\ UNCHANGED <<pref, slot, scans, scan, sentAt, muddledPref>>

--------------------------------------------------------------------------------
ReportInit ==
  /\ pref \in [Reporter -> [at : {0}, channel : Channel, active : BOOLEAN, everyDay : BOOLEAN,
                            last : {Never}]]
  /\ slot = 0 /\ scans = 1 /\ archive = {} /\ muddledPref = {} /\ prefCalls = 0
  /\ scan = [w \in ScanWorker |-> NoScan]
  /\ sentAt = [s \in Reporter |-> <<>>]

ReportNext ==
  \/ Beat
  \/ \E w \in ScanWorker :
       \/ StartScan(w) \/ SendReport(w) \/ FlagReport(w) \/ SaveLast(w) \/ ScanDies(w)
       \/ SavePref(w)
       \/ \E s \in Reporter :
            \/ BuildReport(w, s)
            \/ \E at \in 0..(Day - 1), channel \in Channel, active, clears \in BOOLEAN :
                 ReadPref(w, s, at, channel, active, clears)
  \/ \E s \in Reporter : GenerateNow(s)

ReportSpec == ReportInit /\ [][ReportNext]_reportVars

--------------------------------------------------------------------------------
\* The reports of a super-seller go out an hour apart at least, however late the scans run and
\* wherever the time of day is moved meanwhile; unless two scans held its preference at once,
\* one was cut short on it, or last_sent_at was saved from a stale reading or by hand.
SerialReportsAnHourApart ==
  \A s \in Reporter \ muddledPref :
    \A m, n \in DOMAIN sentAt[s] : m < n => sentAt[s][n] - sentAt[s][m] >= Hour

ReportTypeOK ==
  /\ pref \in [Reporter -> [at : 0..(Day - 1), channel : Channel, active : BOOLEAN,
                            everyDay : BOOLEAN, last : {Never} \cup 0..LastSlot]]
  /\ sentAt \in [Reporter -> Seq(0..LastSlot)]
================================================================================
