------------------------------ MODULE WatchHistory ------------------------------
(***************************************************************************)
(* The watch history of one user for one episode (watch-history.service.ts *)
(* and its repository).  A report finds the row, works out what to store   *)
(* and upserts it in a second statement; several devices, and the items of *)
(* one batch, do so at the same time.                                      *)
(*                                                                         *)
(* Positions are 0..End: 0 stands for the first seconds, which start the   *)
(* episode again, End for the last twentieth of its duration.              *)
(***************************************************************************)
EXTENDS Integers

CONSTANTS
    Reports,    \* reports being handled
    End

ASSUME WatchHistoryAssumption == End \in Nat \ {0}

VARIABLES
    entry,      \* the row, or NoEntry
    report,     \* what each report is about to store, or NoReport
    stale       \* history: reports whose row was written or removed since they read it

historyVars == <<entry, report, stale>>

NoEntry == [progress |-> -1, duration |-> 0, completed |-> FALSE]
NoReport == [progress |-> -1, next |-> NoEntry]
Items == [progress : 0..End, duration : {0, End}, completed : {"yes", "no", "unsaid"}]

HistoryInit ==
    /\ entry = NoEntry
    /\ report = [r \in Reports |-> NoReport]
    /\ stale = {}

Greater(a, b) == IF a > b THEN a ELSE b

Completed(item) ==
    \/ item.completed = "yes"
    \/ item.completed = "unsaid" /\ item.duration > 0 /\ item.progress = End

\* Variant: whatever is reported last counts.
NextProgressReported(item, existing) == item.progress

NextProgress(item, existing) ==
    IF item.progress = 0 \/ Completed(item) \/ existing = NoEntry
    THEN item.progress
    ELSE Greater(existing.progress, item.progress)

\* upsert up to its second statement.
FindEntry(r, item) ==
    /\ report[r] = NoReport
    /\ report' = [report EXCEPT ![r] =
          [progress |-> item.progress,
           next |-> [progress |-> NextProgress(item, entry),
                     duration |-> Greater(entry.duration, item.duration),
                     completed |-> Completed(item)]]]
    /\ stale' = stale \ {r}
    /\ UNCHANGED entry

Busy(r) == report[r] # NoReport

UpsertEntry(r) ==
    /\ Busy(r)
    /\ entry' = report[r].next
    /\ report' = [report EXCEPT ![r] = NoReport]
    /\ stale' = {q \in Reports : Busy(q)} \ {r}

\* remove and clear.
RemoveEntry ==
    /\ entry # NoEntry
    /\ entry' = NoEntry
    /\ stale' = {q \in Reports : Busy(q)}
    /\ UNCHANGED report

ReportFails(r) ==
    /\ Busy(r)
    /\ report' = [report EXCEPT ![r] = NoReport]
    /\ stale' = stale \ {r}
    /\ UNCHANGED entry

HistoryNext ==
    \/ \E r \in Reports, item \in Items : FindEntry(r, item)
    \/ \E r \in Reports : UpsertEntry(r) \/ ReportFails(r)
    \/ RemoveEntry

HistorySpec == HistoryInit /\ [][HistoryNext]_historyVars

-----------------------------------------------------------------------------
(* Properties.                                                             *)

StoredEntries == [progress : 0..End, duration : {0, End}, completed : BOOLEAN]

HistoryTypeOK ==
    /\ entry \in StoredEntries \cup {NoEntry}
    /\ report \in [Reports -> [progress : 0..End, next : StoredEntries] \cup {NoReport}]
    /\ stale \subseteq {r \in Reports : Busy(r)}

\* Where a viewer may go on never moves back unasked: only a report of the first
\* seconds or of a finished episode, or one that was overtaken between its find
\* and its upsert, lowers the progress; only the latter shortens the duration.
ResumesWhereItWas ==
    [][entry # NoEntry /\ entry' # NoEntry =>
          /\ entry'.progress < entry.progress =>
                \E r \in Reports : /\ Busy(r) /\ entry' = report[r].next
                                   /\ r \in stale \/ report[r].progress = 0 \/ entry'.completed
          /\ entry'.duration < entry.duration => \E r \in stale : entry' = report[r].next]_historyVars
=============================================================================
