------------------------------ MODULE Timesheets ------------------------------
(***************************************************************************)
(* The project time of one employee (src/src/routes/time-tracking.ts): time  *)
(* entries, the running timer and the weekly timesheets that a reviewer      *)
(* locks or returns (services/approval-workflows.ts).                        *)
(*                                                                         *)
(* The employee's own handlers take an advisory lock of the database, so     *)
(* each is one step from the lock to the commit; the review and the check-out*)
(* (routes/attendance.ts), which stops the timer, do not take it, but write  *)
(* by conditional updates.                                                   *)
(***************************************************************************)
EXTENDS Naturals, FiniteSets

CONSTANTS
  Entries,     \* identifiers of time entries
  LastInstant, \* bound: the instants 0 .. LastInstant
  WeekEnd,     \* the first instant of the second week
  Reviewers    \* reviews in progress

ASSUME TimesheetAssumption == LastInstant \in Nat /\ WeekEnd \in Nat

Instants == 0 .. LastInstant
Weeks == {1, 2}
Running == LastInstant + 1   \* ended_at is null

VARIABLES
  now,      \* the clock
  entry,    \* the time_entries rows
  sheet,    \* the status of the timesheets, by week
  looking   \* the week and the entries that a reviewer was shown

sheetVars == <<now, entry, sheet, looking>>

-----------------------------------------------------------------------------
Entry == [start : Instants, end : 0 .. Running, status : {"none", "draft", "submitted", "locked", "rejected"}]
NoEntry == [start |-> 0, end |-> 0, status |-> "none"]
NotLooking == [week |-> 0, action |-> "none"]

SheetTypeOK ==
  /\ now \in Instants
  /\ entry \in [Entries -> Entry]
  /\ sheet \in [Weeks -> {"none", "submitted", "locked", "rejected"}]
  /\ looking \in [Reviewers -> [week : Weeks, action : {"approve", "reject"}] \cup {NotLooking}]

SheetInit ==
  /\ now = 0
  /\ entry = [e \in Entries |-> NoEntry]
  /\ sheet = [k \in Weeks |-> "none"]
  /\ looking = [v \in Reviewers |-> NotLooking]

Kept == {e \in Entries : entry[e].status # "none"}
WeekOf(t) == IF t < WeekEnd THEN 1 ELSE 2
InWeek(k) == {e \in Kept : WeekOf(entry[e].start) = k}
IsRunning(e) == entry[e].end = Running

\* intervalOverlapWhere: a running timer has no end.
Overlapping(start, end, except) ==
  {e \in Kept \ except : entry[e].start < end /\ (IsRunning(e) \/ entry[e].end > start)}

SheetTick ==
  /\ now < LastInstant
  /\ now' = now + 1
  /\ UNCHANGED <<entry, sheet, looking>>

\* POST /time/timer/start: nothing is running, covers the instant or lies ahead.
MayStart == \A e \in Kept : entry[e].start <= now /\ ~IsRunning(e) /\ entry[e].end <= now

StartTimer ==
  /\ MayStart
  /\ \E e \in Entries \ Kept :
       entry' = [entry EXCEPT ![e] = [start |-> now, end |-> Running, status |-> "draft"]]
  /\ UNCHANGED <<now, sheet, looking>>

\* POST /time/timer/stop, and the check-out of the day.
StopTimer ==
  /\ \E e \in Kept : /\ IsRunning(e) /\ entry[e].status = "draft"
                     /\ entry' = [entry EXCEPT ![e].end = now]
  /\ UNCHANGED <<now, sheet, looking>>

\* POST /time/entries: any interval, past or future, in any week.
CreateEntry(start, end) ==
  /\ start < end /\ Overlapping(start, end, {}) = {}
  /\ \E e \in Entries \ Kept :
       entry' = [entry EXCEPT ![e] = [start |-> start, end |-> end, status |-> "draft"]]
  /\ UNCHANGED <<now, sheet, looking>>

\* Mutant: an entry that was submitted meanwhile is moved all the same.
EditableEver(e) == e \in Kept /\ entry[e].status # "locked" /\ ~IsRunning(e)

\* The conditional update of PUT /time/entries/:id.
Editable(e) == e \in Kept /\ entry[e].status \in {"draft", "rejected"} /\ ~IsRunning(e)

EditEntry(e, start, end) ==
  /\ Editable(e) /\ start < end /\ Overlapping(start, end, {e}) = {}
  /\ entry' = [entry EXCEPT ![e] = [start |-> start, end |-> end, status |-> "draft"]]
  /\ UNCHANGED <<now, sheet, looking>>

\* POST /time/timesheets/submit
MaySubmit(k) == (\A e \in InWeek(k) : ~IsRunning(e)) /\ sheet[k] \in {"none", "rejected"}

Submit(k) ==
  LET sent == {e \in InWeek(k) : Editable(e)}
  IN  /\ MaySubmit(k) /\ sent # {}
      /\ entry' = [e \in Entries |-> IF e \in sent THEN [entry[e] EXCEPT !.status = "submitted"] ELSE entry[e]]
      /\ sheet' = [sheet EXCEPT ![k] = "submitted"]
      /\ UNCHANGED <<now, looking>>

\* reviewApproval reads a submitted timesheet ...
Look(v, k, action) ==
  /\ looking[v] = NotLooking /\ sheet[k] = "submitted"
  /\ looking' = [looking EXCEPT ![v] = [week |-> k, action |-> action]]
  /\ UNCHANGED <<now, entry, sheet>>

\* Mutant: the entries of the week are locked whatever their status.
ReviewedAll(e, k) == e \in InWeek(k)

\* The entries a review writes.
Reviewed(e, k) == e \in InWeek(k) /\ entry[e].status = "submitted"

\* ... and claims it, with the submitted entries of its week.
Review(v) ==
  LET k == looking[v].week
      target == IF looking[v].action = "approve" THEN "locked" ELSE "rejected"
  IN  /\ looking[v] # NotLooking
      /\ looking' = [looking EXCEPT ![v] = NotLooking]
      /\ \/ /\ sheet[k] = "submitted"
            /\ sheet' = [sheet EXCEPT ![k] = target]
            /\ entry' = [e \in Entries |-> IF Reviewed(e, k) THEN [entry[e] EXCEPT !.status = target] ELSE entry[e]]
         \/ sheet[k] # "submitted" /\ UNCHANGED <<entry, sheet>>
      /\ UNCHANGED now

SheetNext ==
  \/ SheetTick \/ StartTimer \/ StopTimer
  \/ \E start, end \in Instants : CreateEntry(start, end) \/ (\E e \in Entries : EditEntry(e, start, end))
  \/ \E k \in Weeks : Submit(k)
  \/ \E v \in Reviewers, k \in Weeks, action \in {"approve", "reject"} : Look(v, k, action)
  \/ \E v \in Reviewers : Review(v)

-----------------------------------------------------------------------------
(* Properties *)

\* No instant of the employee is in two entries, a running timer included, in
\* whatever order timers, manual entries and edits come.
EntriesDisjoint ==
  \A e, f \in Kept : e # f =>
    entry[e].end <= entry[f].start \/ entry[f].end <= entry[e].start

\* An entry awaits review only in a week whose timesheet awaits review, and is
\* locked only in a locked week: resubmissions, edits into another week and
\* reviews that overlap never leave one behind.
EntryFollowsSheet ==
  \A e \in Kept : /\ entry[e].status = "submitted" => sheet[WeekOf(entry[e].start)] = "submitted"
                  /\ entry[e].status = "locked" => sheet[WeekOf(entry[e].start)] = "locked"
                  /\ entry[e].status # "draft" => ~IsRunning(e)

\* Entries never overlap and never leave the state of their week's timesheet
\* behind, whatever timers, edits, submissions and reviews interleave.
TimesheetsSafe == SheetTypeOK /\ EntriesDisjoint /\ EntryFollowsSheet

\* A locked timesheet stays locked and its entries keep their times; an entry
\* under review changes only by the review.
LockedStands ==
  [][ /\ \A k \in Weeks : sheet[k] = "locked" => sheet'[k] = "locked"
      /\ \A e \in Entries : entry[e].status = "locked" => entry'[e] = entry[e]
      /\ \A e \in Entries : entry[e].status = "submitted" =>
           entry'[e].start = entry[e].start /\ entry'[e].end = entry[e].end ]_sheetVars
=============================================================================
