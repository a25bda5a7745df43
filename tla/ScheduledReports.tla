--------------------------- MODULE ScheduledReports ---------------------------
(***************************************************************************)
(* One report schedule of a user (src/src/services/scheduledReports.ts, the  *)
(* schedule routes of src/src/routes/misc.ts): a job claims the run that is  *)
(* due, produces the report and mails it, while the owner pauses, resumes or *)
(* deletes the schedule.  Time counts half days: the report is due at the    *)
(* odd instants of its days.                                                 *)
(***************************************************************************)
EXTENDS Naturals

CONSTANTS
  Runners,       \* runs of the job, which overlap when the lease is lost
  Period,        \* days from one report to the next: 1, 7 or a month
  MaxTime,       \* bound: half days
  MaxPatches,    \* bound: changes of the schedule
  MaxReportFaults \* bound: runners that die, and statements that fail

ASSUME ScheduledReportsAssumption ==
  /\ Period \in Nat \ {0} /\ MaxTime \in Nat /\ MaxPatches \in Nat /\ MaxReportFaults \in Nat

VARIABLES
  timetable,  \* the row of report_schedules
  runs,       \* report_runs by scheduled_for
  owner,      \* the user: active, and with the permission to export
  runner,     \* runs of runDueReportSchedules
  patch,      \* a PATCH request in progress
  reported    \* time and history

reportVars == <<timetable, runs, owner, runner, patch, reported>>

-----------------------------------------------------------------------------
Slots == 0 .. MaxTime + 2 * Period
Runner == [step : {"idle", "claim", "check", "generate", "mail", "finish", "fail"}, slot : Slots, now : Slots, active : BOOLEAN]
Resting == [step |-> "idle", slot |-> 0, now |-> 0, active |-> FALSE]
NoPatch == [status |-> "none", next |-> 0]

ReportTypeOK ==
  /\ timetable \in [status : {"none", "active", "paused", "deleted"}, next : Slots]
  /\ runs \in [Slots -> {"none", "running", "completed", "failed"}]
  /\ owner \in [active : BOOLEAN, permitted : BOOLEAN]
  /\ runner \in [Runners -> Runner]
  /\ patch \in [status : {"none", "active", "paused"}, next : Slots]
  /\ reported \in [now : 0 .. MaxTime, mails : [Slots -> Nat], rewound : BOOLEAN, orphans : SUBSET Slots,
                   patches : 0 .. MaxPatches, faults : 0 .. MaxReportFaults]

ReportInit ==
  /\ timetable = [status |-> "none", next |-> 0]
  /\ runs = [x \in Slots |-> "none"]
  /\ owner = [active |-> TRUE, permitted |-> TRUE]
  /\ runner = [k \in Runners |-> Resting]
  /\ patch = NoPatch
  /\ reported = [now |-> 0, mails |-> [x \in Slots |-> 0], rewound |-> FALSE, orphans |-> {}, patches |-> 0, faults |-> 0]

-----------------------------------------------------------------------------
\* nextReportRun: the hour of the day of "after" if it is still to come, else
\* one period later.
NextReportRun(after) ==
  LET today == 2 * (after \div 2) + 1 IN IF today > after THEN today ELSE today + 2 * Period

\* POST /schedules
CreateSchedule ==
  /\ timetable.status = "none"
  /\ timetable' = [status |-> "active", next |-> NextReportRun(reported.now)]
  /\ UNCHANGED <<runs, owner, runner, patch, reported>>

\* PATCH /schedules/:id: reads the row, and what next_run_at will be.
PatchRead(status) ==
  /\ patch = NoPatch /\ reported.patches < MaxPatches
  /\ timetable.status \in {"active", "paused"}
  /\ patch' = [status |-> status,
               next |-> IF status = "active" /\ timetable.next <= reported.now THEN NextReportRun(reported.now)
                                                                              ELSE timetable.next]
  /\ reported' = [reported EXCEPT !.patches = @ + 1]
  /\ UNCHANGED <<timetable, runs, owner, runner>>

\* The row is written by id; a run claimed in between is forgotten by next_run_at.
PatchWrite ==
  /\ patch # NoPatch
  /\ patch' = NoPatch
  /\ IF timetable.status = "deleted" THEN UNCHANGED <<timetable, reported>>
     ELSE /\ timetable' = patch
          /\ reported' = [reported EXCEPT !.rewound = runs[patch.next] # "none"]
  /\ UNCHANGED <<runs, owner, runner>>

\* DELETE /schedules/:id
DeleteSchedule ==
  /\ timetable.status \in {"active", "paused"}
  /\ timetable' = [timetable EXCEPT !.status = "deleted"]
  /\ UNCHANGED <<runs, owner, runner, patch, reported>>

\* The owner is deactivated or loses the permission, or gets it back.
OwnerChanges ==
  /\ reported.patches < MaxPatches
  /\ owner' \in {[owner EXCEPT !.active = ~@], [owner EXCEPT !.permitted = ~@]}
  /\ reported' = [reported EXCEPT !.patches = @ + 1]
  /\ UNCHANGED <<timetable, runs, runner, patch>>

TimePasses ==
  /\ reported.now < MaxTime
  /\ reported' = [reported EXCEPT !.now = @ + 1]
  /\ UNCHANGED <<timetable, runs, owner, runner, patch>>

-----------------------------------------------------------------------------
(* runDueReportSchedules *)

ReportDue == timetable.status = "active" /\ timetable.next <= reported.now

\* The rows that are due, with their owners.
RunnerRead(k) ==
  /\ runner[k].step = "idle" /\ ReportDue
  /\ runner' = [runner EXCEPT ![k] = [step |-> "claim", slot |-> timetable.next, now |-> reported.now, active |-> owner.active]]
  /\ UNCHANGED <<timetable, runs, owner, patch, reported>>

\* Mutant: no unique index.
TakenNever(x) == FALSE
\* @@unique([schedule_id, scheduled_for])
Taken(x) == runs[x] # "none"

\* One transaction: next_run_at moves on if it is still the one that was read,
\* and the run is created; a second run for the same time rolls it back.
RunnerClaim(k) ==
  /\ runner[k].step = "claim"
  /\ IF timetable.status = "active" /\ timetable.next = runner[k].slot /\ ~Taken(runner[k].slot)
       THEN /\ timetable' = [timetable EXCEPT !.next = NextReportRun(runner[k].now)]
            /\ runs' = [runs EXCEPT ![runner[k].slot] = "running"]
            /\ runner' = [runner EXCEPT ![k].step = "check"]
       ELSE UNCHANGED <<timetable, runs>> /\ runner' = [runner EXCEPT ![k] = Resting]
  /\ UNCHANGED <<owner, patch, reported>>

\* The owner must have been active, and be permitted now; otherwise the
\* schedule is paused, whatever became of it since.
RunnerCheck(k) ==
  /\ runner[k].step = "check"
  /\ runner' = [runner EXCEPT ![k].step = IF runner[k].active /\ owner.permitted THEN "generate" ELSE "fail"]
  /\ timetable' = IF runner[k].active /\ ~owner.permitted /\ timetable.status # "deleted"
                    THEN [timetable EXCEPT !.status = "paused"] ELSE timetable
  /\ UNCHANGED <<runs, owner, patch, reported>>

\* A statement, the storage or the mail server fails.
Fails(k) ==
  /\ reported.faults < MaxReportFaults
  /\ runner' = [runner EXCEPT ![k].step = "fail"]
  /\ reported' = [reported EXCEPT !.faults = @ + 1]

AfterReport == "mail"

\* The report is produced and stored.
RunnerGenerate(k) ==
  /\ runner[k].step = "generate"
  /\ (runner' = [runner EXCEPT ![k].step = AfterReport] /\ UNCHANGED reported) \/ Fails(k)
  /\ UNCHANGED <<timetable, runs, owner, patch>>

RunnerMail(k) ==
  /\ runner[k].step = "mail"
  /\ \/ /\ runner' = [runner EXCEPT ![k].step = "finish"]
        /\ reported' = [reported EXCEPT !.mails[runner[k].slot] = @ + 1]
     \/ Fails(k)
  /\ UNCHANGED <<timetable, runs, owner, patch>>

EndsAs(k, status) ==
  /\ runs' = [runs EXCEPT ![runner[k].slot] = status]
  /\ runner' = [runner EXCEPT ![k] = Resting]
  /\ UNCHANGED reported

RunnerFinish(k) ==
  /\ runner[k].step = "finish"
  /\ EndsAs(k, "completed") \/ (Fails(k) /\ UNCHANGED runs)
  /\ UNCHANGED <<timetable, owner, patch>>

\* The catch clause; when its own update fails the run stays as it is.
RunnerFail(k) ==
  /\ runner[k].step = "fail"
  /\ \/ EndsAs(k, "failed")
     \/ /\ reported.faults < MaxReportFaults
        /\ reported' = [reported EXCEPT !.faults = @ + 1, !.orphans = @ \cup {runner[k].slot}]
        /\ runner' = [runner EXCEPT ![k] = Resting]
        /\ UNCHANGED runs
  /\ UNCHANGED <<timetable, owner, patch>>

RunnerDies(k) ==
  /\ runner[k].step # "idle" /\ reported.faults < MaxReportFaults
  /\ runner' = [runner EXCEPT ![k] = Resting]
  /\ reported' = [reported EXCEPT !.faults = @ + 1,
                                  !.orphans = IF runner[k].step = "claim" THEN @ ELSE @ \cup {runner[k].slot}]
  /\ UNCHANGED <<timetable, runs, owner, patch>>

-----------------------------------------------------------------------------
RunnerStep(k) ==
  RunnerClaim(k) \/ RunnerCheck(k) \/ RunnerGenerate(k) \/ RunnerMail(k) \/ RunnerFinish(k) \/ RunnerFail(k)

ReportNext ==
  \/ CreateSchedule \/ (\E status \in {"active", "paused"} : PatchRead(status)) \/ PatchWrite \/ DeleteSchedule
  \/ OwnerChanges \/ TimePasses
  \/ \E k \in Runners : RunnerRead(k) \/ RunnerStep(k) \/ RunnerDies(k)

\* The cron starts the job every minute and the job goes on.
ReportFairness ==
  \A k \in Runners : WF_reportVars(RunnerRead(k) \/ RunnerStep(k))

-----------------------------------------------------------------------------
(* Properties *)

\* The report of a date is mailed once, although runners overlap and a late
\* PATCH moves next_run_at back to a date that has been run.
MailedOncePerSlot == \A x \in Slots : reported.mails[x] <= 1

\* A run that is complete was mailed; one that was not begun was not.
CompletedIsMailed ==
  \A x \in Slots : /\ runs[x] = "completed" => reported.mails[x] = 1
                   /\ runs[x] = "none" => reported.mails[x] = 0

\* The next run of an active schedule has never been run, unless a PATCH that
\* had read the row earlier wrote an old time back.  Such a schedule is claimed
\* in vain every minute until its owner changes it again.
NextIsNew == timetable.status = "active" /\ ~reported.rewound => runs[timetable.next] = "none"

\* The report of a date is mailed once and recorded as it was, and the schedule
\* moves on to a date that was not run, although runners and edits overlap.
ReportsSafe == ReportTypeOK /\ MailedOncePerSlot /\ CompletedIsMailed /\ NextIsNew

\* A schedule that is due and not rewound, or a run that was claimed and is
\* neither completed nor failed.  A run whose runner died, or whose last
\* statement failed, is not counted: nothing takes it up again.
ReportOutstanding ==
  (ReportDue /\ ~reported.rewound) \/ \E x \in Slots : runs[x] = "running" /\ x \notin reported.orphans
=============================================================================
