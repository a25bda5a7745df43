------------------------------- MODULE Reminders -------------------------------
(***************************************************************************)
(* The reminders the scheduler sends (src/src/jobs/scheduler.ts):            *)
(* instances of the server compete for the lease of a job in Redis           *)
(* (acquireJobLock); a job that remains due until it completes is a row of   *)
(* organization_job_schedules (orgJobSchedules.ts), and a reminder goes out  *)
(* once by means of a marker (schedulerState.ts).  Three jobs: deadlines of  *)
(* project tasks, the nudges of a remote session in the course of the shift, *)
(* and the daily nudge of the remote sessions.                               *)
(***************************************************************************)
EXTENDS Naturals, Sequences, SequencesExt

CONSTANTS
  Subjects,     \* sequence: tasks, nudges of a session or sessions, in the order of the job
  Muted,        \* the ones whose user does not want the reminder
  Instances,    \* servers
  MaxFaults,    \* bound: statements that fail
  MaxLapses,    \* bound: instances that die, and leases lost while the job runs
  MaxZones,     \* bound: changes of the time zone of the organisation
  NoInstance

Listed == Range(Subjects)

ASSUME RemindersAssumption ==
  /\ Subjects \in Seq(Listed) /\ IsInjective(Subjects) /\ Muted \subseteq Listed /\ NoInstance \notin Instances
  /\ MaxFaults \in Nat /\ MaxLapses \in Nat /\ MaxZones \in Nat

VARIABLES
  lease,     \* the Redis key of the job: its holder
  schedule,  \* the job at hand, its row of organization_job_schedules, the organisation's zone
  marker,    \* scheduler_job_markers of the subjects
  session,   \* remote_sessions: nudges stamped, windows, daily_nudge_at
  instance,  \* handlers in progress
  record     \* history

reminderVars == <<lease, schedule, marker, session, instance, record>>

-----------------------------------------------------------------------------
Jobs == {"deadlines", "remote", "daily"}
\* lapsed: locked_at is more than MARKER_LEASE_MS ago.
Marker == [status : {"none", "processing", "pending", "sent"}, lapsed : BOOLEAN]
Instance == [step : {"idle", "next", "look", "queue", "complete", "retry", "stamp", "send", "undo"},
             todo : Seq(Listed), ready : SUBSET Listed, failed : BOOLEAN, abort : BOOLEAN]
Off == [step |-> "idle", todo |-> <<>>, ready |-> {}, failed |-> FALSE, abort |-> FALSE]

ReminderTypeOK ==
  /\ lease \in Instances \cup {NoInstance}
  /\ schedule \in [job : Jobs, due : BOOLEAN, current : BOOLEAN, complete : BOOLEAN]
  /\ marker \in [Listed -> Marker]
  /\ session \in [stamped : SUBSET Listed, window : [Listed -> {"before", "open", "past"}], nudged : SUBSET Listed]
  /\ instance \in [Instances -> Instance]
  /\ record \in [rows : [Listed -> Nat], daily : [Listed -> Nat], again : [Listed -> Nat],
                 faults : 0 .. MaxFaults, lapses : 0 .. MaxLapses, zones : 0 .. MaxZones]

ReminderInit(job) ==
  /\ lease = NoInstance
  /\ schedule = [job |-> job, due |-> FALSE, current |-> TRUE, complete |-> FALSE]
  /\ marker = [x \in Listed |-> [status |-> "none", lapsed |-> FALSE]]
  /\ session = [stamped |-> {}, window |-> [x \in Listed |-> "before"], nudged |-> {}]
  /\ instance = [i \in Instances |-> Off]
  /\ record = [rows |-> [x \in Listed |-> 0], daily |-> [x \in Listed |-> 0], again |-> [x \in Listed |-> 0],
               faults |-> 0, lapses |-> 0, zones |-> 0]

-----------------------------------------------------------------------------
(* The lease and the schedule *)

\* What the first reads select: the nudges whose time it is and that are not
\* stamped, the sessions that have no nudge of today, all tasks.
Selected ==
  IF schedule.job = "remote" THEN {x \in Listed : session.window[x] = "open"} \ session.stamped
  ELSE Listed \ session.nudged

\* acquireJobLock and the first reads of the handler; an organisation job is
\* only taken when getDueOrganizationJobs finds it.
StartJob(i) ==
  /\ instance[i].step = "idle" /\ lease = NoInstance
  /\ schedule.job # "remote" => schedule.due
  /\ lease' = i
  /\ instance' = [instance EXCEPT ![i] = [Off EXCEPT !.step = "next", !.ready = Selected, !.todo = Subjects]]
  /\ UNCHANGED <<schedule, marker, session, record>>

\* The handler of i ends; the lease is released if it is still its own.
Ends(i) ==
  /\ instance' = [instance EXCEPT ![i] = Off]
  /\ lease' = IF lease = i THEN NoInstance ELSE lease

Steps(i, step) == instance' = [instance EXCEPT ![i].step = step] /\ UNCHANGED lease
\* The next subject.
Skips(i) == instance' = [instance EXCEPT ![i].step = "next", ![i].todo = Tail(@)] /\ UNCHANGED lease

\* The time to live of the key has passed: its holder died, or could not renew it.
LeaseLapses ==
  /\ lease # NoInstance
  /\ \/ instance[lease].step = "idle" /\ UNCHANGED record
     \/ /\ instance[lease].step # "idle" /\ record.lapses < MaxLapses
        /\ record' = [record EXCEPT !.lapses = @ + 1]
  /\ lease' = NoInstance
  /\ UNCHANGED <<schedule, marker, session, instance>>

InstanceDies(i) ==
  /\ instance[i].step # "idle" /\ record.lapses < MaxLapses
  /\ instance' = [instance EXCEPT ![i] = Off]
  /\ record' = [record EXCEPT !.lapses = @ + 1]
  /\ UNCHANGED <<lease, schedule, marker, session>>

\* next_run_at comes.
JobComesDue ==
  /\ schedule.job # "remote" /\ ~schedule.due /\ ~schedule.complete
  /\ schedule' = [schedule EXCEPT !.due = TRUE]
  /\ UNCHANGED <<lease, marker, session, instance, record>>

ZoneChanges ==
  /\ schedule.job # "remote" /\ record.zones < MaxZones
  /\ schedule' = [schedule EXCEPT !.current = FALSE]
  /\ record' = [record EXCEPT !.zones = @ + 1]
  /\ UNCHANGED <<lease, marker, session, instance>>

\* reconcileOrganizationJobSchedules: a row of another zone gets the hour of
\* today in the new one, which may be over although the job ran today.
Reconcile(over) ==
  /\ ~schedule.current
  /\ schedule' = [schedule EXCEPT !.due = over, !.current = TRUE, !.complete = FALSE]
  /\ UNCHANGED <<lease, marker, session, instance, record>>

\* markOrganizationJobComplete: next_run_at moves to tomorrow if it has come.
MarksComplete == schedule' = [schedule EXCEPT !.due = FALSE, !.complete = @ \/ schedule.due]

\* Mutant: reminders that failed are forgotten.
FinishesAnyway(i) == schedule.job # "remote"
\* The deadlines complete only when no reminder is left to be tried again.
Finishes(i) == schedule.job # "remote" /\ ~instance[i].failed

FinishJob(i) ==
  /\ instance[i].step = "next" /\ instance[i].todo = <<>>
  /\ IF Finishes(i) THEN MarksComplete ELSE UNCHANGED schedule
  /\ Ends(i)
  /\ UNCHANGED <<marker, session, record>>

-----------------------------------------------------------------------------
(* Reminders with a marker *)

At(i) == Head(instance[i].todo)
HasSubject(i, step) == instance[i].step = step /\ instance[i].todo # <<>>
\* A subject that the first reads did not select: nudge returns at once, the
\* daily job has no such row.
NotNow(i) == At(i) \notin instance[i].ready

\* Mutant: a marker in processing is never taken over.
AcquirableUnlocked(x) == marker[x].status \in {"none", "pending"}
\* claimSchedulerMarker: created, or neither sent nor in the hands of another
\* whose lease lasts.
Acquirable(x) == marker[x].status \in {"none", "pending"} \/ (marker[x].status = "processing" /\ marker[x].lapsed)

ClaimMarker(i) ==
  /\ HasSubject(i, "next") /\ schedule.job # "daily"
  /\ IF ~NotNow(i) /\ Acquirable(At(i))
       THEN /\ marker' = [marker EXCEPT ![At(i)] = [status |-> "processing", lapsed |-> FALSE]]
            /\ Steps(i, "queue")
       ELSE /\ UNCHANGED marker
            /\ IF schedule.job = "deadlines" THEN Steps(i, "look") ELSE Skips(i)
  /\ UNCHANGED <<schedule, session, record>>

\* The deadline job was refused the marker: only a reminder sent is done with.
LookAtMarker(i) ==
  /\ instance[i].step = "look"
  /\ instance' = [instance EXCEPT ![i].step = "next", ![i].todo = Tail(@), ![i].failed = @ \/ marker[At(i)].status # "sent"]
  /\ UNCHANGED <<lease, schedule, marker, session, record>>

\* The rows of the event of subject x once they are created: dedupe_key and
\* event_id are the marker.
RowsAfter(x) == IF record.rows[x] = 0 THEN 1 ELSE record.rows[x]

AfterQueueing(ok) == IF ok THEN "complete" ELSE "retry"

\* createNotification: rows that are not there yet, or none for a user who does
\* not want them; false when a statement fails.
QueueReminder(i, ok) ==
  /\ instance[i].step = "queue"
  /\ IF ok THEN record' = IF At(i) \in Muted THEN record ELSE [record EXCEPT !.rows[At(i)] = RowsAfter(At(i))]
           ELSE record.faults < MaxFaults /\ record' = [record EXCEPT !.faults = @ + 1]
  /\ Steps(i, AfterQueueing(ok))
  /\ UNCHANGED <<schedule, marker, session>>

\* A marker in processing, whoever set it, gets another status.
Marks(x, status) == marker' = [marker EXCEPT ![x].status = IF @ = "processing" THEN status ELSE @]

\* completeSchedulerMarker; when it fails the marker is released and the job ends.
CompleteMarker(i, ok) ==
  /\ instance[i].step = "complete"
  /\ IF ok THEN /\ Marks(At(i), "sent") /\ UNCHANGED record
                /\ IF schedule.job = "remote" THEN Steps(i, "stamp") ELSE Skips(i)
           ELSE /\ record.faults < MaxFaults /\ record' = [record EXCEPT !.faults = @ + 1]
                /\ instance' = [instance EXCEPT ![i].step = "retry", ![i].abort = TRUE]
                /\ UNCHANGED <<marker, lease>>
  /\ UNCHANGED <<schedule, session>>

\* retrySchedulerMarker: pending, with a lock as old as can be.
RetryMarker(i) ==
  /\ instance[i].step = "retry"
  /\ Marks(At(i), "pending")
  /\ IF instance[i].abort THEN Ends(i)
     ELSE instance' = [instance EXCEPT ![i].step = "next", ![i].todo = Tail(@), ![i].failed = TRUE] /\ UNCHANGED lease
  /\ UNCHANGED <<schedule, session, record>>

\* The session is stamped; a nudge that went out is the only one of this run.
StampSession(i) ==
  /\ instance[i].step = "stamp"
  /\ session' = [session EXCEPT !.stamped = @ \cup {At(i)}]
  /\ instance' = [instance EXCEPT ![i].step = "next", ![i].todo = <<>>]
  /\ UNCHANGED <<lease, schedule, marker, record>>

\* Fifteen minutes pass for a marker in processing.
MarkerLapses(x) ==
  /\ marker[x].status = "processing" /\ ~marker[x].lapsed
  /\ marker' = [marker EXCEPT ![x].lapsed = TRUE]
  /\ UNCHANGED <<lease, schedule, session, instance, record>>

\* crossed: the window of a nudge opens at its target and closes after an hour;
\* the targets come in order.
WindowMoves(x) ==
  /\ schedule.job = "remote" /\ session.window[x] # "past"
  /\ \A k \in DOMAIN Subjects : Subjects[k] = x /\ k > 1 =>
       session.window[Subjects[k - 1]] \in (IF session.window[x] = "before" THEN {"open", "past"} ELSE {"past"})
  /\ session' = [session EXCEPT !.window[x] = IF @ = "before" THEN "open" ELSE "past"]
  /\ UNCHANGED <<lease, schedule, marker, instance, record>>

-----------------------------------------------------------------------------
(* The daily nudge *)

FreeToday(x) == x \notin session.nudged

\* daily_nudge_at is set if it is not of today.
ClaimDaily(i) ==
  /\ HasSubject(i, "next") /\ schedule.job = "daily"
  /\ IF ~NotNow(i) /\ FreeToday(At(i)) THEN session' = [session EXCEPT !.nudged = @ \cup {At(i)}] /\ Steps(i, "send")
     ELSE UNCHANGED session /\ Skips(i)
  /\ UNCHANGED <<schedule, marker, record>>

\* sendDailyRemoteNudge reports no failure of the provider; it throws when a
\* statement fails, before or after the message was accepted.
SendDaily(i, accepted, throws) ==
  /\ instance[i].step = "send"
  /\ throws => record.faults < MaxFaults
  /\ record' = [record EXCEPT !.daily[At(i)] = @ + (IF accepted THEN 1 ELSE 0),
                              !.again[At(i)] = @ + (IF accepted /\ throws THEN 1 ELSE 0),
                              !.faults = @ + (IF throws THEN 1 ELSE 0)]
  /\ IF throws THEN Steps(i, "undo") ELSE Skips(i)
  /\ UNCHANGED <<schedule, marker, session>>

\* The claim is given back and the job ends with the error.
UndoDaily(i) ==
  /\ instance[i].step = "undo"
  /\ session' = [session EXCEPT !.nudged = @ \ {At(i)}]
  /\ Ends(i)
  /\ UNCHANGED <<schedule, marker, record>>

-----------------------------------------------------------------------------
InstanceStep(i) ==
  \/ ClaimMarker(i) \/ LookAtMarker(i) \/ RetryMarker(i) \/ StampSession(i) \/ ClaimDaily(i) \/ UndoDaily(i) \/ FinishJob(i)
  \/ \E ok \in BOOLEAN : QueueReminder(i, ok) \/ CompleteMarker(i, ok)
  \/ \E accepted, throws \in BOOLEAN : SendDaily(i, accepted, throws)

ReminderNext ==
  \/ \E i \in Instances : StartJob(i) \/ InstanceStep(i) \/ InstanceDies(i)
  \/ LeaseLapses \/ JobComesDue \/ ZoneChanges \/ \E over \in BOOLEAN : Reconcile(over)
  \/ \E x \in Listed : MarkerLapses(x) \/ WindowMoves(x)

\* The cron starts the job every minute, its handler goes on, and time passes
\* for the leases.
ReminderFairness ==
  /\ WF_reminderVars(\E i \in Instances : StartJob(i) \/ InstanceStep(i))
  /\ WF_reminderVars(LeaseLapses \/ \E x \in Listed : MarkerLapses(x))

-----------------------------------------------------------------------------
(* Properties *)

\* A reminder is recorded once for its user, whatever instances overlap, die or
\* try again, and however often the job comes due on the day.
RemindedOnce == \A x \in Listed : record.rows[x] <= 1

\* The reminder of x is in the hands of the notification service, or not wanted.
Handled(x) == record.rows[x] > 0 \/ x \in Muted

\* What is marked as sent, or stamped on the session, was queued or is not
\* wanted, also when an instance that lost its lease completes or releases the
\* marker of another.
SentIsQueued == \A x \in Listed : marker[x].status = "sent" \/ x \in session.stamped => Handled(x)

\* The deadline job is complete for the day only when every task has been
\* handled, although a marker may be left pending by an instance that lost the
\* lease.
CompleteAfterAll == schedule.job = "deadlines" /\ schedule.complete => \A x \in Listed : Handled(x)

\* The message of the day goes out once to a session, and once more for every
\* time a statement failed after it had been accepted.
DailyNudgeOnce == \A x \in Listed : record.daily[x] <= 1 + record.again[x]

\* Nobody is reminded twice and nothing is marked done that was not, although
\* instances overlap, lose their leases, fail half-way or die.
RemindersSafe ==
  /\ ReminderTypeOK
  /\ RemindedOnce
  /\ SentIsQueued
  /\ CompleteAfterAll
  /\ DailyNudgeOnce

\* A job of the organisation that has come due and is not completed.
JobOutstanding == schedule.due
=============================================================================
