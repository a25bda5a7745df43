------------------------------ MODULE Attendance ------------------------------
(***************************************************************************)
(* The attendance row of one employee on one day and its break rows: the    *)
(* requests of the employee's devices (src/src/routes/attendance.ts), the    *)
(* manager's override and the scheduled jobs that write the same rows        *)
(* (src/src/jobs/scheduler.ts).                                              *)
(*                                                                         *)
(* A request or job reads the row, decides, and writes in later statements;  *)
(* a transaction that locks the row is one step.  Instants are abstracted to *)
(* who wrote them, heartbeats to their order and to whether the newest is    *)
(* older than the grace period.  "in" stands for the statuses in and late of *)
(* a row with a check-in, which every job treats alike.                      *)
(***************************************************************************)
EXTENDS Integers, FiniteSets, FiniteSetsExt

CONSTANTS
  Requests,   \* requests of the employee's devices in progress
  Closers,    \* jobs that check out at the shift's end: stale sweep, auto-checkout
  MaxBreaks,  \* bound: break rows of the day
  MaxBeats,   \* bound: heartbeats of the day
  MaxBusy,    \* bound: requests and jobs in progress at a time
  None

Jobs == {"late", "absent", "expiry", "breaks"} \cup Closers

ASSUME AttendanceAssumption ==
  /\ None \notin Requests \cup Jobs \cup {"employee", "closer", "manager"}
  /\ "manager" \notin Requests
  /\ Closers \cap {"late", "absent", "expiry", "breaks"} = {}
  /\ \A n \in {MaxBreaks, MaxBeats, MaxBusy} : n \in Nat \ {0}

VARIABLES
  row,     \* the attendance_records row
  brk,     \* the break_records rows
  clock,   \* heartbeats so far
  fresh,   \* last_heartbeat_at is within the grace period
  req,     \* what a request does next, from what it has read
  job,     \* what a job does next, from what it has read
  alerts   \* history: absence alerts sent

vars == <<row, brk, clock, fresh, req, job, alerts>>

-----------------------------------------------------------------------------
Breaks == 1 .. MaxBreaks
\* made: who inserted the row, an employee's check-in or a detector or leave.
Row == [made : {"nobody", "employee", "system"},
        status : {"none", "in", "remote", "late", "absent", "leave", "out"},
        in : Requests \cup {None, "manager"},
        out : {None, "employee", "expiry", "closer", "manager"},
        auto : BOOLEAN, beat : 0 .. MaxBeats, absent_alerted : BOOLEAN]
BreakRow == [state : {"free", "open", "closed"}, template : BOOLEAN, auto : BOOLEAN]

NoRow   == [made |-> "nobody", status |-> "none", in |-> None, out |-> None,
            auto |-> FALSE, beat |-> 0, absent_alerted |-> FALSE]
NoBreak == [state |-> "free", template |-> FALSE, auto |-> FALSE]
Idle    == [op |-> "none", at |-> "idle", arg |-> 0]

CheckinSteps == {"create", "update", "stitch", "away", "reopen"}
Request == [op : {"none", "checkin", "ip", "heartbeat", "checkout", "break_start", "break_end"},
            at : CheckinSteps \cup {"idle", "beat", "write"}, arg : 0 .. MaxBreaks]
JobState == [op : {"none", "run"}, arg : 0 .. MaxBeats + MaxBreaks,
             at : {"idle", "settle", "write", "flag", "alert", "create", "end"}]

TypeOK ==
  /\ row \in Row
  /\ brk \in [Breaks -> BreakRow]
  /\ clock \in 0 .. MaxBeats /\ fresh \in BOOLEAN
  /\ req \in [Requests -> Request]
  /\ job \in [Jobs -> JobState]
  /\ alerts \in Nat

Exists    == row.status # "none"
CheckedIn == row.in # None
Open      == CheckedIn /\ row.out = None
OpenBreaks == {b \in Breaks : brk[b].state = "open"}
FreeBreaks == {b \in Breaks : brk[b].state = "free"}
Busy == Cardinality({r \in Requests : req[r] # Idle}) + Cardinality({j \in Jobs : job[j] # Idle})

Init ==
  /\ row \in {NoRow, [NoRow EXCEPT !.made = "system", !.status = "leave"]}
  /\ brk = [b \in Breaks |-> NoBreak]
  /\ clock = 0 /\ fresh = FALSE
  /\ req = [r \in Requests |-> Idle]
  /\ job = [j \in Jobs |-> Idle]
  /\ alerts = 0

\* A request arrives and its first read of the row decides what it will write.
Arrive(r, op, at, arg) ==
  /\ req[r] = Idle /\ Busy < MaxBusy
  /\ req' = [req EXCEPT ![r] = [op |-> op, at |-> at, arg |-> arg]]
  /\ UNCHANGED <<row, brk, clock, fresh, job, alerts>>

At(r, op, at) == req[r].op = op /\ req[r].at = at
Answer(r) == req' = [req EXCEPT ![r] = Idle]

\* last_heartbeat_at = now, for the columns of the row.
Beat(columns) ==
  /\ clock < MaxBeats
  /\ clock' = clock + 1
  /\ row' = [columns EXCEPT !.beat = clock + 1]
  /\ fresh' = TRUE

\* The columns are written and last_heartbeat_at is written too (ip-event), set
\* to null (a check-in that reopens) or left alone (any other check-in).
Write(r, columns, whenCheckin) ==
  \/ req[r].op = "ip" /\ Beat(columns)
  \/ /\ req[r].op = "checkin"
     /\ row' = [columns EXCEPT !.beat = whenCheckin]
     /\ fresh' = (fresh /\ whenCheckin # 0)
     /\ UNCHANGED clock

\* A break row is inserted.
NewBreak(state, template, auto) ==
  /\ FreeBreaks # {}
  /\ brk' = [brk EXCEPT ![Min(FreeBreaks)] = [state |-> state, template |-> template, auto |-> auto]]

\* settleBreaks: every break that is still open is closed.
Settled == [b \in Breaks |-> IF b \in OpenBreaks THEN [brk[b] EXCEPT !.state = "closed"] ELSE brk[b]]

-----------------------------------------------------------------------------
(* POST /attendance/checkin and POST /attendance/ip-event *)

\* What the row that was read makes of a check-in: the first of the day, a
\* re-entry after an automatic check-out (forgiven when the gap is short, else
\* recorded as an away break), or nothing.
CheckinDecisions ==
  IF ~Exists THEN {"create"}
  ELSE IF ~CheckedIn THEN {"update"}
  ELSE IF row.out # None /\ row.auto THEN {"stitch", "away"}
  ELSE {}

Checkin(r) == \E at \in CheckinDecisions : Arrive(r, "checkin", at, 0)

\* On a row that is checked in, and not to be reopened, an ip-event is a
\* heartbeat, even when the employee has checked out.
IpEvent(r) ==
  \/ \E at \in CheckinDecisions : Arrive(r, "ip", at, 0)
  \/ CheckinDecisions = {} /\ Arrive(r, "ip", "beat", 0)

\* The insert meets the unique key (user, date): a row that has come in the
\* meantime is left alone, whether the answer is already_recorded or an error.
Create(r) ==
  /\ req[r].at = "create"
  /\ IF Exists
       THEN UNCHANGED <<row, clock, fresh>>
       ELSE \E s \in {"in", "remote"} :
              /\ s = "remote" => req[r].op = "checkin"
              /\ Write(r, [NoRow EXCEPT !.made = "employee", !.status = s, !.in = r], 0)
  /\ Answer(r)
  /\ UNCHANGED <<brk, job, alerts>>

\* A placeholder of a detector, or of an approved leave, is updated by id.
Update(r) ==
  /\ req[r].at = "update"
  /\ \E s \in {"in", "remote"} :
       /\ s = "remote" => req[r].op = "checkin"
       /\ Write(r, [row EXCEPT !.status = s, !.in = r], row.beat)
  /\ Answer(r)
  /\ UNCHANGED <<brk, job, alerts>>

\* createAwayGapBreak; the row is reopened by a later statement.
Away(r) ==
  /\ req[r].at = "away"
  /\ \E template \in BOOLEAN : NewBreak("closed", template, FALSE)
  /\ req' = [req EXCEPT ![r].at = "reopen"]
  /\ UNCHANGED <<row, clock, fresh, job, alerts>>

\* The row is reopened by id, whatever it is by now.
Reopen(r) ==
  /\ req[r].at \in {"stitch", "reopen"}
  /\ Write(r, [row EXCEPT !.out = None, !.auto = FALSE, !.status = "in"], 0)
  /\ Answer(r)
  /\ UNCHANGED <<brk, job, alerts>>

\* POST /attendance/heartbeat, and an ip-event on a row that is checked in.
Heartbeat(r) == Open /\ Arrive(r, "heartbeat", "beat", 0)

BeatWrite(r) ==
  /\ req[r].at = "beat"
  /\ Beat(row)
  /\ Answer(r)
  /\ UNCHANGED <<brk, job, alerts>>

-----------------------------------------------------------------------------
(* POST /attendance/checkout *)

Checkout(r) == Open /\ Arrive(r, "checkout", "write", 0)

\* One transaction: the row is claimed while check_out_at is null, then its
\* breaks are closed (and the project timer, which is not of this module); a row
\* that is checked out answers 409.
CheckoutWrite(r) ==
  /\ At(r, "checkout", "write")
  /\ IF row.out = None
       THEN /\ row' = [row EXCEPT !.out = "employee", !.status = "out"]
            /\ brk' = Settled
       ELSE UNCHANGED <<row, brk>>
  /\ Answer(r)
  /\ UNCHANGED <<clock, fresh, job, alerts>>

-----------------------------------------------------------------------------
(* POST /attendance/break/start and /break/end: a read that refuses early, then *)
(* a transaction that locks the attendance row and reads again.                 *)

BreakStart(r) == Open /\ OpenBreaks = {} /\ Arrive(r, "break_start", "write", 0)

MayStartBreakLate == OpenBreaks = {}

MayStartBreak == row.out = None /\ OpenBreaks = {}

BreakStartWrite(r) ==
  /\ At(r, "break_start", "write")
  /\ IF MayStartBreak
       THEN \E template \in BOOLEAN : NewBreak("open", template, FALSE)
       ELSE UNCHANGED brk
  /\ Answer(r)
  /\ UNCHANGED <<row, clock, fresh, job, alerts>>

BreakEnd(r) == Exists /\ \E b \in OpenBreaks : Arrive(r, "break_end", "write", b)

BreakEndWrite(r) ==
  LET b == req[r].arg IN
  /\ At(r, "break_end", "write")
  /\ brk' = IF row.out = None /\ b \in OpenBreaks THEN [brk EXCEPT ![b].state = "closed"] ELSE brk
  /\ Answer(r)
  /\ UNCHANGED <<row, clock, fresh, job, alerts>>

\* A statement fails or the instance dies: what was written stays.
Fail(r) ==
  /\ req[r] # Idle
  /\ Answer(r)
  /\ UNCHANGED <<row, brk, clock, fresh, job, alerts>>

\* PUT /attendance/:id/override: the given instants are set by id; status,
\* auto_checked_out and the breaks stay as they are.
Override ==
  /\ Exists
  /\ \E in \in {row.in, "manager"}, out \in {row.out, "manager"} :
       row' = [row EXCEPT !.in = in, !.out = out]
  /\ UNCHANGED <<brk, clock, fresh, req, job, alerts>>

-----------------------------------------------------------------------------
(* The jobs.  A Redis lease keeps a second run of the same job out. *)

JobRead(j, at, arg) ==
  /\ job[j] = Idle /\ Busy < MaxBusy
  /\ job' = [job EXCEPT ![j] = [op |-> "run", at |-> at, arg |-> arg]]
  /\ UNCHANGED <<row, brk, clock, fresh, req, alerts>>

JobStep(j, from, to) == job[j].at = from /\ job' = [job EXCEPT ![j].at = to]
JobEnd(j, from)      == job[j].at = from /\ job' = [job EXCEPT ![j] = Idle]

\* Both detectors look at the employees without a check-in who are expected.
Expected == ~CheckedIn /\ row.status \notin {"leave", "absent"}

\* attendanceRecord.upsert: only the status of a row that is there is written.
Marked(s) == IF Exists THEN [row EXCEPT !.status = s]
             ELSE [NoRow EXCEPT !.made = "system", !.status = s]

\* startLateArrivalDetector.  Its alerts, each followed by a flag that stops the
\* next one, change nothing else and are left out.
LateRead == Expected /\ row.status # "late" /\ JobRead("late", "write", 0)

LateWrite ==
  /\ JobEnd("late", "write")
  /\ row' = Marked("late")
  /\ UNCHANGED <<brk, clock, fresh, req, alerts>>

AlreadyAlerted == IF row.absent_alerted THEN 1 ELSE 0

\* startAbsentDetector: mark, set the flag, alert.
AbsentRead == Expected /\ JobRead("absent", "write", AlreadyAlerted)

AbsentWrite ==
  /\ IF job["absent"].arg = 0 THEN JobStep("absent", "write", "flag") ELSE JobEnd("absent", "write")
  /\ row' = Marked("absent")
  /\ UNCHANGED <<brk, clock, fresh, req, alerts>>

AbsentFlag ==
  /\ JobStep("absent", "flag", "alert")
  /\ row' = [row EXCEPT !.absent_alerted = TRUE]
  /\ UNCHANGED <<brk, clock, fresh, req, alerts>>

AbsentAlert ==
  /\ JobEnd("absent", "alert")
  /\ alerts' = alerts + 1
  /\ UNCHANGED <<row, brk, clock, fresh, req>>

\* startHeartbeatExpiryMonitor: an open row whose heartbeat is older than the
\* grace period; the breaks are settled before the conditional update.
ExpiryRead ==
  /\ Open /\ row.status \in {"in", "late"} /\ row.beat # 0 /\ ~fresh
  /\ JobRead("expiry", "settle", row.beat)

Settle(j) ==
  /\ JobStep(j, "settle", "write")
  /\ brk' = Settled
  /\ UNCHANGED <<row, clock, fresh, req, alerts>>

AutoOut(by) == [row EXCEPT !.out = by, !.status = "out", !.auto = TRUE, !.beat = 0]

\* Mutant: the update does not compare the heartbeat.
UnchangedSinceOut(beat) == row.out = None

UnchangedSince(beat) == row.out = None /\ row.beat = beat

ExpiryWrite ==
  /\ JobEnd("expiry", "write")
  /\ IF UnchangedSince(job["expiry"].arg)
       THEN row' = AutoOut("expiry") /\ fresh' = FALSE
       ELSE UNCHANGED <<row, fresh>>
  /\ UNCHANGED <<brk, clock, req, alerts>>

\* startStaleRecordSweep and startShiftAutoCheckoutJob: an open row at the end
\* of its day or of its shift, checked out by id.
CloserRead(j) ==
  /\ Open /\ (j = "shift" => row.status \in {"in", "late", "remote"})
  /\ JobRead(j, "settle", 0)

CloserWrite(j) ==
  /\ JobEnd(j, "write")
  /\ row' = AutoOut("closer") /\ fresh' = FALSE
  /\ UNCHANGED <<brk, clock, req, alerts>>

\* startShiftBreakAutoManager: inside the window of the fixed break of the shift
\* it starts the break when none of that kind has been taken and none is open,
\* after the window it ends the break it started, both without a further look.
BreaksRead ==
  /\ Open /\ row.status \in {"in", "late", "remote"}
  /\ \/ /\ OpenBreaks = {} /\ \A b \in Breaks : ~brk[b].template
        /\ JobRead("breaks", "create", 0)
     \/ \E b \in OpenBreaks : brk[b].template /\ brk[b].auto /\ JobRead("breaks", "end", b)

BreaksCreate ==
  /\ JobEnd("breaks", "create")
  /\ NewBreak("open", TRUE, TRUE)
  /\ UNCHANGED <<row, clock, fresh, req, alerts>>

BreaksEnd ==
  /\ JobEnd("breaks", "end")
  /\ brk' = [brk EXCEPT ![job["breaks"].arg].state = "closed"]
  /\ UNCHANGED <<row, clock, fresh, req, alerts>>

\* The run of a job fails or dies; its lease goes with it.
JobFails(j) ==
  /\ job[j] # Idle
  /\ job' = [job EXCEPT ![j] = Idle]
  /\ UNCHANGED <<row, brk, clock, fresh, req, alerts>>

\* The grace period of the last heartbeat passes.
GracePasses ==
  /\ fresh /\ fresh' = FALSE
  /\ UNCHANGED <<row, brk, clock, req, job, alerts>>

-----------------------------------------------------------------------------
RequestWrites(r) ==
  \/ Create(r) \/ Update(r) \/ Away(r) \/ Reopen(r) \/ BeatWrite(r)
  \/ CheckoutWrite(r) \/ BreakStartWrite(r) \/ BreakEndWrite(r)

LateDetector   == LateRead \/ LateWrite
AbsentDetector == AbsentRead \/ AbsentWrite \/ AbsentFlag \/ AbsentAlert
ExpiryMonitor  == ExpiryRead \/ Settle("expiry") \/ ExpiryWrite
Closer(j)      == CloserRead(j) \/ Settle(j) \/ CloserWrite(j)
BreakManager   == BreaksRead \/ BreaksCreate \/ BreaksEnd

Next ==
  \/ \E r \in Requests :
       \/ Checkin(r) \/ IpEvent(r) \/ Heartbeat(r) \/ Checkout(r)
       \/ BreakStart(r) \/ BreakEnd(r) \/ RequestWrites(r) \/ Fail(r)
  \/ Override \/ GracePasses
  \/ LateDetector \/ AbsentDetector \/ ExpiryMonitor \/ BreakManager
  \/ \E j \in Closers : Closer(j)
  \/ \E j \in Jobs : JobFails(j)

Spec == Init /\ [][Next]_vars

-----------------------------------------------------------------------------
(* Properties *)

\* The heartbeat monitor checks nobody out whose device has reported within the
\* grace period, and never over a check-out that is there: it decides on a row
\* it read earlier and settles the breaks before it writes.
HeartbeatKeepsIn == [][row'.out = "expiry" /\ row.out # "expiry" => row.out = None /\ ~fresh]_vars

\* Once the employee has checked out no break of theirs is open, however start,
\* end and check-out overlap; the break manager alone may still insert one.
CheckoutClosesBreaks == row.out = "employee" => \A b \in OpenBreaks : brk[b].auto

\* An employee is in at most one break they started, and in at most one that
\* was started for them.
OneOpenBreak == \A auto \in BOOLEAN : Cardinality({b \in OpenBreaks : brk[b].auto = auto}) <= 1

\* The check-in time of a row that a check-in inserted is changed by nobody but
\* a manager: overlapping check-ins of two devices meet the unique key.
CheckInStands == [][row.made = "employee" /\ row'.in # row.in => row'.in = "manager"]_vars

\* What the employee and the devices have reported of the day stands against
\* jobs and requests that decide on an earlier reading of the row.
ReportedStands == HeartbeatKeepsIn /\ CheckInStands

\* Nobody is told twice that the employee is absent: the late detector may put a
\* row it read earlier back to late, the absent detector then marks it again, and
\* a run may die anywhere in between.
AbsenceAlertedOnce == alerts <= 1

\* The row of a day stays consistent with its breaks and its alerts, whatever
\* requests and detectors decide on rows they read earlier.
AttendanceSafe == TypeOK /\ CheckoutClosesBreaks /\ OneOpenBreak /\ AbsenceAlertedOnce
=============================================================================
