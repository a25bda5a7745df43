--------------------------- MODULE AttendanceProofs ---------------------------
(***************************************************************************)
(* Proofs about Attendance: AttendanceSafe and ReportedStands, for any      *)
(* number of devices, closing jobs, breaks and heartbeats.                  *)
(*                                                                         *)
(* Requests and jobs write after a read that may be old; the invariant says  *)
(* what of that read still holds when they write: that there is a row, that   *)
(* the heartbeat found expired has expired, that no break started for the     *)
(* employee is open and that no absence was alerted.                          *)
(***************************************************************************)
EXTENDS Attendance, FiniteSetTheorems, WellFoundedInduction, TLAPS

-----------------------------------------------------------------------------
\* The row of the day is there or empty, was checked in by whoever made it, and
\* carries no heartbeat from the future.
RowKnown ==
  /\ row.made = "nobody" => row = NoRow
  /\ row.made # "nobody" => row.status # "none"
  /\ row.made = "employee" => row.in # None
  /\ row.beat <= clock

\* Requests and jobs that found a row find one again; a check-in that updates a
\* placeholder does not meet a row that a check-in inserted.
RequestsKnown == \A r \in Requests :
  /\ req[r].at \notin {"idle", "create"} => row.made # "nobody"
  /\ req[r].at = "update" => row.made = "system"

FoundRow(j) == job[j].at # "idle" /\ ~(j \in {"late", "absent"} /\ job[j].at = "write")
JobsKnown == \A j \in Jobs : FoundRow(j) => row.made # "nobody"

\* The heartbeat that the monitor found expired has expired.
ExpiryKnown ==
  job["expiry"].at # "idle" =>
    job["expiry"].arg \in 1 .. clock /\ (row.beat = job["expiry"].arg => ~fresh)

\* The break manager alone starts breaks for the employee, none while one is open.
BreaksOne == \A b, c \in OpenBreaks : brk[b].auto = brk[c].auto => b = c
ManagerAlone == job["breaks"].at = "create" => \A b \in OpenBreaks : ~brk[b].auto

\* The alert is sent by the run that set the flag, and the flag is never taken back.
AbsenceKnown ==
  /\ alerts <= 1 /\ (alerts = 1 => row.absent_alerted)
  /\ job["absent"].at = "flag" \/ (job["absent"].at = "write" /\ job["absent"].arg = 0) => ~row.absent_alerted
  /\ job["absent"].at = "alert" => alerts = 0 /\ row.absent_alerted

AttendanceInv ==
  /\ TypeOK /\ RowKnown /\ RequestsKnown /\ JobsKnown /\ ExpiryKnown
  /\ BreaksOne /\ ManagerAlone /\ AbsenceKnown /\ CheckoutClosesBreaks

-----------------------------------------------------------------------------
(* Numbers *)

LEMMA Bounds == /\ MaxBreaks \in Nat /\ MaxBeats \in Nat /\ {"late", "absent", "expiry", "breaks"} \subseteq Jobs
                /\ Closers \subseteq Jobs /\ \A j \in Closers : j \notin {"late", "absent", "expiry", "breaks"}
  BY AttendanceAssumption DEF Jobs

LEMMA LeastExists ==
  ASSUME NEW S \in SUBSET Nat, S # {}
  PROVE  \E x \in S : \A y \in S : x =< y
<1>1. PICK x \in S : \A y \in S : <<y, x>> \notin OpToRel(<, Nat)
  BY NatLessThanWellFounded, WFMin
<1>2. \A y \in S : ~(y < x)
  BY <1>1 DEF OpToRel
<1> QED BY <1>2

\* The first free number for a break is one.
LEMMA FirstFree == FreeBreaks # {} => Min(FreeBreaks) \in FreeBreaks
<1> SUFFICES ASSUME FreeBreaks # {} PROVE Min(FreeBreaks) \in FreeBreaks OBVIOUS
<1>1. FreeBreaks \in SUBSET Nat BY Bounds DEF FreeBreaks, Breaks
<1>2. PICK S : S = FreeBreaks OBVIOUS
<1>3. \E x \in S : \A y \in S : x =< y BY <1>1, <1>2, LeastExists
<1>4. Min(S) \in S BY <1>3 DEF Min
<1> QED BY <1>2, <1>4

LEMMA AttendanceInvImplies == AttendanceInv => AttendanceSafe
<1> SUFFICES ASSUME AttendanceInv PROVE AttendanceSafe OBVIOUS
<1>1. ASSUME NEW auto \in BOOLEAN PROVE Cardinality({b \in OpenBreaks : brk[b].auto = auto}) <= 1
  <2>1. PICK S : S = {b \in OpenBreaks : brk[b].auto = auto} OBVIOUS
  <2>2. \A b, c \in S : b = c BY <2>1 DEF AttendanceInv, BreaksOne
  <2>3. CASE S = {} BY <2>1, <2>3, FS_EmptySet
  <2>4. CASE S # {}
    <3>1. PICK x : S = {x} BY <2>2, <2>4
    <3> QED BY <2>1, <3>1, FS_Singleton
  <2> QED BY <2>3, <2>4
<1> QED BY <1>1 DEF AttendanceInv, AttendanceSafe, OneOpenBreak, AbsenceAlertedOnce, AbsenceKnown

LEMMA NoRowType == NoRow \in Row /\ Idle \in Request /\ Idle \in JobState /\ Idle.at = "idle" /\ NoBreak \in BreakRow
  BY Bounds DEF NoRow, Row, Idle, Request, JobState, CheckinSteps, NoBreak, BreakRow

LEMMA AttendanceStarts == Init => AttendanceInv
<1> SUFFICES ASSUME Init PROVE AttendanceInv OBVIOUS
<1>0. row \in Row /\ row.in = None /\ row.out = None /\ row.beat = 0 /\ row.made # "employee" /\ ~row.absent_alerted
      /\ (row.made = "nobody" => row = NoRow) /\ (row.made # "nobody" => row.status # "none")
  <2>1. CASE row = NoRow BY <2>1, NoRowType DEF NoRow
  <2>2. CASE row = [NoRow EXCEPT !.made = "system", !.status = "leave"]
    <3>1. row = [made |-> "system", status |-> "leave", in |-> None, out |-> None,
                 auto |-> FALSE, beat |-> 0, absent_alerted |-> FALSE]
      BY <2>2 DEF NoRow
    <3> QED BY <3>1, Bounds DEF Row
  <2> QED BY <2>1, <2>2 DEF Init
<1>1. TypeOK
  <2>1. brk \in [Breaks -> BreakRow] /\ req \in [Requests -> Request] /\ job \in [Jobs -> JobState]
    BY NoRowType DEF Init
  <2>2. clock \in 0 .. MaxBeats /\ alerts \in Nat BY Bounds DEF Init
  <2>3. fresh \in BOOLEAN BY DEF Init
  <2> QED BY <1>0, <2>1, <2>2, <2>3 DEF TypeOK
<1>2. RowKnown /\ RequestsKnown BY <1>0, NoRowType DEF Init, RowKnown, RequestsKnown
<1>3. JobsKnown /\ ExpiryKnown /\ ManagerAlone /\ AbsenceKnown
  BY <1>0, NoRowType, Bounds DEF Init, JobsKnown, FoundRow, ExpiryKnown, ManagerAlone, AbsenceKnown
<1>4. OpenBreaks = {} BY DEF Init, OpenBreaks, NoBreak
<1>5. BreaksOne /\ CheckoutClosesBreaks BY <1>4 DEF BreaksOne, CheckoutClosesBreaks
<1> QED BY <1>1, <1>2, <1>3, <1>5 DEF AttendanceInv

-----------------------------------------------------------------------------
(* Parts of a step *)

\* What may happen to the row: it is made once, stays, and a heartbeat that comes
\* back in it is none or a new one.
RowMoves ==
  /\ row' \in Row /\ clock' \in 0 .. MaxBeats /\ fresh' \in BOOLEAN /\ clock <= clock' /\ row'.beat <= clock'
  /\ row'.made # row.made => row.made = "nobody"
  /\ row'.made = "nobody" => row' = row
  /\ row'.made # "nobody" => row'.status # "none"
  /\ row'.made = "employee" => row'.in # None
  /\ row'.absent_alerted = row.absent_alerted
  /\ (row'.beat = row.beat /\ (fresh' => fresh)) \/ row'.beat = 0 \/ row'.beat > clock

\* What may happen to the breaks when the break manager has no hand in it.
BreaksMove ==
  /\ brk' \in [Breaks -> BreakRow] /\ BreaksOne'
  /\ \A b \in OpenBreaks' : brk'[b].auto => b \in OpenBreaks /\ brk[b].auto

LEMMA RowAfter ==
  ASSUME AttendanceInv, RowMoves
  PROVE  /\ RowKnown'
         /\ row.made # "nobody" => row'.made # "nobody"
         /\ row.made = "system" => row'.made = "system"
         /\ \A n \in 1 .. clock : (row.beat = n => ~fresh) => n \in 1 .. clock' /\ (row'.beat = n => ~fresh')
<1>1. clock \in Nat /\ clock' \in Nat /\ row.made \in {"nobody", "employee", "system"} BY Bounds DEF AttendanceInv, TypeOK, RowMoves, Row
<1>2. RowKnown' BY DEF AttendanceInv, RowKnown, RowMoves
<1>3. row.made # "nobody" => row'.made = row.made BY DEF RowMoves
<1>4. ASSUME NEW n \in 1 .. clock, row.beat = n => ~fresh
      PROVE  n \in 1 .. clock' /\ (row'.beat = n => ~fresh')
  <2>1. n \in 1 .. clock' BY <1>1 DEF RowMoves
  <2>2. CASE row'.beat = row.beat /\ (fresh' => fresh) BY <1>4, <2>1, <2>2
  <2>3. CASE row'.beat = 0 BY <2>1, <2>3
  <2>4. CASE row'.beat > clock BY <1>1, <2>1, <2>4
  <2> QED BY <2>2, <2>3, <2>4 DEF RowMoves
<1> QED BY <1>2, <1>3, <1>4

LEMMA RowStays ==
  ASSUME AttendanceInv, UNCHANGED <<row, clock, fresh>>
  PROVE  RowMoves
  BY DEF AttendanceInv, TypeOK, RowKnown, RowMoves

LEMMA BreaksStay == ASSUME AttendanceInv, UNCHANGED brk PROVE BreaksMove
  BY DEF AttendanceInv, TypeOK, BreaksOne, BreaksMove, OpenBreaks

\* A request goes on, ends or starts.
LEMMA RequestSide ==
  ASSUME AttendanceInv, RowMoves, BreaksMove, CheckoutClosesBreaks', UNCHANGED <<job, alerts>>,
         NEW r \in Requests, NEW q \in Request, req' = [req EXCEPT ![r] = q],
         q.at \notin {"idle", "create"} => row'.made # "nobody",
         q.at = "update" => row'.made = "system"
  PROVE  AttendanceInv'
<1>1. req' \in [Requests -> Request] /\ req'[r] = q /\ \A s \in Requests \ {r} : req'[s] = req[s]
  BY DEF AttendanceInv, TypeOK
<1>2. TypeOK' BY <1>1 DEF AttendanceInv, TypeOK, RowMoves, BreaksMove
<1>3. RequestsKnown' BY <1>1, RowAfter DEF AttendanceInv, RequestsKnown
<1>4. JobsKnown' BY RowAfter DEF AttendanceInv, JobsKnown, FoundRow
<1>5. ExpiryKnown' BY RowAfter DEF AttendanceInv, ExpiryKnown
<1>6. ManagerAlone' BY DEF AttendanceInv, ManagerAlone, BreaksMove
<1>7. AbsenceKnown' BY DEF AttendanceInv, AbsenceKnown, RowMoves
<1> QED BY <1>2, <1>3, <1>4, <1>5, <1>6, <1>7, RowAfter DEF AttendanceInv, BreaksMove

\* A job goes on, ends or starts.
LEMMA JobSide ==
  ASSUME AttendanceInv, RowMoves, BreaksMove, CheckoutClosesBreaks', UNCHANGED <<req, alerts>>,
         NEW j \in Jobs, NEW q \in JobState, job' = [job EXCEPT ![j] = q],
         q.at # "idle" /\ ~(j \in {"late", "absent"} /\ q.at = "write") => row'.made # "nobody",
         j = "expiry" /\ q.at # "idle" => q.arg \in 1 .. clock' /\ (row'.beat = q.arg => ~fresh'),
         j = "breaks" /\ q.at = "create" => \A b \in OpenBreaks' : ~brk'[b].auto,
         j = "absent" => /\ q.at = "flag" \/ (q.at = "write" /\ q.arg = 0) => ~row'.absent_alerted
                         /\ q.at # "alert"
  PROVE  AttendanceInv'
<1>1. job' \in [Jobs -> JobState] /\ job'[j] = q /\ \A k \in Jobs \ {j} : job'[k] = job[k]
  BY DEF AttendanceInv, TypeOK
<1>2. TypeOK' BY <1>1 DEF AttendanceInv, TypeOK, RowMoves, BreaksMove
<1>3. RequestsKnown' BY RowAfter DEF AttendanceInv, RequestsKnown
<1>4. JobsKnown' BY <1>1, RowAfter DEF AttendanceInv, JobsKnown, FoundRow
<1>5. ExpiryKnown'
  <2>1. CASE j = "expiry" BY <1>1, <2>1 DEF ExpiryKnown
  <2>2. CASE j # "expiry"
    <3>1. job'["expiry"] = job["expiry"] BY <1>1, <2>2, Bounds
    <3> QED BY <3>1, RowAfter DEF AttendanceInv, ExpiryKnown
  <2> QED BY <2>1, <2>2
<1>6. ManagerAlone'
  <2>1. CASE j = "breaks" BY <1>1, <2>1 DEF ManagerAlone
  <2>2. CASE j # "breaks"
    <3>1. job'["breaks"] = job["breaks"] BY <1>1, <2>2, Bounds
    <3> QED BY <3>1 DEF AttendanceInv, ManagerAlone, BreaksMove
  <2> QED BY <2>1, <2>2
<1>7. AbsenceKnown'
  <2>1. CASE j = "absent" BY <1>1, <2>1 DEF AttendanceInv, AbsenceKnown, RowMoves
  <2>2. CASE j # "absent"
    <3>1. job'["absent"] = job["absent"] BY <1>1, <2>2, Bounds
    <3> QED BY <3>1 DEF AttendanceInv, AbsenceKnown, RowMoves
  <2> QED BY <2>1, <2>2
<1> QED BY <1>2, <1>3, <1>4, <1>5, <1>6, <1>7, RowAfter DEF AttendanceInv, BreaksMove

\* Neither requests nor jobs move.
LEMMA NobodyMoves ==
  ASSUME AttendanceInv, RowMoves, BreaksMove, CheckoutClosesBreaks', UNCHANGED <<req, job, alerts>>
  PROVE  AttendanceInv'
<1>1. TypeOK' BY DEF AttendanceInv, TypeOK, RowMoves, BreaksMove
<1>2. RequestsKnown' BY RowAfter DEF AttendanceInv, RequestsKnown
<1>3. JobsKnown' BY RowAfter DEF AttendanceInv, JobsKnown, FoundRow
<1>4. ExpiryKnown' BY RowAfter DEF AttendanceInv, ExpiryKnown
<1>5. ManagerAlone' BY DEF AttendanceInv, ManagerAlone, BreaksMove
<1>6. AbsenceKnown' BY DEF AttendanceInv, AbsenceKnown, RowMoves
<1> QED BY <1>1, <1>2, <1>3, <1>4, <1>5, <1>6, RowAfter DEF AttendanceInv, BreaksMove

-----------------------------------------------------------------------------
(* The requests of the employee's devices *)

\* What ReportedStands asks of a step.
Stands ==
  /\ row'.out = "expiry" /\ row.out # "expiry" => row.out = None /\ ~fresh
  /\ row.made = "employee" /\ row'.in # row.in => row'.in = "manager"

\* Row and breaks are left alone.
LEMMA NothingWritten ==
  ASSUME AttendanceInv, UNCHANGED <<row, brk, clock, fresh>>
  PROVE  RowMoves /\ BreaksMove /\ CheckoutClosesBreaks' /\ Stands
<1>1. CheckoutClosesBreaks' BY DEF AttendanceInv, CheckoutClosesBreaks, OpenBreaks
<1> QED BY <1>1, RowStays, BreaksStay DEF Stands

LEMMA AnswerKeeps ==
  ASSUME AttendanceInv, RowMoves, BreaksMove, CheckoutClosesBreaks', UNCHANGED <<job, alerts>>,
         NEW r \in Requests, Answer(r)
  PROVE  AttendanceInv'
<1>1. Idle \in Request /\ Idle.at = "idle" BY NoRowType
<1>2. req' = [req EXCEPT ![r] = Idle] BY DEF Answer
<1> QED BY <1>1, <1>2, RequestSide

LEMMA ArriveKeeps ==
  ASSUME AttendanceInv, NEW r \in Requests, NEW op, NEW at, NEW arg, [op |-> op, at |-> at, arg |-> arg] \in Request,
         at \notin {"idle", "create"} => row.made # "nobody", at = "update" => row.made = "system",
         Arrive(r, op, at, arg)
  PROVE  AttendanceInv' /\ Stands
<1>1. PICK q : q = [op |-> op, at |-> at, arg |-> arg] OBVIOUS
<1>2. q \in Request /\ q.at = at BY <1>1
<1>3. req' = [req EXCEPT ![r] = q] /\ UNCHANGED <<row, brk, clock, fresh, job, alerts>> BY <1>1 DEF Arrive
<1>4. RowMoves /\ BreaksMove /\ CheckoutClosesBreaks' /\ Stands BY <1>3, NothingWritten
<1>5. (q.at \notin {"idle", "create"} => row'.made # "nobody") /\ (q.at = "update" => row'.made = "system")
  BY <1>2, <1>3
<1> QED BY <1>2, <1>3, <1>4, <1>5, RequestSide

LEMMA ReadsKeep ==
  ASSUME AttendanceInv, NEW r \in Requests,
         Checkin(r) \/ IpEvent(r) \/ Heartbeat(r) \/ Checkout(r) \/ BreakStart(r) \/ BreakEnd(r)
  PROVE  AttendanceInv' /\ Stands
<1>0. row.made \in {"nobody", "employee", "system"} BY DEF AttendanceInv, TypeOK, Row
<1>1. (Exists \/ CheckedIn) => row.made # "nobody" BY DEF AttendanceInv, RowKnown, Exists, CheckedIn, NoRow
<1>2. 0 \in 0 .. MaxBreaks /\ Breaks \subseteq 0 .. MaxBreaks BY Bounds DEF Breaks
<1>3. ASSUME NEW at \in CheckinDecisions
      PROVE  /\ at \in CheckinSteps /\ at # "idle"
             /\ at # "create" => row.made # "nobody"
             /\ at = "update" => row.made = "system"
  <2>1. CASE ~Exists BY <2>1 DEF CheckinDecisions, CheckinSteps
  <2>2. CASE Exists /\ ~CheckedIn
    <3>1. row.made # "employee" BY <2>2 DEF AttendanceInv, RowKnown, CheckedIn
    <3> QED BY <1>0, <1>1, <2>2, <3>1 DEF CheckinDecisions, CheckinSteps
  <2>3. CASE Exists /\ CheckedIn BY <1>1, <2>3 DEF CheckinDecisions, CheckinSteps
  <2> QED BY <2>1, <2>2, <2>3
<1>4. CASE Checkin(r)
  <2>1. PICK at \in CheckinDecisions : Arrive(r, "checkin", at, 0) BY <1>4 DEF Checkin
  <2>2. [op |-> "checkin", at |-> at, arg |-> 0] \in Request BY <1>2, <1>3 DEF Request
  <2> QED BY <1>3, <2>1, <2>2, ArriveKeeps
<1>5. CASE IpEvent(r)
  <2>1. CASE \E at \in CheckinDecisions : Arrive(r, "ip", at, 0)
    <3>1. PICK at \in CheckinDecisions : Arrive(r, "ip", at, 0) BY <2>1
    <3>2. [op |-> "ip", at |-> at, arg |-> 0] \in Request BY <1>2, <1>3 DEF Request
    <3> QED BY <1>3, <3>1, <3>2, ArriveKeeps
  <2>2. CASE CheckinDecisions = {} /\ Arrive(r, "ip", "beat", 0)
    <3>1. Exists BY <2>2 DEF CheckinDecisions
    <3>2. [op |-> "ip", at |-> "beat", arg |-> 0] \in Request BY <1>2 DEF Request
    <3> QED BY <1>1, <2>2, <3>1, <3>2, ArriveKeeps
  <2> QED BY <1>5, <2>1, <2>2 DEF IpEvent
<1>6. CASE Heartbeat(r)
  <2>1. [op |-> "heartbeat", at |-> "beat", arg |-> 0] \in Request BY <1>2 DEF Request
  <2>2. row.made # "nobody" /\ Arrive(r, "heartbeat", "beat", 0) BY <1>1, <1>6 DEF Heartbeat, Open
  <2> QED BY <2>1, <2>2, ArriveKeeps
<1>7. CASE Checkout(r)
  <2>1. [op |-> "checkout", at |-> "write", arg |-> 0] \in Request BY <1>2 DEF Request
  <2>2. row.made # "nobody" /\ Arrive(r, "checkout", "write", 0) BY <1>1, <1>7 DEF Checkout, Open
  <2> QED BY <2>1, <2>2, ArriveKeeps
<1>8. CASE BreakStart(r)
  <2>1. [op |-> "break_start", at |-> "write", arg |-> 0] \in Request BY <1>2 DEF Request
  <2>2. row.made # "nobody" /\ Arrive(r, "break_start", "write", 0) BY <1>1, <1>8 DEF BreakStart, Open
  <2> QED BY <2>1, <2>2, ArriveKeeps
<1>9. CASE BreakEnd(r)
  <2>1. PICK b \in OpenBreaks : Arrive(r, "break_end", "write", b) BY <1>9 DEF BreakEnd
  <2>2. b \in 0 .. MaxBreaks BY <1>2 DEF OpenBreaks
  <2>3. [op |-> "break_end", at |-> "write", arg |-> b] \in Request BY <2>2 DEF Request
  <2>4. row.made # "nobody" BY <1>1, <1>9 DEF BreakEnd
  <2> QED BY <2>1, <2>3, <2>4, ArriveKeeps
<1> QED BY <1>4, <1>5, <1>6, <1>7, <1>8, <1>9

\* last_heartbeat_at is written with the columns of the row.
LEMMA BeatMoves ==
  ASSUME AttendanceInv, NEW c \in Row, Beat(c),
         c.made # row.made => row.made = "nobody", c.made # "nobody", c.status # "none",
         c.made = "employee" => c.in # None, c.absent_alerted = row.absent_alerted
  PROVE  RowMoves /\ row'.made = c.made /\ row'.in = c.in /\ row'.out = c.out
<1>1. clock \in Nat /\ clock + 1 \in 0 .. MaxBeats BY Bounds DEF AttendanceInv, TypeOK, Beat
<1>2. PICK w : w = clock + 1 OBVIOUS
<1>3. row' = [c EXCEPT !.beat = w] BY <1>2 DEF Beat
<1>4. row' \in Row /\ row'.beat = w BY <1>1, <1>2, <1>3 DEF Row
<1>5. row'.made = c.made /\ row'.in = c.in /\ row'.out = c.out /\ row'.status = c.status
      /\ row'.absent_alerted = c.absent_alerted
  BY <1>3 DEF Row
<1>6. clock' = w /\ fresh' = TRUE BY <1>2 DEF Beat
<1>7. w > clock /\ clock <= w /\ w <= w /\ w \in 0 .. MaxBeats BY <1>1, <1>2
<1> QED BY <1>4, <1>5, <1>6, <1>7 DEF RowMoves

LEMMA WriteMoves ==
  ASSUME AttendanceInv, NEW c \in Row, NEW r, NEW w, w = 0 \/ w = row.beat, Write(r, c, w),
         c.made # row.made => row.made = "nobody", c.made # "nobody", c.status # "none",
         c.made = "employee" => c.in # None, c.absent_alerted = row.absent_alerted
  PROVE  RowMoves /\ row'.made = c.made /\ row'.in = c.in /\ row'.out = c.out
<1>1. CASE req[r].op = "ip" /\ Beat(c) BY <1>1, BeatMoves
<1>2. CASE /\ row' = [c EXCEPT !.beat = w]
           /\ fresh' = (fresh /\ w # 0)
           /\ UNCHANGED clock
  <2>1. clock \in 0 .. MaxBeats /\ row.beat \in 0 .. MaxBeats /\ row.beat <= clock /\ fresh \in BOOLEAN
    BY DEF AttendanceInv, TypeOK, Row, RowKnown
  <2>2. w \in 0 .. MaxBeats /\ w <= clock /\ clock <= clock BY <2>1, Bounds
  <2>3. row' \in Row /\ row'.beat = w BY <1>2, <2>2 DEF Row
  <2>4. row'.made = c.made /\ row'.in = c.in /\ row'.out = c.out /\ row'.status = c.status
        /\ row'.absent_alerted = c.absent_alerted
    BY <1>2 DEF Row
  <2>5. fresh' \in BOOLEAN /\ (fresh' => fresh) BY <1>2, <2>1
  <2> QED BY <1>2, <2>1, <2>2, <2>3, <2>4, <2>5 DEF RowMoves
<1> QED BY <1>1, <1>2 DEF Write

\* Of the row nothing that CheckoutClosesBreaks looks at but a check-out that is
\* taken back, and of the breaks none that is opened.
LEMMA ClosedStay ==
  ASSUME AttendanceInv, row'.out # "employee" \/ row'.out = row.out,
         OpenBreaks' \subseteq OpenBreaks, \A b \in OpenBreaks' : brk'[b].auto = brk[b].auto
  PROVE  CheckoutClosesBreaks'
  BY DEF AttendanceInv, CheckoutClosesBreaks

LEMMA RowFields ==
  ASSUME AttendanceInv
  PROVE  /\ row \in Row /\ row.beat \in 0 .. MaxBeats /\ row.made \in {"nobody", "employee", "system"}
         /\ (Exists => row.made # "nobody") /\ (~Exists => row = NoRow)
         /\ (row.made = "employee" => row.in # None)
         /\ (row.made # "nobody" => row.status # "none")
<1>1. row \in Row BY DEF AttendanceInv, TypeOK
<1>2. row.beat \in 0 .. MaxBeats /\ row.made \in {"nobody", "employee", "system"} BY <1>1 DEF Row
<1> QED BY <1>1, <1>2 DEF AttendanceInv, RowKnown, Exists, NoRow

LEMMA CreateKeeps ==
  ASSUME AttendanceInv, NEW r \in Requests, Create(r)
  PROVE  AttendanceInv' /\ Stands
<1>1. Answer(r) /\ UNCHANGED <<brk, job, alerts>> BY DEF Create
<1>2. CASE Exists
  <2>1. UNCHANGED <<row, clock, fresh>> BY <1>2 DEF Create
  <2> QED BY <1>1, <2>1, NothingWritten, AnswerKeeps
<1>3. CASE ~Exists
  <2>1. PICK s \in {"in", "remote"} : Write(r, [NoRow EXCEPT !.made = "employee", !.status = s, !.in = r], 0)
    BY <1>3 DEF Create
  <2>2. PICK n : n = NoRow OBVIOUS
  <2>3. n \in Row /\ n.out = None /\ n.absent_alerted = FALSE BY <2>2, NoRowType DEF NoRow
  <2>3a. PICK c : c = [n EXCEPT !.made = "employee", !.status = s, !.in = r] OBVIOUS
  <2>4. c \in Row /\ c.made = "employee" /\ c.status # "none" /\ c.in = r /\ c.out = None /\ c.absent_alerted = FALSE
    <3>1. c \in Row BY <2>3, <2>3a DEF Row
    <3>2. c.made = "employee" /\ c.status = s /\ c.in = r /\ c.out = n.out /\ c.absent_alerted = n.absent_alerted
      BY <2>3, <2>3a DEF Row
    <3> QED BY <2>3, <3>1, <3>2
  <2>5. row.made = "nobody" /\ row.absent_alerted = FALSE /\ row.out = None BY <1>3, RowFields DEF NoRow
  <2>6. r # None BY AttendanceAssumption
  <2>7. Write(r, c, 0) BY <2>1, <2>2, <2>3a
  <2>8. RowMoves /\ row'.made = c.made /\ row'.in = c.in /\ row'.out = c.out
    <3>1. c.made # row.made => row.made = "nobody" BY <2>5
    <3>2. c.made # "nobody" /\ c.status # "none" /\ c.absent_alerted = row.absent_alerted BY <2>4, <2>5
    <3>3. c.made = "employee" => c.in # None BY <2>4, <2>6
    <3>4. PICK w : w = 0 OBVIOUS
    <3>5. Write(r, c, w) /\ (w = 0 \/ w = row.beat) BY <2>7, <3>4
    <3> QED BY <2>4, <3>1, <3>2, <3>3, <3>5, WriteMoves
  <2>9. BreaksMove BY <1>1, BreaksStay
  <2>10. row'.out = None BY <2>4, <2>8
  <2>11. OpenBreaks' = OpenBreaks BY <1>1 DEF OpenBreaks
  <2>12. CheckoutClosesBreaks' BY <1>1, <2>5, <2>10, <2>11, ClosedStay
  <2>13. None # "expiry" BY AttendanceAssumption DEF Jobs
  <2>14. Stands BY <2>5, <2>10, <2>13 DEF Stands
  <2> QED BY <1>1, <2>8, <2>9, <2>12, <2>14, AnswerKeeps
<1> QED BY <1>2, <1>3

LEMMA UpdateKeeps ==
  ASSUME AttendanceInv, NEW r \in Requests, Update(r)
  PROVE  AttendanceInv' /\ Stands
<1>1. Answer(r) /\ UNCHANGED <<brk, job, alerts>> /\ req[r].at = "update" BY DEF Update
<1>2. row.made = "system" BY <1>1 DEF AttendanceInv, RequestsKnown
<1>3. PICK s \in {"in", "remote"} : Write(r, [row EXCEPT !.status = s, !.in = r], row.beat) BY DEF Update
<1>4. row \in Row BY RowFields
<1>5. PICK c : c = [row EXCEPT !.status = s, !.in = r] OBVIOUS
<1>6. c \in Row BY <1>4, <1>5 DEF Row
<1>7. c.made = row.made /\ c.out = row.out /\ c.absent_alerted = row.absent_alerted /\ c.status = s /\ c.in = r
  BY <1>4, <1>5 DEF Row
<1>8. RowMoves /\ row'.made = c.made /\ row'.in = c.in /\ row'.out = c.out
  <2>1. PICK w : w = row.beat OBVIOUS
  <2>2. Write(r, c, w) BY <1>3, <1>5, <2>1
  <2> QED BY <1>2, <1>6, <1>7, <2>1, <2>2, WriteMoves
<1>9. BreaksMove BY <1>1, BreaksStay
<1>10. OpenBreaks' = OpenBreaks BY <1>1 DEF OpenBreaks
<1>11. row'.out = row.out BY <1>7, <1>8
<1>12. CheckoutClosesBreaks' BY <1>1, <1>10, <1>11, ClosedStay
<1>13. Stands BY <1>2, <1>11 DEF Stands
<1> QED BY <1>1, <1>8, <1>9, <1>12, <1>13, AnswerKeeps

LEMMA ReopenKeeps ==
  ASSUME AttendanceInv, NEW r \in Requests, Reopen(r)
  PROVE  AttendanceInv' /\ Stands
<1>1. Answer(r) /\ UNCHANGED <<brk, job, alerts>> /\ req[r].at \in {"stitch", "reopen"} BY DEF Reopen
<1>2. row.made # "nobody" BY <1>1 DEF AttendanceInv, RequestsKnown
<1>3. Write(r, [row EXCEPT !.out = None, !.auto = FALSE, !.status = "in"], 0) BY DEF Reopen
<1>4. row \in Row /\ (row.made = "employee" => row.in # None) BY RowFields
<1>5. PICK c : c = [row EXCEPT !.out = None, !.auto = FALSE, !.status = "in"] OBVIOUS
<1>6. c \in Row BY <1>4, <1>5 DEF Row
<1>7. c.made = row.made /\ c.out = None /\ c.absent_alerted = row.absent_alerted /\ c.status = "in" /\ c.in = row.in
  BY <1>4, <1>5 DEF Row
<1>8. RowMoves /\ row'.made = c.made /\ row'.in = c.in /\ row'.out = c.out
  <2>1. PICK w : w = 0 OBVIOUS
  <2>2. Write(r, c, w) BY <1>3, <1>5, <2>1
  <2> QED BY <1>2, <1>4, <1>6, <1>7, <2>1, <2>2, WriteMoves
<1>9. BreaksMove BY <1>1, BreaksStay
<1>10. OpenBreaks' = OpenBreaks BY <1>1 DEF OpenBreaks
<1>11. row'.out = None /\ None \notin {"employee", "expiry"}
  <2>1. None # "expiry" /\ None # "employee" BY AttendanceAssumption DEF Jobs
  <2> QED BY <1>7, <1>8, <2>1
<1>12. CheckoutClosesBreaks' BY <1>1, <1>10, <1>11, ClosedStay
<1>13. Stands BY <1>7, <1>8, <1>11 DEF Stands
<1> QED BY <1>1, <1>8, <1>9, <1>12, <1>13, AnswerKeeps

LEMMA BeatWriteKeeps ==
  ASSUME AttendanceInv, NEW r \in Requests, BeatWrite(r)
  PROVE  AttendanceInv' /\ Stands
<1>1. Answer(r) /\ UNCHANGED <<brk, job, alerts>> /\ req[r].at = "beat" BY DEF BeatWrite
<1>2. row.made # "nobody" BY <1>1 DEF AttendanceInv, RequestsKnown
<1>3. PICK c : c = row OBVIOUS
<1>4. Beat(c) BY <1>3 DEF BeatWrite
<1>5. c \in Row /\ (c.made = "employee" => c.in # None) /\ c.made # "nobody" /\ c.status # "none" BY <1>2, <1>3, RowFields
<1>6. RowMoves /\ row'.made = c.made /\ row'.in = c.in /\ row'.out = c.out BY <1>3, <1>4, <1>5, BeatMoves
<1>7. BreaksMove BY <1>1, BreaksStay
<1>8. OpenBreaks' = OpenBreaks BY <1>1 DEF OpenBreaks
<1>9. CheckoutClosesBreaks' BY <1>1, <1>3, <1>6, <1>8, ClosedStay
<1>10. Stands BY <1>3, <1>6 DEF Stands
<1> QED BY <1>1, <1>6, <1>7, <1>9, <1>10, AnswerKeeps

\* A break row is inserted under the first free number.
LEMMA Inserted ==
  ASSUME AttendanceInv, NEW state \in {"open", "closed"}, NEW template \in BOOLEAN, NEW auto \in BOOLEAN,
         NewBreak(state, template, auto)
  PROVE  /\ brk' \in [Breaks -> BreakRow]
         /\ \E f \in Breaks : /\ f \notin OpenBreaks /\ brk'[f].state = state /\ brk'[f].auto = auto
                              /\ \A b \in Breaks \ {f} : brk'[b] = brk[b]
<1>1. PICK f : f = Min(FreeBreaks) OBVIOUS
<1>2. FreeBreaks # {} BY DEF NewBreak
<1>3. f \in FreeBreaks BY <1>1, <1>2, FirstFree
<1>4. f \in Breaks /\ brk[f].state = "free" BY <1>3 DEF FreeBreaks
<1>5. PICK x : x = [state |-> state, template |-> template, auto |-> auto] OBVIOUS
<1>6. x \in BreakRow /\ x.state = state /\ x.auto = auto BY <1>5 DEF BreakRow
<1>7. brk' = [brk EXCEPT ![f] = x] BY <1>1, <1>5 DEF NewBreak
<1>8. brk \in [Breaks -> BreakRow] BY DEF AttendanceInv, TypeOK
<1>9. brk' \in [Breaks -> BreakRow] /\ brk'[f] = x /\ \A b \in Breaks \ {f} : brk'[b] = brk[b]
  BY <1>4, <1>6, <1>7, <1>8
<1>10. f \notin OpenBreaks BY <1>4 DEF OpenBreaks
<1> QED BY <1>4, <1>6, <1>9, <1>10

\* Breaks change, but none is opened.
LEMMA NoneOpened ==
  ASSUME AttendanceInv, brk' \in [Breaks -> BreakRow],
         \A b \in Breaks : brk'[b] = brk[b] \/ brk'[b].state # "open"
  PROVE  BreaksMove /\ OpenBreaks' \subseteq OpenBreaks /\ \A b \in OpenBreaks' : brk'[b].auto = brk[b].auto
<1>1. ASSUME NEW b \in OpenBreaks' PROVE b \in OpenBreaks /\ brk'[b] = brk[b]
  <2>1. b \in Breaks /\ brk'[b].state = "open" BY <1>1 DEF OpenBreaks
  <2> QED BY <2>1 DEF OpenBreaks
<1>2. BreaksOne' BY <1>1 DEF AttendanceInv, BreaksOne
<1> QED BY <1>1, <1>2 DEF BreaksMove

LEMMA SettledMoves ==
  ASSUME AttendanceInv, brk' = Settled
  PROVE  BreaksMove /\ OpenBreaks' = {}
<1>1. brk \in [Breaks -> BreakRow] BY DEF AttendanceInv, TypeOK
<1>2. ASSUME NEW b \in Breaks
      PROVE  brk'[b] \in BreakRow /\ brk'[b].state # "open"
  <2>1. brk[b] \in BreakRow BY <1>1
  <2>2. CASE b \in OpenBreaks
    <3>1. PICK x : x = brk[b] OBVIOUS
    <3>2. brk'[b] = [x EXCEPT !.state = "closed"] BY <2>2, <3>1 DEF Settled
    <3>3. x \in BreakRow BY <2>1, <3>1
    <3> QED BY <3>2, <3>3 DEF BreakRow
  <2>3. CASE b \notin OpenBreaks
    <3>1. brk'[b] = brk[b] BY <2>3 DEF Settled
    <3>2. brk[b].state # "open" BY <2>3 DEF OpenBreaks
    <3> QED BY <2>1, <3>1, <3>2
  <2> QED BY <2>2, <2>3
<1>3. brk' = [b \in Breaks |-> brk'[b]] BY DEF Settled
<1>4. brk' \in [Breaks -> BreakRow] BY <1>2, <1>3
<1>5. OpenBreaks' = {} BY <1>2 DEF OpenBreaks
<1> QED BY <1>2, <1>4, <1>5, NoneOpened

\* An open break is closed by number.
LEMMA ClosedOne ==
  ASSUME AttendanceInv, NEW b, brk' = [brk EXCEPT ![b].state = "closed"]
  PROVE  BreaksMove /\ OpenBreaks' \subseteq OpenBreaks /\ \A c \in OpenBreaks' : brk'[c].auto = brk[c].auto
<1>1. brk \in [Breaks -> BreakRow] BY DEF AttendanceInv, TypeOK
<1>2. CASE b \in Breaks
  <2>1. PICK x : x = [brk[b] EXCEPT !.state = "closed"] OBVIOUS
  <2>2. brk' = [brk EXCEPT ![b] = x] BY <2>1
  <2>3. brk[b] \in BreakRow BY <1>1, <1>2
  <2>4. x \in BreakRow /\ x.state # "open" BY <2>1, <2>3 DEF BreakRow
  <2>5. brk' \in [Breaks -> BreakRow] /\ brk'[b] = x /\ \A c \in Breaks \ {b} : brk'[c] = brk[c]
    BY <1>1, <1>2, <2>2, <2>4
  <2>6. \A c \in Breaks : brk'[c] = brk[c] \/ brk'[c].state # "open" BY <2>4, <2>5
  <2> QED BY <2>5, <2>6, NoneOpened
<1>3. CASE b \notin Breaks
  <2>1. brk' = brk BY <1>1, <1>3
  <2> QED BY <1>1, <2>1, NoneOpened
<1> QED BY <1>2, <1>3

LEMMA AwayKeeps ==
  ASSUME AttendanceInv, NEW r \in Requests, Away(r)
  PROVE  AttendanceInv' /\ Stands
<1>1. /\ req[r].at = "away" /\ req' = [req EXCEPT ![r].at = "reopen"]
      /\ UNCHANGED <<row, clock, fresh, job, alerts>>
  BY DEF Away
<1>2. PICK template \in BOOLEAN : NewBreak("closed", template, FALSE) BY DEF Away
<1>3. PICK state : state = "closed" OBVIOUS
<1>4. NewBreak(state, template, FALSE) /\ state \in {"open", "closed"} BY <1>2, <1>3
<1>5. brk' \in [Breaks -> BreakRow] BY <1>4, Inserted
<1>6. \E f \in Breaks : brk'[f].state = state /\ \A b \in Breaks \ {f} : brk'[b] = brk[b] BY <1>4, Inserted
<1>7. \A b \in Breaks : brk'[b] = brk[b] \/ brk'[b].state # "open" BY <1>3, <1>6
<1>8. BreaksMove /\ OpenBreaks' \subseteq OpenBreaks /\ \A b \in OpenBreaks' : brk'[b].auto = brk[b].auto
  BY <1>5, <1>7, NoneOpened
<1>9. CheckoutClosesBreaks' BY <1>1, <1>8, ClosedStay
<1>10. PICK q : q = [req[r] EXCEPT !.at = "reopen"] OBVIOUS
<1>11. req[r] \in Request BY DEF AttendanceInv, TypeOK
<1>12. q \in Request /\ q.at = "reopen" BY <1>10, <1>11 DEF Request, CheckinSteps
<1>13. req' = [req EXCEPT ![r] = q] BY <1>1, <1>10
<1>14. row.made # "nobody" BY <1>1 DEF AttendanceInv, RequestsKnown
<1>15. (q.at \notin {"idle", "create"} => row'.made # "nobody") /\ (q.at = "update" => row'.made = "system")
  BY <1>1, <1>12, <1>14
<1>16. RowMoves /\ Stands BY <1>1, RowStays DEF Stands
<1> QED BY <1>1, <1>8, <1>9, <1>12, <1>13, <1>15, <1>16, RequestSide

LEMMA CheckoutWriteKeeps ==
  ASSUME AttendanceInv, NEW r \in Requests, CheckoutWrite(r)
  PROVE  AttendanceInv' /\ Stands
<1>1. At(r, "checkout", "write") /\ Answer(r) /\ UNCHANGED <<clock, fresh, job, alerts>> BY DEF CheckoutWrite
<1>2. CASE row.out # None
  <2>1. UNCHANGED <<row, brk>> BY <1>2 DEF CheckoutWrite
  <2> QED BY <1>1, <2>1, NothingWritten, AnswerKeeps
<1>3. CASE row.out = None
  <2>1. row' = [row EXCEPT !.out = "employee", !.status = "out"] /\ brk' = Settled BY <1>3 DEF CheckoutWrite
  <2>2. BreaksMove /\ OpenBreaks' = {} BY <2>1, SettledMoves
  <2>3. row.made # "nobody" BY <1>1 DEF At, AttendanceInv, RequestsKnown
  <2>4. row \in Row /\ (row.made = "employee" => row.in # None) BY RowFields
  <2>5. row' \in Row BY <2>1, <2>4 DEF Row
  <2>6. row'.made = row.made /\ row'.in = row.in /\ row'.status = "out" /\ row'.beat = row.beat
        /\ row'.absent_alerted = row.absent_alerted /\ row'.out = "employee"
    BY <2>1, <2>4 DEF Row
  <2>7. RowMoves BY <1>1, <2>3, <2>4, <2>5, <2>6 DEF RowMoves, AttendanceInv, TypeOK, RowKnown
  <2>8. CheckoutClosesBreaks' BY <2>2 DEF CheckoutClosesBreaks
  <2>9. Stands BY <2>6 DEF Stands
  <2> QED BY <1>1, <2>2, <2>7, <2>8, <2>9, AnswerKeeps
<1> QED BY <1>2, <1>3

LEMMA BreakStartKeeps ==
  ASSUME AttendanceInv, NEW r \in Requests, BreakStartWrite(r)
  PROVE  AttendanceInv' /\ Stands
<1>1. Answer(r) /\ UNCHANGED <<row, clock, fresh, job, alerts>> BY DEF BreakStartWrite
<1>2. CASE ~MayStartBreak
  <2>1. UNCHANGED brk BY <1>2 DEF BreakStartWrite
  <2> QED BY <1>1, <2>1, NothingWritten, AnswerKeeps
<1>3. CASE MayStartBreak
  <2>1. PICK template \in BOOLEAN : NewBreak("open", template, FALSE) BY <1>3 DEF BreakStartWrite
  <2>2. OpenBreaks = {} /\ row.out = None BY <1>3 DEF MayStartBreak
  <2>3. PICK state : state = "open" OBVIOUS
  <2>4. NewBreak(state, template, FALSE) /\ state \in {"open", "closed"} BY <2>1, <2>3
  <2>5. brk' \in [Breaks -> BreakRow] BY <2>4, Inserted
  <2>6. PICK f \in Breaks : brk'[f].auto = FALSE /\ \A b \in Breaks \ {f} : brk'[b] = brk[b] BY <2>4, Inserted
  <2>7. ASSUME NEW b \in OpenBreaks' PROVE b = f
    <3>1. b \in Breaks /\ brk'[b].state = "open" BY <2>7 DEF OpenBreaks
    <3>2. b # f => b \in OpenBreaks BY <2>6, <3>1 DEF OpenBreaks
    <3> QED BY <2>2, <3>2
  <2>8. BreaksOne' BY <2>7 DEF BreaksOne
  <2>9. BreaksMove BY <2>5, <2>6, <2>7, <2>8 DEF BreaksMove
  <2>10. None # "employee" BY AttendanceAssumption
  <2>11. CheckoutClosesBreaks' BY <1>1, <2>2, <2>10 DEF CheckoutClosesBreaks
  <2>12. RowMoves /\ Stands BY <1>1, RowStays DEF Stands
  <2> QED BY <1>1, <2>9, <2>11, <2>12, AnswerKeeps
<1> QED BY <1>2, <1>3

LEMMA BreakEndKeeps ==
  ASSUME AttendanceInv, NEW r \in Requests, BreakEndWrite(r)
  PROVE  AttendanceInv' /\ Stands
<1>1. Answer(r) /\ UNCHANGED <<row, clock, fresh, job, alerts>> BY DEF BreakEndWrite
<1>2. PICK b : b = req[r].arg OBVIOUS
<1>3. brk' = brk \/ brk' = [brk EXCEPT ![b].state = "closed"] BY <1>2 DEF BreakEndWrite
<1>4. CASE brk' = brk BY <1>1, <1>4, NothingWritten, AnswerKeeps
<1>5. CASE brk' = [brk EXCEPT ![b].state = "closed"]
  <2>1. BreaksMove /\ OpenBreaks' \subseteq OpenBreaks /\ \A c \in OpenBreaks' : brk'[c].auto = brk[c].auto
    BY <1>5, ClosedOne
  <2>2. CheckoutClosesBreaks' BY <1>1, <2>1, ClosedStay
  <2>3. RowMoves /\ Stands BY <1>1, RowStays DEF Stands
  <2> QED BY <1>1, <2>1, <2>2, <2>3, AnswerKeeps
<1> QED BY <1>3, <1>4, <1>5

LEMMA RequestsKeep ==
  ASSUME AttendanceInv, NEW r \in Requests, RequestWrites(r) \/ Fail(r)
  PROVE  AttendanceInv' /\ Stands
<1>1. CASE Fail(r)
  <2>1. Answer(r) /\ UNCHANGED <<row, brk, clock, fresh, job, alerts>> BY <1>1 DEF Fail
  <2> QED BY <2>1, NothingWritten, AnswerKeeps
<1>2. CASE RequestWrites(r)
  BY <1>2, CreateKeeps, UpdateKeeps, AwayKeeps, ReopenKeeps, BeatWriteKeeps, CheckoutWriteKeeps,
     BreakStartKeeps, BreakEndKeeps
  DEF RequestWrites
<1> QED BY <1>1, <1>2

\* The manager sets instants; the grace period passes.
LEMMA OthersKeep ==
  ASSUME AttendanceInv, Override \/ GracePasses
  PROVE  AttendanceInv' /\ Stands
<1>1. UNCHANGED <<brk, clock, req, job, alerts>> BY DEF Override, GracePasses
<1>2. CASE Override
  <2>1. PICK in \in {row.in, "manager"}, out \in {row.out, "manager"} : row' = [row EXCEPT !.in = in, !.out = out]
    BY <1>2 DEF Override
  <2>2. Exists /\ UNCHANGED fresh BY <1>2 DEF Override
  <2>3. row \in Row /\ row.made # "nobody" /\ row.status # "none" /\ (row.made = "employee" => row.in # None)
    BY <2>2, RowFields
  <2>4. row.in \in Requests \cup {None, "manager"} /\ row.out \in {None, "employee", "expiry", "closer", "manager"}
    BY <2>3 DEF Row
  <2>5. row' \in Row BY <2>1, <2>3, <2>4 DEF Row
  <2>6. row'.made = row.made /\ row'.in = in /\ row'.out = out /\ row'.status = row.status /\ row'.beat = row.beat
        /\ row'.absent_alerted = row.absent_alerted
    BY <2>1, <2>3 DEF Row
  <2>7. None # "manager" BY AttendanceAssumption
  <2>8. RowMoves BY <1>1, <2>2, <2>3, <2>5, <2>6, <2>7 DEF RowMoves, AttendanceInv, TypeOK, RowKnown
  <2>9. OpenBreaks' = OpenBreaks BY <1>1 DEF OpenBreaks
  <2>10. CheckoutClosesBreaks' BY <1>1, <2>6, <2>9, ClosedStay
  <2>11. Stands BY <2>6 DEF Stands
  <2> QED BY <1>1, <2>8, <2>10, <2>11, BreaksStay, NobodyMoves
<1>3. CASE GracePasses
  <2>1. UNCHANGED row /\ fresh' = FALSE BY <1>3 DEF GracePasses
  <2>2. RowMoves
    <3>1. fresh' \in BOOLEAN /\ (fresh' => fresh) BY <2>1
    <3>2. clock \in 0 .. MaxBeats /\ clock <= clock BY Bounds DEF AttendanceInv, TypeOK
    <3>3. UNCHANGED <<row, clock>> BY <1>1, <2>1
    <3> QED BY <3>1, <3>2, <3>3 DEF RowMoves, AttendanceInv, TypeOK, RowKnown
  <2>3. CheckoutClosesBreaks' BY <1>1, <2>1 DEF AttendanceInv, CheckoutClosesBreaks, OpenBreaks
  <2>4. Stands BY <2>1 DEF Stands
  <2> QED BY <1>1, <2>2, <2>3, <2>4, BreaksStay, NobodyMoves
<1> QED BY <1>2, <1>3

-----------------------------------------------------------------------------
(* The jobs *)

\* The run of a job ends.
LEMMA EndKeeps ==
  ASSUME AttendanceInv, RowMoves, BreaksMove, CheckoutClosesBreaks', UNCHANGED <<req, alerts>>,
         NEW j \in Jobs, job' = [job EXCEPT ![j] = Idle]
  PROVE  AttendanceInv'
<1>1. PICK q : q = Idle OBVIOUS
<1>2. q \in JobState /\ q.at = "idle" BY <1>1, NoRowType
<1>3. job' = [job EXCEPT ![j] = q] BY <1>1
<1> QED BY <1>2, <1>3, JobSide

\* A job reads the row; each reads what makes its later writes harmless.
LEMMA JobReadKeeps ==
  ASSUME AttendanceInv, NEW j \in Jobs, NEW at, NEW arg, [op |-> "run", at |-> at, arg |-> arg] \in JobState,
         JobRead(j, at, arg), at # "alert",
         ~(j \in {"late", "absent"} /\ at = "write") => row.made # "nobody",
         j = "expiry" => arg \in 1 .. clock /\ (row.beat = arg => ~fresh),
         j = "breaks" /\ at = "create" => OpenBreaks = {},
         j = "absent" => at = "write" /\ (arg = 0 => ~row.absent_alerted)
  PROVE  AttendanceInv' /\ Stands
<1>1. PICK q : q = [op |-> "run", at |-> at, arg |-> arg] OBVIOUS
<1>2. q \in JobState /\ q.at = at /\ q.arg = arg BY <1>1
<1>3. job' = [job EXCEPT ![j] = q] /\ UNCHANGED <<row, brk, clock, fresh, req, alerts>> BY <1>1 DEF JobRead
<1>4. RowMoves /\ BreaksMove /\ CheckoutClosesBreaks' /\ Stands BY <1>3, NothingWritten
<1>5. OpenBreaks' = OpenBreaks BY <1>3 DEF OpenBreaks
<1>6. q.at # "idle" /\ ~(j \in {"late", "absent"} /\ q.at = "write") => row'.made # "nobody" BY <1>2, <1>3
<1>7. j = "expiry" /\ q.at # "idle" => q.arg \in 1 .. clock' /\ (row'.beat = q.arg => ~fresh') BY <1>2, <1>3
<1>8. j = "breaks" /\ q.at = "create" => \A b \in OpenBreaks' : ~brk'[b].auto BY <1>2, <1>5
<1>9. j = "absent" => /\ q.at = "flag" \/ (q.at = "write" /\ q.arg = 0) => ~row'.absent_alerted
                      /\ q.at # "alert"
  BY <1>2, <1>3
<1> QED BY <1>2, <1>3, <1>4, <1>6, <1>7, <1>8, <1>9, JobSide

LEMMA ArgRange == /\ \A n \in 0 .. MaxBeats : n \in 0 .. MaxBeats + MaxBreaks
                  /\ \A n \in Breaks : n \in 0 .. MaxBeats + MaxBreaks
                  /\ {0, 1} \subseteq 0 .. MaxBeats + MaxBreaks
  BY AttendanceAssumption DEF Breaks

LEMMA JobsRead ==
  ASSUME AttendanceInv, LateRead \/ AbsentRead \/ ExpiryRead \/ BreaksRead \/ (\E j \in Closers : CloserRead(j))
  PROVE  AttendanceInv' /\ Stands
<1>1. (Exists \/ CheckedIn) => row.made # "nobody" BY DEF AttendanceInv, RowKnown, Exists, CheckedIn, NoRow
<1>2. CASE LateRead
  <2>1. [op |-> "run", at |-> "write", arg |-> 0] \in JobState BY ArgRange DEF JobState
  <2>2. JobRead("late", "write", 0) BY <1>2 DEF LateRead
  <2>3. PICK j : j = "late" OBVIOUS
  <2>4. j \in Jobs BY <2>3, Bounds
  <2> QED BY <2>1, <2>2, <2>3, <2>4, JobReadKeeps
<1>3. CASE AbsentRead
  <2>1. PICK arg : arg = AlreadyAlerted OBVIOUS
  <2>2. arg \in {0, 1} /\ (arg = 0 => ~row.absent_alerted) BY <2>1 DEF AlreadyAlerted
  <2>3. [op |-> "run", at |-> "write", arg |-> arg] \in JobState BY <2>2, ArgRange DEF JobState
  <2>4. JobRead("absent", "write", arg) BY <1>3, <2>1 DEF AbsentRead
  <2>5. PICK j : j = "absent" OBVIOUS
  <2>6. j \in Jobs BY <2>5, Bounds
  <2> QED BY <2>2, <2>3, <2>4, <2>5, <2>6, JobReadKeeps
<1>4. CASE ExpiryRead
  <2>1. PICK arg : arg = row.beat OBVIOUS
  <2>2. arg \in 0 .. MaxBeats /\ arg # 0 /\ arg <= clock /\ ~fresh
    BY <1>4, <2>1, RowFields DEF ExpiryRead, AttendanceInv, RowKnown
  <2>3. arg \in 1 .. clock BY <2>2 DEF AttendanceInv, TypeOK
  <2>4. [op |-> "run", at |-> "settle", arg |-> arg] \in JobState BY <2>2, ArgRange DEF JobState
  <2>5. JobRead("expiry", "settle", arg) BY <1>4, <2>1 DEF ExpiryRead
  <2>6. PICK j : j = "expiry" OBVIOUS
  <2>7. j \in Jobs BY <2>6, Bounds
  <2>8. row.made # "nobody" BY <1>1, <1>4 DEF ExpiryRead, Open
  <2> QED BY <2>2, <2>3, <2>4, <2>5, <2>6, <2>7, <2>8, JobReadKeeps
<1>5. CASE BreaksRead
  <2>1. row.made # "nobody" BY <1>1, <1>5 DEF BreaksRead, Open
  <2>2. PICK j : j = "breaks" OBVIOUS
  <2>3. j \in Jobs BY <2>2, Bounds
  <2>4. CASE OpenBreaks = {} /\ JobRead("breaks", "create", 0)
    <3>1. [op |-> "run", at |-> "create", arg |-> 0] \in JobState BY ArgRange DEF JobState
    <3> QED BY <2>1, <2>2, <2>3, <2>4, <3>1, JobReadKeeps
  <2>5. CASE \E b \in OpenBreaks : JobRead("breaks", "end", b)
    <3>1. PICK b \in OpenBreaks : JobRead("breaks", "end", b) BY <2>5
    <3>2. b \in Breaks BY DEF OpenBreaks
    <3>3. [op |-> "run", at |-> "end", arg |-> b] \in JobState BY <3>2, ArgRange DEF JobState
    <3> QED BY <2>1, <2>2, <2>3, <3>1, <3>3, JobReadKeeps
  <2> QED BY <1>5, <2>4, <2>5 DEF BreaksRead
<1>6. CASE \E j \in Closers : CloserRead(j)
  <2>1. PICK j \in Closers : CloserRead(j) BY <1>6
  <2>2. JobRead(j, "settle", 0) /\ row.made # "nobody" BY <1>1, <2>1 DEF CloserRead, Open
  <2>3. j \in Jobs /\ j \notin {"late", "absent", "expiry", "breaks"} BY Bounds
  <2>4. [op |-> "run", at |-> "settle", arg |-> 0] \in JobState BY ArgRange DEF JobState
  <2> QED BY <2>2, <2>3, <2>4, JobReadKeeps
<1> QED BY <1>2, <1>3, <1>4, <1>5, <1>6

\* A detector's upsert: the status of the row that is there, or a placeholder.
LEMMA MarkedMoves ==
  ASSUME AttendanceInv, NEW s \in {"late", "absent"}, row' = Marked(s), UNCHANGED <<brk, clock, fresh>>
  PROVE  RowMoves /\ BreaksMove /\ CheckoutClosesBreaks' /\ Stands /\ row'.made # "nobody"
<1>1. BreaksMove /\ OpenBreaks' = OpenBreaks BY BreaksStay DEF OpenBreaks
<1>2. CASE Exists
  <2>1. row' = [row EXCEPT !.status = s] BY <1>2 DEF Marked
  <2>2. row \in Row /\ row.made # "nobody" /\ (row.made = "employee" => row.in # None) BY <1>2, RowFields
  <2>3. row' \in Row BY <2>1, <2>2 DEF Row
  <2>4. row'.made = row.made /\ row'.in = row.in /\ row'.out = row.out /\ row'.status = s /\ row'.beat = row.beat
        /\ row'.absent_alerted = row.absent_alerted
    BY <2>1, <2>2 DEF Row
  <2>5. RowMoves BY <2>2, <2>3, <2>4 DEF RowMoves, AttendanceInv, TypeOK, RowKnown
  <2>6. CheckoutClosesBreaks' BY <1>1, <2>4, ClosedStay
  <2> QED BY <1>1, <2>2, <2>4, <2>5, <2>6 DEF Stands
<1>3. CASE ~Exists
  <2>1. row = NoRow /\ row' = [row EXCEPT !.made = "system", !.status = s] BY <1>3, RowFields DEF Marked
  <2>2. row \in Row /\ row.made = "nobody" BY <2>1, RowFields DEF NoRow
  <2>3. row' \in Row BY <2>1, <2>2 DEF Row
  <2>4. row'.made = "system" /\ row'.in = row.in /\ row'.out = row.out /\ row'.status = s /\ row'.beat = row.beat
        /\ row'.absent_alerted = row.absent_alerted
    BY <2>1, <2>2 DEF Row
  <2>5. RowMoves BY <2>2, <2>3, <2>4 DEF RowMoves, AttendanceInv, TypeOK, RowKnown
  <2>6. CheckoutClosesBreaks' BY <1>1, <2>4, ClosedStay
  <2> QED BY <1>1, <2>2, <2>4, <2>5, <2>6 DEF Stands
<1> QED BY <1>2, <1>3

LEMMA LateKeeps ==
  ASSUME AttendanceInv, LateWrite
  PROVE  AttendanceInv' /\ Stands
<1>1. PICK s : s = "late" OBVIOUS
<1>2. row' = Marked(s) /\ UNCHANGED <<brk, clock, fresh, req, alerts>> /\ job' = [job EXCEPT !["late"] = Idle]
  BY <1>1 DEF LateWrite, JobEnd
<1>3. RowMoves /\ BreaksMove /\ CheckoutClosesBreaks' /\ Stands BY <1>1, <1>2, MarkedMoves
<1> QED BY <1>2, <1>3, Bounds, EndKeeps

LEMMA AbsentWriteKeeps ==
  ASSUME AttendanceInv, AbsentWrite
  PROVE  AttendanceInv' /\ Stands
<1>1. PICK s : s = "absent" OBVIOUS
<1>2. row' = Marked(s) /\ UNCHANGED <<brk, clock, fresh, req, alerts>> BY <1>1 DEF AbsentWrite
<1>3. RowMoves /\ BreaksMove /\ CheckoutClosesBreaks' /\ Stands /\ row'.made # "nobody" BY <1>1, <1>2, MarkedMoves
<1>4. CASE job["absent"].arg # 0
  <2>1. job' = [job EXCEPT !["absent"] = Idle] BY <1>4 DEF AbsentWrite, JobEnd
  <2> QED BY <1>2, <1>3, <2>1, Bounds, EndKeeps
<1>5. CASE job["absent"].arg = 0
  <2>1. job["absent"].at = "write" /\ job' = [job EXCEPT !["absent"].at = "flag"] BY <1>5 DEF AbsentWrite, JobStep
  <2>2. PICK q : q = [job["absent"] EXCEPT !.at = "flag"] OBVIOUS
  <2>3. job["absent"] \in JobState BY Bounds DEF AttendanceInv, TypeOK
  <2>4. q \in JobState /\ q.at = "flag" BY <2>2, <2>3 DEF JobState
  <2>5. ~row.absent_alerted BY <1>5, <2>1 DEF AttendanceInv, AbsenceKnown
  <2>6. ~row'.absent_alerted BY <1>3, <2>5 DEF RowMoves
  <2>7. PICK j : j = "absent" OBVIOUS
  <2>8. j \in Jobs /\ job' = [job EXCEPT ![j] = q] BY <2>1, <2>2, <2>7, Bounds
  <2> QED BY <1>2, <1>3, <2>4, <2>6, <2>7, <2>8, JobSide
<1> QED BY <1>4, <1>5

\* The flag is set.
LEMMA AbsentFlagKeeps ==
  ASSUME AttendanceInv, AbsentFlag
  PROVE  AttendanceInv' /\ Stands
<1>1. /\ job["absent"].at = "flag" /\ job' = [job EXCEPT !["absent"].at = "alert"]
      /\ row' = [row EXCEPT !.absent_alerted = TRUE] /\ UNCHANGED <<brk, clock, fresh, req, alerts>>
  BY DEF AbsentFlag, JobStep
<1>2. row.made # "nobody"
  <2>1. FoundRow("absent") BY <1>1 DEF FoundRow
  <2> QED BY <2>1, Bounds DEF AttendanceInv, JobsKnown
<1>3. row \in Row BY RowFields
<1>4. row' \in Row BY <1>1, <1>3 DEF Row
<1>5. row'.made = row.made /\ row'.in = row.in /\ row'.out = row.out /\ row'.status = row.status /\ row'.beat = row.beat
  BY <1>1, <1>3 DEF Row
<1>6. row'.absent_alerted BY <1>1, <1>3 DEF Row
<1>7. job["absent"] \in JobState /\ job \in [Jobs -> JobState] BY Bounds DEF AttendanceInv, TypeOK
<1>8. PICK q : q = [job["absent"] EXCEPT !.at = "alert"] OBVIOUS
<1>9. q \in JobState /\ q.at = "alert" BY <1>7, <1>8 DEF JobState
<1>10. job' = [job EXCEPT !["absent"] = q] BY <1>1, <1>8
<1>11. job' \in [Jobs -> JobState] /\ job'["absent"] = q /\ \A k \in Jobs \ {"absent"} : job'[k] = job[k]
  BY <1>7, <1>9, <1>10, Bounds
<1>12. TypeOK' BY <1>1, <1>4, <1>11 DEF AttendanceInv, TypeOK
<1>13. RowKnown' BY <1>1, <1>2, <1>5 DEF AttendanceInv, RowKnown
<1>14. RequestsKnown' BY <1>1, <1>5 DEF AttendanceInv, RequestsKnown
<1>15. JobsKnown' BY <1>2, <1>5 DEF JobsKnown
<1>16. job'["expiry"] = job["expiry"] /\ job'["breaks"] = job["breaks"] BY <1>11, Bounds
<1>17. ExpiryKnown' BY <1>1, <1>5, <1>16 DEF AttendanceInv, ExpiryKnown
<1>18. BreaksOne' /\ ManagerAlone' /\ CheckoutClosesBreaks'
  BY <1>1, <1>5, <1>16 DEF AttendanceInv, BreaksOne, ManagerAlone, CheckoutClosesBreaks, OpenBreaks
<1>19. AbsenceKnown'
  <2>1. alerts = 0 BY <1>1 DEF AttendanceInv, TypeOK, AbsenceKnown
  <2> QED BY <1>1, <1>6, <1>9, <1>11, <2>1 DEF AbsenceKnown
<1>20. Stands BY <1>5 DEF Stands
<1> QED BY <1>12, <1>13, <1>14, <1>15, <1>17, <1>18, <1>19, <1>20 DEF AttendanceInv

\* The alert is sent.
LEMMA AbsentAlertKeeps ==
  ASSUME AttendanceInv, AbsentAlert
  PROVE  AttendanceInv' /\ Stands
<1>1. /\ job["absent"].at = "alert" /\ job' = [job EXCEPT !["absent"] = Idle]
      /\ alerts' = alerts + 1 /\ UNCHANGED <<row, brk, clock, fresh, req>>
  BY DEF AbsentAlert, JobEnd
<1>2. job \in [Jobs -> JobState] BY DEF AttendanceInv, TypeOK
<1>3. job' \in [Jobs -> JobState] /\ job'["absent"] = Idle /\ \A k \in Jobs \ {"absent"} : job'[k] = job[k]
  BY <1>1, <1>2, NoRowType, Bounds
<1>4. job'["expiry"] = job["expiry"] /\ job'["breaks"] = job["breaks"] BY <1>3, Bounds
<1>5. alerts = 0 BY <1>1 DEF AttendanceInv, AbsenceKnown
<1>6. alerts' = 1 BY <1>1, <1>5
<1>7. TypeOK' BY <1>1, <1>3, <1>6 DEF AttendanceInv, TypeOK
<1>8. RowKnown' /\ RequestsKnown' BY <1>1 DEF AttendanceInv, RowKnown, RequestsKnown
<1>9. row.absent_alerted /\ row.made # "nobody"
  <2>1. FoundRow("absent") BY <1>1 DEF FoundRow
  <2> QED BY <1>1, <2>1, Bounds DEF AttendanceInv, JobsKnown, AbsenceKnown
<1>10. JobsKnown' BY <1>1, <1>9 DEF JobsKnown
<1>11. ExpiryKnown' BY <1>1, <1>4 DEF AttendanceInv, ExpiryKnown
<1>12. BreaksOne' /\ ManagerAlone' /\ CheckoutClosesBreaks'
  BY <1>1, <1>4 DEF AttendanceInv, BreaksOne, ManagerAlone, CheckoutClosesBreaks, OpenBreaks
<1>13. AbsenceKnown' BY <1>1, <1>3, <1>6, <1>9, NoRowType DEF AbsenceKnown
<1>14. Stands BY <1>1 DEF Stands
<1> QED BY <1>7, <1>8, <1>10, <1>11, <1>12, <1>13, <1>14 DEF AttendanceInv

\* settleBreaks of the heartbeat monitor or of a closing job, before its update.
LEMMA SettleKeeps ==
  ASSUME AttendanceInv, NEW j \in Jobs, j \notin {"late", "absent", "breaks"}, Settle(j)
  PROVE  AttendanceInv' /\ Stands
<1>1. /\ job[j].at = "settle" /\ job' = [job EXCEPT ![j].at = "write"] /\ brk' = Settled
      /\ UNCHANGED <<row, clock, fresh, req, alerts>>
  BY DEF Settle, JobStep
<1>2. BreaksMove /\ OpenBreaks' = {} BY <1>1, SettledMoves
<1>3. CheckoutClosesBreaks' BY <1>2 DEF CheckoutClosesBreaks
<1>4. RowMoves /\ Stands BY <1>1, RowStays DEF Stands
<1>5. job[j] \in JobState BY DEF AttendanceInv, TypeOK
<1>6. PICK q : q = [job[j] EXCEPT !.at = "write"] OBVIOUS
<1>7. q \in JobState /\ q.at = "write" /\ q.arg = job[j].arg BY <1>5, <1>6 DEF JobState
<1>8. job' = [job EXCEPT ![j] = q] BY <1>1, <1>6
<1>9. row'.made # "nobody"
  <2>1. FoundRow(j) BY <1>1 DEF FoundRow
  <2> QED BY <1>1, <2>1 DEF AttendanceInv, JobsKnown
<1>10. j = "expiry" => q.arg \in 1 .. clock' /\ (row'.beat = q.arg => ~fresh')
  BY <1>1, <1>7 DEF AttendanceInv, ExpiryKnown
<1> QED BY <1>1, <1>2, <1>3, <1>4, <1>7, <1>8, <1>9, <1>10, JobSide

\* The row is checked out by a job.
LEMMA AutoOutMoves ==
  ASSUME AttendanceInv, NEW by \in {"expiry", "closer"}, row.made # "nobody",
         row' = AutoOut(by), fresh' = FALSE, UNCHANGED <<brk, clock>>
  PROVE  RowMoves /\ BreaksMove /\ CheckoutClosesBreaks' /\ row'.out = by /\ row'.in = row.in
<1>1. row \in Row /\ (row.made = "employee" => row.in # None) BY RowFields
<1>2. row' = [row EXCEPT !.out = by, !.status = "out", !.auto = TRUE, !.beat = 0] BY DEF AutoOut
<1>3. 0 \in 0 .. MaxBeats BY Bounds
<1>4. row' \in Row BY <1>1, <1>2, <1>3 DEF Row
<1>5. row'.made = row.made /\ row'.in = row.in /\ row'.out = by /\ row'.status = "out" /\ row'.beat = 0
      /\ row'.absent_alerted = row.absent_alerted
  BY <1>1, <1>2 DEF Row
<1>6. clock \in 0 .. MaxBeats /\ 0 <= clock /\ clock <= clock BY Bounds DEF AttendanceInv, TypeOK
<1>7. fresh' \in BOOLEAN OBVIOUS
<1>8. RowMoves BY <1>1, <1>4, <1>5, <1>6, <1>7 DEF RowMoves
<1>9. BreaksMove BY BreaksStay
<1>10. CheckoutClosesBreaks' BY <1>5 DEF CheckoutClosesBreaks
<1> QED BY <1>5, <1>8, <1>9, <1>10

LEMMA ExpiryKeeps ==
  ASSUME AttendanceInv, ExpiryWrite
  PROVE  AttendanceInv' /\ Stands
<1>1. job["expiry"].at = "write" /\ job' = [job EXCEPT !["expiry"] = Idle] /\ UNCHANGED <<brk, clock, req, alerts>>
  BY DEF ExpiryWrite, JobEnd
<1>2. row.made # "nobody"
  <2>1. FoundRow("expiry") BY <1>1 DEF FoundRow
  <2> QED BY <2>1, Bounds DEF AttendanceInv, JobsKnown
<1>3. CASE ~UnchangedSince(job["expiry"].arg)
  <2>1. UNCHANGED <<row, fresh>> BY <1>3 DEF ExpiryWrite
  <2>2. RowMoves /\ BreaksMove /\ CheckoutClosesBreaks' /\ Stands BY <1>1, <2>1, NothingWritten
  <2> QED BY <1>1, <2>2, Bounds, EndKeeps
<1>4. CASE UnchangedSince(job["expiry"].arg)
  <2>1. row' = AutoOut("expiry") /\ fresh' = FALSE BY <1>4 DEF ExpiryWrite
  <2>2. row.out = None /\ row.beat = job["expiry"].arg BY <1>4 DEF UnchangedSince
  <2>3. ~fresh BY <1>1, <2>2 DEF AttendanceInv, ExpiryKnown
  <2>4. RowMoves /\ BreaksMove /\ CheckoutClosesBreaks' /\ row'.in = row.in BY <1>1, <1>2, <2>1, AutoOutMoves
  <2>5. Stands BY <2>2, <2>3, <2>4 DEF Stands
  <2> QED BY <1>1, <2>4, <2>5, Bounds, EndKeeps
<1> QED BY <1>3, <1>4

LEMMA CloserKeeps ==
  ASSUME AttendanceInv, NEW j \in Closers, CloserWrite(j)
  PROVE  AttendanceInv' /\ Stands
<1>1. /\ job[j].at = "write" /\ job' = [job EXCEPT ![j] = Idle] /\ row' = AutoOut("closer") /\ fresh' = FALSE
      /\ UNCHANGED <<brk, clock, req, alerts>>
  BY DEF CloserWrite, JobEnd
<1>2. j \in Jobs /\ j \notin {"late", "absent", "expiry", "breaks"} BY Bounds
<1>3. row.made # "nobody"
  <2>1. FoundRow(j) BY <1>1, <1>2 DEF FoundRow
  <2> QED BY <1>2, <2>1 DEF AttendanceInv, JobsKnown
<1>4. RowMoves /\ BreaksMove /\ CheckoutClosesBreaks' /\ row'.out = "closer" /\ row'.in = row.in
  BY <1>1, <1>3, AutoOutMoves
<1>5. Stands BY <1>4 DEF Stands
<1> QED BY <1>1, <1>2, <1>4, <1>5, EndKeeps

\* The break manager inserts the break it decided on: none it started is open.
LEMMA BreaksCreateKeeps ==
  ASSUME AttendanceInv, BreaksCreate
  PROVE  AttendanceInv' /\ Stands
<1>1. /\ job["breaks"].at = "create" /\ job' = [job EXCEPT !["breaks"] = Idle]
      /\ UNCHANGED <<row, clock, fresh, req, alerts>> /\ NewBreak("open", TRUE, TRUE)
  BY DEF BreaksCreate, JobEnd
<1>2. PICK state : state = "open" OBVIOUS
<1>3. NewBreak(state, TRUE, TRUE) /\ state \in {"open", "closed"} BY <1>1, <1>2
<1>4. brk' \in [Breaks -> BreakRow] BY <1>3, Inserted
<1>5. PICK f \in Breaks : brk'[f].auto = TRUE /\ \A b \in Breaks \ {f} : brk'[b] = brk[b] BY <1>3, Inserted
<1>6. \A b \in OpenBreaks : ~brk[b].auto BY <1>1 DEF AttendanceInv, ManagerAlone
<1>7. ASSUME NEW b \in OpenBreaks', b # f PROVE b \in OpenBreaks /\ brk'[b] = brk[b] /\ ~brk'[b].auto
  <2>1. b \in Breaks /\ brk'[b].state = "open" BY <1>7 DEF OpenBreaks
  <2>2. brk'[b] = brk[b] BY <1>5, <1>7, <2>1
  <2>3. b \in OpenBreaks BY <2>1, <2>2 DEF OpenBreaks
  <2> QED BY <1>6, <2>2, <2>3
<1>8. BreaksOne'
  <2> SUFFICES ASSUME NEW b \in OpenBreaks', NEW c \in OpenBreaks', brk'[b].auto = brk'[c].auto PROVE b = c
    BY DEF BreaksOne
  <2>1. CASE b = f /\ c = f BY <2>1
  <2>2. CASE b # f /\ c = f BY <1>5, <1>7, <2>2
  <2>3. CASE b = f /\ c # f BY <1>5, <1>7, <2>3
  <2>4. CASE b # f /\ c # f BY <1>7, <2>4 DEF AttendanceInv, BreaksOne
  <2> QED BY <2>1, <2>2, <2>3, <2>4
<1>9. job \in [Jobs -> JobState] BY DEF AttendanceInv, TypeOK
<1>10. job' \in [Jobs -> JobState] /\ job'["breaks"] = Idle /\ \A k \in Jobs \ {"breaks"} : job'[k] = job[k]
  BY <1>1, <1>9, NoRowType, Bounds
<1>11. job'["expiry"] = job["expiry"] /\ job'["absent"] = job["absent"] BY <1>10, Bounds
<1>12. TypeOK' BY <1>1, <1>4, <1>10 DEF AttendanceInv, TypeOK
<1>13. RowKnown' /\ RequestsKnown' BY <1>1 DEF AttendanceInv, RowKnown, RequestsKnown
<1>14. row.made # "nobody"
  <2>1. FoundRow("breaks") BY <1>1 DEF FoundRow
  <2> QED BY <2>1, Bounds DEF AttendanceInv, JobsKnown
<1>15. JobsKnown' BY <1>1, <1>14 DEF JobsKnown
<1>16. ExpiryKnown' /\ AbsenceKnown' BY <1>1, <1>11 DEF AttendanceInv, ExpiryKnown, AbsenceKnown
<1>17. ManagerAlone' BY <1>10, NoRowType DEF ManagerAlone
<1>18. CheckoutClosesBreaks'
  <2>1. ASSUME NEW b \in OpenBreaks', row.out = "employee" PROVE brk'[b].auto
    BY <1>5, <1>7, <2>1 DEF AttendanceInv, CheckoutClosesBreaks
  <2> QED BY <1>1, <2>1 DEF CheckoutClosesBreaks
<1>19. Stands BY <1>1 DEF Stands
<1> QED BY <1>8, <1>12, <1>13, <1>15, <1>16, <1>17, <1>18, <1>19 DEF AttendanceInv

LEMMA BreaksEndKeeps ==
  ASSUME AttendanceInv, BreaksEnd
  PROVE  AttendanceInv' /\ Stands
<1>1. PICK b : b = job["breaks"].arg OBVIOUS
<1>2. /\ job' = [job EXCEPT !["breaks"] = Idle] /\ UNCHANGED <<row, clock, fresh, req, alerts>>
      /\ brk' = [brk EXCEPT ![b].state = "closed"]
  BY <1>1 DEF BreaksEnd, JobEnd
<1>3. BreaksMove /\ OpenBreaks' \subseteq OpenBreaks /\ \A c \in OpenBreaks' : brk'[c].auto = brk[c].auto
  BY <1>2, ClosedOne
<1>4. CheckoutClosesBreaks' BY <1>2, <1>3, ClosedStay
<1>5. RowMoves /\ Stands BY <1>2, RowStays DEF Stands
<1> QED BY <1>2, <1>3, <1>4, <1>5, Bounds, EndKeeps

LEMMA JobFailsKeeps ==
  ASSUME AttendanceInv, NEW j \in Jobs, JobFails(j)
  PROVE  AttendanceInv' /\ Stands
<1>1. job' = [job EXCEPT ![j] = Idle] /\ UNCHANGED <<row, brk, clock, fresh, req, alerts>> BY DEF JobFails
<1> QED BY <1>1, NothingWritten, EndKeeps

-----------------------------------------------------------------------------
(* Every step *)

LEMMA AttendanceNextKeeps ==
  ASSUME AttendanceInv, Next
  PROVE  AttendanceInv' /\ Stands
<1>1. CASE \E r \in Requests :
             \/ Checkin(r) \/ IpEvent(r) \/ Heartbeat(r) \/ Checkout(r)
             \/ BreakStart(r) \/ BreakEnd(r) \/ RequestWrites(r) \/ Fail(r)
  BY <1>1, ReadsKeep, RequestsKeep
<1>2. CASE Override \/ GracePasses BY <1>2, OthersKeep
<1>3. CASE LateDetector BY <1>3, JobsRead, LateKeeps DEF LateDetector
<1>4. CASE AbsentDetector
  BY <1>4, JobsRead, AbsentWriteKeeps, AbsentFlagKeeps, AbsentAlertKeeps DEF AbsentDetector
<1>5. CASE ExpiryMonitor
  <2>1. CASE Settle("expiry") BY <2>1, Bounds, SettleKeeps
  <2> QED BY <1>5, <2>1, JobsRead, ExpiryKeeps DEF ExpiryMonitor
<1>6. CASE BreakManager BY <1>6, JobsRead, BreaksCreateKeeps, BreaksEndKeeps DEF BreakManager
<1>7. CASE \E j \in Closers : Closer(j)
  <2>1. PICK j \in Closers : Closer(j) BY <1>7
  <2>2. CASE Settle(j)
    <3>1. j \in Jobs /\ j \notin {"late", "absent", "breaks"} BY Bounds
    <3> QED BY <2>2, <3>1, SettleKeeps
  <2> QED BY <2>1, <2>2, JobsRead, CloserKeeps DEF Closer
<1>8. CASE \E j \in Jobs : JobFails(j) BY <1>8, JobFailsKeeps
<1> QED BY <1>1, <1>2, <1>3, <1>4, <1>5, <1>6, <1>7, <1>8 DEF Next

LEMMA AttendanceStep == AttendanceInv /\ [Next]_vars => AttendanceInv' /\ Stands
<1> SUFFICES ASSUME AttendanceInv, [Next]_vars PROVE AttendanceInv' /\ Stands OBVIOUS
<1>1. CASE UNCHANGED vars
  <2>1. UNCHANGED <<row, brk, clock, fresh, req, job, alerts>> BY <1>1 DEF vars
  <2> QED BY <2>1, NothingWritten, NobodyMoves
<1>2. CASE Next BY <1>2, AttendanceNextKeeps
<1> QED BY <1>1, <1>2

\* The row of a day stays consistent with its breaks and its alerts (AttendanceSafe),
\* for any number of devices, closing jobs, breaks and heartbeats: after the
\* employee's check-out no break of theirs is open, no two breaks of one kind are,
\* and the absence is alerted at most once.
THEOREM AttendanceHolds == Spec => []AttendanceSafe
<1>1. Spec => []AttendanceInv BY AttendanceStarts, AttendanceStep, PTL DEF Spec
<1> QED BY <1>1, AttendanceInvImplies, PTL

\* What the employee and the devices have reported stands (ReportedStands): the
\* monitor checks nobody out over a fresh heartbeat or an earlier check-out, and the
\* check-in of a row that a check-in inserted is changed by a manager alone.
THEOREM ReportedHolds == Spec => ReportedStands
<1>1. Spec => []AttendanceInv BY AttendanceStarts, AttendanceStep, PTL DEF Spec
<1>2. AttendanceInv /\ [Next]_vars =>
        /\ [row'.out = "expiry" /\ row.out # "expiry" => row.out = None /\ ~fresh]_vars
        /\ [row.made = "employee" /\ row'.in # row.in => row'.in = "manager"]_vars
  BY AttendanceStep DEF Stands
<1> QED BY <1>1, <1>2, PTL DEF Spec, ReportedStands, HeartbeatKeepsIn, CheckInStands
=============================================================================
