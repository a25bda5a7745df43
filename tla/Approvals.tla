------------------------------- MODULE Approvals -------------------------------
(***************************************************************************)
(* The other requests that a manager decides: overtime, expense claims,     *)
(* remote work, late notices, attendance corrections and availability, with  *)
(* what a decision does to the attendance row of the day.                    *)
(*                                                                         *)
(* The approvals inbox (services/approval-workflows.ts) reads the request    *)
(* and then, in a transaction, claims it by a conditional update.  The pages *)
(* of overtime, expenses and availability read a pending row and update it   *)
(* by id.  The two exist side by side.  A trigger of the attendance table keeps *)
(* every writer from the row of a processed payroll.                         *)
(***************************************************************************)
EXTENDS LeaveRequests

CONSTANTS
  Items,      \* identifiers of requests
  MaxWorked   \* bound: units of office time after the shift's end

Kinds == {"overtime", "expense", "remote", "late_notice", "correction", "availability"}
\* The kinds that are also decided on a page of their own.
Direct == {"overtime", "expense", "availability", "late_notice"}
\* The kinds the inbox offers; a correction's own routes call the inbox.
Inbox == Kinds \ {"availability"}

VARIABLES
  item,      \* the rows of the requests
  day,       \* the attendance row: worked, extra, overtime, in, edits
  payroll,   \* the row of the day when payroll of its period was processed, or None
  review     \* what a decision has read and is about to write

approvalVars == <<item, day, payroll, review>>

-----------------------------------------------------------------------------
\* decided, applied, told: how often it was decided, applied to the attendance
\* row and announced through the outbox.  raced: it was once written by id
\* although it had been decided, or filed again while it was live or being
\* decided.  stale: a check-out wrote the attendance row since it was filed.
Item == [kind : Kinds, status : {"pending", "approved", "rejected", "cancelled"}, minutes : 0 .. MaxWorked,
         decided : 0 .. 3, applied : 0 .. 2, told : 0 .. 2, raced : BOOLEAN, stale : BOOLEAN]
\* edits: how often corrections and overrides wrote the times, up to two.
Day  == [worked : 0 .. MaxWorked, extra : 0 .. MaxWorked, overtime : 0 .. MaxWorked,
         in : BOOLEAN, edits : 0 .. 2]
NoReview == [op |-> "none"]

ASSUME ApprovalsAssumption == MaxWorked \in Nat /\ None \notin Item

ApprovalTypeOK ==
  /\ item \in [Items -> Item \cup {None}]
  /\ day \in Day
  /\ payroll \in Day \cup {None}
  /\ \A w \in Desks : review[w].op \in {"none", "inbox", "page", "delete", "cancel", "overtime", "correction"}

ApprovalInit ==
  /\ item = [i \in Items |-> None]
  /\ day = [worked |-> 0, extra |-> 0, overtime |-> 0, in |-> FALSE, edits |-> 0]
  /\ payroll = None
  /\ review = [w \in Desks |-> NoReview]

Filed == {i \in Items : item[i] # None}
OfKind(k) == {i \in Filed : item[i].kind = k}
\* Identifiers that no row has and no decision in progress knows.
InReview(i) == \E w \in Desks : review[w].op \in {"inbox", "page", "delete", "cancel"} /\ review[w].i = i
Free == {i \in Items \ Filed : ~InReview(i)}
Bump(n) == IF n < 2 THEN n + 1 ELSE n
Read(w, record) ==
  /\ review[w] = NoReview
  /\ review' = [review EXCEPT ![w] = record]
  /\ UNCHANGED <<item, day, payroll>>
Done(w) == review' = [review EXCEPT ![w] = NoReview]

NewItem(k, minutes) ==
  [kind |-> k, status |-> "pending", minutes |-> minutes, decided |-> 0, applied |-> 0, told |-> 0,
   raced |-> FALSE, stale |-> FALSE]

-----------------------------------------------------------------------------
(* Submissions *)

\* POST /expenses and /shifts/availability insert a pending row, and so does a
\* remote check-in, once for its attendance row and after it has written that.
File(i, k) ==
  /\ i \in Free /\ k \in {"expense", "availability", "remote"}
  /\ k = "remote" => day.in /\ OfKind(k) = {}
  /\ item' = [item EXCEPT ![i] = NewItem(k, 0)]
  /\ UNCHANGED <<day, payroll, review>>

\* The one row of a kind is inserted, or becomes a new pending request.
Upsert(k, minutes) ==
  \/ \E i \in OfKind(k) :
       item' = [item EXCEPT ![i] = [NewItem(k, minutes) EXCEPT
         !.raced = item[i].raced \/ item[i].status \in {"pending", "approved"} \/ InReview(i)]]
  \/ /\ OfKind(k) = {}
     /\ \E i \in Free : item' = [item EXCEPT ![i] = NewItem(k, minutes)]

\* POST /attendance/late-notice
Notice == Upsert("late_notice", 0) /\ UNCHANGED <<day, payroll, review>>

\* submitOvertimeRequest reads the row of the day and its request, then writes.
OvertimeRead(w) ==
  /\ day.extra > 0
  /\ \A i \in OfKind("overtime") : item[i].status \in {"rejected", "cancelled"}
  /\ Read(w, [op |-> "overtime", minutes |-> day.extra])
OvertimeWrite(w) ==
  /\ review[w].op = "overtime"
  /\ Done(w)
  /\ Upsert("overtime", review[w].minutes)
  /\ UNCHANGED <<day, payroll>>

\* submitAttendanceCorrection looks for a pending one, then inserts.
CorrectionRead(w) ==
  /\ \A i \in OfKind("correction") : item[i].status # "pending"
  /\ Read(w, [op |-> "correction"])
CorrectionWrite(w) ==
  /\ review[w].op = "correction"
  /\ Done(w)
  /\ \E i \in Free : item' = [item EXCEPT ![i] = NewItem("correction", 0)]
  /\ UNCHANGED <<day, payroll>>

\* The assistant's cancelMyRequest: a conditional update.
CancelOwn(i) ==
  /\ i \in Filed /\ item[i].kind \in {"overtime", "correction", "remote"} /\ item[i].status = "pending"
  /\ item' = [item EXCEPT ![i].status = "cancelled"]
  /\ UNCHANGED <<day, payroll, review>>

-----------------------------------------------------------------------------
(* Decisions *)

\* The inbox reads the request and, for its effect, the attendance row.
InboxReviewRead(w, i, approve) ==
  /\ i \in Filed /\ item[i].kind \in Inbox
  /\ item[i].kind = "late_notice" => approve
  /\ Read(w, [op |-> "inbox", i |-> i, approve |-> approve, extra |-> day.extra, minutes |-> item[i].minutes])

\* PUT /overtime/requests/:id/approve and /reject, PUT /expenses/:id/approve and
\* /reject and PUT /shifts/availability/:id/review read a pending request, PUT
\* /attendance/late-notice/:id/acknowledge one that is not cancelled.
PageTakes(i, approve) ==
  IF item[i].kind = "late_notice" THEN approve /\ item[i].status # "cancelled" ELSE item[i].status = "pending"
PageRead(w, i, approve) ==
  /\ i \in Filed /\ item[i].kind \in Direct /\ PageTakes(i, approve)
  /\ Read(w, [op |-> "page", i |-> i, approve |-> approve, extra |-> day.extra, minutes |-> item[i].minutes])

\* DELETE /shifts/availability/:id reads a pending request.
DeleteRead(w, i) ==
  /\ i \in OfKind("availability") /\ item[i].status = "pending"
  /\ Read(w, [op |-> "delete", i |-> i])

\* DELETE /attendance/late-notice/:id reads one that is not acknowledged, and
\* writes it by id.
NoticeCancelRead(w, i) ==
  /\ i \in OfKind("late_notice") /\ item[i].status # "approved"
  /\ Read(w, [op |-> "cancel", i |-> i])
NoticeCancelWrite(w) ==
  /\ review[w].op = "cancel"
  /\ Done(w)
  /\ item' = [item EXCEPT ![review[w].i].status = "cancelled",
                          ![review[w].i].raced = @ \/ item[review[w].i].status = "approved"]
  /\ UNCHANGED <<day, payroll>>

\* What is left of the extra office minutes that were read.
Left(r) == IF r.extra > r.minutes THEN r.extra - r.minutes ELSE 0

\* The overtime of the row is what was asked for.
Credited(r) == r.minutes

\* What a decision does to the attendance row.  The row of a remote day has a
\* check-in, so that its rejection, which marks a row without one, changes nothing.
Effect(r) ==
  LET k == item[r.i].kind
  IN  day' = [day EXCEPT
        !.overtime = IF k = "overtime" /\ r.approve THEN Credited(r) ELSE @,
        !.extra    = IF k = "overtime" /\ r.approve THEN Left(r) ELSE @,
        !.in       = @ \/ (k = "correction" /\ r.approve),
        !.edits    = IF k = "correction" /\ r.approve THEN Bump(@) ELSE @]

\* The trigger before every write of the attendance row locks the payroll row and
\* raises if it is processed: the writer's transaction rolls back.
RowUnlocked == payroll = None

\* A decision that would write the row of a processed payroll.  For a correction
\* the inbox looks itself, before the trigger does.
Refused(r) == r.approve /\ item[r.i].kind \in {"overtime", "correction"} /\ ~RowUnlocked

\* The decisions that go to the outbox in the transaction.
Announces(r) == item[r.i].kind = "correction"

\* The row of a decided request.
DecidedRow(r, raced) ==
  LET x == item[r.i]
  IN  [x EXCEPT !.status = IF r.approve THEN "approved" ELSE "rejected",
                !.decided = IF @ < 3 THEN @ + 1 ELSE @,
                !.applied = IF r.approve THEN Bump(@) ELSE @,
                !.told = IF Announces(r) THEN Bump(@) ELSE @,
                !.raced = @ \/ raced]

\* Mutant: the inbox updates whatever it read, as the pages do.
InboxClaimsAny(i) == TRUE

\* The conditional update of the inbox.
InboxClaims(i) == item[i].status = "pending"

InboxReviewWrite(w) ==
  LET r == review[w]
  IN  /\ r.op = "inbox"
      /\ Done(w)
      /\ UNCHANGED payroll
      /\ \/ /\ r.i \in Filed /\ InboxClaims(r.i) /\ ~Refused(r)
            /\ item' = [item EXCEPT ![r.i] = DecidedRow(r, FALSE)]
            /\ Effect(r)
         \/ /\ r.i \in Filed /\ InboxClaims(r.i) => Refused(r)
            /\ UNCHANGED <<item, day>>

\* The update by id, for overtime in one transaction with the attendance row; a
\* request that was deleted meanwhile is an error.
PageWrite(w) ==
  LET r == review[w]
  IN  /\ r.op = "page"
      /\ Done(w)
      /\ UNCHANGED payroll
      /\ \/ /\ r.i \in Filed /\ ~Refused(r)
            /\ item' = [item EXCEPT ![r.i] = DecidedRow(r, item[r.i].status # "pending")]
            /\ Effect(r)
         \/ (r.i \in Filed => Refused(r)) /\ UNCHANGED <<item, day>>

DeleteWrite(w) ==
  /\ review[w].op = "delete"
  /\ Done(w)
  /\ item' = [item EXCEPT ![review[w].i] = None]
  /\ UNCHANGED <<day, payroll>>

-----------------------------------------------------------------------------
(* What else writes the attendance row and the period *)

CheckIn ==
  /\ ~day.in /\ RowUnlocked
  /\ day' = [day EXCEPT !.in = TRUE]
  /\ UNCHANGED <<item, payroll, review>>

\* PUT /attendance/:id/override, twice at most with the corrections.
Override ==
  /\ RowUnlocked /\ day.edits < 2
  /\ day' = [day EXCEPT !.in = TRUE, !.edits = @ + 1]
  /\ UNCHANGED <<item, payroll, review>>

\* The check-out of a shift whose overtime needs approval, again after every
\* re-entry: overtime is zero and the minutes after the shift are extra.
CheckOut(n) ==
  /\ day.in /\ n > day.worked /\ n <= MaxWorked /\ RowUnlocked
  /\ day' = [day EXCEPT !.worked = n, !.extra = n, !.overtime = 0]
  /\ item' = [i \in Items |-> IF i \in OfKind("overtime") THEN [item[i] EXCEPT !.stale = TRUE] ELSE item[i]]
  /\ UNCHANGED <<payroll, review>>

\* The payroll of the period is processed, and recalled.
ProcessPayroll ==
  /\ payroll = None
  /\ payroll' = day
  /\ UNCHANGED <<item, day, review>>

RecallPayroll ==
  /\ payroll # None
  /\ payroll' = None
  /\ UNCHANGED <<item, day, review>>

ApprovalNext ==
  \/ \E i \in Items, k \in Kinds : File(i, k)
  \/ Notice
  \/ \E i \in Items : CancelOwn(i)
  \/ \E w \in Desks : OvertimeRead(w) \/ OvertimeWrite(w) \/ CorrectionRead(w) \/ CorrectionWrite(w)
  \/ \E w \in Desks, i \in Items, approve \in BOOLEAN : InboxReviewRead(w, i, approve) \/ PageRead(w, i, approve)
  \/ \E w \in Desks, i \in Items : DeleteRead(w, i) \/ NoticeCancelRead(w, i)
  \/ \E w \in Desks : InboxReviewWrite(w) \/ PageWrite(w) \/ DeleteWrite(w) \/ NoticeCancelWrite(w)
  \/ CheckIn \/ Override \/ ProcessPayroll \/ RecallPayroll
  \/ \E n \in 1 .. MaxWorked : CheckOut(n)

-----------------------------------------------------------------------------
(* Properties *)

\* A request is decided once and takes effect exactly if it is approved, also when
\* the effect is refused after the request was claimed, unless a page wrote it by
\* id after it had been decided, or it was filed again while it was being decided.
DecidedOnce ==
  \A i \in Filed : ~item[i].raced =>
    /\ item[i].decided <= 1
    /\ item[i].applied = IF item[i].status = "approved" THEN 1 ELSE 0

\* Office time is never both paid as overtime and left among the extra minutes.
NotCountedTwice == day.overtime + day.extra <= day.worked

\* Approved overtime is what the attendance row holds and nothing of the time
\* worked is lost, unless a check-out wrote the row after the request was filed
\* or two decisions met.
ApprovedOvertimeStands ==
  \A i \in OfKind("overtime") : item[i].status = "approved" /\ ~item[i].stale /\ ~item[i].raced =>
    day.overtime = item[i].minutes /\ day.overtime + day.extra = day.worked

\* The employee is told of the decision on a correction exactly once, in the
\* transaction that decides it.
CorrectionAnnounced ==
  \A i \in OfKind("correction") : item[i].told = IF item[i].status \in {"approved", "rejected"} THEN 1 ELSE 0

\* The attendance a processed payroll paid for stands until the payroll is
\* recalled, whatever decisions were under way when it was processed.
PaidAttendanceStands == payroll # None => day = payroll

\* A decision is taken, applied and announced once, and agrees with the attendance
\* row and the payroll it is about, but for the overlaps each part names.
ApprovalsSafe ==
  /\ ApprovalTypeOK
  /\ DecidedOnce
  /\ NotCountedTwice
  /\ ApprovedOvertimeStands
  /\ CorrectionAnnounced
  /\ PaidAttendanceStands
=============================================================================
