---------------------------- MODULE LeaveRequests ----------------------------
(***************************************************************************)
(* The leave of one employee and one leave type: requests, the yearly       *)
(* balances they are deducted from, the monthly accrual that feeds these     *)
(* and the attendance rows an approval writes (src/src/routes/leave.ts,      *)
(* services/leave-request.ts, leaveAccrual.ts and the leave branch of        *)
(* approval-workflows.ts).                                                   *)
(*                                                                         *)
(* An approval is a transaction that begins by claiming the pending row.     *)
(* Cancelling, and rejecting by the route of the leave page, read the row    *)
(* and update it by id in a later statement, whatever it has become.  The    *)
(* requests are of whole days: half days and hours, which cost a fraction    *)
(* and mark a row half_leave, are among the other writers of its status.     *)
(***************************************************************************)
EXTENDS Integers, FiniteSets, FiniteSetsExt

CONSTANTS
  Requests,     \* identifiers of leave requests
  Desks,        \* HTTP requests in progress
  Days,         \* the calendar
  Working,      \* the working days that are no holidays
  NewYear,      \* the first day of the second year
  Increment,    \* monthlyIncrement of the policy
  CarryCap,     \* carry_over_max of the policy
  Opening,      \* total_days of the first year's balance
  MaxTotal,     \* bound: total_days
  None

ASSUME LeaveAssumption ==
  /\ Days \subseteq Nat /\ Working \subseteq Days
  /\ {Increment, CarryCap, Opening, MaxTotal, NewYear} \subseteq Nat /\ Opening <= MaxTotal
  /\ IsFiniteSet(Requests) /\ IsFiniteSet(Days) /\ None \notin Requests

Years  == {1, 2}
Months == {1, 2}
LastMonth == 4   \* two months of each year are told apart
YearOf(d) == IF d < NewYear THEN 1 ELSE 2

VARIABLES
  req,        \* the leave_requests rows
  unpaid,     \* whether the leave type is unpaid: it never changes
  balance,    \* the leave_balances rows, by year
  month,      \* the months that have begun
  grants,     \* the leave_accrual_grants rows, as <<year, month>>
  carried,    \* history: days carried into the second year
  adjusted,   \* history: days added by hand, by year
  cut,        \* history: days were taken away by hand
  att,        \* the attendance rows: as they were, on leave, or written since
  shifts,     \* days with a shift assignment
  at          \* what an HTTP request has read and is about to write

accrualVars == <<unpaid, month, grants, carried, adjusted, cut>>
leaveVars == <<req, balance, accrualVars, att, shifts, at>>

-----------------------------------------------------------------------------
Idle == [op |-> "none"]
\* taken: how often it was approved; free: there was no balance of its year to
\* deduct it from; raced: it was cancelled or rejected by id
\* while it was being decided; twin: another submission was in progress, or
\* another request pending, or nothing to limit it, when it was checked.
LeaveRequest == [from : Days, to : Days, status : {"pending", "approved", "rejected", "cancelled"},
                 taken : 0 .. 2, free : BOOLEAN, raced : BOOLEAN, twin : {"none", "pending", "submitted", "unlimited"}]
Balance == [total : (0 - MaxTotal) .. MaxTotal, used : 0 .. Cardinality(Requests) * Cardinality(Days)]

ASSUME LeaveRowsAssumption == None \notin LeaveRequest /\ None \notin Balance

LeaveTypeOK ==
  /\ req \in [Requests -> LeaveRequest \cup {None}]
  /\ balance \in [Years -> Balance \cup {None}]
  /\ grants \subseteq Years \X Months
  /\ carried \in 0 .. CarryCap
  /\ adjusted \in [Years -> Int] /\ cut \in BOOLEAN
  /\ month \in 1 .. LastMonth
  /\ att \in [Days -> {"other", "leave", "written"}]
  /\ shifts \subseteq Days
  /\ \A w \in Desks : at[w].op \in {"none", "submit", "cancel", "reject", "inbox"}

LeaveInit ==
  /\ req = [r \in Requests |-> None] /\ unpaid \in BOOLEAN
  /\ balance = [y \in Years |-> IF y = 1 THEN [total |-> Opening, used |-> 0] ELSE None]
  /\ month = 1 /\ grants = {} /\ carried = 0 /\ cut = FALSE
  /\ adjusted = [y \in Years |-> 0]
  /\ att = [d \in Days |-> "other"]
  /\ shifts = {}
  /\ at = [w \in Desks |-> Idle]

ThisYear == IF month <= 2 THEN 1 ELSE 2
Sent == {r \in Requests : req[r] # None}
Waiting == {r \in Sent : req[r].status = "pending"}
Period(from, to) == {d \in Days : from <= d /\ d <= to}
Cost(from, to) == Cardinality(Period(from, to) \cap Working)
Live(r) == req[r].status \in {"pending", "approved"}
Overlaps(r, from, to) == req[r].from <= to /\ req[r].to >= from
\* availableDays, from the sums of the ledger: pending requests are not in them.
Available(y) == IF balance[y].used > balance[y].total THEN 0 ELSE balance[y].total - balance[y].used

-----------------------------------------------------------------------------
(* submitLeaveRequest *)

Blocked(from, to) == \E r \in Sent : Live(r) /\ Overlaps(r, from, to)

\* Unpaid leave has no limit, and neither has a year without a balance.
Unlimited(y) == unpaid \/ balance[y] = None
Covered(from, to) == ~Unlimited(YearOf(from)) => Cost(from, to) <= Available(YearOf(from))

\* The dates, the overlap and the balance have been checked.
SubmitRead(w, from, to) ==
  /\ at[w] = Idle /\ YearOf(from) >= ThisYear /\ from <= to /\ Cost(from, to) > 0
  /\ ~Blocked(from, to) /\ Covered(from, to)
  /\ at' = [at EXCEPT ![w] = [op |-> "submit", from |-> from, to |-> to,
                                     twin |-> IF Unlimited(YearOf(from)) THEN "unlimited"
                                              ELSE IF Waiting # {} THEN "pending" ELSE "none"]]
  /\ UNCHANGED <<req, balance, accrualVars, att, shifts>>

Submitting(w) == \E v \in Desks \ {w} : at[v].op = "submit"

\* The row is inserted: nothing in the database refuses an overlap.
SubmitWrite(w) ==
  /\ at[w].op = "submit"
  /\ \E r \in Requests \ Sent :
       req' = [x \in Requests |->
         IF x = r
         THEN [from |-> at[w].from, to |-> at[w].to, status |-> "pending", taken |-> 0, free |-> FALSE, raced |-> FALSE,
               twin |-> IF Submitting(w) THEN "submitted"
                        ELSE IF at[w].twin = "none" /\ Waiting # {} THEN "pending" ELSE at[w].twin]
         ELSE IF x \in Waiting /\ req[x].twin = "none" THEN [req[x] EXCEPT !.twin = "pending"] ELSE req[x]]
  /\ at' = [v \in Desks |-> IF v = w THEN Idle ELSE at[v]]
  /\ UNCHANGED <<balance, accrualVars, att, shifts>>

-----------------------------------------------------------------------------
(* Decisions *)

\* DELETE /leave/requests/:id and PUT /leave/requests/:id/reject have read a
\* pending row.
ByIdRead(w, r, op) ==
  /\ at[w] = Idle /\ r \in Sent /\ req[r].status = "pending"
  /\ at' = [at EXCEPT ![w] = [op |-> op, r |-> r]]
  /\ UNCHANGED <<req, balance, accrualVars, att, shifts>>

CancelRead(w, r) == ByIdRead(w, r, "cancel")
RejectRead(w, r) == ByIdRead(w, r, "reject")

\* They write it by id.
ByIdWrite(w, op, status) ==
  /\ at[w].op = op
  /\ req' = [req EXCEPT ![at[w].r].status = status,
                        ![at[w].r].raced = @ \/ req[at[w].r].status # "pending"]
  /\ at' = [at EXCEPT ![w] = Idle]
  /\ UNCHANGED <<balance, accrualVars, att, shifts>>

\* The assistant's cancelMyRequest: a conditional update.
CancelOwnLeave(r) ==
  /\ r \in Waiting
  /\ req' = [req EXCEPT ![r].status = "cancelled"]
  /\ UNCHANGED <<balance, accrualVars, att, shifts, at>>

CancelWrite(w) == ByIdWrite(w, "cancel", "cancelled")
RejectWrite(w) == ByIdWrite(w, "reject", "rejected")

\* Mutant: the approval does not look at the status it replaces.
ClaimsAny(r) == TRUE

\* The conditional update every approval begins with.
Claims(r) == req[r].status = "pending"

\* The rows an approval sets to leave.
Marked(d, r) == d \in Period(req[r].from, req[r].to) \cap Working

Deduction(r) == Cost(req[r].from, req[r].to)

\* The transaction of an approval: the claim, the deduction from the year of
\* the first day, if there is a balance, and the attendance rows.
Approve(r) ==
  LET y == YearOf(req[r].from)
  IN  /\ r \in Sent /\ Claims(r)
      /\ req' = [req EXCEPT ![r].status = "approved", ![r].taken = IF @ < 2 THEN @ + 1 ELSE @,
                            ![r].free = balance[y] = None]
      /\ balance' = IF balance[y] = None THEN balance
                    ELSE [balance EXCEPT ![y].used = @ + Deduction(r)]
      /\ att' = [d \in Days |-> IF Marked(d, r) THEN "leave" ELSE att[d]]
      /\ UNCHANGED <<accrualVars, shifts>>

\* PUT /leave/requests/:id/approve
ApproveDirect(r) == Approve(r) /\ UNCHANGED at

\* reviewApproval looks for shifts in the period before its transaction.
InboxRead(w, r) ==
  /\ at[w] = Idle /\ r \in Sent
  /\ shifts \cap Period(req[r].from, req[r].to) = {}
  /\ at' = [at EXCEPT ![w] = [op |-> "inbox", r |-> r]]
  /\ UNCHANGED <<req, balance, accrualVars, att, shifts>>

\* The transaction commits; or it claims nothing, or the payroll of a day it
\* would mark is processed, and it rolls back.
InboxApprove(w) ==
  /\ at[w].op = "inbox"
  /\ at' = [at EXCEPT ![w] = Idle]
  /\ \/ Approve(at[w].r)
     \/ UNCHANGED <<req, balance, accrualVars, att, shifts>>

\* reviewApproval rejects by a conditional update.
InboxReject(r) ==
  /\ r \in Sent /\ Claims(r)
  /\ req' = [req EXCEPT ![r].status = "rejected"]
  /\ UNCHANGED <<balance, accrualVars, att, shifts, at>>

-----------------------------------------------------------------------------
(* Balances *)

\* PUT /leave/balance/:userId increments total_days of the current year.
Adjust(n) ==
  LET y == ThisYear
  IN  /\ balance[y] # None /\ balance[y].total + n \in 0 .. MaxTotal
      /\ balance' = [balance EXCEPT ![y].total = @ + n]
      /\ adjusted' = [adjusted EXCEPT ![y] = @ + n]
      /\ cut' = (cut \/ n < 0)
      /\ UNCHANGED <<req, unpaid, month, grants, carried, att, shifts, at>>

\* carryOver
CarryOver == IF balance[1] = None THEN 0 ELSE Min({Available(1), CarryCap})

\* The unique index on (employee, type, year, month).
Grantable(y, m) == <<y, m>> \notin grants

\* runMonthlyAccrual for the employee, any number of times in a month or not at
\* all: the grant and the balance in one transaction.  A balance that January
\* opens starts with what is left of the year before.
Accrue ==
  LET y == ThisYear
      m == IF month <= 2 THEN month ELSE month - 2
      carry == IF balance[y] = None /\ m = 1 THEN CarryOver ELSE 0
      base  == IF balance[y] = None THEN [total |-> carry, used |-> 0] ELSE balance[y]
  IN  /\ Grantable(y, m)
      /\ base.total + Increment <= MaxTotal
      /\ grants' = grants \cup {<<y, m>>}
      /\ balance' = [balance EXCEPT ![y] = [base EXCEPT !.total = @ + Increment]]
      /\ carried' = carried + carry
      /\ UNCHANGED <<req, unpaid, month, adjusted, cut, att, shifts, at>>

\* A month begins.
Tick ==
  /\ month < LastMonth
  /\ month' = month + 1
  /\ UNCHANGED <<req, unpaid, balance, grants, carried, adjusted, cut, att, shifts, at>>

\* A shift is assigned, as far as leave looks at it.
Schedule(d) ==
  /\ d \notin shifts /\ shifts = {}
  /\ shifts' = shifts \cup {d}
  /\ UNCHANGED <<req, balance, accrualVars, att, at>>

\* Another part writes the row of a day: a check-in (in, late or remote), a
\* check-out, a rejected remote session, leave for a part of the day.
Attend(d) ==
  /\ att' = [att EXCEPT ![d] = "written"]
  /\ UNCHANGED <<req, balance, accrualVars, shifts, at>>

RequestNext ==
  \/ \E w \in Desks, from, to \in Days : SubmitRead(w, from, to)
  \/ \E w \in Desks : SubmitWrite(w) \/ CancelWrite(w) \/ RejectWrite(w) \/ InboxApprove(w)
  \/ \E w \in Desks, r \in Requests : CancelRead(w, r) \/ RejectRead(w, r) \/ InboxRead(w, r)
  \/ \E r \in Requests : ApproveDirect(r) \/ InboxReject(r) \/ CancelOwnLeave(r)

BalanceNext ==
  \/ \E n \in {-1, 1} : Adjust(n)
  \/ Accrue \/ Tick

LeaveNext == RequestNext \/ BalanceNext \/ (\E d \in Days : Schedule(d) \/ Attend(d))

-----------------------------------------------------------------------------
(* Properties *)

\* A request is deducted from the balance exactly when it is approved, and
\* never twice, however many managers approve it on the two pages; a cancelled
\* or rejected request has cost nothing unless it was overwritten by id after
\* it had been decided.
DeductedOnce ==
  \A r \in Sent : /\ req[r].taken <= 1
                  /\ req[r].status = "approved" => req[r].taken = 1
                  /\ req[r].taken = 1 /\ req[r].status # "approved" => req[r].raced

\* used_days is the sum of the working days of the approved requests of the
\* year, except those that were approved before the year had a balance.
Charged(r, y) == YearOf(req[r].from) = y /\ req[r].taken > 0 /\ ~req[r].free
DaysCharged(y) == {p \in Sent \X Days : Charged(p[1], y) /\ Marked(p[2], p[1])}
UsedAddsUp == \A y \in Years : balance[y] # None => balance[y].used = Cardinality(DaysCharged(y))

\* The employee never has two live requests for one day, unless two of his
\* submissions were in progress together.
NoDoubleBooking ==
  \A r, x \in Sent :
    r # x /\ Live(r) /\ Live(x) /\ Overlaps(r, req[x].from, req[x].to) =>
      "submitted" \in {req[r].twin, req[x].twin}

\* The balance of a year is overdrawn only if one of its requests was submitted
\* while another was pending or being submitted, or had no limit (unpaid leave,
\* or a year without a balance yet), or if days were taken away by hand: pending
\* requests reserve nothing.
WithinBalance ==
  \A y \in Years : balance[y] # None /\ balance[y].used > balance[y].total =>
    cut \/ \E r \in Sent : YearOf(req[r].from) = y /\ req[r].twin # "none"

\* The accrual pays every month once, and carries days over once, whatever the
\* daily retries: a total is what it opened with, its months and adjustments.
AccruedOnce ==
  \A y \in Years : balance[y] # None =>
    balance[y].total = (IF y = 1 THEN Opening ELSE carried) + adjusted[y]
                         + Increment * Cardinality({g \in grants : g[1] = y})

\* The working days of the requests that were approved.
ApprovedOff(d) == \E r \in Sent : req[r].taken > 0 /\ Marked(d, r)

\* An attendance row on leave is a working day of a request that was approved,
\* and the working days of an approved request are on leave, but for those whose
\* row another part has written since: a check-in replaces the status.
LeaveDaysWereApproved ==
  \A d \in Days : (att[d] = "leave" => ApprovedOff(d)) /\ (ApprovedOff(d) => att[d] # "other")

\* Requests, balances, accrual and attendance agree: days are deducted, paid and
\* marked once, for what was approved, but for the overlaps each part names.
LeaveSafe ==
  /\ LeaveTypeOK
  /\ DeductedOnce
  /\ UsedAddsUp
  /\ NoDoubleBooking
  /\ WithinBalance
  /\ AccruedOnce
  /\ LeaveDaysWereApproved
=============================================================================
