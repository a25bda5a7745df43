------------------------------ MODULE Offboarding ------------------------------
(***************************************************************************)
(* Offboarding of one employee (src/src/routes/offboarding.ts,               *)
(* services/offboarding.ts): the case with its checklist, assets and final   *)
(* settlement, and the job that revokes the employee's access once the last  *)
(* working day has come.                                                     *)
(*                                                                         *)
(* A route reads the case, then writes by id; submit, approve and lock are   *)
(* conditional updates, so that their read decides nothing.  A case has one  *)
(* task and one asset here.                                                  *)
(***************************************************************************)
EXTENDS Naturals, FiniteSets

CONSTANTS
  Cases,         \* cases that may exist
  Hands,         \* requests of HR in progress
  Hr,            \* HR users, who create and who review
  Amounts,       \* totals of a settlement
  MaxOffCrashes, \* bound: processes that die
  NoCase

ASSUME OffboardingAssumption ==
  /\ IsFiniteSet(Cases) /\ NoCase \notin Cases /\ Hr # {} /\ Amounts # {} /\ MaxOffCrashes \in Nat

VARIABLES
  ocase,     \* offboarding_cases with tasks, assets and settlement
  employee,  \* is_active, whether a session is open, whether a log-in is under way
  revoker,   \* the run of processDueOffboardingCases
  hand,      \* the requests in progress
  trail      \* history

offboardingVars == <<ocase, employee, revoker, hand, trail>>

-----------------------------------------------------------------------------
AnAmount == CHOOSE m \in Amounts : TRUE
AnHr == CHOOSE h \in Hr : TRUE
Settlement == [status : {"none", "draft", "submitted", "approved", "locked", "waived"}, total : Amounts, by : Hr]
Case == [status : {"none", "in_progress", "access_revoked", "completed", "cancelled"}, due : BOOLEAN,
         task : {"none", "pending", "done"}, asset : {"none", "outstanding", "resolved"},
         revokedAt : BOOLEAN, settlement : Settlement]
EmptyCase == [status |-> "none", due |-> FALSE, task |-> "none", asset |-> "none", revokedAt |-> FALSE,
              settlement |-> [status |-> "none", total |-> AnAmount, by |-> AnHr]]
Ops == {"create", "edit", "task", "asset", "save", "waive", "complete"}
Idle == [op |-> "none", on |-> NoCase, had |-> FALSE]
Sleeping == [step |-> "read", todo |-> {}, on |-> NoCase]

OffboardingTypeOK ==
  /\ ocase \in [Cases -> Case]
  /\ employee \in [active : BOOLEAN, session : BOOLEAN, entering : BOOLEAN]
  /\ revoker \in [step : {"read", "claim", "revoke", "stamp"}, todo : SUBSET Cases, on : Cases \cup {NoCase}]
  /\ hand \in [Hands -> [op : Ops \cup {"none"}, on : Cases \cup {NoCase}, had : BOOLEAN]]
  /\ trail \in [creates : BOOLEAN, raced : SUBSET Cases, agreed : [Cases -> Amounts],
                returned : BOOLEAN, slipped : BOOLEAN, crashes : 0 .. MaxOffCrashes]

OffboardingFrom(open, row) ==
  /\ ocase = [x \in Cases |-> IF x \in open THEN row ELSE EmptyCase]
  /\ employee = [active |-> TRUE, session |-> TRUE, entering |-> FALSE]
  /\ revoker = Sleeping
  /\ hand = [h \in Hands |-> Idle]
  /\ trail = [creates |-> FALSE, raced |-> {}, agreed |-> [x \in Cases |-> AnAmount],
              returned |-> FALSE, slipped |-> FALSE, crashes |-> 0]

OffboardingInit == OffboardingFrom({}, EmptyCase)

\* status notIn ['completed', 'cancelled']
OpenCases == {x \in Cases : ocase[x].status \in {"in_progress", "access_revoked"}}

Handling(x) == {h \in Hands : hand[h].on = x}
\* The cases that two requests were at work on, once h has written x.
Racing(x, h) == IF Handling(x) \ {h} = {} THEN trail.raced ELSE trail.raced \cup {x}

-----------------------------------------------------------------------------
(* The case *)

\* Ids of new cases.
FreeCases == {x \in Cases : ocase[x].status = "none" /\ Handling(x) = {}}

NoneOpen == OpenCases = {}

\* POST /offboarding: an active employee without an open case.
CreateRead(h) ==
  /\ hand[h] = Idle /\ employee.active /\ NoneOpen /\ FreeCases # {}
  /\ hand' = [hand EXCEPT ![h] = [Idle EXCEPT !.op = "create", !.on = CHOOSE x \in FreeCases : TRUE]]
  /\ trail' = [trail EXCEPT !.creates = @ \/ \E g \in Hands : hand[g].op = "create"]
  /\ UNCHANGED <<ocase, employee, revoker>>

\* A case as it is created, with the given checklist.
NewCase(due, with) ==
  [EmptyCase EXCEPT !.status = "in_progress", !.due = due,
                    !.task = IF "task" \in with THEN "pending" ELSE "none",
                    !.asset = IF "asset" \in with THEN "outstanding" ELSE "none"]

CreateWrite(h, with) ==
  /\ hand[h].op = "create"
  /\ \E due \in BOOLEAN : ocase' = [ocase EXCEPT ![hand[h].on] = NewCase(due, with)]
  /\ hand' = [hand EXCEPT ![h] = Idle]
  /\ UNCHANGED <<employee, revoker, trail>>

\* POST /:id/complete
MayComplete(x) ==
  /\ ocase[x].status = "access_revoked" /\ ocase[x].task # "pending" /\ ocase[x].asset # "outstanding"
  /\ ocase[x].settlement.status \in {"locked", "waived"}

\* A settlement that does not exist yet, or is a draft, may be saved and waived.
MayChange(x) == ocase[x].settlement.status \in {"none", "draft"}

\* What the other routes require of the case when they read it.
Admits(op, x) ==
  CASE op \in {"edit", "task"} -> ocase[x].status = "in_progress"
    [] op = "asset" -> x \in OpenCases
    [] op \in {"save", "waive"} -> x \in OpenCases /\ MayChange(x)
    [] op = "complete" -> MayComplete(x)

HandRead(h, op, x) ==
  /\ hand[h] = Idle /\ ocase[x].status # "none" /\ op # "create" /\ Admits(op, x)
  /\ hand' = [hand EXCEPT ![h] = [op |-> op, on |-> x, had |-> ocase[x].settlement.status # "none"]]
  /\ UNCHANGED <<ocase, employee, revoker, trail>>

Of(h) == ocase[hand[h].on]

\* The write of a request; whatever else is at work on the case overlaps it.
Puts(h, op, row) ==
  /\ hand[h].op = op
  /\ ocase' = [ocase EXCEPT ![hand[h].on] = row]
  /\ trail' = [trail EXCEPT !.raced = Racing(hand[h].on, h)]
  /\ hand' = [hand EXCEPT ![h] = Idle]
  /\ UNCHANGED <<employee, revoker>>

\* PATCH /:id: another last working day, or the case is cancelled.
Edit(h) ==
  \/ \E due \in BOOLEAN : Puts(h, "edit", [Of(h) EXCEPT !.due = due])
  \/ \E status \in {"in_progress", "cancelled"} : Puts(h, "edit", [Of(h) EXCEPT !.status = status])

\* POST /:id/tasks and PATCH /tasks/:taskId
SetTask(h) == \E task \in {"pending", "done"} : Puts(h, "task", [Of(h) EXCEPT !.task = task])

\* POST /:id/assets and PATCH /assets/:assetId
SetAsset(h) == \E asset \in {"outstanding", "resolved"} : Puts(h, "asset", [Of(h) EXCEPT !.asset = asset])

\* A settlement that was not there is created, which fails if it is there by now
\* (case_id is unique); one that was there is updated by id.
Stores(h, op, status, total, by) ==
  LET old == Of(h).settlement
      new == IF hand[h].had THEN [old EXCEPT !.status = IF op = "waive" THEN status ELSE @,
                                             !.total = IF op = "save" THEN total ELSE @]
             ELSE IF old.status = "none" THEN [status |-> status, total |-> total, by |-> by] ELSE old
  IN  Puts(h, op, [Of(h) EXCEPT !.settlement = new])

\* PUT /:id/settlement
SaveSettlement(h) == \E total \in Amounts, by \in Hr : Stores(h, "save", "draft", total, by)

\* POST /:id/settlement/waive
WaiveSettlement(h) == Stores(h, "waive", "waived", AnAmount, AnHr)

\* POST /:id/complete
CompleteCase(h) == Puts(h, "complete", [Of(h) EXCEPT !.status = "completed"])

\* The conditional updates of POST /:id/settlement/submit, /approve and /lock.
Moves(x, from, to) ==
  /\ ocase[x].settlement.status = from
  /\ ocase' = [ocase EXCEPT ![x].settlement.status = to]
  /\ UNCHANGED <<employee, revoker, hand>>

Submit(x) ==
  /\ Moves(x, "draft", "submitted")
  /\ trail' = [trail EXCEPT !.agreed[x] = ocase[x].settlement.total, !.raced = IF Handling(x) = {} THEN @ ELSE @ \cup {x}]

Approve(x, by) == by # ocase[x].settlement.by /\ Moves(x, "submitted", "approved") /\ UNCHANGED trail

Lock(x) == Moves(x, "approved", "locked") /\ UNCHANGED trail

-----------------------------------------------------------------------------
(* The employee, and the job *)

\* POST /auth/login reads is_active ...
LoginBegins ==
  /\ employee.active /\ employee' = [employee EXCEPT !.entering = TRUE]
  /\ UNCHANGED <<ocase, revoker, hand, trail>>

\* ... and opens a session, be the account active or not by then.
LoginOpens ==
  /\ employee.entering /\ employee' = [employee EXCEPT !.session = TRUE, !.entering = FALSE]
  /\ trail' = [trail EXCEPT !.slipped = @ \/ ~employee.active]
  /\ UNCHANGED <<ocase, revoker, hand>>

\* POST /auth/setup-account, from an invitation, never looks at is_active.
SetupAccount ==
  /\ employee' = [employee EXCEPT !.session = TRUE]
  /\ trail' = [trail EXCEPT !.slipped = @ \/ ~employee.active]
  /\ UNCHANGED <<ocase, revoker, hand>>

\* PATCH /users/:id/activate
Reactivate ==
  /\ ~employee.active /\ employee' = [employee EXCEPT !.active = TRUE]
  /\ trail' = [trail EXCEPT !.returned = TRUE]
  /\ UNCHANGED <<ocase, revoker, hand>>

\* Mutant: only cases that are in progress are read.
DueCasesFresh == {x \in Cases : ocase[x].status = "in_progress" /\ ocase[x].due /\ ~ocase[x].revokedAt}

\* The cases whose sessions have yet to be revoked: a run that died half-way is
\* taken up by the next.
DueCases == {x \in OpenCases : ocase[x].due /\ ~ocase[x].revokedAt}

RevokerRead ==
  /\ revoker = Sleeping /\ DueCases # {}
  /\ revoker' = [revoker EXCEPT !.todo = DueCases, !.step = "claim"]
  /\ UNCHANGED <<ocase, employee, hand, trail>>

\* Mutant: the sessions are revoked and the account stays active.
DeactivatedNot == employee
Deactivated == [employee EXCEPT !.active = FALSE]

\* The transaction: claim, deactivation, and the hand-over of shifts, reports
\* and tasks; a case that is no longer open is passed over.
RevokerClaim(x) ==
  /\ revoker.step = "claim" /\ x \in revoker.todo
  /\ IF x \in OpenCases /\ ~ocase[x].revokedAt
       THEN /\ ocase' = [ocase EXCEPT ![x].status = "access_revoked"]
            /\ employee' = Deactivated
            /\ revoker' = [revoker EXCEPT !.on = x, !.step = "revoke"]
            /\ trail' = [trail EXCEPT !.raced = IF Handling(x) = {} THEN @ ELSE @ \cup {x}]
       ELSE /\ revoker' = IF revoker.todo = {x} THEN Sleeping ELSE [revoker EXCEPT !.todo = @ \ {x}]
            /\ UNCHANGED <<ocase, employee, trail>>
  /\ UNCHANGED hand

\* revokeAllForUser
RevokerRevoke ==
  /\ revoker.step = "revoke"
  /\ employee' = [employee EXCEPT !.session = FALSE]
  /\ revoker' = [revoker EXCEPT !.step = "stamp"]
  /\ trail' = [trail EXCEPT !.slipped = FALSE]
  /\ UNCHANGED <<ocase, hand>>

RevokerStamp ==
  LET x == revoker.on
  IN  /\ revoker.step = "stamp"
      /\ ocase' = [ocase EXCEPT ![x].revokedAt = @ \/ ocase[x].status = "access_revoked"]
      /\ revoker' = IF revoker.todo = {x} THEN Sleeping
                     ELSE [revoker EXCEPT !.todo = @ \ {x}, !.on = NoCase, !.step = "claim"]
      /\ UNCHANGED <<employee, hand, trail>>

\* The process dies.
OffCrash ==
  /\ trail.crashes < MaxOffCrashes
  /\ trail' = [trail EXCEPT !.crashes = @ + 1]
  /\ revoker' = Sleeping /\ hand' = [h \in Hands |-> Idle]
  /\ employee' = [employee EXCEPT !.entering = FALSE]
  /\ UNCHANGED ocase

RevokerNext == RevokerRead \/ (\E x \in Cases : RevokerClaim(x)) \/ RevokerRevoke \/ RevokerStamp

\* The cases, which the given requests create and edit.
CasesNext(creators, editors) ==
  \/ \E h \in creators : CreateRead(h) \/ CreateWrite(h, {})
  \/ \E h \in editors : Edit(h) \/ \E x \in Cases : HandRead(h, "edit", x)
  \/ Reactivate \/ OffCrash

\* Sessions that open.
SessionsNext == LoginBegins \/ LoginOpens \/ SetupAccount

\* What is done on a case.
ChecklistNext ==
  \/ \E h \in Hands : \/ \E op \in Ops \ {"edit"}, x \in Cases : HandRead(h, op, x)
                      \/ SetTask(h) \/ SetAsset(h) \/ SaveSettlement(h) \/ WaiveSettlement(h) \/ CompleteCase(h)
  \/ \E x \in Cases : Submit(x) \/ (\E by \in Hr : Approve(x, by)) \/ Lock(x)

-----------------------------------------------------------------------------
(* Properties *)

\* An employee has one open case, unless two were created at the same time, or
\* two edits of a case overlapped (one reopens what the other cancelled): a case
\* whose access is revoked still counts when the employee comes back.
OneOpenCase == ~trail.creates /\ trail.raced = {} => Cardinality(OpenCases) <= 1

\* A settlement that was submitted keeps its total through approval and lock,
\* unless a save that had read the draft overlapped.
SubmittedTotalStands ==
  \A x \in Cases \ trail.raced :
    ocase[x].settlement.status \in {"submitted", "approved", "locked"} => ocase[x].settlement.total = trail.agreed[x]

\* A completed case has nothing outstanding and a settlement that is final,
\* unless another request was at work on it.
CompletedIsSettled ==
  \A x \in Cases \ trail.raced :
    ocase[x].status = "completed" => /\ ocase[x].task # "pending" /\ ocase[x].asset # "outstanding"
                                     /\ ocase[x].settlement.status \in {"locked", "waived"}

\* Once the sessions are recorded as revoked, the employee has none, unless the
\* account was activated again, or since the revocation a log-in that had begun
\* before, or an invitation, has opened one.
RevokedIsLoggedOut ==
  \A x \in Cases : ocase[x].revokedAt /\ ~trail.returned /\ ~trail.slipped => ~employee.session

\* A leaver has one case, a settlement that stands once it is submitted, and no
\* session once access is revoked, but for the overlaps that each part names.
OffboardingSafe ==
  /\ OffboardingTypeOK
  /\ OneOpenCase
  /\ SubmittedTotalStands
  /\ CompletedIsSettled
  /\ RevokedIsLoggedOut

\* A case whose last working day has come and whose access is not revoked.
\* An edit that had read the case in progress may overwrite what the job wrote.
RevocationOutstanding == \E x \in OpenCases : ocase[x].due /\ ~ocase[x].revokedAt /\ x \notin trail.raced
=============================================================================
