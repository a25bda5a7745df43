-------------------------------- MODULE Roster --------------------------------
(***************************************************************************)
(* The shift schedule of one organisation: assignments, their publication    *)
(* and acknowledgement, swaps and emergency offers (src/src/routes/shifts.ts,*)
(* shift-field-ops.ts, shift-planning.ts and the swap branch of              *)
(* services/approval-workflows.ts), on top of the templates.                 *)
(*                                                                         *)
(* The unique index on (user_id, date) decides an insert, whatever was read  *)
(* before it, so a handler that inserts is one step.  A handler that updates *)
(* a row by id is two: what it read, and what it writes.                     *)
(***************************************************************************)
EXTENDS ShiftTemplates

CONSTANTS
  Users, AsgIds, SwapIds, OfferIds,
  Desks,      \* requests on the schedule in progress
  Days,       \* the days of the schedule
  Week,       \* the days that a publication covers
  TooClose,   \* pairs of shifts with too little rest between consecutive days
  MaxLeave,   \* bound: days of approved leave
  None

ASSUME RosterAssumption ==
  /\ Days \subseteq Nat /\ Week \subseteq Days
  /\ TooClose \subseteq Shifts \X Shifts /\ MaxLeave \in Nat
  /\ None \notin AsgIds \cup Shifts \cup Users

VARIABLES
  asg,     \* the shift_assignments rows
  swap,    \* the shift_swaps rows
  offer,   \* the emergency_shift_offers rows
  leave,   \* days of approved leave, as <<user, day>>
  draft,   \* the last plan drafted by the language model, and what it was checked against
  desk     \* what a request has read and is about to write

rosterVars == <<asg, swap, offer, leave, draft, desk>>
vars == <<templateVars, rosterVars>>

-----------------------------------------------------------------------------
Acks == {"not_required", "pending", "acknowledged", "conflict"}
\* of: the version that the employee answered.  gap: history, why of and viol
\* may lag behind: another request was in progress on the row, or a swap.
Assignment == [user : Users, day : Days, shift : Shifts, pub : BOOLEAN, ack : Acks,
               viol : {"none", "open", "overridden"},
               of : {"none", "current", "old"}, gap : {"none", "raced", "swapped"}]
Swap  == [req : AsgIds, tgt : AsgIds, status : {"pending", "approved", "rejected", "cancelled"},
          applied : 0 .. 2, direct : BOOLEAN]
Offer == [shift : Shifts, day : Days, status : {"open", "claimed", "cancelled", "expired"},
          claims : 0 .. 2, raced : BOOLEAN]

ASSUME NoneAssumption == None \notin Assignment \cup Swap \cup Offer

Idle == [op |-> "none", ids |-> {}]

Rows == {a \in AsgIds : asg[a] # None}
Assigned(u, d) == \E a \in Rows : asg[a].user = u /\ asg[a].day = d
OnLeave(u, d)  == <<u, d>> \in leave

TypeOK ==
  /\ TemplateTypeOK
  /\ asg \in [AsgIds -> Assignment \cup {None}]
  /\ \A a, b \in Rows : asg[a].user = asg[b].user /\ asg[a].day = asg[b].day => a = b
  /\ \A a \in Rows : asg[a].shift \in exists
  /\ swap \in [SwapIds -> Swap \cup {None}]
  /\ offer \in [OfferIds -> Offer \cup {None}]
  /\ leave \subseteq Users \X Days
  /\ \A w \in Desks : desk[w].ids \subseteq AsgIds

RosterInit ==
  /\ asg = [a \in AsgIds |-> None]
  /\ swap = [s \in SwapIds |-> None]
  /\ offer = [o \in OfferIds |-> None]
  /\ leave = {}
  /\ draft = [rows |-> {}, taken |-> {}, leave |-> {}]
  /\ desk = [w \in Desks |-> Idle]

\* Another request than w has read row a and will write it.
Held(w, a) == \E v \in Desks \ {w} : a \in desk[v].ids

\* The history of a row that is written by w.
Gap(w, a) == IF Held(w, a) THEN "raced" ELSE asg[a].gap

\* A row's identifier is new: no request or swap knows it.
Fresh(a) ==
  /\ asg[a] = None /\ \A w \in Desks : a \notin desk[w].ids
  /\ \A s \in SwapIds : swap[s] # None => a \notin {swap[s].req, swap[s].tgt}

NewRow(u, s, d) ==
  [user |-> u, day |-> d, shift |-> s, pub |-> FALSE, ack |-> "not_required", viol |-> "none",
   of |-> "none", gap |-> "none"]

\* Rows for the <<user, shift, day>> of wanted whose user has no assignment
\* that day are inserted, the others are skipped (skipDuplicates).
InsertFree(wanted) ==
  LET free == {t \in wanted : ~Assigned(t[1], t[3])}
  IN  \E ids \in [free -> {a \in AsgIds : Fresh(a)}] :
        /\ \A t, x \in free : ids[t] = ids[x] => t = x
        /\ asg' = [a \in AsgIds |-> IF \E t \in free : ids[t] = a
                                    THEN LET t == CHOOSE x \in free : ids[x] = a IN NewRow(t[1], t[2], t[3])
                                    ELSE asg[a]]

-----------------------------------------------------------------------------
(* Assignments *)

\* POST /shifts/assignments: leave and availability only warn.
CreateAssignment(u, s, d) ==
  /\ s \in exists /\ ~Assigned(u, d)
  /\ InsertFree({<<u, s, d>>})
  /\ UNCHANGED <<templateVars, swap, offer, leave, draft, desk>>

\* POST /shifts/assignments/bulk with the rows of a draft; of two rows for one
\* user and day the first is taken.
OnePerDay(wanted) == \A t, x \in wanted : t[1] = x[1] /\ t[3] = x[3] => t = x
BulkAssign ==
  /\ draft.rows # {}
  /\ InsertFree({t \in draft.rows : t[2] \in exists})
  /\ draft' = [rows |-> {}, taken |-> {}, leave |-> {}]
  /\ UNCHANGED <<templateVars, swap, offer, leave, desk>>

\* POST /shifts/copy-week: the day after each assignment outside the week.
CopyWeek ==
  LET source == {a \in Rows : asg[a].day \notin Week /\ asg[a].day + 1 \in Week}
  IN  /\ source # {}
      /\ InsertFree({<<asg[a].user, asg[a].shift, asg[a].day + 1>> : a \in source})
      /\ UNCHANGED <<templateVars, swap, offer, leave, draft, desk>>

Finish(w) == desk' = [desk EXCEPT ![w] = Idle]
Read(w, record) ==
  /\ desk[w] = Idle
  /\ desk' = [desk EXCEPT ![w] = record]
  /\ UNCHANGED <<templateVars, asg, swap, offer, leave, draft>>

\* PUT /shifts/assignments/:id reads the row; s and d are what the body asks for.
EditRead(w, a, s, d) ==
  /\ a \in Rows /\ s \in exists
  /\ <<s, d>> # <<asg[a].shift, asg[a].day>>
  /\ \A b \in Rows \ {a} : ~(asg[b].user = asg[a].user /\ asg[b].day = d)
  /\ Read(w, [op |-> "edit", ids |-> {a}, a |-> a, shift |-> s, day |-> d, pub |-> asg[a].pub])

\* Mutant: a changed assignment keeps its acknowledgement.
EditedKept(row, r, gap) ==
  [row EXCEPT !.shift = r.shift, !.day = r.day, !.of = IF @ = "none" THEN @ ELSE "old", !.gap = gap]

\* The columns it writes: a row that was read as published is to be confirmed
\* again.  (The notice that is sent then may be lost, or skipped as a duplicate
\* of the one for an earlier change: no part of the schedule depends on it.)
Edited(row, r, gap) ==
  IF r.pub
  THEN [row EXCEPT !.shift = r.shift, !.day = r.day, !.ack = "pending", !.of = "none",
                   !.gap = IF gap = "raced" THEN gap ELSE "none"]
  ELSE [row EXCEPT !.shift = r.shift, !.day = r.day, !.of = IF @ = "none" THEN @ ELSE "old",
                   !.gap = gap]

\* The row and the template are still there and the unique index lets it pass.
EditPasses(r) ==
  /\ r.a \in Rows /\ r.shift \in exists
  /\ \A b \in Rows \ {r.a} : ~(asg[b].user = asg[r.a].user /\ asg[b].day = r.day)

EditWrite(w) ==
  LET r == desk[w]
  IN  /\ r.op = "edit"
      /\ Finish(w)
      /\ UNCHANGED <<templateVars, swap, offer, leave, draft>>
      /\ asg' = IF EditPasses(r) THEN [asg EXCEPT ![r.a] = Edited(asg[r.a], r, Gap(w, r.a))] ELSE asg

\* DELETE /shifts/assignments/:id; the rows of swaps refer to assignments.
DeleteAssignment(a) ==
  /\ a \in Rows
  /\ \A s \in SwapIds : swap[s] # None => a \notin {swap[s].req, swap[s].tgt}
  /\ asg' = [asg EXCEPT ![a] = None]
  /\ UNCHANGED <<templateVars, swap, offer, leave, draft, desk>>

\* DELETE /shifts/:id: assignments refer to the template, offers go with it.
DeleteShift(s) ==
  /\ \A a \in Rows : asg[a].shift # s
  /\ DeleteTemplate(s)
  /\ offer' = [o \in OfferIds |-> IF offer[o] # None /\ offer[o].shift = s THEN None ELSE offer[o]]
  /\ UNCHANGED <<asg, swap, leave, draft, desk>>

\* An approval of PUT /leave/requests/:id/approve, which does not look at shifts.
ApproveLeave(u, d) ==
  /\ ~OnLeave(u, d) /\ Cardinality(leave) < MaxLeave
  /\ leave' = leave \cup {<<u, d>>}
  /\ UNCHANGED <<templateVars, asg, swap, offer, draft, desk>>

-----------------------------------------------------------------------------
(* Publication and acknowledgement *)

\* evaluateScheduleCompliance: too little rest after the previous day's shift.
RestBreach(a) ==
  \E b \in Rows : asg[b].user = asg[a].user /\ asg[b].day + 1 = asg[a].day
                  /\ <<asg[b].shift, asg[a].shift>> \in TooClose

\* getScheduleIssues: scheduled on approved leave, which blocks the publication.
LeaveBreach(a) == OnLeave(asg[a].user, asg[a].day)

InWeek   == {a \in Rows : asg[a].day \in Week}
Findings == {a \in InWeek : RestBreach(a) \/ LeaveBreach(a)}

\* POST /shifts/schedule/publish reads the week and its findings.  A findings
\* record is written open when the publication is refused, overridden when the
\* reason of an authorised manager lets it through.
PublishRead(w, override) ==
  Read(w, [op |-> "publish", ids |-> InWeek, shifts |-> {asg[a].shift : a \in InWeek},
           found |-> Findings, override |-> override])

Refused(r) == r.found # {} /\ ~r.override

\* The findings of the week: open ones are resolved, those of this publication
\* are written again.
Recorded(a, r, status) ==
  IF a \in r.found THEN status ELSE IF asg[a].viol = "open" THEN "none" ELSE asg[a].viol

PublishRefuse(w) ==
  /\ desk[w].op = "publish" /\ Refused(desk[w])
  /\ Finish(w)
  /\ asg' = [a \in AsgIds |-> IF a \notin InWeek THEN asg[a]
                              ELSE [asg[a] EXCEPT !.viol = Recorded(a, desk[w], "open")]]
  /\ UNCHANGED <<templateVars, swap, offer, leave, draft>>

\* A row of the week whose template was in the week that was read is published
\* and, unless it was before, is to be confirmed.
Published(a, w) ==
  LET r == desk[w]
  IN  [asg[a] EXCEPT !.pub = TRUE, !.ack = IF @ = "not_required" THEN "pending" ELSE @,
                     !.gap = Gap(w, a),
                     !.viol = Recorded(a, r, "overridden")]

PublishCommit(w) ==
  LET r == desk[w]
  IN  /\ r.op = "publish" /\ ~Refused(r)
      /\ Finish(w)
      /\ listed' = listed \cup (r.shifts \cap exists)
      /\ asg' = [a \in AsgIds |->
                  IF a \notin InWeek THEN asg[a]
                  ELSE IF asg[a].shift \in r.shifts THEN Published(a, w)
                  ELSE [asg[a] EXCEPT !.viol = Recorded(a, r, "overridden")]]
      /\ UNCHANGED <<exists, flag, tx, together, swap, offer, leave, draft>>

\* POST /shifts/assignments/me/:id/acknowledgement: not_required is refused,
\* an answer given before is returned as it is.
MayAnswer(a) == asg[a].pub /\ asg[a].ack # "not_required"

AckRead(w, a, status) ==
  /\ a \in Rows /\ MayAnswer(a) /\ asg[a].ack # status
  /\ Read(w, [op |-> "ack", ids |-> {a}, a |-> a, status |-> status,
              version |-> <<asg[a].shift, asg[a].day>>])

AckWrite(w) ==
  LET r == desk[w]
  IN  /\ r.op = "ack"
      /\ Finish(w)
      /\ UNCHANGED <<templateVars, swap, offer, leave, draft>>
      /\ \/ /\ r.a \in Rows
            /\ asg' = [asg EXCEPT ![r.a] =
                 [@ EXCEPT !.ack = r.status, !.gap = Gap(w, r.a),
                           !.of = IF r.version = <<asg[r.a].shift, asg[r.a].day>> THEN "current" ELSE "old"]]
         \/ r.a \notin Rows /\ UNCHANGED asg

-----------------------------------------------------------------------------
(* Swaps *)

\* submitShiftSwap: a swap refers to an assignment at most once on each side.
SubmitSwap(s, a, b) ==
  /\ swap[s] = None /\ a \in Rows /\ b \in Rows /\ asg[a].user # asg[b].user
  /\ \A z \in SwapIds : swap[z] # None => swap[z].req # a /\ swap[z].tgt # b
  /\ swap' = [swap EXCEPT ![s] = [req |-> a, tgt |-> b, status |-> "pending", applied |-> 0, direct |-> FALSE]]
  /\ UNCHANGED <<templateVars, asg, offer, leave, draft, desk>>

\* The assistant's cancelMyRequest: a conditional update.
CancelSwap(s) ==
  /\ swap[s] # None /\ swap[s].status = "pending"
  /\ swap' = [swap EXCEPT ![s].status = "cancelled"]
  /\ UNCHANGED <<templateVars, asg, offer, leave, draft, desk>>

\* A decision reads the swap and both assignments: by the approvals inbox
\* (reviewApproval) or directly (PUT /shifts/swaps/:id/approve and /reject).
DecideSwap(w, s, approve, direct) ==
  /\ swap[s] # None
  /\ Read(w, [op |-> "swap", ids |-> {swap[s].req, swap[s].tgt}, s |-> s, approve |-> approve,
              direct |-> direct, req |-> asg[swap[s].req].shift, tgt |-> asg[swap[s].tgt].shift])

\* The inbox claims a pending swap and then refuses one that meets leave; the
\* direct route looks at neither.
InboxTakes(r) ==
  /\ swap[r.s].status = "pending"
  /\ r.approve => \A a \in {swap[r.s].req, swap[r.s].tgt} : ~OnLeave(asg[a].user, asg[a].day)

\* The shift a swap gives to row a, from the shifts that were read.
Swapped(a, w) ==
  LET r == desk[w]
      s == IF a = swap[r.s].req THEN r.tgt ELSE r.req
  IN  [asg[a] EXCEPT !.shift = s,
                     !.gap = IF Gap(w, a) = "raced" THEN "raced" ELSE "swapped",
                     !.of = IF @ = "none" \/ s = asg[a].shift THEN @ ELSE "old"]

SwapWrite(w) ==
  LET r == desk[w]
  IN  /\ r.op = "swap"
      /\ Finish(w)
      /\ UNCHANGED <<templateVars, offer, leave, draft>>
      /\ \/ /\ r.direct \/ InboxTakes(r)
            /\ r.approve => {r.req, r.tgt} \subseteq exists
            /\ swap' = [swap EXCEPT ![r.s].status = IF r.approve THEN "approved" ELSE "rejected",
                                    ![r.s].applied = IF r.approve /\ @ < 2 THEN @ + 1 ELSE @,
                                    ![r.s].direct = @ \/ r.direct]
            /\ asg' = [a \in AsgIds |-> IF r.approve /\ a \in {swap[r.s].req, swap[r.s].tgt}
                                        THEN Swapped(a, w) ELSE asg[a]]
         \/ /\ ~(r.direct \/ InboxTakes(r)) \/ (r.approve /\ ~({r.req, r.tgt} \subseteq exists))
            /\ UNCHANGED <<swap, asg>>

-----------------------------------------------------------------------------
(* Emergency offers *)

\* eligibleEmployees
Eligible(d) == {u \in Users : ~Assigned(u, d) /\ ~OnLeave(u, d)}

\* POST /shifts/open-shifts
OpenOffer(o, s, d) ==
  /\ offer[o] = None /\ s \in exists /\ Eligible(d) # {}
  /\ offer' = [offer EXCEPT ![o] = [shift |-> s, day |-> d, status |-> "open", claims |-> 0, raced |-> FALSE]]
  /\ UNCHANGED <<templateVars, asg, swap, leave, draft, desk>>

\* The update that locks an offer for its claimer.
Claimable(o) == offer[o] # None /\ offer[o].status = "open"

\* The rest the shifts of the day before and after leave to a shift s on day d.
Rested(u, s, d) ==
  \A b \in Rows : asg[b].user = u =>
    /\ asg[b].day + 1 = d => <<asg[b].shift, s>> \notin TooClose
    /\ asg[b].day = d + 1 => <<s, asg[b].shift>> \notin TooClose

Cancelling(o) == \E w \in Desks : desk[w].op = "cancel" /\ desk[w].o = o

\* POST /shifts/open-shifts/:id/claim: one transaction; a conflict rolls it back.
ClaimOffer(o, u) ==
  /\ Claimable(o)
  /\ LET s == offer[o].shift
         d == offer[o].day
     IN  /\ ~Assigned(u, d) /\ ~OnLeave(u, d) /\ Rested(u, s, d)
         /\ \E a \in AsgIds :
              /\ Fresh(a)
              /\ asg' = [asg EXCEPT ![a] = [NewRow(u, s, d) EXCEPT !.pub = TRUE]]
         /\ offer' = [offer EXCEPT ![o].status = "claimed", ![o].claims = IF @ < 2 THEN @ + 1 ELSE @,
                                   ![o].raced = @ \/ Cancelling(o)]
  /\ UNCHANGED <<templateVars, swap, leave, draft, desk>>

\* GET /shifts/open-shifts first expires the open offers that are past their time.
ExpireOffer(o) ==
  /\ offer[o] # None /\ offer[o].status = "open"
  /\ offer' = [offer EXCEPT ![o].status = "expired"]
  /\ UNCHANGED <<templateVars, asg, swap, leave, draft, desk>>

Cancellable(o) == offer[o] # None /\ offer[o].status = "open"

\* POST /shifts/open-shifts/:id/cancel reads an open offer and writes it by id.
CancelRead(w, o) == Cancellable(o) /\ Read(w, [op |-> "cancel", ids |-> {}, o |-> o])
CancelWrite(w) ==
  /\ desk[w].op = "cancel"
  /\ Finish(w)
  /\ offer' = IF offer[desk[w].o] = None THEN offer
              ELSE [offer EXCEPT ![desk[w].o].status = "cancelled"]
  /\ UNCHANGED <<templateVars, asg, swap, leave, draft>>

-----------------------------------------------------------------------------
(* The language model's plan *)

\* A suggestion that POST /shifts/ai-schedule keeps.
Schedulable(t, taken) ==
  t[3] \in Week /\ t[2] \in exists /\ <<t[1], t[3]>> \notin taken /\ ~OnLeave(t[1], t[3])

\* Whatever plan the model answers, the handler keeps the suggestions that the
\* rows it has read allow, the first of each user and day.
AiSchedule(plan) ==
  LET taken == {<<asg[a].user, asg[a].day>> : a \in InWeek}
      good  == {t \in plan : Schedulable(t, taken)}
  IN  /\ plan # {} /\ draft.rows = {}
      /\ \E kept \in SUBSET good :
           /\ OnePerDay(kept)
           /\ \A t \in good : \E x \in kept : x[1] = t[1] /\ x[3] = t[3]
           /\ draft' = [rows |-> kept, taken |-> taken, leave |-> leave]
      /\ UNCHANGED <<templateVars, asg, swap, offer, leave, desk>>

-----------------------------------------------------------------------------
RosterNext ==
  \/ \E u \in Users, s \in Shifts, d \in Days : CreateAssignment(u, s, d)
  \/ \E a \in AsgIds : DeleteAssignment(a)
  \/ \E w \in Desks, a \in AsgIds, s \in Shifts, d \in Days : EditRead(w, a, s, d)
  \/ \E w \in Desks : EditWrite(w)
  \/ \E u \in Users, d \in Days : ApproveLeave(u, d)

PublishNext ==
  \/ \E w \in Desks, override \in BOOLEAN : PublishRead(w, override)
  \/ \E w \in Desks : PublishRefuse(w) \/ PublishCommit(w) \/ AckWrite(w)
  \/ \E w \in Desks, a \in AsgIds, status \in {"acknowledged", "conflict"} : AckRead(w, a, status)

PlanNext ==
  \/ CopyWeek
  \/ BulkAssign
  \/ \E plan \in SUBSET (Users \X Shifts \X Days) : AiSchedule(plan)

SwapNext ==
  \/ \E s \in SwapIds, a, b \in AsgIds : SubmitSwap(s, a, b)
  \/ \E s \in SwapIds : CancelSwap(s)
  \/ \E w \in Desks, s \in SwapIds, approve, direct \in BOOLEAN : DecideSwap(w, s, approve, direct)
  \/ \E w \in Desks : SwapWrite(w)

OfferNext ==
  \/ \E o \in OfferIds, s \in Shifts, d \in Days : OpenOffer(o, s, d)
  \/ \E o \in OfferIds, u \in Users : ClaimOffer(o, u)
  \/ \E o \in OfferIds : ExpireOffer(o)
  \/ \E w \in Desks, o \in OfferIds : CancelRead(w, o)
  \/ \E w \in Desks : CancelWrite(w)

Init == TemplateInit /\ RosterInit

Next ==
  \/ TemplateNext /\ UNCHANGED rosterVars
  \/ \E s \in Shifts : DeleteShift(s)
  \/ RosterNext \/ PublishNext \/ PlanNext \/ SwapNext \/ OfferNext

Spec == Init /\ [][Next]_vars

-----------------------------------------------------------------------------
(* Properties *)

\* An employee is asked to acknowledge published assignments only: no order of
\* edits, publications, swaps and answers leaves an unpublished row in the
\* acknowledgement flow.
AskedOnlyIfPublished == \A a \in Rows : asg[a].ack # "not_required" => asg[a].pub

\* An answered assignment is the one the employee answered: a change of its
\* shift or date puts it back to pending.  The exceptions are exactly a swap,
\* which never asks again, and a row that two requests worked on at once.
AnsweredWhatWasSent ==
  \A a \in Rows : asg[a].ack \in {"acknowledged", "conflict"} => asg[a].of = "current" \/ asg[a].gap # "none"

\* A blocking finding that is recorded as overridden is of a published
\* assignment, unless the assignment changed while it was being published.
OverriddenIsPublished == \A a \in Rows : asg[a].viol = "overridden" => asg[a].pub \/ asg[a].gap = "raced"

\* A swap decided in the approvals inbox exchanges the shifts once when it is
\* approved and never when it is rejected, however many managers decide it.
SwapDecidedOnce ==
  \A s \in SwapIds : swap[s] # None /\ ~swap[s].direct =>
    swap[s].applied = IF swap[s].status = "approved" THEN 1 ELSE 0

\* An emergency offer becomes an assignment once, for one employee.
OfferFilledOnce ==
  \A o \in OfferIds : offer[o] # None => offer[o].claims <= 1 /\ (offer[o].status = "claimed" => offer[o].claims = 1)

\* A withdrawn or expired offer was not filled, unless the claim and the
\* withdrawal overlapped.
WithdrawnUnfilled ==
  \A o \in OfferIds : offer[o] # None /\ offer[o].status \in {"cancelled", "expired"} =>
    offer[o].claims = 0 \/ offer[o].raced

\* Whatever the language model answers, a draft puts nobody on a day twice, on
\* a day on which he was scheduled, or on a day on which he was on leave.
DraftSound ==
  /\ OnePerDay(draft.rows)
  /\ \A t \in draft.rows : <<t[1], t[3]>> \notin draft.taken \cup draft.leave

\* Publications, answers, swaps, offers and drafts agree with the assignments they
\* are about, but for the overlaps that each part names.
RosterSafe ==
  /\ TypeOK
  /\ AskedOnlyIfPublished
  /\ AnsweredWhatWasSent
  /\ OverriddenIsPublished
  /\ SwapDecidedOnce
  /\ OfferFilledOnce
  /\ WithdrawnUnfilled
  /\ DraftSound
=============================================================================
