------------------------------- MODULE Payroll -------------------------------
(***************************************************************************)
(* One payroll period of one organisation: the rows of payroll_records,    *)
(* the source data they are computed from, the two Redis leases, the        *)
(* payslip objects, and the requests of src/src/routes/payroll.ts (plus     *)
(* expense reimbursement and the auto-generate cron) that work on them.     *)
(*                                                                         *)
(* A request is a process: every database, Redis or S3 call of its handler  *)
(* is one step, so that what it read before an await may be out of date     *)
(* when it is used.  Pay figures are abstracted to what they were computed  *)
(* from: the version of the attendance rows, the version of the pay rules   *)
(* and the manual adjustment that went into the gross amount.               *)
(***************************************************************************)
EXTENDS Integers, FiniteSets

CONSTANTS
  Users,          \* active employees of the organisation
  Makers,         \* administrators with the permission payroll.manage
  Checkers,       \* administrators with the permission payroll.process
  Procs,          \* concurrent requests (and cron runs)
  Claims,         \* approved expense claims, one unit of currency each
  ClaimUser,      \* the employee of each claim
  Operations,     \* the endpoints that requests may call
  AdjustValues,   \* values PUT /:id/adjust may set manual_adjustment to
  MaxAtt,         \* bound: versions of an employee's attendance rows
  MaxRate,        \* bound: versions of the pay rules of an employee
  LeaseMayBeLost, \* TRUE when a live holder may lose its lease (failed renewal)
  Failures,       \* the failures that happen, among "abort" and "crash"
  None, NoPdf,
  DeletedPdf      \* no object: deleted by the run that finalized the record

ASSUME ConstantsAssumption ==
  /\ Procs # {} /\ None \notin Procs /\ None \notin Makers \cup Checkers /\ "dead" \notin Procs
  /\ None # "dead" /\ NoPdf # DeletedPdf
  /\ {NoPdf, DeletedPdf} \cap [att : Nat, rate : Nat, adj : Nat] = {}
  /\ ClaimUser \in [Claims -> Users]
  /\ AdjustValues \subseteq Nat
  /\ MaxAtt \in Nat \ {0} /\ MaxRate \in Nat
  /\ LeaseMayBeLost \in BOOLEAN

VARIABLES
  rec,       \* payroll_records of the period, by employee
  att,       \* version of the employee's attendance rows in the period
  rate,      \* version of the employee's pay rules; 0 is a zero pay rate
  claim,     \* expense_claims.status
  payslip,   \* the S3 object at the (deterministic) payslip key
  notified,  \* payslip_ready outbox rows written, by employee
  lease,     \* Redis keys payroll-process:<org>:<period>, payroll-config:<org>
  pc,        \* where a request is
  actor,     \* req.user.sub of a request
  cur,       \* the employee a request is working on
  todo,      \* the employees a loop has still to visit
  snap,      \* payroll_records rows as a request read them
  seenAtt,   \* attendance version read by the request for cur
  seenRate,  \* pay-rule versions read by the request
  arg,       \* the claim, or the adjustment value, a request was called with
  raced      \* history: a source row changed under figures in flight

dbVars  == <<rec, att, rate, claim, payslip, notified>>
locVars == <<actor, cur, todo, snap, seenAtt, seenRate, arg>>
vars == <<dbVars, lease, pc, locVars, raced>>

-----------------------------------------------------------------------------
(* Types *)

Manual   == 0                 \* base pay of hours typed in by hand
Versions == 0 .. MaxAtt
Rates    == 0 .. MaxRate
Leases   == {"period", "config"}
Admins   == Makers \cup Checkers
Status   == {"none", "draft", "processed", "recalled"}
Base     == [att : Versions, rate : Rates]
Gross    == [att : Versions, rate : Rates, adj : Nat]
Record   == [status : Status, stale : BOOLEAN, incomplete : BOOLEAN, adj : Nat,
             base : Base, gross : Gross,
             generated_by : Admins \cup {None}, processed_by : Admins \cup {None}]

NoBase   == [att |-> Manual, rate |-> 0]
GrossOf(base, adj) == [att |-> base.att, rate |-> base.rate, adj |-> adj]
NoRecord == [status |-> "none", stale |-> FALSE, incomplete |-> FALSE, adj |-> 0,
             base |-> NoBase, gross |-> GrossOf(NoBase, 0),
             generated_by |-> None, processed_by |-> None]

GenPc     == {"gen_lease2", "gen_load", "gen_pick", "gen_write"}
AdjustPc  == {"adj_lease", "adj_lease2", "adj_write"}
ProcessPc == {"proc_lease2", "proc_check", "proc_load", "proc_pick", "proc_final",
              "proc_clean"}
AutoPc    == {"auto_pick", "auto_write"}
Labels    == {"idle", "rate_write", "recall_write", "reimb_read", "reimb_write"}
             \cup GenPc \cup AutoPc \cup AdjustPc \cup ProcessPc

\* A request at one of these labels has taken the period lease.
PeriodPc  == (GenPc \cup AdjustPc \cup ProcessPc) \ {"adj_lease"}
\* ... and at one of these also the configuration lease.
ConfigPc  == (PeriodPc \ {"gen_lease2", "adj_lease2", "proc_lease2"}) \cup {"rate_write"}

TypeOK ==
  /\ rec \in [Users -> Record]
  /\ att \in [Users -> 1 .. MaxAtt]
  /\ rate \in [Users -> Rates]
  /\ claim \in [Claims -> {"approved", "reimbursed"}]
  /\ payslip \in [Users -> Gross \cup {NoPdf, DeletedPdf}]
  /\ notified \in [Users -> Nat]
  /\ lease \in [Leases -> Procs \cup {None, "dead"}]
  /\ pc \in [Procs -> Labels]
  /\ actor \in [Procs -> Admins \cup {None}]
  /\ cur \in [Procs -> Users \cup {None}]
  /\ todo \in [Procs -> SUBSET Users]
  /\ snap \in [Procs -> [Users -> Record]]
  /\ seenAtt \in [Procs -> Versions]
  /\ seenRate \in [Procs -> [Users -> Rates]]
  /\ arg \in [Procs -> Claims \cup AdjustValues \cup {None}]
  /\ raced \in [Users -> BOOLEAN]

-----------------------------------------------------------------------------
(* Leases and the life cycle of a request *)

Held(p)    == {l \in Leases : lease[l] = p}
Freed(p)   == [l \in Leases |-> IF lease[l] = p THEN None ELSE lease[l]]
Exists(u)  == rec[u].status # "none"

\* A request ends: its local variables go back to their initial values, so that
\* finished requests are indistinguishable.
Forget(p) ==
  /\ pc' = [pc EXCEPT ![p] = "idle"]
  /\ actor' = [actor EXCEPT ![p] = None]
  /\ cur' = [cur EXCEPT ![p] = None]
  /\ todo' = [todo EXCEPT ![p] = {}]
  /\ snap' = [snap EXCEPT ![p] = [u \in Users |-> NoRecord]]
  /\ seenAtt' = [seenAtt EXCEPT ![p] = 0]
  /\ seenRate' = [seenRate EXCEPT ![p] = [u \in Users |-> 0]]
  /\ arg' = [arg EXCEPT ![p] = None]

\* The finally block: the leases this request still holds are released; when
\* Redis fails the release, the error is swallowed and the key outlives its owner.
Finish(p) ==
  /\ Forget(p)
  /\ \E kept \in SUBSET IF "crash" \in Failures THEN Held(p) ELSE {} :
       lease' = [l \in Leases |-> IF l \in kept THEN "dead" ELSE Freed(p)[l]]

Take(p, l) == lease' = [lease EXCEPT ![l] = p]

\* Request p has read the attendance rows, or the pay rules (read before the
\* loop, for all employees), of u and will write figures computed from them.
AttendanceInFlight(p, u) == cur[p] = u /\ pc[p] \in {"gen_write", "auto_write"}
RateInFlight(p, u) ==
  u \in todo[p] /\ pc[p] \in {"gen_pick", "gen_write", "auto_pick", "auto_write"}
\* Request p has read the record of u and will write figures computed from it.
RecordInFlight(p, u) == cur[p] = u /\ pc[p] \in AdjustPc \cup {"reimb_write"}

\* History: the figures of u are recomputed while another request holds older ones.
RacedBy(p, u) ==
  [raced EXCEPT ![u] = @ \/ \E q \in Procs \ {p} :
                               AttendanceInFlight(q, u) \/ RecordInFlight(q, u)]

Init ==
  /\ rec = [u \in Users |-> NoRecord]
  /\ att = [u \in Users |-> 1]
  /\ rate \in [Users -> Rates \cap {0, 1}]
  /\ claim = [c \in Claims |-> "approved"]
  /\ payslip = [u \in Users |-> NoPdf]
  /\ notified = [u \in Users |-> 0]
  /\ lease = [l \in Leases |-> None]
  /\ pc = [p \in Procs |-> "idle"]
  /\ actor = [p \in Procs |-> None]
  /\ cur = [p \in Procs |-> None]
  /\ todo = [p \in Procs |-> {}]
  /\ snap = [p \in Procs |-> [u \in Users |-> NoRecord]]
  /\ seenAtt = [p \in Procs |-> 0]
  /\ seenRate = [p \in Procs |-> [u \in Users |-> 0]]
  /\ arg = [p \in Procs |-> None]
  /\ raced = [u \in Users |-> FALSE]

\* acquirePayrollPeriodLease for POST /generate and POST /process-full; a busy
\* lease answers 409 and changes nothing.
TakePeriod(p, a, op, label) ==
  /\ op \in Operations /\ pc[p] = "idle"
  /\ lease["period"] = None
  /\ Take(p, "period")
  /\ pc' = [pc EXCEPT ![p] = label]
  /\ actor' = [actor EXCEPT ![p] = a]
  /\ UNCHANGED <<dbVars, cur, todo, snap, seenAtt, seenRate, arg, raced>>

\* acquirePayrollConfigurationLease, after the period lease: busy means 409 and
\* the finally block gives the period lease back.
TakeConfig(p, from, label) ==
  /\ pc[p] = from
  /\ IF lease["config"] = None
       THEN /\ Take(p, "config")
            /\ pc' = [pc EXCEPT ![p] = label]
            /\ UNCHANGED locVars
       ELSE Finish(p)
  /\ UNCHANGED <<dbVars, raced>>

-----------------------------------------------------------------------------
(* POST /payroll/generate *)

GenerateStart(p, a) == TakePeriod(p, a, "generate", "gen_lease2")
GenerateConfig(p)   == TakeConfig(p, "gen_lease2", "gen_load")

\* Mutant: processed rows are not skipped.
GenerateLoadAll(p) ==
  /\ pc[p] = "gen_load"
  /\ snap' = [snap EXCEPT ![p] = rec]
  /\ seenRate' = [seenRate EXCEPT ![p] = rate]
  /\ todo' = [todo EXCEPT ![p] = Users]
  /\ pc' = [pc EXCEPT ![p] = "gen_pick"]
  /\ UNCHANGED <<dbVars, lease, actor, cur, seenAtt, arg, raced>>

\* Existing rows, pay rates and organisation rates are read once for the run;
\* processed rows are skipped.
GenerateLoad(p) ==
  /\ pc[p] = "gen_load"
  /\ snap' = [snap EXCEPT ![p] = rec]
  /\ seenRate' = [seenRate EXCEPT ![p] = rate]
  /\ todo' = [todo EXCEPT ![p] = {u \in Users : rec[u].status # "processed"}]
  /\ pc' = [pc EXCEPT ![p] = "gen_pick"]
  /\ UNCHANGED <<dbVars, lease, actor, cur, seenAtt, arg, raced>>

\* The next employee's attendance rows are read.
ReadAttendance(p, from, label) ==
  \E u \in todo[p] :
    /\ pc[p] = from
    /\ cur' = [cur EXCEPT ![p] = u]
    /\ seenAtt' = [seenAtt EXCEPT ![p] = att[u]]
    /\ pc' = [pc EXCEPT ![p] = label]
    /\ UNCHANGED <<dbVars, lease, actor, todo, snap, seenRate, arg, raced>>

GenerateRead(p) == ReadAttendance(p, "gen_pick", "gen_write")

\* Mutant: regeneration computes the totals without the manual adjustment.
ComputedAfresh(p, u, by) ==
  LET base == [att |-> seenAtt[p], rate |-> seenRate[p][u]]
  IN  [status |-> IF Exists(u) THEN rec[u].status ELSE "draft",
       stale |-> FALSE, incomplete |-> seenRate[p][u] = 0,
       adj |-> rec[u].adj, base |-> base, gross |-> GrossOf(base, 0),
       generated_by |-> by, processed_by |-> rec[u].processed_by]

\* The columns an upsert writes from what was read: status and
\* manual_adjustment are not among them.
Computed(p, u, by) ==
  LET base == [att |-> seenAtt[p], rate |-> seenRate[p][u]]
  IN  [status |-> IF Exists(u) THEN rec[u].status ELSE "draft",
       stale |-> FALSE, incomplete |-> seenRate[p][u] = 0,
       adj |-> rec[u].adj, base |-> base, gross |-> GrossOf(base, snap[p][u].adj),
       generated_by |-> by, processed_by |-> rec[u].processed_by]

Visited(p, label) ==
  /\ todo' = [todo EXCEPT ![p] = @ \ {cur[p]}]
  /\ pc' = [pc EXCEPT ![p] = label]

GenerateWrite(p) ==
  /\ pc[p] = "gen_write"
  /\ rec' = [rec EXCEPT ![cur[p]] = Computed(p, cur[p], actor[p])]
  /\ raced' = RacedBy(p, cur[p])
  /\ Visited(p, "gen_pick")
  /\ UNCHANGED <<att, rate, claim, payslip, notified, lease, actor, cur, snap,
                 seenAtt, seenRate, arg>>

GenerateEnd(p) ==
  /\ pc[p] = "gen_pick" /\ todo[p] = {}
  /\ Finish(p)
  /\ UNCHANGED <<dbVars, raced>>

-----------------------------------------------------------------------------
(* The payroll auto-generate cron: no payroll lease (one run at a time is the *)
(* scheduler's job lock), and it only creates rows that are missing.          *)

AutoGenerateStart(p) ==
  /\ "auto" \in Operations /\ pc[p] = "idle"
  /\ \A q \in Procs : pc[q] \notin AutoPc
  /\ snap' = [snap EXCEPT ![p] = rec]
  /\ seenRate' = [seenRate EXCEPT ![p] = rate]
  /\ todo' = [todo EXCEPT ![p] = {u \in Users : ~Exists(u)}]
  /\ pc' = [pc EXCEPT ![p] = "auto_pick"]
  /\ UNCHANGED <<dbVars, lease, actor, cur, seenAtt, arg, raced>>

AutoGenerateRead(p) == ReadAttendance(p, "auto_pick", "auto_write")

\* A unique-constraint error (P2002) means that another worker inserted the row.
AutoGenerateWrite(p) ==
  /\ pc[p] = "auto_write"
  /\ rec' = IF Exists(cur[p]) THEN rec
            ELSE [rec EXCEPT ![cur[p]] = Computed(p, cur[p], None)]
  /\ raced' = RacedBy(p, cur[p])
  /\ Visited(p, "auto_pick")
  /\ UNCHANGED <<att, rate, claim, payslip, notified, lease, actor, cur, snap,
                 seenAtt, seenRate, arg>>

AutoGenerateEnd(p) ==
  /\ pc[p] = "auto_pick" /\ todo[p] = {}
  /\ Forget(p)
  /\ UNCHANGED <<dbVars, lease, raced>>

-----------------------------------------------------------------------------
(* PUT /payroll/:id/adjust: the row is read before the leases are taken. *)

AdjustRead(p, a, u, v) ==
  /\ "adjust" \in Operations /\ pc[p] = "idle" /\ Exists(u)
  /\ snap' = [snap EXCEPT ![p][u] = rec[u]]
  /\ cur' = [cur EXCEPT ![p] = u]
  /\ arg' = [arg EXCEPT ![p] = v]
  /\ actor' = [actor EXCEPT ![p] = a]
  /\ pc' = [pc EXCEPT ![p] = "adj_lease"]
  /\ UNCHANGED <<dbVars, lease, todo, seenAtt, seenRate, raced>>

AdjustPeriod(p) ==
  /\ pc[p] = "adj_lease"
  /\ IF lease["period"] = None
       THEN /\ Take(p, "period")
            /\ pc' = [pc EXCEPT ![p] = "adj_lease2"]
            /\ UNCHANGED locVars
       ELSE Finish(p)
  /\ UNCHANGED <<dbVars, raced>>

AdjustConfig(p) == TakeConfig(p, "adj_lease2", "adj_write")

\* field = "adjustments" carries a value; field = "regular_hours" (None here)
\* replaces the base pay.  Base and gross pay come from the row as it was read.
Adjusted(old, row, v) ==
  LET adj  == IF v = None THEN row.adj ELSE v
      base == IF v = None THEN [row.base EXCEPT !.att = Manual] ELSE row.base
  IN  [old EXCEPT !.adj = IF v = None THEN @ ELSE v,
                  !.base = base, !.gross = GrossOf(base, adj)]

AdjustWrite(p) ==
  LET u == cur[p] IN
  /\ pc[p] = "adj_write"
  /\ IF snap[p][u].status = "processed"
       THEN UNCHANGED <<rec, raced>>
       ELSE /\ rec' = [rec EXCEPT ![u] = Adjusted(rec[u], snap[p][u], arg[p])]
            /\ raced' = RacedBy(p, u)
  /\ Finish(p)
  /\ UNCHANGED <<att, rate, claim, payslip, notified>>

-----------------------------------------------------------------------------
(* POST /payroll/:id/recall: no lease; the row is read, then updated by id. *)

RecallRead(p, a, u) ==
  /\ "recall" \in Operations /\ pc[p] = "idle"
  /\ rec[u].status = "processed"
  /\ cur' = [cur EXCEPT ![p] = u]
  /\ actor' = [actor EXCEPT ![p] = a]
  /\ pc' = [pc EXCEPT ![p] = "recall_write"]
  /\ UNCHANGED <<dbVars, lease, todo, snap, seenAtt, seenRate, arg, raced>>

RecallWrite(p) ==
  /\ pc[p] = "recall_write"
  /\ rec' = [rec EXCEPT ![cur[p]].status = "recalled"]
  /\ Forget(p)
  /\ UNCHANGED <<att, rate, claim, payslip, notified, lease, raced>>

-----------------------------------------------------------------------------
(* POST /payroll/process-full *)

ProcessStart(p, a) == TakePeriod(p, a, "process", "proc_lease2")
ProcessConfig(p)   == TakeConfig(p, "proc_lease2", "proc_check")

\* Incomplete rows or stale drafts refuse the run.
ProcessCheck(p) ==
  /\ pc[p] = "proc_check"
  /\ IF \E u \in Users : rec[u].incomplete \/ (rec[u].status = "draft" /\ rec[u].stale)
       THEN Finish(p)
       ELSE /\ pc' = [pc EXCEPT ![p] = "proc_load"]
            /\ UNCHANGED <<lease, locVars>>
  /\ UNCHANGED <<dbVars, raced>>

\* Mutants: the maker check is dropped; processed rows are loaded again.
ProcessLoadAnyone(p) ==
  LET open == {u \in Users : rec[u].status \in {"draft", "recalled"}} IN
  /\ pc[p] = "proc_load"
  /\ IF open = {}
       THEN Finish(p)
       ELSE /\ snap' = [snap EXCEPT ![p] = rec]
            /\ todo' = [todo EXCEPT ![p] = open]
            /\ pc' = [pc EXCEPT ![p] = "proc_pick"]
            /\ UNCHANGED <<lease, actor, cur, seenAtt, seenRate, arg>>
  /\ UNCHANGED <<dbVars, raced>>

ProcessLoadAll(p) ==
  LET open == {u \in Users : Exists(u)} IN
  /\ pc[p] = "proc_load"
  /\ IF open = {} \/ \E u \in open : rec[u].generated_by = actor[p]
       THEN Finish(p)
       ELSE /\ snap' = [snap EXCEPT ![p] = rec]
            /\ todo' = [todo EXCEPT ![p] = open]
            /\ pc' = [pc EXCEPT ![p] = "proc_pick"]
            /\ UNCHANGED <<lease, actor, cur, seenAtt, seenRate, arg>>
  /\ UNCHANGED <<dbVars, raced>>

\* The unprocessed rows are loaded; the maker of one of them may not process.
ProcessLoad(p) ==
  LET open == {u \in Users : rec[u].status \in {"draft", "recalled"}} IN
  /\ pc[p] = "proc_load"
  /\ IF open = {} \/ \E u \in open : rec[u].generated_by = actor[p]
       THEN Finish(p)
       ELSE /\ snap' = [snap EXCEPT ![p] = rec]
            /\ todo' = [todo EXCEPT ![p] = open]
            /\ pc' = [pc EXCEPT ![p] = "proc_pick"]
            /\ UNCHANGED <<lease, actor, cur, seenAtt, seenRate, arg>>
  /\ UNCHANGED <<dbVars, raced>>

\* The PDF is rendered from the loaded row and uploaded under the period's key.
ProcessUpload(p) ==
  \E u \in todo[p] :
    /\ pc[p] = "proc_pick"
    /\ payslip' = [payslip EXCEPT ![u] = snap[p][u].gross]
    /\ cur' = [cur EXCEPT ![p] = u]
    /\ pc' = [pc EXCEPT ![p] = "proc_final"]
    /\ UNCHANGED <<rec, att, rate, claim, notified, lease, actor, todo, snap,
                   seenAtt, seenRate, arg, raced>>

\* PDF generation failed, or the upload did, perhaps after the object was written
\* (it is then left behind): the run goes on with the next employee.
ProcessUploadFails(p) ==
  \E u \in todo[p] :
    /\ pc[p] = "proc_pick"
    /\ payslip' \in {payslip, [payslip EXCEPT ![u] = snap[p][u].gross]}
    /\ todo' = [todo EXCEPT ![p] = @ \ {u}]
    /\ UNCHANGED <<rec, att, rate, claim, notified, lease, pc, actor, cur, snap, seenAtt, seenRate, arg, raced>>

\* Mutants: the update is not conditional on freshness; not on the draft status.
FinalizableDraft(u) == rec[u].status = "draft"
FinalizableFresh(u) == Exists(u) /\ ~rec[u].stale

\* Only a fresh draft is finalized.
Finalizable(u) == rec[u].status = "draft" /\ ~rec[u].stale

\* The conditional transition and its outbox row commit together.  The reply may
\* be lost: the handler then takes the transaction for failed.
ProcessFinalize(p) ==
  LET u == cur[p] IN
  /\ pc[p] = "proc_final" /\ Finalizable(u)
  /\ rec' = [rec EXCEPT ![u].status = "processed", ![u].processed_by = actor[p]]
  /\ notified' = [notified EXCEPT ![u] = @ + 1]
  /\ \E label \in {"proc_pick", "proc_clean"} : Visited(p, label)
  /\ UNCHANGED <<att, rate, claim, payslip, lease, actor, cur, snap, seenAtt,
                 seenRate, arg, raced>>

\* The catch block after a finalization that was committed and not answered: the
\* object of the processed record is deleted, unless that fails too.
ProcessCleanup(p) ==
  /\ pc[p] = "proc_clean"
  /\ payslip' \in {payslip, [payslip EXCEPT ![cur[p]] = DeletedPdf]}
  /\ pc' = [pc EXCEPT ![p] = "proc_pick"]
  /\ UNCHANGED <<rec, att, rate, claim, notified, lease, locVars, raced>>

\* No row matched, or the transaction was rolled back: the uploaded object is deleted,
\* unless the clean-up fails too.
ProcessRejected(p) ==
  LET u == cur[p] IN
  /\ pc[p] = "proc_final"
  /\ payslip' \in {payslip, [payslip EXCEPT ![u] = NoPdf]}
  /\ Visited(p, "proc_pick")
  /\ UNCHANGED <<rec, att, rate, claim, notified, lease, actor, cur, snap,
                 seenAtt, seenRate, arg, raced>>

ProcessEnd(p) ==
  /\ pc[p] = "proc_pick" /\ todo[p] = {}
  /\ Finish(p)
  /\ UNCHANGED <<dbVars, raced>>

-----------------------------------------------------------------------------
(* POST /expenses/:id/reimburse: no lease; claim, then row, then the write. *)

ReimburseStart(p, c) ==
  /\ "reimburse" \in Operations /\ pc[p] = "idle"
  /\ claim[c] = "approved"
  /\ cur' = [cur EXCEPT ![p] = ClaimUser[c]]
  /\ arg' = [arg EXCEPT ![p] = c]
  /\ pc' = [pc EXCEPT ![p] = "reimb_read"]
  /\ UNCHANGED <<dbVars, lease, actor, todo, snap, seenAtt, seenRate, raced>>

ReimburseRead(p) ==
  LET u == cur[p] IN
  /\ pc[p] = "reimb_read"
  /\ IF rec[u].status \in {"none", "processed"}
       THEN Forget(p)
       ELSE /\ snap' = [snap EXCEPT ![p][u] = rec[u]]
            /\ pc' = [pc EXCEPT ![p] = "reimb_write"]
            /\ UNCHANGED <<actor, cur, todo, seenAtt, seenRate, arg>>
  /\ UNCHANGED <<dbVars, lease, raced>>

\* Mutants: the claim is left approved; the amount is taken off the pay.
ReimburseWritePayOnly(p) ==
  LET u == cur[p]
      adj == snap[p][u].adj + 1 IN
  /\ pc[p] = "reimb_write"
  /\ rec' = [rec EXCEPT ![u].adj = adj, ![u].gross = GrossOf(snap[p][u].base, adj)]
  /\ Forget(p)
  /\ UNCHANGED <<att, rate, claim, payslip, notified, lease, raced>>

ReimburseWriteDeducts(p) ==
  LET u == cur[p]
      adj == snap[p][u].adj - 1 IN
  /\ pc[p] = "reimb_write"
  /\ rec' = [rec EXCEPT ![u].adj = adj, ![u].gross = GrossOf(snap[p][u].base, adj)]
  /\ claim' = [claim EXCEPT ![arg[p]] = "reimbursed"]
  /\ Forget(p)
  /\ UNCHANGED <<att, rate, payslip, notified, lease, raced>>

ReimburseWrite(p) ==
  LET u == cur[p]
      adj == snap[p][u].adj + 1 IN
  /\ pc[p] = "reimb_write"
  /\ rec' = [rec EXCEPT ![u].adj = adj, ![u].gross = GrossOf(snap[p][u].base, adj)]
  /\ claim' = [claim EXCEPT ![arg[p]] = "reimbursed"]
  /\ Forget(p)
  /\ UNCHANGED <<att, rate, payslip, notified, lease, raced>>

-----------------------------------------------------------------------------
(* The source data *)

\* Any write of an attendance row of the period, through the trigger
\* enforce_attendance_payroll_input_integrity: refused for a processed row,
\* marks a draft stale, passes silently for a recalled row.
AttendanceWrite(u) ==
  /\ att[u] < MaxAtt
  /\ rec[u].status # "processed"
  /\ att' = [att EXCEPT ![u] = @ + 1]
  /\ rec' = IF rec[u].status = "draft" THEN [rec EXCEPT ![u].stale = TRUE] ELSE rec
  /\ raced' = [raced EXCEPT ![u] = @ \/ \E p \in Procs : AttendanceInFlight(p, u)]
  /\ UNCHANGED <<rate, claim, payslip, notified, lease, pc, locVars>>

\* Mutant: drafts are not marked stale.
NewRatesOnly(S) ==
  /\ \A u \in S : rate[u] < MaxRate
  /\ rate' = [u \in Users |-> IF u \in S THEN rate[u] + 1 ELSE rate[u]]
  /\ UNCHANGED rec

\* New pay rules for the employees in S: their drafts become stale.
NewRates(S) ==
  /\ \A u \in S : rate[u] < MaxRate
  /\ rate' = [u \in Users |-> IF u \in S THEN rate[u] + 1 ELSE rate[u]]
  /\ rec' = [u \in Users |-> IF u \in S /\ rec[u].status = "draft"
                               THEN [rec[u] EXCEPT !.stale = TRUE] ELSE rec[u]]

\* PUT /users/:id with an hourly rate: one transaction, no lease.
UserRateWrite(u) ==
  /\ "user_rate" \in Operations
  /\ NewRates({u})
  /\ raced' = [raced EXCEPT ![u] = @ \/ \E p \in Procs : RateInFlight(p, u)]
  /\ UNCHANGED <<att, claim, payslip, notified, lease, pc, locVars>>

\* PUT /payroll/rates/:userId, activation of a statutory set and organisation
\* rate settings: one transaction under the configuration lease.
RateStart(p, S) ==
  /\ "rates" \in Operations /\ pc[p] = "idle"
  /\ lease["config"] = None
  /\ Take(p, "config")
  /\ todo' = [todo EXCEPT ![p] = S]
  /\ pc' = [pc EXCEPT ![p] = "rate_write"]
  /\ UNCHANGED <<dbVars, actor, cur, snap, seenAtt, seenRate, arg, raced>>

RateWrite(p) ==
  /\ pc[p] = "rate_write"
  /\ NewRates(todo[p])
  /\ raced' = [u \in Users |-> \/ raced[u]
                               \/ u \in todo[p] /\ \E q \in Procs :
                                    RateInFlight(q, u) /\ pc[q] \in AutoPc]
  /\ Finish(p)
  /\ UNCHANGED <<att, claim, payslip, notified>>

-----------------------------------------------------------------------------
(* Failures *)

\* A call of the handler throws: the finally block runs.
Abort(p) ==
  /\ "abort" \in Failures /\ pc[p] # "idle"
  /\ Finish(p)
  /\ UNCHANGED <<dbVars, raced>>

\* The API instance dies: its leases stay until their TTL runs out.
Crash(p) ==
  /\ "crash" \in Failures /\ pc[p] # "idle" /\ Held(p) # {}
  /\ Forget(p)
  /\ lease' = [l \in Leases |-> IF lease[l] = p THEN "dead" ELSE lease[l]]
  /\ UNCHANGED <<dbVars, raced>>

Expire(l) ==
  /\ \/ lease[l] = "dead"
     \/ LeaseMayBeLost /\ lease[l] # None
  /\ lease' = [lease EXCEPT ![l] = None]
  /\ UNCHANGED <<dbVars, pc, locVars, raced>>

-----------------------------------------------------------------------------
Generate(p) ==
  \/ \E a \in Makers : GenerateStart(p, a)
  \/ GenerateConfig(p) \/ GenerateLoad(p) \/ GenerateRead(p)
  \/ GenerateWrite(p) \/ GenerateEnd(p)

AutoGenerate(p) ==
  AutoGenerateStart(p) \/ AutoGenerateRead(p) \/ AutoGenerateWrite(p) \/ AutoGenerateEnd(p)

Adjust(p) ==
  \/ \E a \in Makers, u \in Users, v \in AdjustValues \cup {None} : AdjustRead(p, a, u, v)
  \/ AdjustPeriod(p) \/ AdjustConfig(p) \/ AdjustWrite(p)

Recall(p) ==
  \/ \E a \in Checkers, u \in Users : RecallRead(p, a, u)
  \/ RecallWrite(p)

Process(p) ==
  \/ \E a \in Checkers : ProcessStart(p, a)
  \/ ProcessConfig(p) \/ ProcessCheck(p) \/ ProcessLoad(p) \/ ProcessUpload(p)
  \/ ProcessUploadFails(p) \/ ProcessFinalize(p) \/ ProcessCleanup(p)
  \/ ProcessRejected(p) \/ ProcessEnd(p)

Reimburse(p) ==
  \/ \E c \in Claims : ReimburseStart(p, c)
  \/ ReimburseRead(p) \/ ReimburseWrite(p)

ChangeRates(p) ==
  \/ \E u \in Users : RateStart(p, {u})
  \/ RateStart(p, Users)
  \/ RateWrite(p)

Next ==
  \/ \E p \in Procs : \/ Generate(p) \/ AutoGenerate(p) \/ Adjust(p) \/ Recall(p)
                      \/ Process(p) \/ Reimburse(p) \/ ChangeRates(p)
                      \/ Abort(p) \/ Crash(p)
  \/ \E u \in Users : AttendanceWrite(u) \/ UserRateWrite(u)
  \/ \E l \in Leases : Expire(l)

Spec == Init /\ [][Next]_vars

-----------------------------------------------------------------------------
(* Properties *)

Processed(u) == rec[u].status = "processed"
Finalizes(u) == ~Processed(u) /\ Processed(u)'

\* A record is processed by somebody other than its maker.  process-full checks
\* generated_by on the rows it loaded and finalizes them one by one later, so
\* this rests on the period lease keeping POST /generate out in between.
MakerChecker == \A u \in Users :
  Processed(u) => rec[u].processed_by # None /\ rec[u].processed_by # rec[u].generated_by

\* The gross pay of a processed record was computed from the attendance rows as
\* they are, or from hours typed in by hand: the trigger, inputs_stale and the
\* conditional finalization together.  The exception is a record whose figures
\* were in flight when their source changed.
FreshUnlessRaced == \A u \in Users :
  Processed(u) /\ ~raced[u] => rec[u].gross.att \in {Manual, att[u]}

\* ... and when it is finalized, from the pay rules in force: rule changes under
\* the configuration lease cannot slip in between generation and finalization.
RateFreshWhenFinalized == [][\A u \in Users :
  Finalizes(u) /\ ~raced[u] => rec'[u].gross.rate = rate[u]]_vars

\* The same without the exception, as BACKEND_API_AND_LOGIC.md states it.
ProcessedIsFresh == \A u \in Users :
  Processed(u) => rec[u].gross.att \in {Manual, att[u]}

\* The payslip object of a processed record shows the pay of that record and no
\* other: PDF upload, conditional transition and clean-up are three separate
\* calls.  The exception is a record whose finalization was committed but not
\* answered, so that the run deleted its object as that of a failed one.
PayslipMatchesRecord == \A u \in Users :
  Processed(u) => payslip[u] \in {rec[u].gross, DeletedPdf}

\* An employee is told that the payslip is ready exactly when the record has been
\* finalized, however often process-full is repeated, fails or overlaps.
NotifiedOnce == \A u \in Users :
  notified[u] = IF rec[u].status \in {"processed", "recalled"} THEN 1 ELSE 0

\* Finalized pay is only changed by recalling it.
ProcessedIsFrozen == [][\A u \in Users :
  Processed(u) /\ Processed(u)' => rec'[u] = rec[u]]_vars

\* The gross pay of a record includes its whole manual adjustment.
GrossIncludesAdjustment == \A u \in Users : rec[u].gross.adj = rec[u].adj

\* Reimbursed claims are paid once each as long as reimbursements do not overlap
\* (and nothing else sets the adjustment), whatever is generated, processed,
\* recalled or aborted in between.
ReimbursedOnce == \A u \in Users :
  rec[u].adj = Cardinality({c \in Claims : ClaimUser[c] = u /\ claim[c] = "reimbursed"})
=============================================================================
