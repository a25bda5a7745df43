------------------------------- MODULE Staffing -------------------------------
(***************************************************************************)
(* The people and the roles of one organisation (src/src/routes/users.ts,    *)
(* org-rbac.ts, admin.ts, auth.ts, utils/rbac-seed.ts): registration and     *)
(* approval, creation and import of employees within the seats, assignment   *)
(* of roles, and the repair that runs when the server starts.                *)
(*                                                                         *)
(* The permissions of a person come from the assigned organisation role;     *)
(* users.role is its mirror.  Both are written by separate statements.       *)
(***************************************************************************)
EXTENDS Naturals, FiniteSets

CONSTANTS
  People,       \* employees that may exist
  SystemRoles,  \* SYSTEM_ORG_ROLE_SLUGS
  CustomRoles,  \* roles an administrator creates
  AdminRole,    \* super_admin
  Admins,       \* requests in progress
  Seats,        \* organisations.seats_limit
  MaxAborts,    \* bound: requests that end between two statements
  NoRole

ASSUME StaffingAssumption ==
  /\ IsFiniteSet(People) /\ AdminRole \in SystemRoles
  /\ SystemRoles \cap CustomRoles = {} /\ NoRole \notin SystemRoles \cup CustomRoles
  /\ Seats \in Nat \ {0} /\ MaxAborts \in Nat

VARIABLES
  org,     \* the status of the organisation
  person,  \* users, their role assignment and their leave balances
  role,    \* org_roles: missing, without permissions, with permissions
  work,    \* requests in progress
  was      \* history

staffVars == <<org, person, role, work, was>>

-----------------------------------------------------------------------------
AllRoles == SystemRoles \cup CustomRoles
Person == [status : {"none", "active", "inactive"}, mirror : AllRoles \cup {NoRole},
           assigned : AllRoles \cup {NoRole}, balances : BOOLEAN]
Nobody == [status |-> "none", mirror |-> NoRole, assigned |-> NoRole, balances |-> FALSE]
Work == [op : {"none", "found", "create", "import", "update", "rewrite", "assign", "delete"},
         step : {"idle", "member", "seed", "fill", "assign", "balances", "mirror", "drop", "rows"},
         who : SUBSET People, what : AllRoles \cup {NoRole}, n : Nat]
NoWork == [op |-> "none", step |-> "idle", who |-> {}, what |-> NoRole, n |-> 0]

StaffTypeOK ==
  /\ org \in {"none", "pending", "active", "rejected"}
  /\ person \in [People -> Person]
  /\ role \in [AllRoles -> {"none", "bare", "full"}]
  /\ work \in [Admins -> Work]
  /\ was \in [seatRace : BOOLEAN, reactivated : BOOLEAN, aborts : 0 .. MaxAborts,
              loose : SUBSET People, unsynced : SUBSET People]

NothingDone ==
  /\ work = [a \in Admins |-> NoWork]
  /\ was = [seatRace |-> FALSE, reactivated |-> FALSE, aborts |-> 0, loose |-> {}, unsynced |-> {}]

StaffInit ==
  /\ org \in {"none", "pending"}
  /\ person = [p \in People |-> Nobody]
  /\ role = [r \in AllRoles |-> "none"]
  /\ NothingDone

\* An organisation with an administrator and an employee.
Established(admin, employee) ==
  /\ org = "active"
  /\ person = [p \in People |->
       IF p = admin THEN [status |-> "active", mirror |-> AdminRole, assigned |-> AdminRole, balances |-> FALSE]
       ELSE IF p = employee THEN [status |-> "active", mirror |-> AdminRole, assigned |-> AdminRole, balances |-> TRUE]
       ELSE Nobody]
  /\ role = [r \in AllRoles |-> IF r \in SystemRoles THEN "full" ELSE "none"]
  /\ NothingDone

Members == {p \in People : person[p].status # "none"}
Active == {p \in People : person[p].status = "active"}
Goes(a, step) == work' = [work EXCEPT ![a].step = step]
Ends(a) == work' = [work EXCEPT ![a] = NoWork]
Busy(a, op, step) == work[a].op = op /\ work[a].step = step
Adding == {a \in Admins : work[a].op \in {"create", "import"}}
Deleting(r) == \E a \in Admins : work[a].op = "delete" /\ work[a].what = r
\* Requests that write the role of p.
Placing(p) == {a \in Admins : p \in work[a].who}

\* resolveUserPermissions, requirePermission: an active person whose assigned
\* role has permissions, and may manage the others.
SomeoneManages ==
  \E p \in Active : person[p].assigned \in {AdminRole} \cup CustomRoles /\ role[person[p].assigned] = "full"

-----------------------------------------------------------------------------
(* The organisation *)

\* POST /auth/register creates it, POST /admin/orgs/:id/approve activates it;
\* both go on to its first administrator.
Found(a) ==
  /\ work[a] = NoWork /\ org \in {"none", "pending"}
  /\ org' = "active"
  /\ work' = [work EXCEPT ![a] = [NoWork EXCEPT !.op = "found", !.step = "member", !.what = AdminRole]]
  /\ UNCHANGED <<person, role, was>>

\* POST /admin/orgs/:id/reject
Reject ==
  /\ org = "pending" /\ org' = "rejected"
  /\ UNCHANGED <<person, role, work, was>>

FoundMember(a) ==
  /\ Busy(a, "found", "member")
  /\ \E p \in People \ Members :
       /\ person' = [person EXCEPT ![p] = [Nobody EXCEPT !.status = "active", !.mirror = AdminRole]]
       /\ work' = [work EXCEPT ![a].step = "seed", ![a].who = {p}]
  /\ UNCHANGED <<org, role, was>>

\* seedOrgRbacForOrganisation: an existing role is left alone, another is
\* created and then given its permissions.
Seed(a) ==
  /\ work[a].step = "seed"
  /\ IF \A r \in SystemRoles : role[r] # "none"
       THEN Goes(a, "assign") /\ UNCHANGED role
       ELSE \E r \in SystemRoles :
              /\ role[r] = "none" /\ role' = [role EXCEPT ![r] = "bare"]
              /\ work' = [work EXCEPT ![a].step = "fill", ![a].n = IF r = work[a].what THEN 1 ELSE 0]
  /\ UNCHANGED <<org, person, was>>

Fill(a) ==
  /\ work[a].step = "fill"
  /\ \E r \in SystemRoles : /\ role[r] = "bare" /\ (r = work[a].what) = (work[a].n = 1)
                            /\ role' = [role EXCEPT ![r] = "full"]
  /\ Goes(a, "seed")
  /\ UNCHANGED <<org, person, was>>

-----------------------------------------------------------------------------
(* Employees *)

\* The head-count an import works with: what it read plus what it created.
TakenFor(a) == work[a].n

\* POST /users and POST /users/import: the seats are counted.
Recruit(a, op, r) ==
  /\ work[a] = NoWork /\ SomeoneManages /\ Cardinality(Active) < Seats
  /\ work' = [work EXCEPT ![a] = [op |-> op, step |-> "rows", who |-> {}, what |-> r, n |-> Cardinality(Active)]]
  /\ was' = [was EXCEPT !.seatRace = @ \/ Adding # {}]
  /\ UNCHANGED <<org, person, role>>

\* The transaction that creates the employee.
Hire(a) ==
  /\ work[a].step = "rows" /\ TakenFor(a) < Seats
  /\ \E p \in People \ Members :
       /\ person' = [person EXCEPT ![p] = [Nobody EXCEPT !.status = "active", !.mirror = work[a].what]]
       /\ work' = [work EXCEPT ![a].who = {p}, ![a].n = @ + 1,
                               ![a].step = IF work[a].op = "create" THEN "assign" ELSE "balances"]
  /\ UNCHANGED <<org, role, was>>

\* An import ends after its last row; a creation has one row.
ImportEnds(a) ==
  /\ Busy(a, "import", "rows") /\ Ends(a)
  /\ UNCHANGED <<org, person, role, was>>

\* The default leave balances: after the role, or before it in an import.
Balances(a) ==
  /\ work[a].step = "balances"
  /\ person' = [p \in People |-> IF p \in work[a].who THEN [person[p] EXCEPT !.balances = TRUE] ELSE person[p]]
  /\ IF work[a].op = "create" THEN Ends(a) ELSE Goes(a, "assign")
  /\ UNCHANGED <<org, role, was>>

\* upsertUserOrgRole: nothing happens while the role is missing.
AfterAssign(p, r) == IF role[r] = "none" THEN person[p] ELSE [person[p] EXCEPT !.assigned = r]

\* The step that follows the assignment of a role.
AfterAssignment(op) == CASE op = "create" -> "balances" [] op = "import" -> "rows" [] op = "assign" -> "mirror" [] OTHER -> "idle"

AssignStep(a) ==
  LET next == AfterAssignment(work[a].op)
  IN  /\ work[a].step = "assign"
      /\ person' = [p \in People |-> IF p \in work[a].who THEN AfterAssign(p, work[a].what) ELSE person[p]]
      /\ IF next = "idle" THEN Ends(a)
         ELSE work' = [work EXCEPT ![a].step = next, ![a].who = IF next = "rows" THEN {} ELSE @]
      /\ was' = [was EXCEPT !.loose = IF Deleting(work[a].what) THEN @ \cup work[a].who ELSE @]
      /\ UNCHANGED <<org, role>>

\* PATCH /users/:id/deactivate and /activate, which counts no seats.
SetActive(p) ==
  /\ SomeoneManages /\ p \in Members
  /\ person' = [person EXCEPT ![p].status = IF @ = "active" THEN "inactive" ELSE "active"]
  /\ was' = [was EXCEPT !.reactivated = @ \/ person[p].status = "inactive"]
  /\ UNCHANGED <<org, role, work>>

-----------------------------------------------------------------------------
(* Roles *)

\* PUT /users/:id with a role: the mirror, then, if it is not the role that was
\* read, the assignment.
UpdateRole(a, p, r) ==
  /\ work[a] = NoWork /\ SomeoneManages /\ p \in Members /\ r \in SystemRoles
  /\ work' = [work EXCEPT ![a] = [op |-> IF r = person[p].mirror THEN "rewrite" ELSE "update", step |-> "mirror", who |-> {p}, what |-> r, n |-> 0]]
  /\ was' = [was EXCEPT !.unsynced = IF Placing(p) = {} THEN @ ELSE @ \cup {p}]
  /\ UNCHANGED <<org, person, role>>

\* PUT /org/users/:userId/role: the assignment, then the mirror of a system role.
AssignRole(a, p, r) ==
  /\ work[a] = NoWork /\ SomeoneManages /\ p \in Members /\ role[r] # "none"
  /\ work' = [work EXCEPT ![a] = [op |-> "assign", step |-> "assign", who |-> {p}, what |-> r, n |-> 0]]
  /\ was' = [was EXCEPT !.unsynced = IF Placing(p) = {} THEN @ ELSE @ \cup {p}]
  /\ UNCHANGED <<org, person, role>>

\* Mutant: an assigned system role is not copied to users.role.
MirrorOfStale(p, r) == person[p].mirror

\* A custom role leaves the mirror alone.
MirrorOf(p, r) == IF r \in SystemRoles THEN r ELSE person[p].mirror

MirrorStep(a) ==
  /\ work[a].step = "mirror"
  /\ person' = [p \in People |->
       IF p \in work[a].who THEN [person[p] EXCEPT !.mirror = MirrorOf(p, work[a].what)] ELSE person[p]]
  /\ IF work[a].op = "update" THEN Goes(a, "assign") ELSE Ends(a)
  /\ UNCHANGED <<org, role, was>>

\* The caller of PUT /org/users/:userId/role opts out (sync_legacy_role: false).
OptOut(a) ==
  /\ Busy(a, "assign", "mirror") /\ work[a].what \in SystemRoles /\ Ends(a)
  /\ was' = [was EXCEPT !.unsynced = @ \cup work[a].who]
  /\ UNCHANGED <<org, person, role>>

\* POST /org/roles, and PUT /org/roles/:id/permissions in one transaction.
SaveRole(r) ==
  /\ SomeoneManages /\ (r \in CustomRoles \/ role[r] # "none")
  /\ \E keys \in {"bare", "full"} : role' = [role EXCEPT ![r] = keys]
  /\ UNCHANGED <<org, person, work, was>>

Unassigned(r) == \A p \in Members : person[p].assigned # r

\* DELETE /org/roles/:id counts the assignments of a custom role ...
DeleteRead(a, r) ==
  /\ work[a] = NoWork /\ SomeoneManages /\ r \in CustomRoles /\ role[r] # "none" /\ Unassigned(r)
  /\ work' = [work EXCEPT ![a] = [NoWork EXCEPT !.op = "delete", !.step = "drop", !.what = r]]
  /\ UNCHANGED <<org, person, role, was>>

\* ... and deletes it, with the assignments there are by then (onDelete: Cascade).
DeleteRole(a) ==
  LET lost == {p \in Members : person[p].assigned = work[a].what}
  IN  /\ Busy(a, "delete", "drop")
      /\ role' = [role EXCEPT ![work[a].what] = "none"]
      /\ person' = [p \in People |-> IF p \in lost THEN [person[p] EXCEPT !.assigned = NoRole] ELSE person[p]]
      /\ Ends(a)
      /\ UNCHANGED <<org, was>>

\* A request dies between two statements: its employee may lack a role, or have
\* one that differs from the mirror.
StaffAbort(a) ==
  /\ work[a] # NoWork /\ was.aborts < MaxAborts
  /\ Ends(a)
  /\ was' = [was EXCEPT !.aborts = @ + 1, !.loose = @ \cup work[a].who, !.unsynced = @ \cup work[a].who]
  /\ UNCHANGED <<org, person, role>>

\* backfillUserOrgRoles
Backfilled(p) == IF person[p].assigned = NoRole THEN [person[p] EXCEPT !.assigned = person[p].mirror] ELSE person[p]

\* The server restarts: no request survives, and before it accepts another
\* seedAllRbac creates the missing system roles and the missing assignments.
Restart ==
  /\ org = "active"
  /\ work' = [a \in Admins |-> NoWork]
  /\ role' = [r \in AllRoles |-> IF r \in SystemRoles /\ role[r] = "none" THEN "full" ELSE role[r]]
  /\ person' = [p \in People |-> IF p \in Members THEN Backfilled(p) ELSE person[p]]
  /\ was' = [was EXCEPT !.loose = {}, !.unsynced = @ \cup UNION {work[a].who : a \in Admins}]
  /\ UNCHANGED org

HiringNext ==
  \/ \E a \in Admins :
       \/ Found(a) \/ FoundMember(a) \/ Seed(a) \/ Fill(a)
       \/ \E op \in {"create", "import"}, r \in SystemRoles : Recruit(a, op, r)
       \/ Hire(a) \/ ImportEnds(a) \/ Balances(a) \/ AssignStep(a) \/ StaffAbort(a)
  \/ Reject \/ Restart
  \/ \E p \in People : SetActive(p)

RolesNext(who) ==
  \/ \E a \in Admins :
       \/ \E p \in who, r \in AllRoles : UpdateRole(a, p, r) \/ AssignRole(a, p, r)
       \/ AssignStep(a) \/ MirrorStep(a) \/ OptOut(a)
       \/ \E r \in AllRoles : DeleteRead(a, r)
       \/ DeleteRole(a) \/ StaffAbort(a)
  \/ Restart

StaffNext == HiringNext \/ RolesNext(People) \/ \E r \in AllRoles : SaveRole(r)

-----------------------------------------------------------------------------
(* Properties *)

\* The seats hold for creations and imports that follow one another; only two
\* that overlap, or a reactivation, which counts nothing, exceed them.
SeatsHold == ~was.seatRace /\ ~was.reactivated => Cardinality(Active) <= Seats

\* Once no request is at work on them, everybody has a role, unless since the
\* server last started a request of theirs died or their custom role was being
\* deleted while it was assigned: a start repairs what was left behind.
EveryoneHasRole ==
  \A p \in Members : Placing(p) = {} /\ p \notin was.loose => person[p].assigned # NoRole

\* users.role mirrors the assigned system role, unless two changes of the role
\* overlapped, one died half-way, or a caller opted out of the mirror.
MirrorAgrees ==
  \A p \in Members : Placing(p) = {} /\ p \notin was.unsynced /\ person[p].assigned \in SystemRoles
    => person[p].mirror = person[p].assigned

\* The organisation keeps to its seats and everybody has one role, the same in the
\* two places that hold it, but for the overlaps, deaths and callers that each part
\* names.
StaffSafe == StaffTypeOK /\ SeatsHold /\ EveryoneHasRole /\ MirrorAgrees
=============================================================================
