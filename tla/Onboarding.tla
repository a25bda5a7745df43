------------------------------ MODULE Onboarding ------------------------------
(***************************************************************************)
(* Onboarding of one hire (src/src/routes/onboarding.ts,                     *)
(* services/onboarding.ts): the templates of the organisation, the tasks     *)
(* made from them, and the notice that goes out when the last one is closed. *)
(***************************************************************************)
EXTENDS Naturals, FiniteSets

CONSTANTS
  Templates,   \* templates that may exist
  Clerks,      \* requests in progress
  Tasks,       \* tasks of the hire that may exist
  MaxAssigned, \* bound: times a template is materialized
  NoTemplate

ASSUME OnboardingAssumption ==
  /\ MaxAssigned \in Nat \ {0} /\ NoTemplate \notin Templates
  /\ IsFiniteSet(Templates) /\ IsFiniteSet(Tasks)

VARIABLES
  template,  \* onboarding_templates
  task,      \* onboarding_tasks
  clerk,     \* the requests in progress
  known      \* history: overlaps, materializations, the notice of completion

onboardingVars == <<template, task, clerk, known>>

-----------------------------------------------------------------------------
Template == [status : {"none", "live", "deleted"}, default : BOOLEAN]
Task == [status : {"none", "pending", "closed"}, of : Templates \cup {NoTemplate}]
Clerk == [op : {"none", "save", "delete", "default", "assign", "close"}, on : Templates \cup {NoTemplate},
          default : BOOLEAN, saw : SUBSET Templates, task : SUBSET Tasks, pending : SUBSET Tasks, closed : BOOLEAN]
NoClerk == [op |-> "none", on |-> NoTemplate, default |-> FALSE, saw |-> {}, task |-> {}, pending |-> {}, closed |-> FALSE]
NoTask == [status |-> "none", of |-> NoTemplate]

OnboardingTypeOK ==
  /\ template \in [Templates -> Template]
  /\ task \in [Tasks -> Task]
  /\ clerk \in [Clerks -> Clerk]
  /\ known \in [saves : BOOLEAN, assigns : SUBSET Templates, made : [Templates -> 0 .. MaxAssigned], told : BOOLEAN,
                lost : BOOLEAN]

\* Some templates are there, one of them may be the default.
OnboardingFrom(live, default) ==
  /\ template = [t \in Templates |-> [status |-> IF t \in live THEN "live" ELSE "none", default |-> t \in default]]
  /\ task = [x \in Tasks |-> NoTask]
  /\ clerk = [k \in Clerks |-> NoClerk]
  /\ known = [saves |-> FALSE, assigns |-> {}, made |-> [t \in Templates |-> 0], told |-> FALSE,
             lost |-> FALSE]

OnboardingInit ==
  \E live \in SUBSET Templates : \E default \in {{}} \cup {{t} : t \in live} : OnboardingFrom(live, default)

Live == {t \in Templates : template[t].status = "live"}
LiveDefaults == {t \in Live : template[t].default}
Pending == {x \in Tasks : task[x].status = "pending"}
Made == {x \in Tasks : task[x].status # "none"}
Doing(op, t) == {k \in Clerks : clerk[k].op = op /\ clerk[k].on = t}
Starts(k, c) == clerk[k] = NoClerk /\ clerk' = [clerk EXCEPT ![k] = c]
Stops(k) == clerk' = [clerk EXCEPT ![k] = NoClerk]

-----------------------------------------------------------------------------
(* Templates *)

\* updateMany of the transaction: the committed defaults that it sees.
OtherDefaults(t) == LiveDefaults \ {t}

\* POST /onboarding/templates, or PUT of one that was read; its transaction has
\* run up to the statement that clears the other defaults.
SaveRead(k, t, default) ==
  /\ template[t].status \in {"none", "live"}
  /\ Starts(k, [NoClerk EXCEPT !.op = "save", !.on = t, !.default = default,
                               !.saw = IF default THEN OtherDefaults(t) ELSE {}])
  /\ known' = [known EXCEPT !.saves = @ \/ \E u \in Templates : Doing("save", u) # {}]
  /\ UNCHANGED <<template, task>>

\* The commit: the template with its items, and the cleared defaults.
SaveWrite(k) ==
  /\ clerk[k].op = "save"
  /\ template' = [t \in Templates |->
       IF t = clerk[k].on THEN [status |-> IF template[t].status = "none" THEN "live" ELSE template[t].status,
                                default |-> clerk[k].default]
       ELSE IF t \in clerk[k].saw THEN [template[t] EXCEPT !.default = FALSE] ELSE template[t]]
  /\ Stops(k)
  /\ UNCHANGED <<task, known>>

\* DELETE /onboarding/templates/:id
DeleteTemplate(t) ==
  /\ t \in Live
  /\ template' = [template EXCEPT ![t].status = "deleted"]
  /\ UNCHANGED <<task, clerk, known>>

-----------------------------------------------------------------------------
(* Tasks *)

\* autoAssignDefaultTemplate finds the default of the organisation first.
AutoRead(k) ==
  /\ \E t \in LiveDefaults : Starts(k, [NoClerk EXCEPT !.op = "default", !.on = t])
  /\ UNCHANGED <<template, task, known>>

\* existing > 0
AlreadyMade(t) == \E x \in Made : task[x].of = t

\* materializeOnboardingTasks: template, hire and earlier tasks are read.
AssignRead(k, t) ==
  /\ \/ clerk[k] = NoClerk \/ (clerk[k].op = "default" /\ clerk[k].on = t)
  /\ clerk' = [clerk EXCEPT ![k] = IF t \in Live /\ ~AlreadyMade(t)
                                   THEN [NoClerk EXCEPT !.op = "assign", !.on = t] ELSE NoClerk]
  /\ known' = [known EXCEPT !.assigns = IF Doing("assign", t) = {} THEN @ ELSE @ \cup {t}]
  /\ UNCHANGED <<template, task>>

\* createMany: a task for every item, each with an assignee and a due date.
AssignWrite(k) ==
  LET t == clerk[k].on
  IN  /\ clerk[k].op = "assign" /\ known.made[t] < MaxAssigned
      /\ \E rows \in SUBSET (Tasks \ Made) :
           /\ task' = [x \in Tasks |-> IF x \in rows THEN [status |-> "pending", of |-> t] ELSE task[x]]
           /\ known' = IF rows = {} THEN known ELSE [known EXCEPT !.made[t] = @ + 1, !.told = FALSE, !.lost = FALSE]
      /\ Stops(k)
      /\ UNCHANGED template

\* PUT /onboarding/tasks/:id/complete or /skip: the task is pending ...
CloseRead(k, x) ==
  /\ x \in Pending
  /\ Starts(k, [NoClerk EXCEPT !.op = "close", !.task = {x}, !.pending = Pending])
  /\ UNCHANGED <<template, task, known>>

\* ... is closed, by id ...
CloseWrite(k) ==
  /\ clerk[k].op = "close" /\ ~clerk[k].closed
  /\ task' = [x \in Tasks |-> IF x \in clerk[k].task THEN [task[x] EXCEPT !.status = "closed"] ELSE task[x]]
  /\ clerk' = [clerk EXCEPT ![k].closed = TRUE]
  /\ UNCHANGED <<template, known>>

\* Mutant: the tasks as they were when the request began.
IsOnboardingCompleteAtRead(k) == clerk[k].pending \subseteq clerk[k].task

\* isOnboardingComplete of all tasks, read after the update.
IsOnboardingComplete(k) == Made # {} /\ Pending = {}

\* ... and the manager is told when it was the last.
CloseTell(k) ==
  /\ clerk[k].op = "close" /\ clerk[k].closed
  /\ known' = [known EXCEPT !.told = @ \/ IsOnboardingComplete(k)]
  /\ Stops(k)
  /\ UNCHANGED <<template, task>>

\* A request fails or dies before it reads the tasks again, or its notice does,
\* which is ignored: createNotification(...).catch(() => {}).
CloseFails(k) ==
  /\ clerk[k].op = "close"
  /\ known' = [known EXCEPT !.lost = @ \/ (clerk[k].closed /\ IsOnboardingComplete(k))]
  /\ Stops(k)
  /\ UNCHANGED <<template, task>>

TemplatesNext ==
  \/ \E k \in Clerks : SaveWrite(k) \/ \E t \in Templates, default \in BOOLEAN : SaveRead(k, t, default)
  \/ \E t \in Templates : DeleteTemplate(t)

TasksNext ==
  \E k \in Clerks : \/ AutoRead(k) \/ AssignWrite(k) \/ CloseWrite(k) \/ CloseTell(k) \/ CloseFails(k)
                     \/ \E t \in Templates : AssignRead(k, t)
                     \/ \E x \in Tasks : CloseRead(k, x)

OnboardingNext == TemplatesNext \/ TasksNext

-----------------------------------------------------------------------------
(* Properties *)

\* The organisation has one default template at most, unless two saves
\* overlapped ("Only one default per org - the newest default wins").
OneDefault == ~known.saves => Cardinality(LiveDefaults) <= 1

\* A hire gets the tasks of a template once, however often it is assigned by
\* hand or as the default, unless two assignments overlapped.
AssignedOnce == \A t \in Templates \ known.assigns : known.made[t] <= 1

\* When every task is closed and no request that closed one is still at work,
\* completion was announced, also when the last tasks were closed at the same
\* time, unless a request failed after every task was closed: nothing repeats
\* its notice.
CompletionAnnounced ==
  Made # {} /\ Pending = {} /\ (\A k \in Clerks : clerk[k].op = "close" => ~clerk[k].closed) => known.told \/ known.lost

\* A hire gets the tasks of a template once, from at most one default, and the end
\* of them is announced, but for the overlaps and failures that each part names.
OnboardingSafe == OnboardingTypeOK /\ OneDefault /\ AssignedOnce /\ CompletionAnnounced
=============================================================================
