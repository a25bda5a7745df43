--------------------------- MODULE WebhookDelivery ---------------------------
(***************************************************************************)
(* The queue of outbound webhook deliveries of one endpoint: rows of        *)
(* org_webhook_deliveries, the bookkeeping of the org_webhooks row, the      *)
(* retry job, the replay of dead letters and the test request               *)
(* (src/src/services/webhookDelivery.ts, src/src/routes/org-webhooks.ts).   *)
(*                                                                         *)
(* A process is one running attemptQueuedDelivery (the job runs up to 100   *)
(* of them concurrently), replay or test request; each of its database or   *)
(* network calls is one step.                                               *)
(***************************************************************************)
EXTENDS Integers, FiniteSets

CONSTANTS
  Deliveries,   \* queued events of the endpoint
  Procs,        \* attempts and requests in progress
  Operations,   \* among "replay", "test" and "delete"
  MaxAttempts,  \* MAX_DELIVERY_ATTEMPTS (8)
  Threshold,    \* AUTO_DISABLE_THRESHOLD (20)
  MaxReplays,   \* bound: replay requests per delivery
  MaxTests,     \* bound: test requests
  MaxCrashes,   \* bound: attempts that die with their instance
  MaxLongSends, \* bound: requests that outlast the ten-minute claim timeout
  None

ASSUME WebhookAssumption ==
  /\ None \notin Deliveries /\ IsFiniteSet(Procs)
  /\ \A n \in {MaxAttempts, Threshold} : n \in Nat \ {0}
  /\ \A n \in {MaxReplays, MaxTests, MaxCrashes, MaxLongSends} : n \in Nat

VARIABLES
  row,      \* org_webhook_deliveries
  hook,     \* org_webhooks
  pc,       \* where a process is
  cur,      \* the delivery it works on
  got,      \* what it has read: attempts of the delivery, or the failure count
  alerts,   \* history: rounds of "webhook disabled" notifications
  replays, tests, crashes, longSends  \* bounded counters

counters == <<replays, tests, crashes, longSends>>
procs == <<pc, cur, got>>
vars == <<row, hook, procs, alerts, counters>>

Row == [status : {"queued", "delivering", "retrying", "delivered", "dead_letter"},
        attempts : Nat, due : BOOLEAN, stale : BOOLEAN]
Hook == [exists : BOOLEAN, active : BOOLEAN, failures : Nat]

\* Steps of an attempt, in the order of the code
AttemptPc == {"read", "send", "ok", "reset", "fail", "count", "check", "disable", "alert"}
\* Processes that hold the claim of their delivery
ClaimPc   == {"read", "send", "ok", "fail"}

TypeOK ==
  /\ row \in [Deliveries -> Row]
  /\ hook \in Hook
  /\ pc \in [Procs -> AttemptPc \cup {"idle", "replay", "claim", "test", "test_write"}]
  /\ cur \in [Procs -> Deliveries \cup {None}]
  /\ got \in [Procs -> Nat]
  /\ alerts \in Nat
  /\ replays \in [Deliveries -> 0 .. MaxReplays]
  /\ tests \in 0 .. MaxTests /\ crashes \in 0 .. MaxCrashes /\ longSends \in 0 .. MaxLongSends

Init ==
  /\ row = [d \in Deliveries |-> [status |-> "queued", attempts |-> 0, due |-> TRUE, stale |-> FALSE]]
  /\ hook = [exists |-> TRUE, active |-> TRUE, failures |-> 0]
  /\ pc = [p \in Procs |-> "idle"]
  /\ cur = [p \in Procs |-> None]
  /\ got = [p \in Procs |-> 0]
  /\ alerts = 0
  /\ replays = [d \in Deliveries |-> 0]
  /\ tests = 0 /\ crashes = 0 /\ longSends = 0

Step(p, from, to) == pc[p] = from /\ pc' = [pc EXCEPT ![p] = to]

Finish(p) ==
  /\ pc' = [pc EXCEPT ![p] = "idle"]
  /\ cur' = [cur EXCEPT ![p] = None]
  /\ got' = [got EXCEPT ![p] = 0]

-----------------------------------------------------------------------------
(* attemptQueuedDelivery *)

Due(d) == row[d].status \in {"queued", "retrying"} /\ row[d].due

\* The conditional update that claims the row and counts the attempt.
Claimed(d) == [row EXCEPT ![d] = [row[d] EXCEPT !.status = "delivering", !.attempts = @ + 1,
                                                !.stale = FALSE]]

\* The retry job found the row due.
Claim(p, d) ==
  /\ pc[p] = "idle" /\ Due(d)
  /\ row' = Claimed(d)
  /\ pc' = [pc EXCEPT ![p] = "read"]
  /\ cur' = [cur EXCEPT ![p] = d]
  /\ UNCHANGED <<hook, got, alerts, counters>>

ReadDelivery(p) ==
  /\ Step(p, "read", "send")
  /\ got' = [got EXCEPT ![p] = row[cur[p]].attempts]
  /\ UNCHANGED <<row, hook, cur, alerts, counters>>

\* The HTTPS request: a 2xx answer, or an error, a timeout or another status.
Send(p) ==
  /\ Step(p, "send", "ok") \/ Step(p, "send", "fail")
  /\ UNCHANGED <<row, hook, cur, got, alerts, counters>>

\* The outcome is written by id.
WriteDelivered(p) ==
  /\ Step(p, "ok", "reset")
  /\ row' = [row EXCEPT ![cur[p]] = [@ EXCEPT !.status = "delivered", !.stale = FALSE]]
  /\ UNCHANGED <<hook, cur, got, alerts, counters>>

ResetFailures(p) ==
  /\ pc[p] = "reset"
  /\ hook' = [hook EXCEPT !.failures = IF hook.exists THEN 0 ELSE @]
  /\ Finish(p)
  /\ UNCHANGED <<row, alerts, counters>>

\* Mutant: the last attempt is retried too.
DeadAfterLate(n) == n > MaxAttempts

DeadAfter(n) == n >= MaxAttempts

WriteFailed(p) ==
  /\ Step(p, "fail", "count")
  /\ row' = [row EXCEPT ![cur[p]] =
       [@ EXCEPT !.status = IF DeadAfter(got[p]) THEN "dead_letter" ELSE "retrying",
                 !.due = FALSE, !.stale = FALSE]]
  /\ UNCHANGED <<hook, cur, got, alerts, counters>>

\* failure_count is incremented in the database (webhook_id is null once the
\* endpoint has been deleted) ...
CountFailure(p) ==
  /\ pc[p] = "count"
  /\ IF hook.exists
       THEN /\ hook' = [hook EXCEPT !.failures = @ + 1]
            /\ Step(p, "count", "check")
            /\ UNCHANGED <<cur, got>>
       ELSE Finish(p) /\ UNCHANGED <<hook>>
  /\ UNCHANGED <<row, alerts, counters>>

\* ... and read again to decide on disabling the endpoint.
CheckHook(p) ==
  /\ pc[p] = "check"
  /\ IF hook.exists /\ hook.failures >= Threshold
       THEN Step(p, "check", "disable") /\ UNCHANGED <<cur, got>>
       ELSE Finish(p)
  /\ UNCHANGED <<row, hook, alerts, counters>>

\* updateMany where is_active: only the one that changed the row alerts.
DisableHook(p) ==
  /\ pc[p] = "disable"
  /\ IF hook.exists /\ hook.active
       THEN /\ hook' = [hook EXCEPT !.active = FALSE]
            /\ Step(p, "disable", "alert")
            /\ UNCHANGED <<cur, got>>
       ELSE Finish(p) /\ UNCHANGED hook
  /\ UNCHANGED <<row, alerts, counters>>

\* The administrators are loaded and notified.
Alert(p) ==
  /\ pc[p] = "alert"
  /\ alerts' = alerts + 1
  /\ Finish(p)
  /\ UNCHANGED <<row, hook, counters>>

Attempt(p) ==
  \/ ReadDelivery(p) \/ Send(p) \/ WriteDelivered(p) \/ ResetFailures(p)
  \/ WriteFailed(p) \/ CountFailure(p) \/ CheckHook(p) \/ DisableHook(p) \/ Alert(p)

-----------------------------------------------------------------------------
(* replayWebhookDelivery: find the dead letter, update it by id, attempt it *)

ReplayRead(p, d) ==
  /\ "replay" \in Operations /\ pc[p] = "idle"
  /\ hook.exists /\ row[d].status = "dead_letter" /\ replays[d] < MaxReplays
  /\ replays' = [replays EXCEPT ![d] = @ + 1]
  /\ cur' = [cur EXCEPT ![p] = d]
  /\ pc' = [pc EXCEPT ![p] = "replay"]
  /\ UNCHANGED <<row, hook, got, alerts, tests, crashes, longSends>>

ReplayWrite(p) ==
  /\ Step(p, "replay", "claim")
  /\ row' = [row EXCEPT ![cur[p]] = [status |-> "queued", attempts |-> 0, due |-> TRUE, stale |-> FALSE]]
  /\ UNCHANGED <<hook, cur, got, alerts, counters>>

ReplayClaim(p) ==
  /\ pc[p] = "claim"
  /\ IF Due(cur[p])
       THEN row' = Claimed(cur[p]) /\ Step(p, "claim", "read") /\ UNCHANGED <<cur, got>>
       ELSE Finish(p) /\ UNCHANGED row
  /\ UNCHANGED <<hook, alerts, counters>>

Replay(p) == ReplayWrite(p) \/ ReplayClaim(p)

-----------------------------------------------------------------------------
(* POST /:id/test and DELETE /:id *)

TestRead(p) ==
  /\ "test" \in Operations /\ pc[p] = "idle" /\ hook.exists /\ tests < MaxTests
  /\ got' = [got EXCEPT ![p] = hook.failures]
  /\ tests' = tests + 1
  /\ pc' = [pc EXCEPT ![p] = "test"]
  /\ UNCHANGED <<row, hook, cur, alerts, replays, crashes, longSends>>

\* deliverToWebhook: the request, then the bookkeeping from the count read above;
\* bookkeeping of a deleted endpoint fails and is only logged.
TestWrite(p) ==
  /\ pc[p] = "test"
  /\ \/ hook' = [hook EXCEPT !.failures = IF hook.exists THEN 0 ELSE @]
     \/ hook' = IF ~hook.exists THEN hook
                ELSE [hook EXCEPT !.failures = got[p] + 1,
                                  !.active = @ /\ got[p] + 1 < Threshold]
  /\ Finish(p)
  /\ UNCHANGED <<row, alerts, counters>>

DeleteHook ==
  /\ "delete" \in Operations /\ hook.exists
  /\ hook' = [exists |-> FALSE, active |-> FALSE, failures |-> 0]
  /\ UNCHANGED <<row, procs, alerts, counters>>

-----------------------------------------------------------------------------
(* Time and failures *)

InFlight(d) == {p \in Procs : cur[p] = d /\ pc[p] \in ClaimPc}

Ages(d) ==
  /\ row[d].status = "delivering" /\ ~row[d].stale
  /\ row' = [row EXCEPT ![d].stale = TRUE]
  /\ UNCHANGED <<hook, procs, alerts, replays, tests, crashes>>

\* A claim is ten minutes old because its owner died ...
ClaimAges(d) == InFlight(d) = {} /\ Ages(d) /\ UNCHANGED longSends

\* ... or because the endpoint keeps the connection busy: the five-second timeout
\* of the request is one of inactivity.
LongSend(d) ==
  /\ \E p \in InFlight(d) : pc[p] = "send"
  /\ longSends < MaxLongSends
  /\ longSends' = longSends + 1
  /\ Ages(d)

\* Mutant: claims are not recovered.
RecoveredNone(d) == row[d]

Recovered(d) == [row[d] EXCEPT !.status = "retrying", !.due = TRUE, !.stale = FALSE]

\* The first update of the retry job.
RecoverStale ==
  LET old == {d \in Deliveries : row[d].status = "delivering" /\ row[d].stale} IN
  /\ old # {}
  /\ row' = [d \in Deliveries |-> IF d \in old THEN Recovered(d) ELSE row[d]]
  /\ UNCHANGED <<hook, procs, alerts, counters>>

BackoffElapses(d) ==
  /\ ~row[d].due /\ row[d].status = "retrying"
  /\ row' = [row EXCEPT ![d].due = TRUE]
  /\ UNCHANGED <<hook, procs, alerts, counters>>

Crash(p) ==
  /\ pc[p] # "idle" /\ crashes < MaxCrashes
  /\ crashes' = crashes + 1
  /\ Finish(p)
  /\ UNCHANGED <<row, hook, alerts, replays, tests, longSends>>

Next ==
  \/ \E p \in Procs : \/ \E d \in Deliveries : Claim(p, d) \/ ReplayRead(p, d)
                      \/ Attempt(p) \/ Replay(p) \/ TestRead(p) \/ TestWrite(p) \/ Crash(p)
  \/ \E d \in Deliveries : ClaimAges(d) \/ LongSend(d) \/ BackoffElapses(d)
  \/ RecoverStale \/ DeleteHook

Spec == Init /\ [][Next]_vars

\* The job runs every minute and takes every due row; attempts run on; time passes.
FairSpec ==
  /\ Spec
  /\ \A d \in Deliveries :
       /\ SF_vars(\E p \in Procs : Claim(p, d))
       /\ WF_vars(ClaimAges(d)) /\ WF_vars(BackoffElapses(d))
  /\ \A p \in Procs : WF_vars(Attempt(p)) /\ WF_vars(Replay(p)) /\ WF_vars(TestWrite(p))
  /\ WF_vars(RecoverStale)

-----------------------------------------------------------------------------
(* Properties *)

Settled(d) == row[d].status \in {"delivered", "dead_letter"}

\* As long as no request outlasts the claim timeout and the delivery is replayed
\* only once (a second, overlapping replay writes by id and frees the claim), two
\* attempts of one delivery are never in progress together: "so an immediate
\* dispatch and the retry worker cannot send it concurrently".
Undisturbed(d) == longSends = 0 /\ replays[d] <= 1
OneSender == \A d \in Deliveries : Undisturbed(d) => Cardinality(InFlight(d)) <= 1

\* A delivery is attempted at most MaxAttempts times before it is a dead letter,
\* and every crash or overlong request costs at most one attempt more, although
\* the recovery of stale claims does not look at the number of attempts (a second
\* replay, which may put two attempts in progress, excepted).
AttemptsPerRecovery == \A d \in Deliveries :
  replays[d] <= 1 => row[d].attempts <= MaxAttempts + crashes + longSends

\* Every delivery ends delivered or as a dead letter, across crashes of workers.
EventuallySettled == \A d \in Deliveries : (~Settled(d)) ~> Settled(d)

\* The administrators are alerted at most once, however many attempts fail at the
\* same moment: disabling is a conditional update.
AlertedOnce == alerts <= 1

\* A delivery has one sender, a bounded number of attempts and one alert, across
\* crashes, overlong requests, replays and failures at the same moment.
WebhookSafe == TypeOK /\ OneSender /\ AlertedOnce /\ AttemptsPerRecovery
=============================================================================
