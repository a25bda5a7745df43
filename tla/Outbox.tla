------------------------------- MODULE Outbox -------------------------------
(***************************************************************************)
(* The transactional outbox: rows of outbox_events, the publisher job of    *)
(* src/src/services/outbox.ts on several API instances, and the replay of   *)
(* dead letters by an administrator.                                        *)
(*                                                                         *)
(* A worker is one run of publishOutboxBatch.  Its claim token is random    *)
(* per batch; it is modelled by the worker itself, and by Gone once the     *)
(* batch has ended, so that a later batch never matches an old token.       *)
(* Clocks are abstracted: a claim becomes stale and a backoff elapses at    *)
(* any moment, also while the claiming worker is merely slow.               *)
(***************************************************************************)
EXTENDS Integers, FiniteSets

CONSTANTS
  Events,      \* outbox rows, numbered in the order of created_at
  Kind,        \* "notification", "org" (allowedEvents) or "unsupported"
  LongKey,     \* notifications whose dedupeKey is longer than 36 characters
  Workers,     \* concurrent batches, one per API instance
  Admins,      \* administrators with the permission org.events.replay
  MaxAttempts, \* MAX_ATTEMPTS (8)
  Limit,       \* LIMIT of the claiming query (100)
  MaxReplays,  \* bound: replays requested
  Failures,    \* among "effect", "lost_reply", "release" and "crash"
  None, Gone

ASSUME OutboxAssumption ==
  /\ Events \subseteq Nat /\ IsFiniteSet(Events)
  /\ Kind \in [Events -> {"notification", "org", "unsupported"}]
  /\ LongKey \subseteq Events
  /\ None \notin Workers /\ Gone \notin Workers /\ None # Gone /\ None \notin Events
  /\ MaxAttempts \in Nat \ {0} /\ Limit \in Nat \ {0} /\ MaxReplays \in Nat

VARIABLES
  row,      \* outbox_events
  pc,       \* where a worker is
  batch,    \* the claimed rows a worker has still to handle
  cur,      \* the row it is handling
  tries,    \* event.attempts as the claim returned it
  seen,     \* the dead letter an administrator's replay has read
  replays,  \* replays requested so far
  inApp,    \* in_app_notifications rows written, by event
  channel,  \* notification_deliveries rows written per channel, by event
  hook,     \* org_webhook_deliveries rows written per endpoint, by event
  sse       \* has an invalidation been published to Redis for the event

effects == <<inApp, channel, hook, sse>>
workers == <<pc, batch, cur, tries>>
vars == <<row, workers, seen, replays, effects>>

Tokens == Workers \cup {None, Gone}
Row == [exists : BOOLEAN, published : BOOLEAN, dead : BOOLEAN, attempts : 0 .. MaxAttempts,
        token : Tokens, stale : BOOLEAN, due : BOOLEAN]
NoRow == [exists |-> FALSE, published |-> FALSE, dead |-> FALSE, attempts |-> 0,
          token |-> None, stale |-> FALSE, due |-> TRUE]

TypeOK ==
  /\ row \in [Events -> Row]
  /\ pc \in [Workers -> {"idle", "loop", "dispatch", "mark", "release"}]
  /\ batch \in [Workers -> SUBSET Events]
  /\ cur \in [Workers -> Events \cup {None}]
  /\ \A w \in Workers : pc[w] \in {"dispatch", "mark", "release"} => cur[w] \in Events
  /\ tries \in [Workers -> [Events -> 0 .. MaxAttempts]]
  /\ seen \in [Admins -> Events \cup {None}]
  /\ replays \in 0 .. MaxReplays
  /\ inApp \in [Events -> 0 .. 1]
  /\ channel \in [Events -> Nat]
  /\ hook \in [Events -> 0 .. 1]
  /\ sse \in [Events -> BOOLEAN]

Init ==
  /\ row = [e \in Events |-> NoRow]
  /\ pc = [w \in Workers |-> "idle"]
  /\ batch = [w \in Workers |-> {}]
  /\ cur = [w \in Workers |-> None]
  /\ tries = [w \in Workers |-> [e \in Events |-> 0]]
  /\ seen = [a \in Admins |-> None]
  /\ replays = 0
  /\ inApp = [e \in Events |-> 0]
  /\ channel = [e \in Events |-> 0]
  /\ hook = [e \in Events |-> 0]
  /\ sse = [e \in Events |-> FALSE]

-----------------------------------------------------------------------------
\* A business transaction commits together with its outbox row (a trigger, or an
\* explicit outboxEvent.create).
Emit(e) ==
  /\ ~row[e].exists
  /\ row' = [row EXCEPT ![e].exists = TRUE]
  /\ UNCHANGED <<workers, seen, replays, effects>>

\* Mutant: the number of attempts is not limited.
ClaimableForever(e) ==
  /\ row[e].exists /\ ~row[e].published /\ ~row[e].dead /\ row[e].due
  /\ row[e].token = None \/ row[e].stale

\* The WHERE clause of the claiming query.
Claimable(e) ==
  /\ row[e].exists /\ ~row[e].published /\ ~row[e].dead
  /\ row[e].attempts < MaxAttempts /\ row[e].due
  /\ row[e].token = None \/ row[e].stale

\* ORDER BY created_at LIMIT n
Picked == {e \in Events : Claimable(e) /\ Cardinality({f \in Events : Claimable(f) /\ f < e}) < Limit}

Claimed(r, w) == [r EXCEPT !.token = w, !.stale = FALSE, !.attempts = @ + 1]

\* One statement: pick, lock (SKIP LOCKED), take the claim and count the attempt.
Claim(w) ==
  /\ pc[w] = "idle" /\ Picked # {}
  /\ row' = [e \in Events |-> IF e \in Picked THEN Claimed(row[e], w) ELSE row[e]]
  /\ tries' = [tries EXCEPT ![w] = [e \in Events |-> IF e \in Picked THEN row[e].attempts + 1 ELSE 0]]
  /\ batch' = [batch EXCEPT ![w] = Picked]
  /\ pc' = [pc EXCEPT ![w] = "loop"]
  /\ UNCHANGED <<cur, seen, replays, effects>>

Goto(w, e, label) ==
  /\ cur' = [cur EXCEPT ![w] = e]
  /\ pc' = [pc EXCEPT ![w] = label]
  /\ UNCHANGED <<batch, tries>>

\* createNotification: one transaction writes the in-app row (unique per user and
\* dedupe key) and the channel rows (unique per event id and channel; a long
\* dedupe key gets a fresh random event id).  An inactive recipient, or one who
\* muted the category, makes it succeed without writing.  It may also fail, or
\* commit although its caller sees an error.
Notify(w, e) ==
  /\ pc[w] = "loop" /\ e \in batch[w] /\ Kind[e] = "notification"
  /\ \/ /\ inApp' = [inApp EXCEPT ![e] = 1]
        /\ channel' = [channel EXCEPT ![e] = IF e \in LongKey THEN @ + 1 ELSE 1]
        /\ \/ Goto(w, e, "mark")
           \/ "lost_reply" \in Failures /\ Goto(w, e, "release")
     \/ Goto(w, e, "mark") /\ UNCHANGED <<inApp, channel>>
     \/ "effect" \in Failures /\ Goto(w, e, "release") /\ UNCHANGED <<inApp, channel>>
  /\ UNCHANGED <<row, seen, replays, hook, sse>>

\* publishOutboxOrgEvent
Publish(w, e) ==
  /\ pc[w] = "loop" /\ e \in batch[w] /\ Kind[e] = "org"
  /\ \/ sse' = [sse EXCEPT ![e] = TRUE] /\ Goto(w, e, "dispatch")
     \/ "effect" \in Failures /\ UNCHANGED sse /\ Goto(w, e, "release")
  /\ UNCHANGED <<row, seen, replays, inApp, channel, hook>>

\* Mutant: every attempt inserts a delivery.
DispatchAgain(w) ==
  /\ pc[w] = "dispatch"
  /\ \/ /\ hook' = [hook EXCEPT ![cur[w]] = @ + 1]
        /\ Goto(w, cur[w], "mark") \/ ("lost_reply" \in Failures /\ Goto(w, cur[w], "release"))
     \/ "effect" \in Failures /\ UNCHANGED hook /\ Goto(w, cur[w], "release")
  /\ UNCHANGED <<row, seen, replays, inApp, channel, sse>>

\* dispatchOrgWebhooks: createMany with skipDuplicates, unique per event and hook.
Dispatch(w) ==
  /\ pc[w] = "dispatch"
  /\ \/ /\ hook' = [hook EXCEPT ![cur[w]] = 1]
        /\ Goto(w, cur[w], "mark") \/ ("lost_reply" \in Failures /\ Goto(w, cur[w], "release"))
     \/ "effect" \in Failures /\ UNCHANGED hook /\ Goto(w, cur[w], "release")
  /\ UNCHANGED <<row, seen, replays, inApp, channel, sse>>

\* An event type that is not in allowedEvents throws before any effect.
Unsupported(w, e) ==
  /\ pc[w] = "loop" /\ e \in batch[w] /\ Kind[e] = "unsupported"
  /\ Goto(w, e, "release")
  /\ UNCHANGED <<row, seen, replays, effects>>

Handled(w) ==
  /\ batch' = [batch EXCEPT ![w] = @ \ {cur[w]}]
  /\ cur' = [cur EXCEPT ![w] = None]
  /\ pc' = [pc EXCEPT ![w] = "loop"]
  /\ UNCHANGED tries

\* updateMany where { id, claim_token: token, published_at: null }
Owns(w, e) == row[e].token = w /\ ~row[e].published

Published(r) == [r EXCEPT !.published = TRUE, !.token = None, !.stale = FALSE]

\* The success path; an error of this very update leads to the catch block too.
MarkPublished(w) ==
  /\ pc[w] = "mark"
  /\ \/ /\ row' = IF Owns(w, cur[w]) THEN [row EXCEPT ![cur[w]] = Published(@)] ELSE row
        /\ \/ Handled(w)
           \/ "lost_reply" \in Failures /\ Goto(w, cur[w], "release")
     \/ "effect" \in Failures /\ UNCHANGED row /\ Goto(w, cur[w], "release")
  /\ UNCHANGED <<seen, replays, effects>>

\* Mutant: off by one in the test for the last attempt.
ExhaustedLate(w) == tries[w][cur[w]] > MaxAttempts

Exhausted(w) == tries[w][cur[w]] >= MaxAttempts

Released(r, last) ==
  [r EXCEPT !.token = None, !.stale = FALSE, !.due = FALSE, !.dead = @ \/ last]

\* The catch block: give the claim back with a backoff, or dead-letter the row; an
\* error of this update is only logged.
Release(w) ==
  /\ pc[w] = "release"
  /\ \/ row' = IF Owns(w, cur[w]) THEN [row EXCEPT ![cur[w]] = Released(@, Exhausted(w))] ELSE row
     \/ "release" \in Failures /\ UNCHANGED row
  /\ Handled(w)
  /\ UNCHANGED <<seen, replays, effects>>

\* The token of a batch that has ended is never used again.
Orphaned(w) == [e \in Events |-> IF row[e].token = w THEN [row[e] EXCEPT !.token = Gone] ELSE row[e]]

Reset(w) ==
  /\ row' = Orphaned(w)
  /\ pc' = [pc EXCEPT ![w] = "idle"]
  /\ batch' = [batch EXCEPT ![w] = {}]
  /\ cur' = [cur EXCEPT ![w] = None]
  /\ tries' = [tries EXCEPT ![w] = [e \in Events |-> 0]]
  /\ UNCHANGED <<seen, replays, effects>>

BatchEnd(w) == pc[w] = "loop" /\ batch[w] = {} /\ Reset(w)

\* The instance dies between two calls.
Crash(w) == "crash" \in Failures /\ pc[w] # "idle" /\ Reset(w)

-----------------------------------------------------------------------------
\* claimed_at is more than five minutes ago
ClaimAges(e) ==
  /\ row[e].token # None /\ ~row[e].stale
  /\ row' = [row EXCEPT ![e].stale = TRUE]
  /\ UNCHANGED <<workers, seen, replays, effects>>

\* next_attempt_at has passed (of a row that is not settled: nobody looks at it on
\* any other)
BackoffElapses(e) ==
  /\ ~row[e].due /\ ~row[e].dead /\ ~row[e].published
  /\ row' = [row EXCEPT ![e].due = TRUE]
  /\ UNCHANGED <<workers, seen, replays, effects>>

\* POST /org/outbox/dead-letters/:id/replay: find the dead letter ...
ReplayRead(a, e) ==
  /\ seen[a] = None /\ row[e].dead /\ replays < MaxReplays
  /\ seen' = [seen EXCEPT ![a] = e]
  /\ replays' = replays + 1
  /\ UNCHANGED <<row, workers, effects>>

\* Mutant: a replay leaves the claim of the row alone.
RequeuedClaimed(r) ==
  [r EXCEPT !.attempts = 0, !.dead = FALSE, !.due = TRUE]

\* Mutant: the row starts from nothing, as if it had never been published.
RequeuedAfresh(r) ==
  [r EXCEPT !.attempts = 0, !.dead = FALSE, !.due = TRUE, !.token = None, !.stale = FALSE,
            !.published = FALSE]

\* ... then update it by id, whatever has become of it.
Requeued(r) ==
  [r EXCEPT !.attempts = 0, !.dead = FALSE, !.due = TRUE, !.token = None, !.stale = FALSE]

ReplayWrite(a) ==
  /\ seen[a] # None
  /\ row' = [row EXCEPT ![seen[a]] = Requeued(@)]
  /\ seen' = [seen EXCEPT ![a] = None]
  /\ UNCHANGED <<workers, replays, effects>>

Work(w) ==
  \/ \E e \in Events : Notify(w, e) \/ Publish(w, e) \/ Unsupported(w, e)
  \/ Dispatch(w) \/ MarkPublished(w) \/ Release(w) \/ BatchEnd(w)

Next ==
  \/ \E w \in Workers : Claim(w) \/ Work(w) \/ Crash(w)
  \/ \E e \in Events : Emit(e) \/ ClaimAges(e) \/ BackoffElapses(e)
  \/ \E a \in Admins : ReplayWrite(a) \/ \E e \in Events : ReplayRead(a, e)

Spec == Init /\ [][Next]_vars

\* The cron fires every minute, a batch that was started runs on, and time passes.
FairSpec ==
  /\ Spec
  /\ \A w \in Workers : WF_vars(Claim(w)) /\ WF_vars(Work(w))
  /\ \A e \in Events : WF_vars(ClaimAges(e)) /\ WF_vars(BackoffElapses(e))

-----------------------------------------------------------------------------
(* Properties *)

\* Whatever crashes, fails and overlaps, a row is dead-lettered only after its
\* last attempt, and a row that has been published is never a dead letter: the
\* token in the conditional updates keeps a slow batch from deciding on a row
\* that was replayed or taken over.
DeadIsExhausted == \A e \in Events : row[e].dead => row[e].attempts = MaxAttempts /\ ~row[e].published

\* At-least-once without duplicates: however often a row is attempted, one in-app
\* row and one delivery per channel or endpoint are queued for it (channels of a
\* notification with a long dedupe key excepted).
QueuedOnce == \A e \in Events \ LongKey : inApp[e] <= 1 /\ channel[e] <= 1 /\ hook[e] <= 1

\* The contract of an event seen from the tables: a notice is the one transaction
\* of createNotification (its in-app row where the channels' event id is random).
EffectParts == {"announcement", "webhooks", "notice"}
Outcome(e) ==
  IF ~row[e].exists THEN "none"
  ELSE IF row[e].published THEN "published" ELSE IF row[e].dead THEN "dead" ELSE "owed"
Made(e) ==
  [announcement |-> IF sse[e] THEN 1 ELSE 0, webhooks |-> hook[e],
   notice |-> IF e \in LongKey THEN inApp[e] ELSE channel[e]]
Duties(e) == IF Kind[e] = "org" THEN {"announcement", "webhooks"} ELSE {}

Contract(e) == INSTANCE OutboxContract WITH
  Parts <- EffectParts, Owes <- Duties(e), outcome <- Outcome(e), made <- Made(e)

\* The publisher, its failures and the replays implement the contract for every
\* event: no effect without a committed row or a second time, no publication before
\* the effects, and nothing un-publishes a row, a late batch or a second replay
\* included. (The conjunction of Contract(e)!Spec, with one action for TLC.)
ImplementsContract ==
  /\ \A e \in Events : Contract(e)!Init
  /\ [][\A e \in Events : UNCHANGED <<Outcome(e), Made(e)>> \/ Contract(e)!Next]_vars

\* Every row is published or moved to the dead letters in the end.
EventuallySettled == \A e \in Events : row[e].exists ~> (row[e].published \/ row[e].dead)
=============================================================================
