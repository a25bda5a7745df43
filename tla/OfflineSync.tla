----------------------------- MODULE OfflineSync -----------------------------
(***************************************************************************)
(* POST /attendance/sync (src/src/routes/attendance.ts) for one employee:    *)
(* batches of events recorded offline, the Redis lock that admits one batch   *)
(* at a time and the watermark the detectors of late and absent employees    *)
(* look at. The events are replayed as requests of their own, under their    *)
(* idempotency keys (Idempotency), to the handlers that Attendance models.   *)
(*                                                                         *)
(* The lock lives ten minutes and a batch of twenty requests of fifteen       *)
(* seconds less, so that it lapses only when its holder has died or could    *)
(* not delete it. The phones are external: they send any of the events they  *)
(* have no final answer for.                                                 *)
(***************************************************************************)
EXTENDS Integers, FiniteSets, FiniteSetsExt

CONSTANTS
  Syncs,      \* overlapping requests
  LastEvent,  \* bound: events are numbered 1 .. LastEvent by their sequence
  MaxSyncs,   \* bound: batches accepted by the lock
  NoHolder

ASSUME SyncAssumption == NoHolder \notin Syncs /\ LastEvent \in Nat \ {0} /\ MaxSyncs \in Nat

VARIABLES
  syncLock,   \* the request that holds attendance-sync:<user>, or NoHolder
  watermark,  \* last_sequence and whether pending_until is in the future
  sync,       \* a request: its step, the rest of its batch and what it has read
  event,      \* what has become of an event's own request
  answered,   \* the last answer about an event
  admitted   \* batches the lock has admitted so far

syncVars == <<syncLock, watermark, sync, event, answered, admitted>>

Events == 1 .. LastEvent
\* "running": the request was sent and has not been answered, in time or ever;
\* "unknown": it failed with 5xx, and its key is not accepted any more.
EventStates == {"unsent", "running", "unknown", "applied"}
Outcomes == {"none", "applied", "rejected", "parked_for_review", "retry", "not_attempted"}
Sync == [at : {"idle", "read", "mark", "touch", "wait", "finish", "release"},
         batch : SUBSET Events, todo : SUBSET Events, previous : 0 .. LastEvent]
NoSync == [at |-> "idle", batch |-> {}, todo |-> {}, previous |-> 0]

SyncTypeOK ==
  /\ syncLock \in Syncs \cup {NoHolder}
  /\ watermark \in [last : 0 .. LastEvent, pending : BOOLEAN]
  /\ sync \in [Syncs -> Sync] /\ admitted \in 0 .. MaxSyncs
  /\ event \in [Events -> EventStates] /\ answered \in [Events -> Outcomes]

SyncInit ==
  /\ syncLock = NoHolder /\ admitted = 0
  /\ watermark = [last |-> 0, pending |-> FALSE]
  /\ sync = [s \in Syncs |-> NoSync]
  /\ event = [e \in Events |-> "unsent"] /\ answered = [e \in Events |-> "none"]

Move(s, at) == sync' = [sync EXCEPT ![s].at = at]

-----------------------------------------------------------------------------
\* Events of a phone's queue: those without a final answer.
Queued == {e \in Events : answered[e] \in {"none", "retry", "not_attempted"}}

LockFree == syncLock = NoHolder

\* SET NX; a batch that finds the lock taken is refused.
TakeLock(s, batch) ==
  /\ sync[s].at = "idle" /\ admitted < MaxSyncs
  /\ LockFree
  /\ syncLock' = s /\ admitted' = admitted + 1
  /\ sync' = [sync EXCEPT ![s] = [NoSync EXCEPT !.at = "read", !.batch = batch, !.todo = batch]]
  /\ UNCHANGED <<watermark, event, answered>>

ReadWatermark(s) ==
  /\ sync[s].at = "read"
  /\ sync' = [sync EXCEPT ![s].at = "mark", ![s].previous = watermark.last]
  /\ UNCHANGED <<syncLock, watermark, event, answered, admitted>>

\* The upsert writes the highest sequence known when the watermark was read.
MarkPending(s) ==
  /\ sync[s].at = "mark"
  /\ watermark' = [last |-> Max(sync[s].batch \cup {sync[s].previous}), pending |-> TRUE]
  /\ Move(s, "touch")
  /\ UNCHANGED <<syncLock, event, answered, admitted>>

Current(s) == Min(sync[s].todo)

\* The next event: pending_until is extended and the request is sent.
SendEvent(s) ==
  /\ sync[s].at = "touch" /\ sync[s].todo # {}
  /\ watermark' = [watermark EXCEPT !.pending = TRUE]
  /\ event' = [event EXCEPT ![Current(s)] = IF @ = "unsent" THEN "running" ELSE @]
  \* A key that is in use or whose outcome is unknown is refused with 409.
  /\ IF event[Current(s)] \in {"running", "unknown"}
       THEN /\ answered' = [e \in Events |-> IF e = Current(s) THEN "parked_for_review"
                                             ELSE IF e \in sync[s].todo THEN "not_attempted"
                                             ELSE answered[e]]
            /\ sync' = [sync EXCEPT ![s].at = "finish"]
       ELSE UNCHANGED answered /\ Move(s, "wait")
  /\ UNCHANGED <<syncLock, admitted>>

\* 2xx, or the stored answer of an event that was applied before.
EventApplied(s) ==
  /\ sync[s].at = "wait"
  /\ event' = [event EXCEPT ![Current(s)] = "applied"]
  /\ answered' = [answered EXCEPT ![Current(s)] = "applied"]
  /\ sync' = [sync EXCEPT ![s].at = "touch", ![s].todo = @ \ {Current(s)}]
  /\ UNCHANGED <<syncLock, watermark, admitted>>

\* Mutant: the rest of the batch is sent although one event failed.
AfterFailureContinues(s) == sync' = [sync EXCEPT ![s].at = "touch", ![s].todo = @ \ {Current(s)}]

AfterFailure(s) == Move(s, "finish")

\* The event failed with the given outcome: the rest of the batch is held back.
Stop(s, result, becomes) ==
  /\ sync[s].at = "wait" /\ event[Current(s)] = "running"
  /\ event' = [event EXCEPT ![Current(s)] = becomes]
  /\ answered' = [e \in Events |-> IF e = Current(s) THEN result
                                   ELSE IF e \in sync[s].todo THEN "not_attempted" ELSE answered[e]]
  /\ AfterFailure(s)
  /\ UNCHANGED <<syncLock, watermark, admitted>>

\* 400 or 422 reject it, another 4xx parks it for review, 401, 408 and 429 ask for
\* a retry; all of them free the key. After 5xx it is tried again, but not accepted.
EventRefused(s) == \E result \in {"rejected", "parked_for_review", "retry"} : Stop(s, result, "unsent")
EventFails(s) == Stop(s, "retry", "unknown")

\* No answer within fifteen seconds, and the event's request may still be running; or
\* pending_until could not be extended, and it was not sent.
EventTimesOut(s) ==
  /\ sync[s].at \in {"touch", "wait"} /\ sync[s].todo # {}
  /\ answered' = [e \in Events |-> IF e = Current(s) THEN "retry"
                                   ELSE IF e \in sync[s].todo THEN "not_attempted" ELSE answered[e]]
  /\ AfterFailure(s)
  /\ UNCHANGED <<syncLock, watermark, event, admitted>>

\* A request that was given up commits, or fails, after all.
LateAnswer(e) ==
  /\ event[e] = "running" /\ \A s \in Syncs : sync[s].at = "wait" => Current(s) # e
  /\ \E late \in {"applied", "unknown", "unsent"} : event' = [event EXCEPT ![e] = late]
  /\ UNCHANGED <<syncLock, watermark, sync, answered, admitted>>

AllSent(s) ==
  /\ sync[s].at = "touch" /\ sync[s].todo = {}
  /\ Move(s, "finish")
  /\ UNCHANGED <<syncLock, watermark, event, answered, admitted>>

\* pending_until stays in the future when an event has to be sent again.
FinishBatch(s) ==
  /\ sync[s].at = "finish"
  /\ watermark' = [watermark EXCEPT !.pending =
       \E e \in sync[s].batch : answered[e] \in {"retry", "not_attempted"}]
  /\ Move(s, "release")
  /\ UNCHANGED <<syncLock, event, answered, admitted>>

\* The lock is deleted by its owner; an error leaves it to its TTL.
ReleaseLock(s) ==
  /\ sync[s].at = "release"
  /\ syncLock' \in {IF syncLock = s THEN NoHolder ELSE syncLock, syncLock}
  /\ sync' = [sync EXCEPT ![s] = NoSync]
  /\ UNCHANGED <<watermark, event, answered, admitted>>

-----------------------------------------------------------------------------
\* The instance dies, or a statement fails and the lock cannot be deleted either.
SyncCrash(s) ==
  /\ sync[s].at \notin {"idle", "release"}
  /\ sync' = [sync EXCEPT ![s] = NoSync]
  /\ UNCHANGED <<syncLock, watermark, event, answered, admitted>>

\* A statement fails: the request ends through its finally block.
SyncFails(s) ==
  /\ sync[s].at \in {"read", "mark", "finish"}
  /\ Move(s, "release")
  /\ UNCHANGED <<syncLock, watermark, event, answered, admitted>>

LockLapses ==
  /\ syncLock # NoHolder /\ sync[syncLock].at = "idle"
  /\ syncLock' = NoHolder
  /\ UNCHANGED <<watermark, sync, event, answered, admitted>>

\* Five minutes without a batch: no event of a batch takes that long.
PendingLapses ==
  /\ watermark.pending /\ \A s \in Syncs : sync[s].at \notin {"touch", "wait", "finish"}
  /\ watermark' = [watermark EXCEPT !.pending = FALSE]
  /\ UNCHANGED <<syncLock, sync, event, answered, admitted>>

SyncNext ==
  \/ \E s \in Syncs :
       \/ \E batch \in SUBSET Queued \ {{}} : TakeLock(s, batch)
       \/ ReadWatermark(s) \/ MarkPending(s) \/ SendEvent(s) \/ EventApplied(s)
       \/ EventRefused(s) \/ EventFails(s) \/ EventTimesOut(s) \/ AllSent(s)
       \/ FinishBatch(s) \/ ReleaseLock(s) \/ SyncCrash(s) \/ SyncFails(s)
  \/ \E e \in Events : LateAnswer(e)
  \/ LockLapses \/ PendingLapses

-----------------------------------------------------------------------------
(* Properties *)

\* "later actions were held to preserve order": an event of a batch is sent only
\* when every earlier one of the batch has taken effect, whatever was answered,
\* refused, lost or left running by batches before.
OrderKept ==
  \A s \in Syncs : sync[s].at = "wait" =>
    \A e \in sync[s].batch : e < Current(s) => event[e] = "applied"

\* The detectors of late and absent employees are held off as long as a batch of
\* the employee is under way: no other batch ends the pending state under it.
PendingDuringBatch ==
  \A s \in Syncs : sync[s].at \in {"touch", "wait", "finish"} => watermark.pending

\* Offline events take effect in their order, with the detectors held off for as
\* long as a batch is under way, although events time out and locks expire.
SyncSafe == SyncTypeOK /\ OrderKept /\ PendingDuringBatch

=============================================================================
