---------------------------- MODULE Notifications ----------------------------
(***************************************************************************)
(* Notifications of one user (src/src/services/notifications.ts,             *)
(* notificationDelivery.ts): createNotification queues a delivery for every  *)
(* channel, a batch job sends what is due.  Batches overlap when the lease   *)
(* of the job is lost.                                                       *)
(***************************************************************************)
EXTENDS Naturals, FiniteSets

CONSTANTS
  Items,           \* deliveries: an event on a channel
  EmailItems,      \* the ones whose channel is email
  Batches,         \* instances of the job
  MaxSends,        \* MAX_ATTEMPTS (8)
  MaxPrefs,        \* bound: changes of the preferences
  MaxLost          \* bound: batches that die or lose the lease

ASSUME NotificationsAssumption ==
  /\ IsFiniteSet(Items) /\ EmailItems \subseteq Items /\ IsFiniteSet(Batches) /\ MaxSends \in Nat \ {0}
  /\ MaxPrefs \in Nat /\ MaxLost \in Nat

VARIABLES
  delivery,  \* notification_deliveries
  prefs,     \* the user: account, notification_prefs, email address
  batch,     \* runs of deliverNotificationBatch
  sent       \* history

notificationVars == <<delivery, prefs, batch, sent>>

-----------------------------------------------------------------------------
\* due: available_at has come; stale: untouched for ten minutes.
Delivery == [status : {"none", "queued", "sending", "sent", "failed", "suppressed"}, due : BOOLEAN, stale : BOOLEAN,
             attempts : 0 .. MaxSends + MaxLost + 1]
Prefs == [active : BOOLEAN, wanted : BOOLEAN, digest : BOOLEAN, quiet : BOOLEAN, address : BOOLEAN]
AllWanted == [active |-> TRUE, wanted |-> TRUE, digest |-> FALSE, quiet |-> FALSE, address |-> TRUE]
\* prefs: the user as read with the rows; clock: the rows whose available_at
\* is not after the `now' the batch was given; late: it began while another
\* was running.
Batch == [step : {"idle", "read", "take", "send", "digest", "claim", "mail"}, todo : SUBSET Items,
          saw : [Items -> 0 .. MaxSends + MaxLost + 1], now : SUBSET Items, digested : BOOLEAN,
          prefs : Prefs, clock : SUBSET Items, late : BOOLEAN]
NoBatch == [step |-> "idle", todo |-> {}, saw |-> [d \in Items |-> 0], now |-> {}, digested |-> FALSE,
            prefs |-> AllWanted, clock |-> {}, late |-> FALSE]

NotificationTypeOK ==
  /\ delivery \in [Items -> Delivery]
  /\ prefs \in Prefs
  /\ batch \in [Batches -> Batch]
  /\ sent \in [copies : [Items -> Nat], again : [Items -> Nat], unmarked : [Items -> Nat], crossed : SUBSET Items,
              prefs : 0 .. MaxPrefs, overlaps : 0 .. MaxLost, deaths : 0 .. MaxLost]

NotificationInit ==
  /\ delivery = [d \in Items |-> [status |-> "none", due |-> FALSE, stale |-> FALSE, attempts |-> 0]]
  /\ prefs \in {[AllWanted EXCEPT !.digest = digest] : digest \in BOOLEAN}
  /\ batch = [b \in Batches |-> NoBatch]
  /\ sent = [copies |-> [d \in Items |-> 0], again |-> [d \in Items |-> 0], unmarked |-> [d \in Items |-> 0], crossed |-> {},
             prefs |-> 0, overlaps |-> 0, deaths |-> 0]

Status(d) == delivery[d].status
Lost == sent.overlaps + sent.deaths
\* The rows among S that are still queued get status s.
Set(S, s) == delivery' = [d \in Items |-> IF d \in S /\ Status(d) = "queued" THEN [delivery[d] EXCEPT !.status = s, !.due = FALSE, !.stale = FALSE]
                                          ELSE delivery[d]]
Proceed(b, step) == batch' = [batch EXCEPT ![b].step = step]
\* Batch b goes on with its other rows.
Rest(b, todo) ==
  IF todo = {} THEN NoBatch
  ELSE [batch[b] EXCEPT !.step = "take", !.todo = todo, !.now = {}, !.saw = [d \in Items |-> IF d \in todo THEN @[d] ELSE 0]]
Continued(b) == Rest(b, batch[b].todo)
GoesOn(b) == batch' = [batch EXCEPT ![b] = Continued(b)]
\* Batch b becomes `after' and has set available_at of the rows S anew: too late
\* for the others, except perhaps for one that began late.
Reschedules(b, after, S) ==
  \E gone \in SUBSET S :
    batch' = [c \in Batches |-> IF c = b THEN after ELSE [batch[c] EXCEPT !.clock = @ \ IF batch[c].late THEN gone ELSE S]]
\* Too late for b itself as well.
PutsOff(b, after, S) == Reschedules(b, [after EXCEPT !.clock = @ \ S], S)

-----------------------------------------------------------------------------
\* createNotification: nothing for a user who is gone or does not want it, no
\* email without an address; a row that exists is left alone (skipDuplicates);
\* a digest is due at its next hour.
CreateNotification(d) ==
  /\ prefs.active /\ prefs.wanted /\ (d \in EmailItems => prefs.address) /\ Status(d) = "none"
  /\ delivery' = [delivery EXCEPT ![d] = [status |-> "queued", due |-> d \notin EmailItems \/ ~prefs.digest, stale |-> FALSE, attempts |-> 0]]
  /\ UNCHANGED <<prefs, batch, sent>>

\* The user changes a preference, quiet hours begin or end, the account or the
\* address goes or comes back.
ChangePrefs ==
  /\ sent.prefs < MaxPrefs
  /\ \E field \in DOMAIN prefs : prefs' = [prefs EXCEPT ![field] = ~@]
  /\ sent' = [sent EXCEPT !.prefs = @ + 1]
  /\ UNCHANGED <<delivery, batch>>

\* Time passes: available_at comes.
ComesDue(d) ==
  /\ Status(d) = "queued" /\ ~delivery[d].due
  /\ delivery' = [delivery EXCEPT ![d].due = TRUE]
  /\ UNCHANGED <<prefs, batch, sent>>

QuietHoursEnd ==
  /\ prefs.quiet /\ prefs' = [prefs EXCEPT !.quiet = FALSE]
  /\ UNCHANGED <<delivery, batch, sent>>

\* Ten minutes pass after the batch that claimed it has died (an attempt ends
\* long before: the providers time out).
GoesStale(d) ==
  /\ Status(d) = "sending" /\ ~delivery[d].stale
  /\ \A b \in Batches : d \notin batch[b].now
  /\ delivery' = [delivery EXCEPT ![d].stale = TRUE]
  /\ UNCHANGED <<prefs, batch, sent>>

-----------------------------------------------------------------------------
(* The batch *)

\* The lease admits one batch, until it is lost.  Instances are all alike: the
\* first that is free runs it.
BatchStart(b) ==
  /\ batch[b] = NoBatch /\ b = CHOOSE c \in Batches : batch[c] = NoBatch
  /\ \E d \in Items : Status(d) \in {"queued", "sending"}
  /\ \/ \A c \in Batches : batch[c] = NoBatch /\ UNCHANGED sent
     \/ /\ \E c \in Batches : batch[c] # NoBatch
        /\ Lost < MaxLost /\ sent' = [sent EXCEPT !.overlaps = @ + 1]
  /\ batch' = [batch EXCEPT ![b].step = "read", ![b].late = \E c \in Batches : batch[c] # NoBatch]
  /\ UNCHANGED <<delivery, prefs>>

\* Mutant: nothing is recovered.
InterruptedNone == {}

\* Rows that were claimed ten minutes ago and not finished.
Interrupted == {d \in Items : Status(d) = "sending" /\ delivery[d].stale}

\* Recovery, then the due rows with their user.
BatchRead(b) ==
  LET back == Interrupted
      rows == [d \in Items |-> IF d \in back THEN [delivery[d] EXCEPT !.status = "queued", !.due = TRUE, !.stale = FALSE] ELSE delivery[d]]
      todo == {d \in Items : rows[d].status = "queued" /\ rows[d].due}
      begun == IF todo = {} THEN NoBatch
               ELSE [batch[b] EXCEPT !.step = "take", !.todo = todo, !.prefs = prefs,
                     !.clock = {d \in Items : rows[d].status \in {"queued", "sending"} /\ rows[d].due},
                     !.saw = [d \in Items |-> IF d \in todo THEN delivery[d].attempts ELSE 0]]
  IN  /\ batch[b].step = "read"
      /\ delivery' = rows
      /\ Reschedules(b, begun, back)
      /\ sent' = [sent EXCEPT !.again = [d \in Items |-> IF d \in back THEN @[d] + 1 ELSE @[d]]]
      /\ UNCHANGED prefs

\* Mutant: a row is sent as it was read.
ClaimableAny(b, d) == TRUE

\* The row is queued and available at the now of the batch.
Claimable(b, d) == Status(d) = "queued" /\ d \in batch[b].clock

\* The next row: suppressed, put off, left to the digest, or claimed and sent,
\* as the user was when the batch read it.
BatchTake(b, d) ==
  LET rest == [batch[b] EXCEPT !.todo = @ \ {d}]
      user == batch[b].prefs
      after == Rest(b, rest.todo)
      Leave == batch' = [batch EXCEPT ![b] = after]
      wanted == user.active /\ user.wanted
      digest == user.digest /\ d \in EmailItems
  IN  /\ batch[b].step = "take" /\ d \in batch[b].todo
      /\ \/ ~wanted /\ Set({d}, "suppressed") /\ Leave
         \/ /\ wanted /\ user.quiet
            /\ IF Status(d) = "queued" THEN delivery' = [delivery EXCEPT ![d].due = FALSE] /\ PutsOff(b, after, {d})
                                       ELSE Leave /\ UNCHANGED delivery
         \/ /\ wanted /\ ~user.quiet /\ digest /\ UNCHANGED delivery
            /\ IF rest.digested THEN Leave ELSE batch' = [batch EXCEPT ![b] = [rest EXCEPT !.step = "digest", !.digested = TRUE]]
         \/ /\ wanted /\ ~user.quiet /\ ~digest
            /\ IF Claimable(b, d)
                 THEN /\ delivery' = [delivery EXCEPT ![d].status = "sending", ![d].stale = FALSE, ![d].attempts = @ + 1]
                      /\ batch' = [batch EXCEPT ![b] = [rest EXCEPT !.step = "send", !.now = {d}]]
                 ELSE Leave /\ UNCHANGED delivery
      /\ UNCHANGED <<prefs, sent>>

\* attempts >= MAX_ATTEMPTS, of the attempts that were read.
GivesUp(n) == n >= MaxSends

\* The provider answers, and the row is written by id.  The call of the provider
\* touches no row: it and the update are one step.  The update that marks a row
\* as sent may fail ("unmarked"), as if the provider had.
SendOne(b, outcome) ==
  \E d \in batch[b].now :
    /\ batch[b].step = "send"
    /\ delivery' = [delivery EXCEPT
         ![d].status = IF outcome = "sent" THEN "sent"
                       ELSE IF outcome = "permanent" \/ GivesUp(batch[b].saw[d] + 1) THEN "failed" ELSE "queued",
         ![d].due = FALSE, ![d].stale = FALSE]
    /\ sent' = [sent EXCEPT !.copies[d] = IF outcome \in {"sent", "unmarked"} THEN @ + 1 ELSE @,
                            !.unmarked[d] = IF outcome = "unmarked" THEN @ + 1 ELSE @]
    /\ PutsOff(b, Continued(b), IF outcome = "sent" THEN {} ELSE {d})
    /\ UNCHANGED prefs

\* sendEmailDigest reads every queued row of the user that is available, and
\* the user again, the account excepted; what it finds unwanted or in quiet
\* hours it suppresses or puts off; without an address the rows fail.
DigestRead(b) ==
  LET rows == {d \in EmailItems : Claimable(b, d)}
      goesOut == rows # {} /\ prefs.wanted /\ ~prefs.quiet
  IN  /\ batch[b].step = "digest"
      /\ \/ rows = {} /\ GoesOn(b) /\ UNCHANGED <<delivery, sent>>
         \/ rows # {} /\ ~prefs.wanted /\ Set(rows, "suppressed") /\ GoesOn(b) /\ UNCHANGED sent
         \/ /\ rows # {} /\ prefs.wanted /\ prefs.quiet /\ PutsOff(b, Continued(b), rows) /\ UNCHANGED sent
            /\ delivery' = [d \in Items |-> IF d \in rows THEN [delivery[d] EXCEPT !.due = FALSE] ELSE delivery[d]]
         \/ goesOut /\ ~prefs.address /\ Set(rows, "failed") /\ GoesOn(b) /\ UNCHANGED sent
         \/ /\ goesOut /\ prefs.address
            /\ batch' = [batch EXCEPT ![b].step = "claim", ![b].now = rows,
                                      ![b].saw = [d \in Items |-> IF d \in rows THEN delivery[d].attempts ELSE @[d]]]
            /\ sent' = [sent EXCEPT !.crossed = @ \cup (rows \cap UNION {batch[c].todo \cup batch[c].now : c \in Batches \ {b}})]
            /\ UNCHANGED delivery
      /\ UNCHANGED prefs

\* It claims the ones that are still queued, and goes on if there was any.
DigestClaim(b) ==
  LET mine == {d \in batch[b].now : Status(d) = "queued"}
  IN  /\ batch[b].step = "claim"
      /\ delivery' = [d \in Items |-> IF d \in mine THEN [delivery[d] EXCEPT !.status = "sending", !.attempts = @ + 1, !.stale = FALSE]
                                      ELSE delivery[d]]
      /\ sent' = [sent EXCEPT !.crossed = @ \cup (batch[b].now \ mine)]
      /\ IF mine = {} THEN GoesOn(b) ELSE Proceed(b, "mail")
      /\ UNCHANGED prefs

\* One mail with every row it read; the rows in delivery are updated, which may
\* fail here too.
DigestMail(b, outcome) ==
  LET mine == {d \in batch[b].now : Status(d) = "sending"}
  IN  /\ batch[b].step = "mail"
      /\ delivery' = [d \in Items |->
           IF d \in mine
           THEN [delivery[d] EXCEPT !.status = IF outcome = "sent" THEN "sent" ELSE IF GivesUp(batch[b].saw[d] + 1) THEN "failed" ELSE "queued",
                                    !.due = FALSE, !.stale = FALSE]
           ELSE delivery[d]]
      /\ sent' = [sent EXCEPT
           !.copies = [d \in Items |-> IF outcome \in {"sent", "unmarked"} /\ d \in batch[b].now THEN @[d] + 1 ELSE @[d]],
           !.unmarked = [d \in Items |-> IF outcome = "unmarked" /\ d \in mine THEN @[d] + 1 ELSE @[d]]]
      /\ PutsOff(b, Continued(b), IF outcome = "sent" THEN {} ELSE mine)
      /\ UNCHANGED prefs

\* The process dies, or a statement fails that nothing catches; a mail may have
\* gone out.
BatchDies(b) ==
  /\ batch[b] # NoBatch /\ Lost < MaxLost
  /\ \E out \in {{}, IF batch[b].step \in {"send", "mail"} THEN batch[b].now ELSE {}} :
       sent' = [sent EXCEPT !.deaths = @ + 1, !.copies = [d \in Items |-> IF d \in out THEN @[d] + 1 ELSE @[d]]]
  /\ batch' = [batch EXCEPT ![b] = NoBatch]
  /\ UNCHANGED <<delivery, prefs>>

BatchNext ==
  \E b \in Batches :
    \/ BatchStart(b) \/ BatchRead(b) \/ \E d \in Items : BatchTake(b, d)
    \/ \E outcome \in {"sent", "retry", "permanent", "unmarked"} : SendOne(b, outcome)
    \/ DigestRead(b) \/ DigestClaim(b) \/ \E outcome \in {"sent", "retry", "unmarked"} : DigestMail(b, outcome)

Passing == QuietHoursEnd \/ \E d \in Items : ComesDue(d) \/ GoesStale(d)

NotificationNext ==
  \/ (\E d \in Items : CreateNotification(d)) \/ ChangePrefs \/ Passing \/ BatchNext
  \/ \E b \in Batches : BatchDies(b)

\* The job runs every minute and works through its rows; time passes.
NotificationFairness ==
  /\ WF_notificationVars(BatchNext)
  /\ WF_notificationVars(\E d \in Items : ComesDue(d) \/ GoesStale(d))
  /\ WF_notificationVars(QuietHoursEnd)

-----------------------------------------------------------------------------
(* Properties *)

\* A notification reaches the user once on a channel, and once more for every
\* attempt that was interrupted and recovered, or that could not be marked as
\* sent; batches that overlap claim each row separately, only a digest sends rows
\* that another batch had in hand.
SentOncePerRecovery == \A d \in Items \ sent.crossed : sent.copies[d] <= 1 + sent.again[d] + sent.unmarked[d]

\* A row is tried MAX_ATTEMPTS times, once more for every recovery, which does
\* not look at the count, and once more for every batch that overlapped another
\* and counts from what it read.
AttemptsLimited == \A d \in Items : delivery[d].attempts <= MaxSends + sent.again[d] + sent.overlaps

\* A delivery is sent once and tried a bounded number of times, and once more for
\* every interruption that was recovered or update that failed.
NotificationsSafe == NotificationTypeOK /\ SentOncePerRecovery /\ AttemptsLimited

\* A notification that is neither sent, given up nor suppressed.
DeliveryOutstanding == \E d \in Items : Status(d) \in {"queued", "sending"}
=============================================================================
