-------------------------------- MODULE MCJobs --------------------------------
(* The background jobs, one concern at a time.                                *)
EXTENDS Offboarding, Notifications, WhatsApp, Reminders, ScheduledReports, TLC

VARIABLE focus

MCSubjects == <<"first", "second">>
vars == <<offboardingVars, notificationVars, whatsAppVars, reminderVars, reportVars, focus>>

MCInit ==
  /\ focus \in {"revocation", "sessions", "settlement", "deliveries", "digests", "messages", "receipts", "deadlines", "remote", "daily", "timetable"}
  /\ IF focus = "settlement"
       THEN \E due \in BOOLEAN : OffboardingFrom({CHOOSE x \in Cases : TRUE}, NewCase(due, {"task", "asset"}))
       ELSE OffboardingInit
  /\ NotificationInit /\ (prefs.digest <=> focus = "digests")
  /\ WhatsAppInit
  /\ ReminderInit(IF focus \notin Jobs THEN "daily" ELSE focus)
  /\ ReportInit

OneHand == {CHOOSE h \in Hands : TRUE}
OneMessage == {CHOOSE w \in Messages : TRUE}
\* The first delivery is the one that is created first: there is no other difference
\* between the two.
InOrder == Status(CHOOSE d \in Items : TRUE) = "none" => \A d \in Items : Status(d) = "none"
\* With digests on, a behaviour has one of three: a change of the preferences, a
\* death, an update that fails; while batches overlap only the first, which turns the
\* digest off.
OneUpset ==
  /\ sent.prefs = 0 \/ (sent.deaths = 0 /\ (sent.overlaps = 0 \/ ~prefs.digest))
  /\ sent.prefs + Lost = 0 \/ \A d \in Items : sent.unmarked[d] = 0

MCNext ==
  /\ UNCHANGED focus
  /\ \/ /\ \/ focus = "revocation" /\ (CasesNext(Hands, OneHand) \/ RevokerNext)
           \/ focus = "sessions" /\ (CasesNext(OneHand, OneHand) \/ RevokerNext \/ SessionsNext)
           \/ focus = "settlement" /\ (ChecklistNext \/ RevokerNext)
        /\ UNCHANGED <<notificationVars, whatsAppVars, reminderVars, reportVars>>
     \/ /\ \/ focus = "deliveries" /\ NotificationNext /\ InOrder' /\ sent'.overlaps = 0
           \/ focus = "digests" /\ NotificationNext /\ InOrder' /\ OneUpset'
        /\ UNCHANGED <<offboardingVars, whatsAppVars, reminderVars, reportVars>>
     \/ /\ \/ focus = "messages" /\ SendingNext(Messages)
           \/ focus = "receipts" /\ (SendingNext(OneMessage) \/ ReportsNext(OneMessage))
        /\ UNCHANGED <<offboardingVars, notificationVars, reminderVars, reportVars>>
     \/ /\ focus \notin {"revocation", "sessions", "settlement", "deliveries", "digests", "messages", "receipts", "timetable"} /\ ReminderNext
        /\ UNCHANGED <<offboardingVars, notificationVars, whatsAppVars, reportVars>>
     \/ /\ focus = "timetable" /\ ReportNext
        /\ UNCHANGED <<offboardingVars, notificationVars, whatsAppVars, reminderVars>>

MCSpec ==
  /\ MCInit /\ [][MCNext]_vars
  /\ WF_offboardingVars(RevokerNext) /\ NotificationFairness /\ ReminderFairness /\ ReportFairness

\* What a job has begun, or is due to do, is done in the end, although
\* processes die, leases are lost and statements fail: access is revoked when
\* the last working day has come, a notification is sent, given up or
\* suppressed, a job that came due is completed, a report that is due is run.
OutstandingIsDone ==
  LET Outstanding == RevocationOutstanding \/ DeliveryOutstanding \/ JobOutstanding \/ ReportOutstanding
  IN  Outstanding ~> ~Outstanding
=============================================================================
