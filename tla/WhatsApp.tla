------------------------------- MODULE WhatsApp -------------------------------
(***************************************************************************)
(* WhatsApp messages of one organisation in one month                        *)
(* (src/src/services/whatsapp.ts, whatsappUsage.ts): every attempt reserves  *)
(* one message of the monthly limit before it is sent, the administrators    *)
(* are told when the limit nears and when it is reached, and the provider    *)
(* reports later what became of a message.                                   *)
(***************************************************************************)
EXTENDS Naturals, FiniteSets

CONSTANTS
  Messages,      \* messages that are sent
  Limit,         \* wa_monthly_message_limit
  WarnAt,        \* the number of messages at which the administrators are warned
  MaxRetries,    \* attempts of a message (3)
  Handlers,      \* callbacks in progress
  MaxClock,      \* bound: seconds
  MaxWaCrashes   \* bound: senders that die

ASSUME WhatsAppAssumption ==
  /\ IsFiniteSet(Messages) /\ MaxRetries \in Nat \ {0} /\ MaxClock \in Nat /\ MaxWaCrashes \in Nat
  /\ Limit \in Nat \ {0} /\ WarnAt \in 1 .. Limit

VARIABLES
  log,       \* whatsapp_logs
  period,    \* whatsapp_usage_periods
  sender,    \* calls of notify
  handler,   \* callbacks being applied
  meta       \* the provider, and history

whatsAppVars == <<log, period, sender, handler, meta>>

-----------------------------------------------------------------------------
Reports == {"sent", "delivered", "read", "failed"}
\* providerStatusRank
Rank(s) == CASE s = "accepted" -> 0 [] s = "sent" -> 1 [] s = "delivered" -> 2 [] s = "read" -> 3 [] s = "failed" -> 4
Kinds == {"threshold", "limit"}
\* at: half seconds.  The provider stamps whole seconds, the log its own time.
Log == [status : {"none", "pending", "sent", "failed", "suppressed"}, provider : Reports \cup {"none", "accepted"}, at : Nat]
NoLog == [status |-> "none", provider |-> "none", at |-> 0]
Sender == [step : {"idle", "reserve", "alert", "claim", "send", "record", "ended"}, attempt : 0 .. MaxRetries,
           allowed : BOOLEAN, due : SUBSET Kinds, ok : BOOLEAN]
NoSender == [step |-> "idle", attempt |-> 0, allowed |-> FALSE, due |-> {}, ok |-> FALSE]
NoHandler == [on |-> {}, report |-> "sent", at |-> 0]

WhatsAppTypeOK ==
  /\ log \in [Messages -> Log]
  /\ period \in [reserved : Nat, alerted : SUBSET Kinds, alerts : [Kinds -> Nat]]
  /\ sender \in [Messages -> Sender]
  /\ handler \in [Handlers -> [on : SUBSET Messages, report : Reports, at : Nat]]
  /\ meta \in [clock : 0 .. MaxClock, accepted : Nat, reports : SUBSET (Messages \X Reports \X Nat), known : SUBSET Messages,
               overlapped : SUBSET Messages, muted : SUBSET Kinds, crashes : 0 .. MaxWaCrashes]

WhatsAppInit ==
  /\ log = [w \in Messages |-> NoLog]
  /\ period = [reserved |-> 0, alerted |-> {}, alerts |-> [k \in Kinds |-> 0]]
  /\ sender = [w \in Messages |-> NoSender]
  /\ handler = [h \in Handlers |-> NoHandler]
  /\ meta = [clock |-> 0, accepted |-> 0, reports |-> {}, known |-> {}, overlapped |-> {}, muted |-> {}, crashes |-> 0]

-----------------------------------------------------------------------------
(* Sending *)

\* notify, for an organisation that is configured: the log row is created.
Notify(w) ==
  /\ log[w].status = "none"
  /\ log' = [log EXCEPT ![w].status = "pending"]
  /\ sender' = [sender EXCEPT ![w] = [NoSender EXCEPT !.step = "reserve", !.attempt = 1]]
  /\ UNCHANGED <<period, handler, meta>>

\* Mutant: one message more than the limit.
HasRoomLate == period.reserved <= Limit

\* The conditional increment of the transaction.
HasRoom == period.reserved < Limit

DueAlerts(n) ==
  {k \in Kinds : (k = "threshold" /\ WarnAt < Limit /\ n >= WarnAt) \/ (k = "limit" /\ n >= Limit)}

\* reserveWhatsAppAttempt, and which alerts are due then.
Reserve(w) ==
  LET n == IF HasRoom THEN period.reserved + 1 ELSE period.reserved
  IN  /\ sender[w].step = "reserve"
      /\ period' = [period EXCEPT !.reserved = n]
      /\ sender' = [sender EXCEPT ![w].step = "alert", ![w].allowed = HasRoom,
                      ![w].due = DueAlerts(n)]
      /\ meta' = [meta EXCEPT !.muted = @ \ DueAlerts(n)]
      /\ UNCHANGED <<log, handler>>

\* The alert that is given next; threshold first.
NextAlert(w) == IF "threshold" \in sender[w].due THEN "threshold" ELSE "limit"

\* notifyWhatsAppAdmins looks whether the alert was given.
AlertRead(w) ==
  LET kind == NextAlert(w)
  IN  /\ sender[w].step = "alert" /\ sender[w].due # {}
      /\ sender' = IF kind \in period.alerted THEN [sender EXCEPT ![w].due = @ \ {kind}] ELSE [sender EXCEPT ![w].step = "claim"]
      /\ UNCHANGED <<log, period, handler, meta>>

\* The conditional update finds it missing still.
Alerts(kind) == kind \notin period.alerted

AlertClaim(w) ==
  LET kind == NextAlert(w)
  IN  /\ sender[w].step = "claim"
      /\ period' = IF Alerts(kind) THEN [period EXCEPT !.alerted = @ \cup {kind}, !.alerts[kind] = @ + 1] ELSE period
      /\ sender' = [sender EXCEPT ![w].step = "alert", ![w].due = @ \ {kind}]
      /\ UNCHANGED <<log, handler, meta>>

\* A statement of notifyWhatsAppAdmins fails: the alert is dropped, the message
\* goes on.
AlertFails(w) ==
  /\ sender[w].step \in {"alert", "claim"} /\ sender[w].due # {}
  /\ sender' = [sender EXCEPT ![w].step = "alert", ![w].due = @ \ {NextAlert(w)}]
  /\ meta' = [meta EXCEPT !.muted = @ \cup {NextAlert(w)}]
  /\ UNCHANGED <<log, period, handler>>

\* No message is left: the log is suppressed.  Otherwise the provider is asked.
Admitted(w) ==
  /\ sender[w].step = "alert" /\ sender[w].due = {}
  /\ IF sender[w].allowed
       THEN sender' = [sender EXCEPT ![w].step = "send"] /\ UNCHANGED log
       ELSE /\ log' = [log EXCEPT ![w].status = "suppressed"]
            /\ sender' = [sender EXCEPT ![w] = [NoSender EXCEPT !.step = "ended"]]
  /\ UNCHANGED <<period, handler, meta>>

\* The provider accepts the message or not; an answer may be lost.
SendWhatsAppMessage(w) ==
  /\ sender[w].step = "send"
  /\ \E ok \in BOOLEAN, accepted \in BOOLEAN :
       /\ ok => accepted
       /\ meta' = [meta EXCEPT !.accepted = IF accepted THEN @ + 1 ELSE @, !.known = IF ok THEN @ \cup {w} ELSE @]
       /\ sender' = [sender EXCEPT ![w].step = "record", ![w].ok = ok]
  /\ UNCHANGED <<log, period, handler>>

TriesAgain(w) == sender[w].attempt < MaxRetries

\* The log; a failure is tried again until the attempts are used up.
Record(w) ==
  /\ sender[w].step = "record"
  /\ \/ /\ sender[w].ok
        /\ log' = [log EXCEPT ![w] = [status |-> "sent", provider |-> "accepted", at |-> 2 * meta.clock + 1]]
        /\ sender' = [sender EXCEPT ![w] = [NoSender EXCEPT !.step = "ended"]]
     \/ /\ ~sender[w].ok /\ TriesAgain(w) /\ UNCHANGED log
        /\ sender' = [sender EXCEPT ![w] = [NoSender EXCEPT !.step = "reserve", !.attempt = sender[w].attempt + 1]]
     \/ /\ ~sender[w].ok /\ ~TriesAgain(w)
        /\ log' = [log EXCEPT ![w].status = "failed"]
        /\ sender' = [sender EXCEPT ![w] = [NoSender EXCEPT !.step = "ended"]]
  /\ UNCHANGED <<period, handler, meta>>

\* The process dies, or another statement of notify fails.
SenderDies(w) ==
  /\ sender[w].step \notin {"idle", "ended"} /\ meta.crashes < MaxWaCrashes
  /\ sender' = [sender EXCEPT ![w] = [NoSender EXCEPT !.step = "ended"]]
  /\ meta' = [meta EXCEPT !.crashes = @ + 1]
  /\ UNCHANGED <<log, period, handler>>

-----------------------------------------------------------------------------
(* Reports of the provider *)

Second ==
  /\ meta.clock < MaxClock
  /\ meta' = [meta EXCEPT !.clock = @ + 1]
  /\ UNCHANGED <<log, period, sender, handler>>

\* The provider reports on a message it accepted, each stage after the one
\* before; it repeats reports and delivers them in any order.
Emit(w, report) ==
  /\ w \in meta.known /\ \A r \in meta.reports : r[1] = w => Rank(r[2]) < Rank(report)
  /\ meta' = [meta EXCEPT !.reports = @ \cup {<<w, report, meta.clock>>}]
  /\ UNCHANGED <<log, period, sender, handler>>

\* Mutant: a later report always counts.
RegressesNever(w, report) == FALSE

\* providerStatusRank is lower than what the log has.
Regresses(w, report) == Rank(report) < Rank(IF log[w].provider = "none" THEN "accepted" ELSE log[w].provider)

\* reconcileWhatsAppStatuses: the message must be known by its identifier; stale
\* reports, and reports that take the status back, are ignored.
CallbackRead(h, w, report, t) ==
  /\ handler[h] = NoHandler /\ <<w, report, t>> \in meta.reports
  /\ log[w].provider # "none"
  /\ ~(2 * t < log[w].at) /\ ~Regresses(w, report)
  /\ handler' = [handler EXCEPT ![h] = [on |-> {w}, report |-> report, at |-> 2 * t]]
  /\ meta' = [meta EXCEPT !.overlapped = @ \cup {v \in {w} : \E g \in Handlers : v \in handler[g].on}]
  /\ UNCHANGED <<log, period, sender>>

\* The update, by id.
CallbackWrite(h) ==
  \E w \in handler[h].on :
    /\ log' = [log EXCEPT ![w] = [status |-> IF handler[h].report = "failed" THEN "failed" ELSE @.status,
                                  provider |-> handler[h].report, at |-> handler[h].at]]
    /\ handler' = [handler EXCEPT ![h] = NoHandler]
    /\ UNCHANGED <<period, sender, meta>>

SendingNext(ws) ==
  \E w \in ws : \/ Notify(w) \/ Reserve(w) \/ AlertRead(w) \/ AlertClaim(w) \/ AlertFails(w) \/ Admitted(w)
                \/ SendWhatsAppMessage(w) \/ Record(w) \/ SenderDies(w)

ReportsNext(ws) ==
  \/ \E w \in ws, report \in Reports :
       Emit(w, report) \/ \E h \in Handlers, t \in 0 .. MaxClock : CallbackRead(h, w, report, t)
  \/ \E h \in Handlers : CallbackWrite(h)
  \/ Second

WhatsAppNext == SendingNext(Messages) \/ ReportsNext(Messages)

-----------------------------------------------------------------------------
(* Properties *)

\* The provider accepts no more messages than the monthly limit, retries of
\* answers that were lost included, however many are sent at once.
LimitKept == meta.accepted <= Limit /\ period.reserved <= Limit

\* The administrators are told of each alert once in a month.
AlertGivenOnce == \A k \in Kinds : period.alerts[k] <= 1

\* When the limit is reached and nobody is sending any more, they were told of
\* it, unless a sender died or the alert of it failed: every attempt that is made
\* after a failure gives the alert again.
LimitIsAnnounced ==
  period.reserved >= Limit /\ meta.crashes = 0 /\ (\A w \in Messages : sender[w].step \in {"idle", "ended"})
    => "limit" \in period.alerted \cup meta.muted

\* The month's messages stay within the limit, and the administrators are told of
\* threshold and limit, once, although many are sent at the same time.
WhatsAppSafe == WhatsAppTypeOK /\ LimitKept /\ AlertGivenOnce /\ LimitIsAnnounced

\* What the provider reported is never taken back by a report that arrives late
\* or again, unless two reports on the message are applied at the same time.
StatusNeverRegresses ==
  [][\A w \in Messages \ meta.overlapped :
       log[w].provider # "none" => Rank(log'[w].provider) >= Rank(log[w].provider)]_whatsAppVars
=============================================================================
