----------------------------- MODULE JobsProofs -----------------------------
(***************************************************************************)
(* Proofs about the background jobs: the monthly limit of WhatsApp messages, *)
(* its alerts and the reports of the provider (WhatsApp), the claim and the  *)
(* slots of the scheduled reports (ScheduledReports), the leases, markers    *)
(* and claims of the reminders (Reminders), the queue of webhook deliveries  *)
(* (WebhookDelivery): one sender per delivery, a bound on its attempts and   *)
(* one alert, for any number of concurrent attempts, replays and tests; and  *)
(* the deliveries of notifications (Notifications): one copy and a bounded   *)
(* number of attempts for any number of overlapping and dying batches.       *)
(***************************************************************************)
EXTENDS WhatsApp, ScheduledReports, Reminders, WebhookDelivery, Notifications, FiniteSetTheorems, TLAPS

-----------------------------------------------------------------------------
(* WhatsApp messages *)

WhatsAppSpec == WhatsAppInit /\ [][WhatsAppNext]_whatsAppVars

\* Messages with a reservation that the provider has not seen yet.
Pledged == {w \in Messages : sender[w].allowed /\ sender[w].step \in {"alert", "claim", "send"}}

\* A message is accepted on a reservation of its own.
ReservedFirst ==
  /\ meta.accepted + Cardinality(Pledged) <= period.reserved /\ period.reserved <= Limit
  /\ \A w \in Messages : sender[w].step = "send" => sender[w].allowed

\* The row of the month remembers that an alert was given.
AlertsKnown == \A k \in Kinds : period.alerts[k] <= 1 /\ (k \notin period.alerted => period.alerts[k] = 0)

\* Whoever takes the last message announces it, or fails to.
Announcer == \E w \in Messages : sender[w].step \in {"alert", "claim"} /\ "limit" \in sender[w].due
Announced == period.reserved >= Limit /\ meta.crashes = 0 => "limit" \in period.alerted \cup meta.muted \/ Announcer

\* The log has a provider's status only after the sender ended, and a callback
\* that is being applied advances it.
LogKnown == \A w \in Messages :
  /\ sender[w].step # "ended" => log[w].provider = "none"
  /\ log[w].status = "none" => sender[w].step = "idle"
CallbacksAdvance == \A w \in Messages :
  /\ \A h \in Handlers : w \in handler[h].on =>
       log[w].provider # "none" /\ (w \notin meta.overlapped => Rank(handler[h].report) >= Rank(log[w].provider))
  /\ \A h, g \in Handlers : w \in handler[h].on /\ w \in handler[g].on /\ h # g => w \in meta.overlapped

WhatsAppInv ==
  WhatsAppTypeOK /\ ReservedFirst /\ AlertsKnown /\ Announced /\ LogKnown /\ CallbacksAdvance

LEMMA WaNumbers ==
  /\ IsFiniteSet(Messages) /\ MaxRetries \in Nat \ {0} /\ MaxClock \in Nat /\ MaxWaCrashes \in Nat
  /\ Limit \in Nat \ {0} /\ WarnAt \in 1 .. Limit
  BY WhatsAppAssumption

LEMMA PledgedCount ==
  ASSUME NEW w
  PROVE  /\ Cardinality(Pledged) \in Nat
         /\ w \notin Pledged => Cardinality(Pledged \cup {w}) = Cardinality(Pledged) + 1
         /\ w \in Pledged => Cardinality(Pledged \ {w}) = Cardinality(Pledged) - 1
<1>1. Pledged \in SUBSET Messages BY DEF Pledged
<1>2. IsFiniteSet(Pledged) BY <1>1, WaNumbers, FS_Subset
<1> QED BY <1>2, FS_CardinalityType, FS_AddElement, FS_RemoveElement

LEMMA WhatsAppInvInit == WhatsAppInit => WhatsAppInv
<1> SUFFICES ASSUME WhatsAppInit PROVE WhatsAppInv OBVIOUS
<1>1. WhatsAppTypeOK
  BY WaNumbers DEF WhatsAppInit, WhatsAppTypeOK, NoLog, Log, NoSender, Sender, NoHandler, Reports, Kinds
<1>2. ReservedFirst
  <2>1. Pledged = {} BY DEF WhatsAppInit, Pledged, NoSender
  <2> QED BY <2>1, FS_EmptySet, WaNumbers DEF WhatsAppInit, ReservedFirst, NoSender
<1>3. AlertsKnown BY DEF WhatsAppInit, AlertsKnown
<1>4. Announced BY WaNumbers DEF WhatsAppInit, Announced
<1>5. LogKnown /\ CallbacksAdvance
  BY DEF WhatsAppInit, LogKnown, CallbacksAdvance, NoLog, NoSender, NoHandler
<1> QED BY <1>1, <1>2, <1>3, <1>4, <1>5 DEF WhatsAppInv

\* The invariant gives the properties.
LEMMA WhatsAppInvImplies == WhatsAppInv => WhatsAppSafe
<1> SUFFICES ASSUME WhatsAppInv PROVE WhatsAppSafe OBVIOUS
<1>1. LimitKept
  <2>1. meta.accepted \in Nat /\ period.reserved \in Nat BY DEF WhatsAppInv, WhatsAppTypeOK
  <2>2. Cardinality(Pledged) \in Nat BY PledgedCount
  <2> QED BY <2>1, <2>2, WaNumbers DEF WhatsAppInv, ReservedFirst, LimitKept
<1>2. AlertGivenOnce BY DEF WhatsAppInv, AlertsKnown, AlertGivenOnce
<1>3. LimitIsAnnounced BY DEF WhatsAppInv, Announced, Announcer, LimitIsAnnounced
<1> QED BY <1>1, <1>2, <1>3 DEF WhatsAppSafe, WhatsAppInv

\* What a sender counts for.
Pledge(r) == IF r.allowed /\ r.step \in {"alert", "claim", "send"} THEN 1 ELSE 0

LEMMA FreshSender == NoSender \in Sender /\ ~NoSender.allowed
<1>1. 0 \in 0 .. MaxRetries BY WaNumbers
<1> QED BY <1>1 DEF NoSender, Sender

\* A sender's step: what it may do to the other parts of the state.
LEMMA SenderStep ==
  ASSUME WhatsAppInv, NEW w \in Messages, NEW r \in Sender, NEW l \in Log,
         sender' = [sender EXCEPT ![w] = r], log' = [log EXCEPT ![w] = l], handler' = handler,
         period' \in [reserved : Nat, alerted : SUBSET Kinds, alerts : [Kinds -> Nat]],
         meta' \in [clock : 0 .. MaxClock, accepted : Nat, reports : SUBSET (Messages \X Reports \X Nat),
                    known : SUBSET Messages, overlapped : SUBSET Messages, muted : SUBSET Kinds, crashes : 0 .. MaxWaCrashes],
         AlertsKnown', Announced', meta'.overlapped = meta.overlapped,
         \* the log
         l.status # "none", r.step # "idle", r.step # "ended" => l.provider = "none",
         l = log[w] \/ sender[w].step # "ended" \/ l.provider = log[w].provider,
         \* reservations
         r.step = "send" => r.allowed, period'.reserved <= Limit,
         meta'.accepted + Pledge(r) - Pledge(sender[w]) - period'.reserved <= meta.accepted - period.reserved
  PROVE  WhatsAppInv'
<1>0. /\ sender \in [Messages -> Sender] /\ log \in [Messages -> Log] /\ period.reserved \in Nat /\ meta.accepted \in Nat
      /\ period'.reserved \in Nat /\ meta'.accepted \in Nat
  BY DEF WhatsAppInv, WhatsAppTypeOK
<1>1. /\ sender'[w] = r /\ log'[w] = l /\ sender' \in [Messages -> Sender] /\ log' \in [Messages -> Log]
      /\ \A v \in Messages : v # w => sender'[v] = sender[v] /\ log'[v] = log[v]
  BY <1>0
<1>2. WhatsAppTypeOK' BY <1>1 DEF WhatsAppInv, WhatsAppTypeOK
<1>3. ReservedFirst'
  <2>1. \A v \in Messages : sender'[v].step = "send" => sender'[v].allowed
    BY <1>1 DEF WhatsAppInv, ReservedFirst
  <2>2. meta'.accepted + Cardinality(Pledged') <= period'.reserved
    <3>1. meta.accepted + Cardinality(Pledged) <= period.reserved /\ Cardinality(Pledged) \in Nat
      BY PledgedCount DEF WhatsAppInv, ReservedFirst
    <3>p. /\ w \in Pledged => Pledge(sender[w]) = 1
          /\ w \notin Pledged => Pledge(sender[w]) = 0
      BY DEF Pledged, Pledge
    <3>2. CASE r.allowed /\ r.step \in {"alert", "claim", "send"}
      <4>1. Pledged' = Pledged \cup {w} BY <1>1, <3>2 DEF Pledged
      <4>2. CASE w \in Pledged
        <5>1. Pledged' = Pledged BY <4>1, <4>2
        <5> QED BY <1>0, <3>1, <3>p, <3>2, <4>2, <5>1 DEF Pledge
      <4>3. CASE w \notin Pledged BY <1>0, <3>1, <3>p, <3>2, <4>1, <4>3, PledgedCount DEF Pledge
      <4> QED BY <4>2, <4>3
    <3>3. CASE ~(r.allowed /\ r.step \in {"alert", "claim", "send"})
      <4>1. Pledged' = Pledged \ {w} BY <1>1, <3>3 DEF Pledged
      <4>2. CASE w \in Pledged BY <1>0, <3>1, <3>p, <3>3, <4>1, <4>2, PledgedCount DEF Pledge
      <4>3. CASE w \notin Pledged
        <5>1. Pledged' = Pledged BY <4>1, <4>3
        <5> QED BY <1>0, <3>1, <3>p, <3>3, <4>3, <5>1 DEF Pledge
      <4> QED BY <4>2, <4>3
    <3> QED BY <3>2, <3>3
  <2> QED BY <2>1, <2>2 DEF ReservedFirst
<1>4. LogKnown' BY <1>1 DEF WhatsAppInv, LogKnown
<1>5. CallbacksAdvance'
  <2>1. \A h \in Handlers : w \in handler[h].on => l.provider = log[w].provider
    BY DEF WhatsAppInv, CallbacksAdvance, LogKnown
  <2> QED BY <1>1, <2>1 DEF WhatsAppInv, CallbacksAdvance
<1> QED BY <1>2, <1>3, <1>4, <1>5 DEF WhatsAppInv

\* An announcer stays one while others go on.
LEMMA AnnouncedStays ==
  ASSUME WhatsAppInv, NEW w \in Messages, NEW r, sender' = [sender EXCEPT ![w] = r],
         period'.reserved = period.reserved, meta'.crashes = meta.crashes,
         period.alerted \subseteq period'.alerted, meta.muted \subseteq meta'.muted,
         \/ ~(sender[w].step \in {"alert", "claim"} /\ "limit" \in sender[w].due)
         \/ r.step \in {"alert", "claim"} /\ "limit" \in r.due
         \/ "limit" \in period'.alerted \cup meta'.muted
  PROVE  Announced'
<1>1. sender'[w] = r /\ \A v \in Messages : v # w => sender'[v] = sender[v] BY DEF WhatsAppInv, WhatsAppTypeOK
<1>2. Announcer => "limit" \in period'.alerted \cup meta'.muted \/ Announcer' BY <1>1 DEF Announcer
<1> QED BY <1>2 DEF WhatsAppInv, Announced

-----------------------------------------------------------------------------

\* What holds of a sender that is at work.
LEMMA SenderFacts ==
  ASSUME WhatsAppInv, NEW w \in Messages
  PROVE  /\ sender[w] \in Sender /\ log[w] \in Log /\ log = [log EXCEPT ![w] = log[w]]
         /\ sender[w].step \notin {"idle", "ended"} => log[w].status # "none" /\ log[w].provider = "none"
         /\ log[w].status = "none" => log[w].provider = "none" /\ sender[w].step = "idle"
         /\ period \in [reserved : Nat, alerted : SUBSET Kinds, alerts : [Kinds -> Nat]]
         /\ period.reserved \in Nat /\ period.reserved <= Limit /\ meta.accepted \in Nat
         /\ meta \in [clock : 0 .. MaxClock, accepted : Nat, reports : SUBSET (Messages \X Reports \X Nat),
                      known : SUBSET Messages, overlapped : SUBSET Messages, muted : SUBSET Kinds, crashes : 0 .. MaxWaCrashes]
<1>1. log = [log EXCEPT ![w] = log[w]] BY DEF WhatsAppInv, WhatsAppTypeOK
<1> QED BY <1>1 DEF WhatsAppInv, WhatsAppTypeOK, LogKnown, ReservedFirst

LEMMA NotifyWa == ASSUME WhatsAppInv, NEW w \in Messages, Notify(w) PROVE WhatsAppInv'
<1> DEFINE r == [NoSender EXCEPT !.step = "reserve", !.attempt = 1]
           l == [log[w] EXCEPT !.status = "pending"]
<1>0. log[w].status = "none" /\ UNCHANGED <<period, handler, meta>> BY DEF Notify
<1>1. sender' = [sender EXCEPT ![w] = r] /\ log' = [log EXCEPT ![w] = l] BY SenderFacts DEF Notify
<1>2. r \in Sender /\ r.step = "reserve"
  <2>1. 1 \in 0 .. MaxRetries BY WaNumbers
  <2> QED BY <2>1, FreshSender DEF Sender
<1>3. l \in Log /\ l.status = "pending" /\ l.provider = log[w].provider BY SenderFacts DEF Log
<1>4. Pledge(r) = 0 /\ Pledge(sender[w]) = 0 BY <1>0, <1>2, SenderFacts DEF Pledge
<1> HIDE DEF r, l
<1>5. Announced' BY <1>0, <1>1, SenderFacts, AnnouncedStays
<1>6. AlertsKnown' BY <1>0 DEF WhatsAppInv, AlertsKnown
<1>7. meta'.accepted + Pledge(r) - Pledge(sender[w]) - period'.reserved <= meta.accepted - period.reserved
  BY <1>0, <1>4, SenderFacts
<1> QED BY <1>0, <1>1, <1>2, <1>3, <1>5, <1>6, <1>7, SenderFacts, SenderStep

LEMMA ReserveWa == ASSUME WhatsAppInv, NEW w \in Messages, Reserve(w) PROVE WhatsAppInv'
<1> DEFINE n == IF HasRoom THEN period.reserved + 1 ELSE period.reserved
           r == [sender[w] EXCEPT !.step = "alert", !.allowed = HasRoom, !.due = DueAlerts(n)]
<1>0. /\ sender[w].step = "reserve" /\ UNCHANGED <<log, handler>> /\ period' = [period EXCEPT !.reserved = n]
      /\ n \in Nat /\ n <= Limit /\ meta' = [meta EXCEPT !.muted = @ \ DueAlerts(n)]
  BY SenderFacts, WaNumbers DEF Reserve, HasRoom
<1>1. sender' = [sender EXCEPT ![w] = r] BY SenderFacts DEF Reserve, WhatsAppInv, WhatsAppTypeOK, Sender
<1>2. DueAlerts(n) \in SUBSET Kinds /\ HasRoom \in BOOLEAN BY DEF DueAlerts, HasRoom
<1>3. n >= Limit => "limit" \in DueAlerts(n) BY DEF DueAlerts, Kinds
<1>4. n = IF HasRoom THEN period.reserved + 1 ELSE period.reserved OBVIOUS
<1> HIDE DEF n
<1>5. r \in Sender /\ r.step = "alert" /\ r.allowed = HasRoom /\ r.due = DueAlerts(n) BY <1>2, SenderFacts DEF Sender
<1> HIDE DEF r
<1>6. /\ period' \in [reserved : Nat, alerted : SUBSET Kinds, alerts : [Kinds -> Nat]]
      /\ period'.reserved = n /\ period'.alerted = period.alerted /\ period'.alerts = period.alerts
  BY <1>0, SenderFacts
<1>m. /\ meta' \in [clock : 0 .. MaxClock, accepted : Nat, reports : SUBSET (Messages \X Reports \X Nat),
                    known : SUBSET Messages, overlapped : SUBSET Messages, muted : SUBSET Kinds, crashes : 0 .. MaxWaCrashes]
      /\ meta'.accepted = meta.accepted /\ meta'.overlapped = meta.overlapped
  <2> DEFINE m == meta.muted \ DueAlerts(n)
  <2>1. meta' = [meta EXCEPT !.muted = m] /\ m \in SUBSET Kinds BY <1>0, SenderFacts
  <2> HIDE DEF m
  <2> QED BY <2>1, SenderFacts
<1>7. Pledge(sender[w]) = 0 BY <1>0 DEF Pledge
<1>8. AlertsKnown' BY <1>6 DEF WhatsAppInv, AlertsKnown
<1>9. Announced'
  <2>1. CASE n >= Limit
    <3>1. sender'[w] = r BY <1>1 DEF WhatsAppInv, WhatsAppTypeOK
    <3> QED BY <1>3, <1>5, <2>1, <3>1 DEF Announced, Announcer
  <2>2. CASE ~(n >= Limit) BY <1>6, <2>2 DEF Announced
  <2> QED BY <2>1, <2>2
<1>10. meta'.accepted + Pledge(r) - Pledge(sender[w]) - period'.reserved <= meta.accepted - period.reserved
  BY <1>m, <1>4, <1>5, <1>6, <1>7, SenderFacts DEF Pledge
<1> QED BY <1>0, <1>1, <1>5, <1>6, <1>m, <1>8, <1>9, <1>10, SenderFacts, SenderStep

LEMMA AlertReadWa == ASSUME WhatsAppInv, NEW w \in Messages, AlertRead(w) PROVE WhatsAppInv'
<1> DEFINE kind == NextAlert(w)
           r == IF kind \in period.alerted THEN [sender[w] EXCEPT !.due = @ \ {kind}] ELSE [sender[w] EXCEPT !.step = "claim"]
<1>0. sender[w].step = "alert" /\ UNCHANGED <<log, period, handler, meta>> BY DEF AlertRead
<1>1. sender' = [sender EXCEPT ![w] = r] BY SenderFacts DEF AlertRead, WhatsAppInv, WhatsAppTypeOK, Sender
<1>2. r \in Sender /\ r.step \in {"alert", "claim"} /\ r.allowed = sender[w].allowed
  BY <1>0, SenderFacts DEF Sender
<1>3. "limit" \in sender[w].due => "limit" \in r.due \/ "limit" \in period.alerted BY SenderFacts DEF Sender
<1> HIDE DEF r
<1>4. Announced' BY <1>0, <1>1, <1>2, <1>3, AnnouncedStays
<1>5. AlertsKnown' BY <1>0 DEF WhatsAppInv, AlertsKnown
<1>6. Pledge(r) = Pledge(sender[w]) /\ Pledge(r) \in Int BY <1>0, <1>2 DEF Pledge
<1>7. meta'.accepted + Pledge(r) - Pledge(sender[w]) - period'.reserved <= meta.accepted - period.reserved
  BY <1>0, <1>6, SenderFacts
<1> QED BY <1>7, <1>0, <1>1, <1>2, <1>4, <1>5, <1>6, SenderFacts, SenderStep

LEMMA AlertClaimWa == ASSUME WhatsAppInv, NEW w \in Messages, AlertClaim(w) PROVE WhatsAppInv'
<1> DEFINE kind == NextAlert(w)
           r == [sender[w] EXCEPT !.step = "alert", !.due = @ \ {kind}]
<1>0. sender[w].step = "claim" /\ UNCHANGED <<log, handler, meta>> /\ kind \in Kinds BY DEF AlertClaim, NextAlert, Kinds
<1>1. sender' = [sender EXCEPT ![w] = r] BY SenderFacts DEF AlertClaim, WhatsAppInv, WhatsAppTypeOK, Sender
<1>2. r \in Sender /\ r.step = "alert" /\ r.allowed = sender[w].allowed /\ r.due = sender[w].due \ {kind}
  BY <1>0, SenderFacts DEF Sender
<1>3. period' = IF Alerts(kind) THEN [period EXCEPT !.alerted = @ \cup {kind}, !.alerts[kind] = @ + 1] ELSE period
  BY DEF AlertClaim
<1>4. "limit" \in sender[w].due => "limit" \in r.due \/ kind = "limit" BY <1>2
<1> HIDE DEF r, kind
<1>5. /\ period' \in [reserved : Nat, alerted : SUBSET Kinds, alerts : [Kinds -> Nat]]
      /\ period'.reserved = period.reserved /\ period'.alerted = period.alerted \cup {kind}
      /\ AlertsKnown'
  <2>1. CASE Alerts(kind)
    <3>1. period.alerts[kind] = 0 /\ period.alerts \in [Kinds -> Nat]
      BY <1>0, <2>1, SenderFacts DEF Alerts, WhatsAppInv, AlertsKnown
    <3>2. /\ period'.alerts = [period.alerts EXCEPT ![kind] = 1] /\ period'.reserved = period.reserved
          /\ period'.alerted = period.alerted \cup {kind}
          /\ period' \in [reserved : Nat, alerted : SUBSET Kinds, alerts : [Kinds -> Nat]]
      <4> DEFINE a == period.alerted \cup {kind}
                 c == [period.alerts EXCEPT ![kind] = 1]
      <4>1. period' = [period EXCEPT !.alerted = a, !.alerts = c] BY <1>3, <2>1, <3>1, SenderFacts
      <4>2. a \in SUBSET Kinds /\ c \in [Kinds -> Nat] BY <1>0, <3>1, SenderFacts
      <4>3. a = period.alerted \cup {kind} /\ c = [period.alerts EXCEPT ![kind] = 1] OBVIOUS
      <4> HIDE DEF a, c
      <4> QED BY <4>1, <4>2, <4>3, SenderFacts
    <3>3. AlertsKnown' BY <1>0, <3>1, <3>2 DEF WhatsAppInv, AlertsKnown
    <3> QED BY <3>2, <3>3
  <2>2. CASE ~Alerts(kind)
    <3>1. period' = period /\ kind \in period.alerted BY <1>3, <2>2 DEF Alerts
    <3> QED BY <3>1, SenderFacts DEF WhatsAppInv, AlertsKnown
  <2> QED BY <2>1, <2>2
<1>6. Announced' BY <1>0, <1>1, <1>2, <1>4, <1>5, AnnouncedStays
<1>7. Pledge(r) = Pledge(sender[w]) /\ Pledge(r) \in Int BY <1>0, <1>2 DEF Pledge
<1>8. meta'.accepted + Pledge(r) - Pledge(sender[w]) - period'.reserved <= meta.accepted - period.reserved
  BY <1>0, <1>5, <1>7, SenderFacts
<1> QED BY <1>8, <1>0, <1>1, <1>2, <1>5, <1>6, <1>7, SenderFacts, SenderStep

\* An alert that fails is remembered as muted.
LEMMA AlertFailsWa == ASSUME WhatsAppInv, NEW w \in Messages, AlertFails(w) PROVE WhatsAppInv'
<1> DEFINE kind == NextAlert(w)
           r == [sender[w] EXCEPT !.step = "alert", !.due = @ \ {kind}]
           m == meta.muted \cup {kind}
<1>0. sender[w].step \in {"alert", "claim"} /\ UNCHANGED <<log, period, handler>> /\ kind \in Kinds
  BY DEF AlertFails, NextAlert, Kinds
<1>1. sender' = [sender EXCEPT ![w] = r] BY SenderFacts DEF AlertFails, WhatsAppInv, WhatsAppTypeOK, Sender
<1>2. r \in Sender /\ r.step = "alert" /\ r.allowed = sender[w].allowed /\ r.due = sender[w].due \ {kind}
  BY <1>0, SenderFacts DEF Sender
<1>3. meta' = [meta EXCEPT !.muted = m] /\ m \in SUBSET Kinds /\ meta.muted \subseteq m /\ kind \in m
  BY <1>0, SenderFacts DEF AlertFails
<1> HIDE DEF r, kind, m
<1>4. /\ meta' \in [clock : 0 .. MaxClock, accepted : Nat, reports : SUBSET (Messages \X Reports \X Nat),
                    known : SUBSET Messages, overlapped : SUBSET Messages, muted : SUBSET Kinds, crashes : 0 .. MaxWaCrashes]
      /\ meta'.accepted = meta.accepted /\ meta'.overlapped = meta.overlapped /\ meta'.crashes = meta.crashes
      /\ meta'.muted = m
  BY <1>3, SenderFacts
<1>5. "limit" \in sender[w].due => "limit" \in r.due \/ "limit" \in meta'.muted BY <1>2, <1>3, <1>4
<1>6. Announced' BY <1>0, <1>1, <1>2, <1>3, <1>4, <1>5, AnnouncedStays
<1>7. AlertsKnown' BY <1>0 DEF WhatsAppInv, AlertsKnown
<1>8. Pledge(r) = Pledge(sender[w]) /\ Pledge(r) \in Int BY <1>0, <1>2 DEF Pledge
<1>9. meta'.accepted + Pledge(r) - Pledge(sender[w]) - period'.reserved <= meta.accepted - period.reserved
  BY <1>0, <1>4, <1>8, SenderFacts
<1> QED BY <1>9, <1>0, <1>1, <1>2, <1>4, <1>6, <1>7, SenderFacts, SenderStep

LEMMA AdmittedWa == ASSUME WhatsAppInv, NEW w \in Messages, Admitted(w) PROVE WhatsAppInv'
<1>0. sender[w].step = "alert" /\ sender[w].due = {} /\ UNCHANGED <<period, handler, meta>> BY DEF Admitted
<1>1. AlertsKnown' BY <1>0 DEF WhatsAppInv, AlertsKnown
<1>2. CASE sender[w].allowed
  <2> DEFINE r == [sender[w] EXCEPT !.step = "send"]
  <2>1. sender' = [sender EXCEPT ![w] = r] /\ UNCHANGED log BY <1>2 DEF Admitted, WhatsAppInv, WhatsAppTypeOK
  <2>2. r \in Sender /\ r.step = "send" /\ r.allowed BY <1>2, SenderFacts DEF Sender
  <2> HIDE DEF r
  <2>3. Announced' BY <1>0, <2>1, AnnouncedStays
  <2>4. Pledge(r) = 1 /\ Pledge(sender[w]) = 1 BY <1>0, <1>2, <2>2 DEF Pledge
  <2>5. meta'.accepted + Pledge(r) - Pledge(sender[w]) - period'.reserved <= meta.accepted - period.reserved
    BY <1>0, <2>4, SenderFacts
  <2> QED BY <2>5, <1>0, <1>1, <2>1, <2>2, <2>3, <2>4, SenderFacts, SenderStep
<1>3. CASE ~sender[w].allowed
  <2> DEFINE r == [NoSender EXCEPT !.step = "ended"]
             l == [log[w] EXCEPT !.status = "suppressed"]
  <2>1. sender' = [sender EXCEPT ![w] = r] /\ log' = [log EXCEPT ![w] = l] BY <1>3, SenderFacts DEF Admitted
  <2>2. r \in Sender /\ r.step = "ended" BY FreshSender DEF Sender
  <2>3. l \in Log /\ l.status = "suppressed" /\ l.provider = log[w].provider BY SenderFacts DEF Log
  <2> HIDE DEF r, l
  <2>4. Announced' BY <1>0, <2>1, AnnouncedStays
  <2>5. Pledge(r) = 0 /\ Pledge(sender[w]) = 0 BY <1>3, <2>2 DEF Pledge
  <2>6. meta'.accepted + Pledge(r) - Pledge(sender[w]) - period'.reserved <= meta.accepted - period.reserved
    BY <1>0, <2>5, SenderFacts
  <2> QED BY <2>6, <1>0, <1>1, <2>1, <2>2, <2>3, <2>4, <2>5, SenderFacts, SenderStep
<1> QED BY <1>2, <1>3

LEMMA SendWa == ASSUME WhatsAppInv, NEW w \in Messages, SendWhatsAppMessage(w) PROVE WhatsAppInv'
<1>0. PICK ok \in BOOLEAN, accepted \in BOOLEAN :
        /\ meta' = [meta EXCEPT !.accepted = IF accepted THEN @ + 1 ELSE @, !.known = IF ok THEN @ \cup {w} ELSE @]
        /\ sender' = [sender EXCEPT ![w].step = "record", ![w].ok = ok]
  BY DEF SendWhatsAppMessage
<1> DEFINE r == [sender[w] EXCEPT !.step = "record", !.ok = ok]
<1>1. sender[w].step = "send" /\ sender[w].allowed /\ UNCHANGED <<log, period, handler>>
  BY DEF SendWhatsAppMessage, WhatsAppInv, ReservedFirst
<1>2. sender' = [sender EXCEPT ![w] = r] BY <1>0, SenderFacts DEF WhatsAppInv, WhatsAppTypeOK, Sender
<1>3. r \in Sender /\ r.step = "record" BY SenderFacts DEF Sender
<1> HIDE DEF r
<1>4. /\ meta' \in [clock : 0 .. MaxClock, accepted : Nat, reports : SUBSET (Messages \X Reports \X Nat),
                    known : SUBSET Messages, overlapped : SUBSET Messages, muted : SUBSET Kinds, crashes : 0 .. MaxWaCrashes]
      /\ meta'.accepted \in Nat /\ meta'.accepted <= meta.accepted + 1
      /\ meta'.crashes = meta.crashes /\ meta'.overlapped = meta.overlapped /\ meta'.muted = meta.muted
  <2> DEFINE a == IF accepted THEN meta.accepted + 1 ELSE meta.accepted
             k == IF ok THEN meta.known \cup {w} ELSE meta.known
  <2>1. meta' = [meta EXCEPT !.accepted = a, !.known = k] BY <1>0, SenderFacts
  <2>2. a \in Nat /\ a <= meta.accepted + 1 /\ k \in SUBSET Messages BY SenderFacts
  <2> HIDE DEF a, k
  <2> QED BY <2>1, <2>2, SenderFacts
<1>5. Announced' BY <1>1, <1>2, <1>4, AnnouncedStays
<1>6. AlertsKnown' BY <1>1 DEF WhatsAppInv, AlertsKnown
<1>7. Pledge(r) = 0 /\ Pledge(sender[w]) = 1 BY <1>1, <1>3 DEF Pledge
<1>8. meta'.accepted + Pledge(r) - Pledge(sender[w]) - period'.reserved <= meta.accepted - period.reserved
  BY <1>1, <1>4, <1>7, SenderFacts
<1> QED BY <1>1, <1>2, <1>3, <1>4, <1>5, <1>6, <1>8, SenderFacts, SenderStep

\* The three outcomes of an attempt; none holds a reservation any more.
LEMMA RecordWa == ASSUME WhatsAppInv, NEW w \in Messages, Record(w) PROVE WhatsAppInv'
<1>0. sender[w].step = "record" /\ UNCHANGED <<period, handler, meta>> BY DEF Record
<1>1. PICK r \in Sender, l \in Log :
        /\ sender' = [sender EXCEPT ![w] = r] /\ log' = [log EXCEPT ![w] = l]
        /\ l.status # "none" /\ r.step \in {"reserve", "ended"} /\ (r.step = "reserve" => l = log[w])
  <2>1. CASE sender[w].ok
    <3> DEFINE r == [NoSender EXCEPT !.step = "ended"]
               l == [status |-> "sent", provider |-> "accepted", at |-> 2 * meta.clock + 1]
    <3>1. sender' = [sender EXCEPT ![w] = r] /\ log' = [log EXCEPT ![w] = l] BY <2>1 DEF Record
    <3>2. r \in Sender /\ r.step = "ended" BY FreshSender DEF Sender
    <3>3. l \in Log /\ l.status = "sent" BY SenderFacts, WaNumbers DEF Log
    <3> HIDE DEF r, l
    <3> QED BY <3>1, <3>2, <3>3
  <2>2. CASE ~sender[w].ok /\ TriesAgain(w)
    <3> DEFINE r == [NoSender EXCEPT !.step = "reserve", !.attempt = sender[w].attempt + 1]
    <3>1. sender' = [sender EXCEPT ![w] = r] /\ log' = [log EXCEPT ![w] = log[w]]
      BY <2>2, SenderFacts DEF Record
    <3>2. sender[w].attempt + 1 \in 0 .. MaxRetries BY <2>2, SenderFacts, WaNumbers DEF Sender, TriesAgain
    <3>3. r \in Sender /\ r.step = "reserve" BY <3>2, FreshSender DEF Sender
    <3> HIDE DEF r
    <3> QED BY <1>0, <3>1, <3>3, SenderFacts
  <2>3. CASE ~sender[w].ok /\ ~TriesAgain(w)
    <3> DEFINE r == [NoSender EXCEPT !.step = "ended"]
               l == [log[w] EXCEPT !.status = "failed"]
    <3>1. sender' = [sender EXCEPT ![w] = r] /\ log' = [log EXCEPT ![w] = l] BY <2>3, SenderFacts DEF Record
    <3>2. r \in Sender /\ r.step = "ended" BY FreshSender DEF Sender
    <3>3. l \in Log /\ l.status = "failed" BY SenderFacts DEF Log
    <3> HIDE DEF r, l
    <3> QED BY <3>1, <3>2, <3>3
  <2> QED BY <2>1, <2>2, <2>3
<1>2. Announced' BY <1>0, <1>1, AnnouncedStays
<1>3. AlertsKnown' BY <1>0 DEF WhatsAppInv, AlertsKnown
<1>4. Pledge(r) = 0 /\ Pledge(sender[w]) = 0 BY <1>0, <1>1 DEF Pledge
<1>5. meta'.accepted + Pledge(r) - Pledge(sender[w]) - period'.reserved <= meta.accepted - period.reserved
  BY <1>0, <1>4, SenderFacts
<1> QED BY <1>5, <1>0, <1>1, <1>2, <1>3, <1>4, SenderFacts, SenderStep

LEMMA SenderDiesWa == ASSUME WhatsAppInv, NEW w \in Messages, SenderDies(w) PROVE WhatsAppInv'
<1> DEFINE r == [NoSender EXCEPT !.step = "ended"]
<1>0. /\ sender[w].step \notin {"idle", "ended"} /\ UNCHANGED <<log, period, handler>>
      /\ sender' = [sender EXCEPT ![w] = r] /\ meta.crashes < MaxWaCrashes /\ meta' = [meta EXCEPT !.crashes = @ + 1]
  BY DEF SenderDies
<1>1. r \in Sender /\ r.step = "ended" BY FreshSender DEF Sender
<1> HIDE DEF r
<1>2. /\ meta' \in [clock : 0 .. MaxClock, accepted : Nat, reports : SUBSET (Messages \X Reports \X Nat),
                    known : SUBSET Messages, overlapped : SUBSET Messages, muted : SUBSET Kinds, crashes : 0 .. MaxWaCrashes]
      /\ meta'.accepted = meta.accepted /\ meta'.crashes # 0 /\ meta'.overlapped = meta.overlapped
  <2> DEFINE c == meta.crashes + 1
  <2>1. c \in 0 .. MaxWaCrashes /\ c # 0 BY <1>0, SenderFacts, WaNumbers
  <2>2. meta' = [meta EXCEPT !.crashes = c] BY <1>0
  <2> HIDE DEF c
  <2> QED BY <2>1, <2>2, SenderFacts
<1>3. Announced' BY <1>2 DEF Announced
<1>4. AlertsKnown' BY <1>0 DEF WhatsAppInv, AlertsKnown
<1>5. Pledge(r) = 0 /\ Pledge(sender[w]) \in 0 .. 1 BY <1>1 DEF Pledge
<1>6. meta'.accepted + Pledge(r) - Pledge(sender[w]) - period'.reserved <= meta.accepted - period.reserved
  BY <1>0, <1>2, <1>5, SenderFacts
<1> QED BY <1>0, <1>1, <1>2, <1>3, <1>4, <1>6, SenderFacts, SenderStep

-----------------------------------------------------------------------------

LEMMA RankType ==
  /\ \A s \in Reports \cup {"accepted"} : Rank(s) \in Nat
  /\ Rank("accepted") = 0
  BY DEF Rank, Reports

\* The clock, and reports that the provider keeps.
LEMMA ProviderWa ==
  ASSUME WhatsAppInv, Second \/ \E w \in Messages, report \in Reports : Emit(w, report)
  PROVE  WhatsAppInv'
<1>0. UNCHANGED <<log, period, sender, handler>> BY DEF Second, Emit
<1>1. meta \in [clock : 0 .. MaxClock, accepted : Nat, reports : SUBSET (Messages \X Reports \X Nat),
                known : SUBSET Messages, overlapped : SUBSET Messages, muted : SUBSET Kinds, crashes : 0 .. MaxWaCrashes]
  BY DEF WhatsAppInv, WhatsAppTypeOK
<1>2. /\ meta' \in [clock : 0 .. MaxClock, accepted : Nat, reports : SUBSET (Messages \X Reports \X Nat),
                    known : SUBSET Messages, overlapped : SUBSET Messages, muted : SUBSET Kinds, crashes : 0 .. MaxWaCrashes]
      /\ meta'.accepted = meta.accepted /\ meta'.overlapped = meta.overlapped /\ meta'.crashes = meta.crashes
      /\ meta'.muted = meta.muted
  <2>1. CASE Second
    <3> DEFINE c == meta.clock + 1
    <3>1. c \in 0 .. MaxClock BY <1>1, <2>1, WaNumbers DEF Second
    <3>2. meta' = [meta EXCEPT !.clock = c] BY <2>1 DEF Second
    <3> HIDE DEF c
    <3> QED BY <1>1, <3>1, <3>2
  <2>2. ASSUME NEW w \in Messages, NEW report \in Reports, Emit(w, report)
        PROVE  /\ meta' \in [clock : 0 .. MaxClock, accepted : Nat, reports : SUBSET (Messages \X Reports \X Nat),
                             known : SUBSET Messages, overlapped : SUBSET Messages, muted : SUBSET Kinds, crashes : 0 .. MaxWaCrashes]
               /\ meta'.accepted = meta.accepted /\ meta'.overlapped = meta.overlapped /\ meta'.crashes = meta.crashes
               /\ meta'.muted = meta.muted
    <3> DEFINE c == meta.reports \cup {<<w, report, meta.clock>>}
    <3>1. <<w, report, meta.clock>> \in Messages \X Reports \X Nat BY <1>1, WaNumbers
    <3>2. c \in SUBSET (Messages \X Reports \X Nat) BY <1>1, <3>1
    <3>3. meta' = [meta EXCEPT !.reports = c] BY <2>2 DEF Emit
    <3> HIDE DEF c
    <3> QED BY <1>1, <3>2, <3>3
  <2> QED BY <2>1, <2>2
<1>3. Pledged' = Pledged BY <1>0 DEF Pledged
<1> QED BY <1>0, <1>2, <1>3 DEF WhatsAppInv, WhatsAppTypeOK, ReservedFirst, AlertsKnown, Announced, Announcer,
                                LogKnown, CallbacksAdvance

\* A callback takes over a report that advances the log.
LEMMA CallbackReadWa ==
  ASSUME WhatsAppInv, NEW h \in Handlers, NEW w \in Messages, NEW report \in Reports, NEW t \in 0 .. MaxClock,
         CallbackRead(h, w, report, t)
  PROVE  WhatsAppInv'
<1> DEFINE n == [on |-> {w}, report |-> report, at |-> 2 * t]
           o == meta.overlapped \cup {v \in {w} : \E g \in Handlers : v \in handler[g].on}
<1>0. /\ handler[h] = NoHandler /\ log[w].provider # "none" /\ ~Regresses(w, report)
      /\ handler' = [handler EXCEPT ![h] = n] /\ meta' = [meta EXCEPT !.overlapped = o]
      /\ UNCHANGED <<log, period, sender>>
  BY DEF CallbackRead
<1>1. n \in [on : SUBSET Messages, report : Reports, at : Nat] /\ n.on = {w} /\ n.report = report
  <2>1. 2 * t \in Nat BY WaNumbers
  <2> QED BY <2>1
<1>2. /\ o \in SUBSET Messages /\ meta.overlapped \subseteq o
      /\ \A g \in Handlers : w \in handler[g].on => w \in o
      /\ \A v \in o : v = w \/ v \in meta.overlapped
  BY DEF WhatsAppInv, WhatsAppTypeOK
<1> HIDE DEF n, o
<1>3. /\ meta' \in [clock : 0 .. MaxClock, accepted : Nat, reports : SUBSET (Messages \X Reports \X Nat),
                    known : SUBSET Messages, overlapped : SUBSET Messages, muted : SUBSET Kinds, crashes : 0 .. MaxWaCrashes]
      /\ meta'.accepted = meta.accepted /\ meta'.overlapped = o /\ meta'.crashes = meta.crashes
      /\ meta'.muted = meta.muted
  BY <1>0, <1>2 DEF WhatsAppInv, WhatsAppTypeOK
<1>4. /\ handler' \in [Handlers -> [on : SUBSET Messages, report : Reports, at : Nat]] /\ handler'[h] = n
      /\ \A g \in Handlers : g # h => handler'[g] = handler[g]
  BY <1>0, <1>1 DEF WhatsAppInv, WhatsAppTypeOK
<1>5. Pledged' = Pledged BY <1>0 DEF Pledged
<1>6. /\ WhatsAppTypeOK' /\ ReservedFirst' /\ AlertsKnown' /\ Announced' /\ LogKnown'
  BY <1>0, <1>3, <1>4, <1>5 DEF WhatsAppInv, WhatsAppTypeOK, ReservedFirst, AlertsKnown, Announced, Announcer, LogKnown
<1>7. Rank(report) >= Rank(log[w].provider)
  <2>1. log[w].provider \in Reports \cup {"accepted"} BY <1>0 DEF WhatsAppInv, WhatsAppTypeOK, Log
  <2>2. ~(Rank(report) < Rank(log[w].provider)) BY <1>0 DEF Regresses
  <2> QED BY <2>1, <2>2, RankType
<1>8. CallbacksAdvance'
  <2>1. ASSUME NEW v \in Messages, NEW g \in Handlers, v \in handler'[g].on
        PROVE  log[v].provider # "none" /\ (v \notin o => Rank(handler'[g].report) >= Rank(log[v].provider))
    BY <1>0, <1>1, <1>2, <1>4, <1>7, <2>1 DEF WhatsAppInv, CallbacksAdvance
  <2>2. ASSUME NEW v \in Messages, NEW g \in Handlers, NEW f \in Handlers,
               v \in handler'[g].on, v \in handler'[f].on, g # f
        PROVE  v \in o
    BY <1>1, <1>2, <1>4, <2>2 DEF WhatsAppInv, CallbacksAdvance
  <2> QED BY <1>0, <1>3, <2>1, <2>2 DEF CallbacksAdvance
<1> QED BY <1>6, <1>8 DEF WhatsAppInv

\* What a callback writes.
LEMMA CallbackWriteEffect ==
  ASSUME WhatsAppInv, NEW h \in Handlers, CallbackWrite(h)
  PROVE  \E w \in handler[h].on, l \in Log :
           /\ w \in Messages /\ log' = [log EXCEPT ![w] = l] /\ l.provider = handler[h].report
           /\ l.status # "none" /\ handler' = [handler EXCEPT ![h] = NoHandler] /\ UNCHANGED <<period, sender, meta>>
<1>0. PICK w \in handler[h].on :
        /\ log' = [log EXCEPT ![w] = [status |-> IF handler[h].report = "failed" THEN "failed" ELSE @.status,
                                      provider |-> handler[h].report, at |-> handler[h].at]]
        /\ handler' = [handler EXCEPT ![h] = NoHandler] /\ UNCHANGED <<period, sender, meta>>
  BY DEF CallbackWrite
<1> DEFINE s == IF handler[h].report = "failed" THEN "failed" ELSE log[w].status
           l == [status |-> s, provider |-> handler[h].report, at |-> handler[h].at]
<1>1. w \in Messages /\ handler[h].report \in Reports /\ handler[h].at \in Nat /\ log[w] \in Log
  BY DEF WhatsAppInv, WhatsAppTypeOK
<1>2. log[w].provider # "none" /\ log[w].status # "none"
  BY <1>1 DEF WhatsAppInv, CallbacksAdvance, LogKnown
<1>3. s \in {"pending", "sent", "failed", "suppressed"} BY <1>1, <1>2 DEF Log
<1>4. log' = [log EXCEPT ![w] = l] BY <1>0
<1> HIDE DEF s
<1>5. l \in Log /\ l.provider = handler[h].report /\ l.status # "none" BY <1>1, <1>3 DEF Log
<1> HIDE DEF l
<1> QED BY <1>0, <1>1, <1>4, <1>5

LEMMA CallbackWriteWa == ASSUME WhatsAppInv, NEW h \in Handlers, CallbackWrite(h) PROVE WhatsAppInv'
<1>0. PICK w \in handler[h].on, l \in Log :
        /\ w \in Messages /\ log' = [log EXCEPT ![w] = l] /\ l.provider = handler[h].report
        /\ l.status # "none" /\ handler' = [handler EXCEPT ![h] = NoHandler] /\ UNCHANGED <<period, sender, meta>>
  BY CallbackWriteEffect
<1>1. /\ log' \in [Messages -> Log] /\ log'[w] = l /\ \A v \in Messages : v # w => log'[v] = log[v]
      /\ l.provider \in Reports /\ l.provider # "none"
  BY <1>0 DEF WhatsAppInv, WhatsAppTypeOK, Reports
<1>2. /\ handler' \in [Handlers -> [on : SUBSET Messages, report : Reports, at : Nat]]
      /\ \A g \in Handlers : g # h => handler'[g] = handler[g]
      /\ handler'[h].on = {}
  BY <1>0 DEF WhatsAppInv, WhatsAppTypeOK, NoHandler, Reports
<1>3. Pledged' = Pledged BY <1>0 DEF Pledged
<1>4. WhatsAppTypeOK' /\ ReservedFirst' /\ AlertsKnown' /\ Announced'
  BY <1>0, <1>1, <1>2, <1>3 DEF WhatsAppInv, WhatsAppTypeOK, ReservedFirst, AlertsKnown, Announced, Announcer
<1>5. LogKnown'
  <2>1. sender[w].step = "ended" BY <1>0 DEF WhatsAppInv, CallbacksAdvance, LogKnown
  <2> QED BY <1>0, <1>1, <2>1 DEF WhatsAppInv, LogKnown
<1>6. CallbacksAdvance'
  <2>1. \A g \in Handlers : w \in handler'[g].on => w \in meta.overlapped
    BY <1>0, <1>2 DEF WhatsAppInv, CallbacksAdvance
  <2> QED BY <1>0, <1>1, <1>2, <2>1 DEF WhatsAppInv, CallbacksAdvance
<1> QED BY <1>4, <1>5, <1>6 DEF WhatsAppInv

LEMMA WhatsAppNextInv == WhatsAppInv /\ [WhatsAppNext]_whatsAppVars => WhatsAppInv'
<1> SUFFICES ASSUME WhatsAppInv, [WhatsAppNext]_whatsAppVars PROVE WhatsAppInv' OBVIOUS
<1>1. CASE SendingNext(Messages)
  BY <1>1, NotifyWa, ReserveWa, AlertReadWa, AlertClaimWa, AlertFailsWa, AdmittedWa, SendWa, RecordWa, SenderDiesWa
  DEF SendingNext
<1>2. CASE ReportsNext(Messages)
  BY <1>2, ProviderWa, CallbackReadWa, CallbackWriteWa DEF ReportsNext
<1>3. CASE UNCHANGED whatsAppVars
  BY <1>3 DEF whatsAppVars, WhatsAppInv, WhatsAppTypeOK, ReservedFirst, Pledged, AlertsKnown, Announced, Announcer,
              LogKnown, CallbacksAdvance
<1> QED BY <1>1, <1>2, <1>3 DEF WhatsAppNext

\* reserveWhatsAppAttempt keeps the month within its limit, retries of lost
\* answers included, and notifyWhatsAppAdmins announces threshold and limit
\* at most once, and once unless a sender dies or the alert fails, for any number
\* of messages, of attempts and any limit.
THEOREM WhatsAppHolds == WhatsAppSpec => []WhatsAppSafe
<1>1. WhatsAppSpec => []WhatsAppInv BY WhatsAppInvInit, WhatsAppNextInv, PTL DEF WhatsAppSpec
<1> QED BY <1>1, WhatsAppInvImplies, PTL

\* reconcileWhatsAppStatuses never takes a reported status back, in whatever
\* order and however often the reports arrive, unless two of them are applied
\* to the message at the same time.
THEOREM ReportsAdvance == WhatsAppSpec => StatusNeverRegresses
<1> DEFINE Advance == \A w \in Messages \ meta.overlapped :
                        log[w].provider # "none" => Rank(log'[w].provider) >= Rank(log[w].provider)
<1>1. WhatsAppSpec => []WhatsAppInv BY WhatsAppInvInit, WhatsAppNextInv, PTL DEF WhatsAppSpec
<1>2. WhatsAppInv /\ [WhatsAppNext]_whatsAppVars => [Advance]_whatsAppVars
  <2> SUFFICES ASSUME WhatsAppInv, WhatsAppNext, NEW v \in Messages, v \notin meta.overlapped, log[v].provider # "none"
               PROVE  Rank(log'[v].provider) >= Rank(log[v].provider)
    OBVIOUS
  <2>0. log[v].provider \in Reports \cup {"accepted"} /\ Rank(log[v].provider) \in Nat
    BY RankType DEF WhatsAppInv, WhatsAppTypeOK, Log
  <2>1. sender[v].step = "ended" /\ log[v].status # "none" BY DEF WhatsAppInv, LogKnown
  <2>2. CASE log'[v].provider = log[v].provider BY <2>0, <2>2
  <2>3. ASSUME NEW w \in Messages, NEW x, log' = [log EXCEPT ![w] = x], v # w PROVE log'[v] = log[v]
    BY <2>3 DEF WhatsAppInv, WhatsAppTypeOK
  <2>4. CASE SendingNext(Messages)
    <3>1. PICK w \in Messages : \/ Notify(w) \/ Reserve(w) \/ AlertRead(w) \/ AlertClaim(w) \/ AlertFails(w) \/ Admitted(w)
                                \/ SendWhatsAppMessage(w) \/ Record(w) \/ SenderDies(w)
      BY <2>4 DEF SendingNext
    <3>2. v = w => log'[v] = log[v]
      BY <2>1, <3>1 DEF Notify, Reserve, AlertRead, AlertClaim, AlertFails, Admitted, SendWhatsAppMessage, Record, SenderDies
    <3>3. v # w => log'[v] = log[v]
      BY <3>1 DEF Notify, Reserve, AlertRead, AlertClaim, AlertFails, Admitted, SendWhatsAppMessage, Record, SenderDies, WhatsAppInv, WhatsAppTypeOK
    <3> QED BY <2>2, <3>2, <3>3
  <2>5. CASE ReportsNext(Messages)
    <3>1. ASSUME NEW h \in Handlers, CallbackWrite(h) PROVE Rank(log'[v].provider) >= Rank(log[v].provider)
      <4>0. PICK w \in handler[h].on, l \in Log :
              w \in Messages /\ log' = [log EXCEPT ![w] = l] /\ l.provider = handler[h].report
        BY <3>1, CallbackWriteEffect
      <4>1. CASE v = w
        <5>1. log'[v].provider = handler[h].report BY <4>0, <4>1 DEF WhatsAppInv, WhatsAppTypeOK
        <5> QED BY <4>0, <4>1, <5>1 DEF WhatsAppInv, CallbacksAdvance
      <4>2. CASE v # w
        <5>1. log'[v] = log[v] BY <4>0, <4>2 DEF WhatsAppInv, WhatsAppTypeOK
        <5> QED BY <2>2, <5>1
      <4> QED BY <4>1, <4>2
    <3>2. (\A h \in Handlers : ~CallbackWrite(h)) => log' = log
      BY <2>5 DEF ReportsNext, Emit, CallbackRead, Second
    <3> QED BY <2>2, <3>1, <3>2
  <2> QED BY <2>4, <2>5 DEF WhatsAppNext
<1> QED BY <1>1, <1>2, PTL DEF WhatsAppSpec, StatusNeverRegresses
-----------------------------------------------------------------------------
(* Scheduled reports *)

ReportSpec == ReportInit /\ [][ReportNext]_reportVars

\* A runner past its claim owns the run it created.
Holding(k) == runner[k].step \in {"check", "generate", "mail", "finish", "fail"}
RunsOwned ==
  /\ \A k \in Runners : Holding(k) => runs[runner[k].slot] = "running"
  /\ \A k, j \in Runners : Holding(k) /\ Holding(j) /\ runner[k].slot = runner[j].slot => k = j

\* How far the runner came tells whether its report was mailed.
MailsKnown ==
  \A k \in Runners : /\ runner[k].step \in {"check", "generate", "mail"} => reported.mails[runner[k].slot] = 0
                     /\ runner[k].step = "finish" => reported.mails[runner[k].slot] = 1

\* Nothing runs before its time, and nothing before the schedule is there.
RunsInTime ==
  /\ \A x \in Slots : runs[x] # "none" => x <= reported.now
  /\ \A k \in Runners : runner[k].now <= reported.now /\ runner[k].slot <= runner[k].now
  /\ patch.status = "none" => patch = NoPatch
  /\ timetable.status = "none" => /\ patch = NoPatch /\ \A x \in Slots : runs[x] = "none"
                                  /\ \A k \in Runners : runner[k].step = "idle"

\* A runner whose date has not been run: once next_run_at has left the date,
\* no PATCH in progress will bring it back ...
Claims(k) == runner[k].step = "claim" /\ runs[runner[k].slot] = "none"
LeftForGood ==
  \A k \in Runners : Claims(k) /\ timetable.next # runner[k].slot =>
    patch.status = "none" \/ patch.next # runner[k].slot

\* ... and until then nothing is run, or read to be run, that is later than
\* the instant from which the runner counts the next date.
NothingLater ==
  \A k \in Runners : Claims(k) /\ timetable.next = runner[k].slot =>
    /\ \A x \in Slots : runs[x] # "none" => x <= runner[k].now
    /\ \A j \in Runners : runner[j].step = "claim" => runner[j].slot <= runner[k].now

ReportInv ==
  /\ ReportTypeOK /\ RunsOwned /\ MailsKnown /\ MailedOncePerSlot /\ CompletedIsMailed
  /\ RunsInTime /\ LeftForGood /\ NothingLater /\ NextIsNew

LEMMA NextRun ==
  ASSUME NEW n \in 0 .. MaxTime
  PROVE  NextReportRun(n) \in Slots /\ NextReportRun(n) > n
<1> DEFINE h == n \div 2
<1>1. h \in Nat /\ (n = 2 * h \/ n = 2 * h + 1)
  <2>1. n \in Nat BY ScheduledReportsAssumption
  <2> QED BY <2>1
<1>2. NextReportRun(n) = IF 2 * h + 1 > n THEN 2 * h + 1 ELSE 2 * h + 1 + 2 * Period BY DEF NextReportRun
<1> HIDE DEF h
<1> QED BY <1>1, <1>2, ScheduledReportsAssumption DEF Slots

LEMMA ReportInvInit == ReportInit => ReportInv
<1> SUFFICES ASSUME ReportInit PROVE ReportInv OBVIOUS
<1>1. 0 \in Slots /\ 0 \in 0 .. MaxTime /\ 0 \in 0 .. MaxPatches /\ 0 \in 0 .. MaxReportFaults
  BY ScheduledReportsAssumption DEF Slots
<1>2. ReportTypeOK
  <2>1. Resting \in Runner BY <1>1 DEF Resting, Runner
  <2>2. NoPatch \in [status : {"none", "active", "paused"}, next : Slots] BY <1>1 DEF NoPatch
  <2> QED BY <1>1, <2>1, <2>2 DEF ReportInit, ReportTypeOK
<1>3. \A k \in Runners : runner[k].step = "idle" /\ runner[k].now = 0 /\ runner[k].slot = 0 /\ runner[k].slot \in Slots
  BY <1>1 DEF ReportInit, Resting
<1>4. RunsOwned /\ MailsKnown /\ LeftForGood /\ NothingLater
  BY <1>3 DEF RunsOwned, Holding, MailsKnown, LeftForGood, NothingLater, Claims
<1>5. MailedOncePerSlot /\ CompletedIsMailed /\ NextIsNew
  BY <1>1 DEF ReportInit, MailedOncePerSlot, CompletedIsMailed, NextIsNew
<1>6. RunsInTime BY <1>3 DEF ReportInit, RunsInTime
<1> QED BY <1>2, <1>4, <1>5, <1>6 DEF ReportInv

LEMMA ReportInvImplies == ReportInv => ReportsSafe
  BY DEF ReportInv, ReportsSafe

LEMMA RunnerFields ==
  ASSUME ReportTypeOK, NEW k \in Runners
  PROVE  /\ runner[k].step \in {"idle", "claim", "check", "generate", "mail", "finish", "fail"}
         /\ runner[k].slot \in Slots /\ runner[k].now \in Slots /\ runner[k].active \in BOOLEAN
         /\ Slots \subseteq Nat
<1>1. runner[k] \in Runner BY DEF ReportTypeOK
<1> QED BY <1>1, ScheduledReportsAssumption DEF Runner, Slots

LEMMA ReportFields ==
  ASSUME ReportTypeOK
  PROVE  /\ timetable.status \in {"none", "active", "paused", "deleted"} /\ timetable.next \in Slots
         /\ patch.status \in {"none", "active", "paused"} /\ patch.next \in Slots
         /\ reported.now \in 0 .. MaxTime /\ reported.rewound \in BOOLEAN /\ reported.orphans \subseteq Slots
         /\ reported.patches \in 0 .. MaxPatches /\ reported.faults \in 0 .. MaxReportFaults
         /\ reported.mails \in [Slots -> Nat]
         /\ DOMAIN runs = Slots /\ Slots \subseteq Nat /\ MaxTime \in Nat
  BY ScheduledReportsAssumption DEF ReportTypeOK, Slots

\* Steps that leave the runs, the runners and the mails alone.
LEMMA QuietReport ==
  ASSUME ReportInv, ReportTypeOK', UNCHANGED <<runs, runner>>, reported'.mails = reported.mails,
         reported'.now >= reported.now, reported'.now \in Nat
  PROVE  /\ RunsOwned' /\ MailsKnown' /\ MailedOncePerSlot' /\ CompletedIsMailed'
         /\ \A x \in Slots : runs'[x] # "none" => x <= reported'.now
         /\ \A k \in Runners : runner'[k].now <= reported'.now /\ runner'[k].slot <= runner'[k].now
         /\ \A k \in Runners : Claims(k)' <=> Claims(k)
<1> USE DEF ReportInv
<1>1. RunsOwned' BY DEF RunsOwned, Holding
<1>2. MailsKnown' BY DEF MailsKnown
<1>3. MailedOncePerSlot' /\ CompletedIsMailed' BY DEF MailedOncePerSlot, CompletedIsMailed
<1>4. \A x \in Slots : runs'[x] # "none" => x <= reported'.now
  BY ReportFields DEF RunsInTime
<1>5. ASSUME NEW k \in Runners PROVE runner'[k].now <= reported'.now /\ runner'[k].slot <= runner'[k].now
  BY RunnerFields, ReportFields DEF RunsInTime
<1>6. \A k \in Runners : Claims(k)' <=> Claims(k) BY DEF Claims
<1> QED BY <1>1, <1>2, <1>3, <1>4, <1>5, <1>6

LEMMA CreateScheduleRep == ASSUME ReportInv, CreateSchedule PROVE ReportInv'
<1> USE DEF ReportInv
<1>1. NextReportRun(reported.now) \in Slots BY NextRun, ReportFields
<1>2. ReportTypeOK' BY <1>1 DEF ReportTypeOK, CreateSchedule
<1>3. UNCHANGED <<runs, owner, runner, patch, reported>> /\ timetable'.status = "active"
      /\ timetable'.next = NextReportRun(reported.now) BY DEF CreateSchedule
<1>4. /\ patch = NoPatch /\ patch.status = "none"
      /\ \A x \in Slots : runs[x] = "none"
      /\ \A k \in Runners : runner[k].step = "idle"
  BY DEF CreateSchedule, RunsInTime, NoPatch
<1>5. RunsOwned' /\ MailsKnown' /\ MailedOncePerSlot' /\ CompletedIsMailed' BY <1>2, <1>3, QuietReport, ReportFields
<1>6. RunsInTime' BY <1>3, <1>4 DEF RunsInTime
<1>7. LeftForGood' /\ NothingLater' BY <1>3, <1>4 DEF LeftForGood, NothingLater, Claims
<1>8. NextIsNew' BY <1>1, <1>3, <1>4 DEF NextIsNew
<1> QED BY <1>2, <1>5, <1>6, <1>7, <1>8

LEMMA PatchReadRep == ASSUME ReportInv, NEW status \in {"active", "paused"}, PatchRead(status) PROVE ReportInv'
<1> USE DEF ReportInv
<1>1. UNCHANGED <<timetable, runs, owner, runner>> /\ patch = NoPatch /\ timetable.status \in {"active", "paused"}
  BY DEF PatchRead
<1>2. /\ patch'.status = status /\ patch'.next \in Slots
      /\ patch'.next = timetable.next \/ patch'.next > reported.now
      /\ patch' = [status |-> patch'.status, next |-> patch'.next]
  BY NextRun, ReportFields DEF PatchRead
<1>3. /\ reported' = [reported EXCEPT !.patches = @ + 1] /\ reported.patches < MaxPatches
      /\ reported'.mails = reported.mails /\ reported'.now = reported.now /\ reported'.rewound = reported.rewound
  BY DEF PatchRead, ReportTypeOK
<1>4. ReportTypeOK'
  <2>1. reported.patches + 1 \in 0 .. MaxPatches BY <1>3, ReportFields, ScheduledReportsAssumption
  <2>2. patch' \in [status : {"none", "active", "paused"}, next : Slots] BY <1>2
  <2>3. reported' \in [now : 0 .. MaxTime, mails : [Slots -> Nat], rewound : BOOLEAN, orphans : SUBSET Slots,
                   patches : 0 .. MaxPatches, faults : 0 .. MaxReportFaults] BY <1>3, <2>1 DEF ReportTypeOK
  <2> QED BY <1>1, <2>2, <2>3 DEF ReportTypeOK
<1>5. /\ RunsOwned' /\ MailsKnown' /\ MailedOncePerSlot' /\ CompletedIsMailed'
      /\ \A x \in Slots : runs'[x] # "none" => x <= reported'.now
      /\ \A k \in Runners : runner'[k].now <= reported'.now /\ runner'[k].slot <= runner'[k].now
      /\ \A k \in Runners : Claims(k)' <=> Claims(k)
  BY <1>1, <1>3, <1>4, QuietReport, ReportFields
<1>6. RunsInTime' BY <1>1, <1>2, <1>5 DEF RunsInTime
<1>7. LeftForGood'
  <2> SUFFICES ASSUME NEW k \in Runners, Claims(k), timetable.next # runner[k].slot PROVE patch'.next # runner[k].slot
    BY <1>1, <1>5 DEF LeftForGood
  <2>1. runner[k].slot <= reported.now BY <1>5, <1>1, <1>3, RunnerFields, ReportFields
  <2> QED BY <2>1, <1>2, RunnerFields, ReportFields
<1>8. NothingLater' BY <1>1, <1>5 DEF NothingLater
<1>9. NextIsNew' BY <1>1, <1>3 DEF NextIsNew
<1> QED BY <1>4, <1>5, <1>6, <1>7, <1>8, <1>9

LEMMA PatchWriteRep == ASSUME ReportInv, PatchWrite PROVE ReportInv'
<1> USE DEF ReportInv
<1>1. UNCHANGED <<runs, owner, runner>> /\ patch # NoPatch /\ patch' = NoPatch /\ patch'.status = "none"
  BY DEF PatchWrite, NoPatch
<1>2. patch.status \in {"active", "paused"} /\ timetable.status # "none" BY <1>1, ReportFields DEF RunsInTime
<1>3. /\ reported'.mails = reported.mails /\ reported'.now = reported.now
      /\ reported'.rewound = reported.rewound \/ reported'.rewound = (runs[patch.next] # "none")
      /\ timetable' = timetable \/ timetable' = patch
      /\ \/ timetable.status = "deleted" /\ timetable' = timetable
         \/ timetable' = patch /\ reported'.rewound = (runs[patch.next] # "none")
  BY ReportFields DEF PatchWrite, ReportTypeOK
<1>4. ReportTypeOK'
  <2>1. NoPatch \in [status : {"none", "active", "paused"}, next : Slots] BY ScheduledReportsAssumption DEF NoPatch, Slots
  <2>2. CASE timetable.status = "deleted" BY <2>2, <2>1 DEF PatchWrite, ReportTypeOK
  <2>3. CASE timetable.status # "deleted"
    <3>1. timetable' = patch /\ reported' = [reported EXCEPT !.rewound = runs[patch.next] # "none"] BY <2>3 DEF PatchWrite
    <3>2. timetable' \in [status : {"none", "active", "paused", "deleted"}, next : Slots] BY <3>1 DEF ReportTypeOK
    <3>3. (runs[patch.next] # "none") \in BOOLEAN OBVIOUS
    <3>4. reported' \in [now : 0 .. MaxTime, mails : [Slots -> Nat], rewound : BOOLEAN, orphans : SUBSET Slots,
                   patches : 0 .. MaxPatches, faults : 0 .. MaxReportFaults] BY <3>1, <3>3 DEF ReportTypeOK
    <3> QED BY <1>1, <2>1, <3>2, <3>4 DEF ReportTypeOK
  <2> QED BY <2>2, <2>3
<1>5. /\ RunsOwned' /\ MailsKnown' /\ MailedOncePerSlot' /\ CompletedIsMailed'
      /\ \A x \in Slots : runs'[x] # "none" => x <= reported'.now
      /\ \A k \in Runners : runner'[k].now <= reported'.now /\ runner'[k].slot <= runner'[k].now
      /\ \A k \in Runners : Claims(k)' <=> Claims(k)
  BY <1>1, <1>3, <1>4, QuietReport, ReportFields
<1>6. RunsInTime' BY <1>1, <1>2, <1>3, <1>5 DEF RunsInTime
<1>7. LeftForGood' BY <1>1 DEF LeftForGood
<1>8. NothingLater'
  <2> SUFFICES ASSUME NEW k \in Runners, Claims(k), timetable'.next = runner[k].slot
               PROVE  timetable.next = runner[k].slot
    BY <1>1, <1>5 DEF NothingLater
  <2> QED BY <1>2, <1>3 DEF LeftForGood
<1>9. NextIsNew' BY <1>1, <1>3 DEF NextIsNew
<1> QED BY <1>4, <1>5, <1>6, <1>7, <1>8, <1>9

LEMMA DeleteScheduleRep == ASSUME ReportInv, DeleteSchedule PROVE ReportInv'
<1> USE DEF ReportInv
<1>1. /\ UNCHANGED <<runs, owner, runner, patch, reported>>
      /\ timetable' = [timetable EXCEPT !.status = "deleted"] /\ timetable.status \in {"active", "paused"}
      /\ timetable'.next = timetable.next /\ timetable'.status = "deleted"
  BY DEF DeleteSchedule, ReportTypeOK
<1>2. ReportTypeOK' BY <1>1 DEF ReportTypeOK
<1>3. RunsOwned' /\ MailsKnown' /\ MailedOncePerSlot' /\ CompletedIsMailed' BY <1>1, <1>2, QuietReport, ReportFields
<1>4. RunsInTime' /\ LeftForGood' /\ NothingLater' /\ NextIsNew'
  BY <1>1 DEF RunsInTime, LeftForGood, NothingLater, NextIsNew, Claims
<1> QED BY <1>2, <1>3, <1>4

LEMMA OwnerChangesRep == ASSUME ReportInv, OwnerChanges PROVE ReportInv'
<1> USE DEF ReportInv
<1>1. /\ UNCHANGED <<timetable, runs, runner, patch>> /\ reported.patches < MaxPatches
      /\ reported' = [reported EXCEPT !.patches = @ + 1]
      /\ reported'.mails = reported.mails /\ reported'.now = reported.now /\ reported'.rewound = reported.rewound
  BY DEF OwnerChanges, ReportTypeOK
<1>2. ReportTypeOK'
  <2>1. reported.patches + 1 \in 0 .. MaxPatches BY <1>1, ReportFields, ScheduledReportsAssumption
  <2>2. owner' \in [active : BOOLEAN, permitted : BOOLEAN] BY DEF OwnerChanges, ReportTypeOK
  <2> QED BY <1>1, <2>1, <2>2 DEF ReportTypeOK
<1>3. RunsOwned' /\ MailsKnown' /\ MailedOncePerSlot' /\ CompletedIsMailed' BY <1>1, <1>2, QuietReport, ReportFields
<1>4. RunsInTime' /\ LeftForGood' /\ NothingLater' /\ NextIsNew'
  BY <1>1 DEF RunsInTime, LeftForGood, NothingLater, NextIsNew, Claims
<1> QED BY <1>2, <1>3, <1>4

LEMMA TimePassesRep == ASSUME ReportInv, TimePasses PROVE ReportInv'
<1> USE DEF ReportInv
<1>1. /\ UNCHANGED <<timetable, runs, owner, runner, patch>> /\ reported.now < MaxTime
      /\ reported' = [reported EXCEPT !.now = @ + 1]
      /\ reported'.mails = reported.mails /\ reported'.now = reported.now + 1 /\ reported'.rewound = reported.rewound
  BY DEF TimePasses, ReportTypeOK
<1>2. ReportTypeOK'
  <2>1. reported.now + 1 \in 0 .. MaxTime BY <1>1, ReportFields
  <2> QED BY <1>1, <2>1 DEF ReportTypeOK
<1>3. /\ RunsOwned' /\ MailsKnown' /\ MailedOncePerSlot' /\ CompletedIsMailed'
      /\ \A x \in Slots : runs'[x] # "none" => x <= reported'.now
      /\ \A k \in Runners : runner'[k].now <= reported'.now /\ runner'[k].slot <= runner'[k].now
  BY <1>1, <1>2, QuietReport, ReportFields
<1>4. RunsInTime' BY <1>1, <1>3 DEF RunsInTime
<1>5. LeftForGood' /\ NothingLater' /\ NextIsNew' BY <1>1 DEF LeftForGood, NothingLater, NextIsNew, Claims
<1> QED BY <1>2, <1>3, <1>4, <1>5

LEMMA RunnerReadRep == ASSUME ReportInv, NEW k \in Runners, RunnerRead(k) PROVE ReportInv'
<1> USE DEF ReportInv
<1> DEFINE r == [step |-> "claim", slot |-> timetable.next, now |-> reported.now, active |-> owner.active]
<1>1. /\ UNCHANGED <<timetable, runs, owner, patch, reported>> /\ runner' = [runner EXCEPT ![k] = r]
      /\ timetable.status = "active" /\ timetable.next <= reported.now
  BY DEF RunnerRead, ReportDue
<1>2. ReportTypeOK'
  <2>1. reported.now \in Slots /\ owner.active \in BOOLEAN
    BY ReportFields, ScheduledReportsAssumption DEF Slots, ReportTypeOK
  <2>2. r \in Runner BY <2>1, ReportFields DEF Runner
  <2> QED BY <1>1, <2>2 DEF ReportTypeOK
<1>3. /\ runner'[k].step = "claim" /\ runner'[k].slot = timetable.next /\ runner'[k].now = reported.now
      /\ \A j \in Runners \ {k} : runner'[j] = runner[j]
  BY <1>1 DEF ReportTypeOK
<1> HIDE DEF r
<1>4. RunsOwned' BY <1>1, <1>3 DEF RunsOwned, Holding
<1>5. MailsKnown' BY <1>1, <1>3 DEF MailsKnown
<1>6. MailedOncePerSlot' /\ CompletedIsMailed' /\ NextIsNew' BY <1>1 DEF MailedOncePerSlot, CompletedIsMailed, NextIsNew
<1>7. RunsInTime' BY <1>1, <1>3, ReportFields DEF RunsInTime
<1>8. LeftForGood' BY <1>1, <1>3 DEF LeftForGood, Claims
<1>9. NothingLater'
  <2> SUFFICES ASSUME NEW j \in Runners, Claims(j)', timetable.next = runner'[j].slot
               PROVE  /\ \A x \in Slots : runs[x] # "none" => x <= runner'[j].now
                      /\ \A i \in Runners : runner'[i].step = "claim" => runner'[i].slot <= runner'[j].now
    BY <1>1 DEF NothingLater
  <2>1. CASE j = k BY <2>1, <1>1, <1>3, RunnerFields, ReportFields DEF RunsInTime
  <2>2. CASE j # k
    <3>1. runner'[j] = runner[j] /\ Claims(j) BY <2>2, <1>1, <1>3 DEF Claims
    <3>2. runner[j].slot <= runner[j].now BY DEF RunsInTime
    <3> QED BY <3>1, <3>2, <1>1, <1>3 DEF NothingLater
  <2> QED BY <2>1, <2>2
<1> QED BY <1>2, <1>4, <1>5, <1>6, <1>7, <1>8, <1>9

\* A runner that holds a run goes on or ends; it leaves next_run_at and the
\* claims of the others as they are.
LEMMA HeldStep ==
  ASSUME ReportInv, ReportTypeOK', NEW k \in Runners, UNCHANGED patch,
         \A j \in Runners \ {k} : runner'[j] = runner[j],
         runner'[k].step # "claim", runner'[k].slot <= runner'[k].now, runner'[k].now <= reported.now,
         timetable'.next = timetable.next, timetable'.status = "active" => timetable.status = "active",
         timetable'.status = "none" => timetable.status = "none" /\ runner'[k].step = "idle",
         reported'.now = reported.now, reported'.rewound = reported.rewound,
         \A x \in Slots : runs'[x] = "none" <=> runs[x] = "none"
  PROVE  RunsInTime' /\ LeftForGood' /\ NothingLater' /\ NextIsNew'
<1> USE DEF ReportInv
<1>1. \A j \in Runners : Claims(j)' => Claims(j) /\ runner'[j] = runner[j]
  BY RunnerFields DEF Claims
<1>2. RunsInTime' BY DEF RunsInTime
<1>3. LeftForGood' BY <1>1 DEF LeftForGood
<1>4. NothingLater'
  <2> SUFFICES ASSUME NEW j \in Runners, Claims(j)', timetable.next = runner'[j].slot
               PROVE  /\ \A x \in Slots : runs'[x] # "none" => x <= runner'[j].now
                      /\ \A i \in Runners : runner'[i].step = "claim" => runner'[i].slot <= runner'[j].now
    BY DEF NothingLater
  <2>1. Claims(j) /\ runner'[j] = runner[j] BY <1>1
  <2>2. \A i \in Runners : runner'[i].step = "claim" => i # k OBVIOUS
  <2> QED BY <2>1, <2>2 DEF NothingLater
<1>5. NextIsNew' BY ReportFields DEF NextIsNew
<1> QED BY <1>2, <1>3, <1>4, <1>5

LEMMA RunnerClaimRep == ASSUME ReportInv, NEW k \in Runners, RunnerClaim(k) PROVE ReportInv'
<1> USE DEF ReportInv
<1>a. /\ UNCHANGED <<owner, patch, reported>> /\ runner[k].step = "claim" BY DEF RunnerClaim
<1>b. runner[k].slot \in Slots /\ runner[k].now \in Nat /\ runner[k].slot <= runner[k].now /\ runner[k].now <= reported.now
      /\ Slots \subseteq Nat /\ timetable.status # "none"
  BY <1>a, RunnerFields DEF RunsInTime
<1>c. Resting \in Runner /\ Resting.step = "idle" /\ Resting.slot = 0 /\ Resting.now = 0
  BY ScheduledReportsAssumption DEF Resting, Runner, Slots
<1>1. CASE timetable.status = "active" /\ timetable.next = runner[k].slot /\ ~Taken(runner[k].slot)
  <2> DEFINE next == NextReportRun(runner[k].now)
  <2>1. /\ timetable' = [timetable EXCEPT !.next = next] /\ runs' = [runs EXCEPT ![runner[k].slot] = "running"]
        /\ runner' = [runner EXCEPT ![k].step = "check"] /\ runs[runner[k].slot] = "none"
    BY <1>1 DEF RunnerClaim, Taken
  <2>2. next \in Slots /\ next > runner[k].now
    <3>1. runner[k].now \in 0 .. MaxTime BY <1>b, ReportFields
    <3> QED BY <3>1, NextRun
  <2> HIDE DEF next
  <2>3. /\ runner'[k].step = "check" /\ runner'[k].slot = runner[k].slot /\ runner'[k].now = runner[k].now
        /\ \A j \in Runners \ {k} : runner'[j] = runner[j]
        /\ timetable'.next = next /\ timetable'.status = timetable.status
        /\ runs'[runner[k].slot] = "running" /\ \A x \in Slots \ {runner[k].slot} : runs'[x] = runs[x]
    BY <2>1, <1>b DEF ReportTypeOK, Runner
  <2>4. ReportTypeOK'
    <3>1. runner[k] \in Runner BY DEF ReportTypeOK
    <3>2. [runner[k] EXCEPT !.step = "check"] \in Runner BY <3>1 DEF Runner
    <3> QED BY <1>a, <2>1, <2>2, <3>2 DEF ReportTypeOK
  <2>5. Claims(k) /\ \A x \in Slots : runs[x] # "none" => x <= runner[k].now BY <1>1, <2>1, <1>a DEF Claims, NothingLater
  <2>6. \A j \in Runners \ {k} : Holding(j) => runner[j].slot # runner[k].slot BY <2>1 DEF RunsOwned
  <2>7. \A j \in Runners \ {k} : (Holding(j)' <=> Holding(j)) /\ runner'[j].slot = runner[j].slot BY <2>3 DEF Holding
  <2>8. RunsOwned'
    <3>1. ASSUME NEW j \in Runners, Holding(j)' PROVE runs'[runner'[j].slot] = "running"
      <4>1. CASE j = k BY <4>1, <2>3
      <4>2. CASE j # k BY <3>1, <4>2, <2>3, <2>6, <2>7, RunnerFields DEF RunsOwned
      <4> QED BY <4>1, <4>2
    <3>2. ASSUME NEW i \in Runners, NEW j \in Runners, Holding(i)', Holding(j)', runner'[i].slot = runner'[j].slot PROVE i = j
      BY <3>2, <2>3, <2>6, <2>7 DEF RunsOwned
    <3> QED BY <3>1, <3>2 DEF RunsOwned
  <2>9. MailsKnown'
    <3>1. reported.mails[runner[k].slot] = 0 BY <2>1, <1>b DEF CompletedIsMailed
    <3> QED BY <1>a, <2>3, <3>1 DEF MailsKnown
  <2>10. MailedOncePerSlot' /\ CompletedIsMailed' BY <1>a, <2>3 DEF MailedOncePerSlot, CompletedIsMailed
  <2>11. RunsInTime' BY <1>a, <1>b, <2>3, ReportFields DEF RunsInTime
  <2>12. \A j \in Runners : Claims(j)' => j # k /\ Claims(j) /\ runner'[j] = runner[j] /\ runner[j].slot # runner[k].slot
    BY <2>1, <2>3, <1>b, RunnerFields DEF Claims
  <2>13. LeftForGood' BY <1>a, <1>1, <2>12 DEF LeftForGood
  <2>14. NothingLater'
    <3> SUFFICES ASSUME NEW j \in Runners, Claims(j)', next = runner[j].slot PROVE FALSE
      BY <2>3, <2>12 DEF NothingLater
    <3>1. runner[j].slot <= runner[k].now BY <1>1, <2>5, <2>12 DEF NothingLater, Claims
    <3> QED BY <3>1, <2>2, <1>b
  <2>15. NextIsNew'
    <3>1. runs[next] = "none" /\ next # runner[k].slot BY <2>2, <2>5, <1>b
    <3> QED BY <3>1, <2>2, <2>3 DEF NextIsNew
  <2> QED BY <2>4, <2>8, <2>9, <2>10, <2>11, <2>13, <2>14, <2>15
<1>2. CASE ~(timetable.status = "active" /\ timetable.next = runner[k].slot /\ ~Taken(runner[k].slot))
  <2>1. UNCHANGED <<timetable, runs>> /\ runner' = [runner EXCEPT ![k] = Resting] BY <1>2 DEF RunnerClaim
  <2>2. ReportTypeOK' BY <1>a, <1>c, <2>1 DEF ReportTypeOK
  <2>3. runner'[k] = Resting /\ \A j \in Runners \ {k} : runner'[j] = runner[j] BY <2>1 DEF ReportTypeOK
  <2>4. RunsInTime' /\ LeftForGood' /\ NothingLater' /\ NextIsNew'
    BY <1>a, <1>b, <1>c, <2>1, <2>2, <2>3, HeldStep, ReportFields
  <2>5. RunsOwned' BY <1>c, <2>1, <2>3 DEF RunsOwned, Holding
  <2>6. MailsKnown' BY <1>a, <1>c, <2>1, <2>3 DEF MailsKnown
  <2>7. MailedOncePerSlot' /\ CompletedIsMailed' BY <1>a, <2>1 DEF MailedOncePerSlot, CompletedIsMailed
  <2> QED BY <2>2, <2>4, <2>5, <2>6, <2>7
<1> QED BY <1>1, <1>2

LEMMA RestingFacts == Resting \in Runner /\ Resting.step = "idle" /\ Resting.slot = 0 /\ Resting.now = 0
  BY ScheduledReportsAssumption DEF Resting, Runner, Slots

\* What is known of a runner that holds a run.
LEMMA HeldFacts ==
  ASSUME ReportInv, NEW k \in Runners, Holding(k)
  PROVE  /\ runner[k].slot \in Slots /\ runner[k].now \in Nat /\ runner[k].slot <= runner[k].now
         /\ runner[k].now <= reported.now /\ runs[runner[k].slot] = "running" /\ timetable.status # "none"
         /\ \A j \in Runners \ {k} : Holding(j) => runner[j].slot # runner[k].slot
  BY RunnerFields DEF ReportInv, RunsInTime, RunsOwned, Holding

\* The runner takes another step with its run.
LEMMA StepSet ==
  ASSUME ReportTypeOK, NEW k \in Runners, NEW s \in {"idle", "claim", "check", "generate", "mail", "finish", "fail"},
         runner' = [runner EXCEPT ![k].step = s]
  PROVE  /\ runner' \in [Runners -> Runner]
         /\ runner'[k].step = s /\ runner'[k].slot = runner[k].slot /\ runner'[k].now = runner[k].now
         /\ \A j \in Runners \ {k} : runner'[j] = runner[j]
<1>1. runner[k] \in Runner /\ runner \in [Runners -> Runner] BY DEF ReportTypeOK
<1>2. [runner[k] EXCEPT !.step = s] \in Runner BY <1>1 DEF Runner
<1> QED BY <1>1, <1>2 DEF Runner

\* It goes on, and the mails are those that its new step tells of.
LEMMA HeldGoesOn ==
  ASSUME ReportInv, NEW k \in Runners, Holding(k),
         NEW s \in {"generate", "mail", "finish", "fail"}, runner' = [runner EXCEPT ![k].step = s],
         UNCHANGED <<runs, owner, patch>>,
         timetable' \in {timetable, [timetable EXCEPT !.status = "paused"]},
         reported' \in [now : 0 .. MaxTime, mails : [Slots -> Nat], rewound : BOOLEAN, orphans : SUBSET Slots,
                        patches : 0 .. MaxPatches, faults : 0 .. MaxReportFaults],
         reported'.now = reported.now, reported'.rewound = reported.rewound,
         \A x \in Slots \ {runner[k].slot} : reported'.mails[x] = reported.mails[x],
         reported'.mails[runner[k].slot] <= 1,
         s \in {"generate", "mail"} => reported'.mails[runner[k].slot] = 0,
         s = "finish" => reported'.mails[runner[k].slot] = 1
  PROVE  ReportInv'
<1> USE DEF ReportInv
<1>1. /\ runner' \in [Runners -> Runner]
      /\ runner'[k].step = s /\ runner'[k].slot = runner[k].slot /\ runner'[k].now = runner[k].now
      /\ \A j \in Runners \ {k} : runner'[j] = runner[j]
  BY StepSet
<1>2. ReportTypeOK' BY <1>1 DEF ReportTypeOK
<1>3. timetable'.next = timetable.next /\ (timetable'.status = "active" => timetable.status = "active")
      /\ timetable'.status # "none"
  BY HeldFacts DEF ReportTypeOK
<1>4. RunsInTime' /\ LeftForGood' /\ NothingLater' /\ NextIsNew' BY <1>1, <1>2, <1>3, HeldFacts, HeldStep
<1>5. RunsOwned' BY <1>1 DEF RunsOwned, Holding
<1>6. MailsKnown'
  <2> SUFFICES ASSUME NEW j \in Runners
               PROVE  /\ runner'[j].step \in {"check", "generate", "mail"} => reported'.mails[runner'[j].slot] = 0
                      /\ runner'[j].step = "finish" => reported'.mails[runner'[j].slot] = 1
    BY DEF MailsKnown
  <2>1. CASE j = k BY <2>1, <1>1
  <2>2. CASE j # k
    <3>1. runner'[j] = runner[j] /\ runner[j].slot \in Slots BY <2>2, <1>1, RunnerFields
    <3>2. Holding(j) => reported'.mails[runner[j].slot] = reported.mails[runner[j].slot] BY <2>2, <3>1, HeldFacts
    <3> QED BY <3>1, <3>2 DEF MailsKnown, Holding
  <2> QED BY <2>1, <2>2
<1>7. MailedOncePerSlot' BY DEF MailedOncePerSlot
<1>8. CompletedIsMailed' BY HeldFacts DEF CompletedIsMailed
<1> QED BY <1>2, <1>4, <1>5, <1>6, <1>7, <1>8

LEMMA RunnerCheckRep == ASSUME ReportInv, NEW k \in Runners, RunnerCheck(k) PROVE ReportInv'
<1> DEFINE s == IF runner[k].active /\ owner.permitted THEN "generate" ELSE "fail"
<1>1. /\ runner[k].step = "check" /\ runner' = [runner EXCEPT ![k].step = s] /\ UNCHANGED <<runs, owner, patch, reported>>
      /\ timetable' \in {timetable, [timetable EXCEPT !.status = "paused"]} /\ s \in {"generate", "fail"}
  BY DEF RunnerCheck
<1> HIDE DEF s
<1>2. Holding(k) BY <1>1 DEF Holding
<1>3. reported.mails[runner[k].slot] = 0 BY <1>1 DEF ReportInv, MailsKnown
<1>4. /\ reported' \in [now : 0 .. MaxTime, mails : [Slots -> Nat], rewound : BOOLEAN, orphans : SUBSET Slots,
                        patches : 0 .. MaxPatches, faults : 0 .. MaxReportFaults]
      /\ reported'.now = reported.now /\ reported'.rewound = reported.rewound /\ reported'.mails = reported.mails
  BY <1>1 DEF ReportInv, ReportTypeOK
<1>5. reported'.mails[runner[k].slot] = 0 /\ reported'.mails[runner[k].slot] <= 1 BY <1>3, <1>4
<1> QED BY <1>1, <1>2, <1>4, <1>5, HeldGoesOn

\* A statement fails: one more fault, and the catch clause is next.
LEMMA FailsRep ==
  ASSUME ReportInv, NEW k \in Runners, Holding(k), Fails(k), UNCHANGED <<timetable, runs, owner, patch>>
  PROVE  ReportInv'
<1>1. /\ runner' = [runner EXCEPT ![k].step = "fail"] /\ reported' = [reported EXCEPT !.faults = @ + 1]
      /\ reported.faults < MaxReportFaults
  BY DEF Fails
<1>2. ReportTypeOK BY DEF ReportInv
<1>3. reported.faults + 1 \in 0 .. MaxReportFaults BY <1>1, <1>2, ReportFields, ScheduledReportsAssumption
<1>4. reported' \in [now : 0 .. MaxTime, mails : [Slots -> Nat], rewound : BOOLEAN, orphans : SUBSET Slots,
                     patches : 0 .. MaxPatches, faults : 0 .. MaxReportFaults]
      /\ reported'.now = reported.now /\ reported'.rewound = reported.rewound /\ reported'.mails = reported.mails
  BY <1>1, <1>2, <1>3 DEF ReportTypeOK
<1>5. reported.mails[runner[k].slot] <= 1 BY HeldFacts DEF ReportInv, MailedOncePerSlot
<1> QED BY <1>1, <1>4, <1>5, HeldGoesOn

LEMMA RunnerGenerateRep == ASSUME ReportInv, NEW k \in Runners, RunnerGenerate(k) PROVE ReportInv'
<1>1. Holding(k) /\ runner[k].step = "generate" BY DEF RunnerGenerate, Holding
<1>2. CASE runner' = [runner EXCEPT ![k].step = AfterReport] /\ UNCHANGED reported
  <2>1. reported.mails[runner[k].slot] = 0 BY <1>1 DEF ReportInv, MailsKnown
  <2>2. /\ reported' \in [now : 0 .. MaxTime, mails : [Slots -> Nat], rewound : BOOLEAN, orphans : SUBSET Slots,
                          patches : 0 .. MaxPatches, faults : 0 .. MaxReportFaults]
        /\ reported'.now = reported.now /\ reported'.rewound = reported.rewound /\ reported'.mails = reported.mails
    BY <1>2 DEF ReportInv, ReportTypeOK
  <2>3. runner' = [runner EXCEPT ![k].step = "mail"] /\ UNCHANGED <<timetable, runs, owner, patch>>
    BY <1>2 DEF RunnerGenerate, AfterReport
  <2>4. reported'.mails[runner[k].slot] = 0 /\ reported'.mails[runner[k].slot] <= 1 BY <2>1, <2>2
  <2> QED BY <1>1, <2>2, <2>3, <2>4, HeldGoesOn
<1>3. CASE Fails(k) BY <1>1, <1>3, FailsRep DEF RunnerGenerate
<1> QED BY <1>2, <1>3 DEF RunnerGenerate

LEMMA RunnerMailRep == ASSUME ReportInv, NEW k \in Runners, RunnerMail(k) PROVE ReportInv'
<1>1. Holding(k) /\ runner[k].step = "mail" BY DEF RunnerMail, Holding
<1>2. CASE runner' = [runner EXCEPT ![k].step = "finish"] /\ reported' = [reported EXCEPT !.mails[runner[k].slot] = @ + 1]
  <2>1. reported.mails[runner[k].slot] = 0 /\ runner[k].slot \in Slots BY <1>1, HeldFacts DEF ReportInv, MailsKnown
  <2>2. ReportTypeOK BY DEF ReportInv
  <2>3. /\ reported' \in [now : 0 .. MaxTime, mails : [Slots -> Nat], rewound : BOOLEAN, orphans : SUBSET Slots,
                          patches : 0 .. MaxPatches, faults : 0 .. MaxReportFaults]
        /\ reported'.now = reported.now /\ reported'.rewound = reported.rewound
        /\ reported'.mails = [reported.mails EXCEPT ![runner[k].slot] = 1]
    BY <1>2, <2>1, <2>2 DEF ReportTypeOK
  <2>4. reported'.mails[runner[k].slot] = 1 /\ \A x \in Slots \ {runner[k].slot} : reported'.mails[x] = reported.mails[x]
    BY <2>1, <2>2, <2>3, ReportFields
  <2>5. runner' = [runner EXCEPT ![k].step = "finish"] /\ UNCHANGED <<timetable, runs, owner, patch>>
    BY <1>2 DEF RunnerMail
  <2>6. reported'.mails[runner[k].slot] <= 1 BY <2>4
  <2> QED BY <1>1, <2>3, <2>4, <2>5, <2>6, HeldGoesOn
<1>3. CASE Fails(k) BY <1>1, <1>3, FailsRep DEF RunnerMail
<1> QED BY <1>2, <1>3 DEF RunnerMail

\* The runner ends and its run has the given status, or stays as it is.
LEMMA HeldEnds ==
  ASSUME ReportInv, NEW k \in Runners, runner[k].step # "idle", NEW status \in {"running", "completed", "failed"},
         runner' = [runner EXCEPT ![k] = Resting],
         UNCHANGED <<timetable, owner, patch>>,
         runs' = runs \/ (Holding(k) /\ runs' = [runs EXCEPT ![runner[k].slot] = status]),
         status = "completed" => reported.mails[runner[k].slot] = 1,
         reported' \in [now : 0 .. MaxTime, mails : [Slots -> Nat], rewound : BOOLEAN, orphans : SUBSET Slots,
                        patches : 0 .. MaxPatches, faults : 0 .. MaxReportFaults],
         reported'.now = reported.now, reported'.rewound = reported.rewound, reported'.mails = reported.mails
  PROVE  ReportInv'
<1> USE DEF ReportInv
<1>1. runner'[k] = Resting /\ \A j \in Runners \ {k} : runner'[j] = runner[j] BY DEF ReportTypeOK
<1>2. ReportTypeOK' BY RestingFacts DEF ReportTypeOK
<1>3. /\ \A x \in Slots : runs'[x] = "none" <=> runs[x] = "none"
      /\ \A x \in Slots : runs'[x] = runs[x] \/ (Holding(k) /\ x = runner[k].slot /\ runs'[x] = status)
  BY HeldFacts, ReportFields
<1>4. RunsInTime' /\ LeftForGood' /\ NothingLater' /\ NextIsNew'
  <2>1. timetable.status # "none" BY DEF RunsInTime
  <2> QED BY <1>1, <1>2, <1>3, <2>1, RestingFacts, ReportFields, HeldStep
<1>5. \A j \in Runners : Holding(j)' => j # k /\ Holding(j) /\ runner'[j] = runner[j] BY <1>1, RestingFacts DEF Holding
<1>6. RunsOwned'
  <2>1. ASSUME NEW j \in Runners, Holding(j)' PROVE runs'[runner'[j].slot] = "running"
    <3>1. j # k /\ Holding(j) /\ runner'[j] = runner[j] BY <1>5, <2>1
    <3> QED BY <3>1, <1>3, HeldFacts DEF RunsOwned
  <2> QED BY <2>1, <1>5 DEF RunsOwned
<1>7. MailsKnown' BY <1>1, RestingFacts DEF MailsKnown
<1>8. MailedOncePerSlot' BY DEF MailedOncePerSlot
<1>9. CompletedIsMailed' BY <1>3 DEF CompletedIsMailed
<1> QED BY <1>2, <1>4, <1>6, <1>7, <1>8, <1>9

LEMMA RunnerFinishRep == ASSUME ReportInv, NEW k \in Runners, RunnerFinish(k) PROVE ReportInv'
<1>1. Holding(k) /\ runner[k].step = "finish" BY DEF RunnerFinish, Holding
<1>2. CASE EndsAs(k, "completed")
  <2>1. reported.mails[runner[k].slot] = 1 BY <1>1 DEF ReportInv, MailsKnown
  <2> QED BY <1>1, <1>2, <2>1, HeldEnds DEF EndsAs, RunnerFinish, ReportInv, ReportTypeOK
<1>3. CASE Fails(k) /\ UNCHANGED runs BY <1>1, <1>3, FailsRep DEF RunnerFinish
<1> QED BY <1>2, <1>3 DEF RunnerFinish

\* The history of a runner that ends without an update of its run.
LEMMA FaultCounted ==
  ASSUME ReportTypeOK, NEW S \in SUBSET Slots, reported.faults < MaxReportFaults,
         reported' = [reported EXCEPT !.faults = @ + 1, !.orphans = @ \cup S]
  PROVE  /\ reported' \in [now : 0 .. MaxTime, mails : [Slots -> Nat], rewound : BOOLEAN, orphans : SUBSET Slots,
                           patches : 0 .. MaxPatches, faults : 0 .. MaxReportFaults]
         /\ reported'.now = reported.now /\ reported'.rewound = reported.rewound /\ reported'.mails = reported.mails
<1>1. reported.faults + 1 \in 0 .. MaxReportFaults BY ReportFields, ScheduledReportsAssumption
<1>2. reported.orphans \cup S \in SUBSET Slots BY ReportFields
<1> QED BY <1>1, <1>2 DEF ReportTypeOK

LEMMA RunnerFailRep == ASSUME ReportInv, NEW k \in Runners, RunnerFail(k) PROVE ReportInv'
<1>1. Holding(k) /\ runner[k].step = "fail" /\ ReportTypeOK BY DEF RunnerFail, Holding, ReportInv
<1>2. CASE EndsAs(k, "failed") BY <1>1, <1>2, HeldEnds DEF EndsAs, RunnerFail, ReportInv, ReportTypeOK
<1>3. CASE ~EndsAs(k, "failed")
  <2>1. /\ reported.faults < MaxReportFaults /\ UNCHANGED runs /\ runner' = [runner EXCEPT ![k] = Resting]
        /\ reported' = [reported EXCEPT !.faults = @ + 1, !.orphans = @ \cup {runner[k].slot}]
    BY <1>3 DEF RunnerFail
  <2>2. {runner[k].slot} \in SUBSET Slots BY <1>1, HeldFacts
  <2> QED BY <1>1, <2>1, <2>2, FaultCounted, HeldEnds DEF RunnerFail
<1> QED BY <1>2, <1>3

LEMMA RunnerDiesRep == ASSUME ReportInv, NEW k \in Runners, RunnerDies(k) PROVE ReportInv'
<1> DEFINE S == IF runner[k].step = "claim" THEN {} ELSE {runner[k].slot}
<1>1. /\ reported.faults < MaxReportFaults /\ UNCHANGED <<timetable, runs, owner, patch>>
      /\ runner' = [runner EXCEPT ![k] = Resting] /\ runner[k].step # "idle"
      /\ reported' = [reported EXCEPT !.faults = @ + 1, !.orphans = IF runner[k].step = "claim" THEN @ ELSE @ \cup {runner[k].slot}]
  BY DEF RunnerDies
<1>2. ReportTypeOK /\ runner[k].slot \in Slots BY RunnerFields DEF ReportInv
<1>3. S \in SUBSET Slots BY <1>2
<1>4. reported' = [reported EXCEPT !.faults = @ + 1, !.orphans = @ \cup S] BY <1>1, <1>2 DEF ReportTypeOK
<1> HIDE DEF S
<1>5. /\ reported' \in [now : 0 .. MaxTime, mails : [Slots -> Nat], rewound : BOOLEAN, orphans : SUBSET Slots,
                        patches : 0 .. MaxPatches, faults : 0 .. MaxReportFaults]
      /\ reported'.now = reported.now /\ reported'.rewound = reported.rewound /\ reported'.mails = reported.mails
  BY <1>1, <1>2, <1>3, <1>4, FaultCounted
<1> QED BY <1>1, <1>5, HeldEnds

LEMMA ReportNextInv == ReportInv /\ [ReportNext]_reportVars => ReportInv'
<1> SUFFICES ASSUME ReportInv, [ReportNext]_reportVars PROVE ReportInv' OBVIOUS
<1>1. CASE UNCHANGED reportVars
  BY <1>1 DEF reportVars, ReportInv, ReportTypeOK, RunsOwned, Holding, MailsKnown, MailedOncePerSlot, CompletedIsMailed,
              RunsInTime, LeftForGood, NothingLater, NextIsNew, Claims
<1>2. ASSUME NEW k \in Runners, RunnerStep(k) PROVE ReportInv'
  BY <1>2, RunnerClaimRep, RunnerCheckRep, RunnerGenerateRep, RunnerMailRep, RunnerFinishRep, RunnerFailRep DEF RunnerStep
<1> QED BY <1>1, <1>2, CreateScheduleRep, PatchReadRep, PatchWriteRep, DeleteScheduleRep, OwnerChangesRep, TimePassesRep,
          RunnerReadRep, RunnerDiesRep DEF ReportNext

\* The report of a date is mailed at most once and its run recorded as it was,
\* and next_run_at is a date that was not run, for any number of overlapping
\* runners, deaths, failures and PATCH requests: the unique index on the date
\* and the compared next_run_at suffice (services/scheduledReports.ts).
THEOREM ReportsHold == ReportSpec => []ReportsSafe
<1>1. ReportInit => ReportInv BY ReportInvInit
<1>2. ReportInv /\ [ReportNext]_reportVars => ReportInv' BY ReportNextInv
<1>3. ReportInv => ReportsSafe BY ReportInvImplies
<1> QED BY <1>1, <1>2, <1>3, PTL DEF ReportSpec

-----------------------------------------------------------------------------
(* Reminders *)

ReminderSpec == (\E job \in {"deadlines", "remote", "daily"} : ReminderInit(job)) /\ [][ReminderNext]_reminderVars

\* An instance at a subject has one; each job goes through steps of its own.
SubjectsAtHand == \A i \in Instances :
  /\ instance[i].step \notin {"idle", "next"} => instance[i].todo # <<>>
  /\ instance[i].step \in {"look", "queue", "complete", "retry", "stamp"} => schedule.job # "daily"
  /\ instance[i].step = "stamp" => schedule.job = "remote"
  /\ instance[i].step \in {"send", "undo"} => schedule.job = "daily"

\* A marker is completed, and a session stamped, by an instance that has queued.
QueuedFirst == \A i \in Instances :
  instance[i].step \in {"complete", "stamp"} => Handled(Head(instance[i].todo))

\* The tasks an instance has passed are handled, unless it knows of a failure.
Covers(todo) == \A x \in Listed : Handled(x) \/ x \in {todo[k] : k \in 1 .. Len(todo)}
PassedHandled == \A i \in Instances :
  schedule.job = "deadlines" /\ instance[i].step # "idle" /\ ~instance[i].failed => Covers(instance[i].todo)

\* One instance at a time sends the nudge of a session, and while it does, or
\* when the session is free, every message sent so far was sent for a failure.
NudgeClaimed == \A i \in Instances :
  instance[i].step \in {"send", "undo"} => Head(instance[i].todo) \in session.nudged
NudgeAlone == \A i, j \in Instances :
  instance[i].step \in {"send", "undo"} /\ instance[j].step \in {"send", "undo"} =>
    (Head(instance[i].todo) = Head(instance[j].todo) => i = j)
NudgesPaid ==
  /\ \A x \in Listed : record.daily[x] <= (IF x \in session.nudged THEN 1 ELSE 0) + record.again[x]
  /\ \A i \in Instances : instance[i].step \in {"send", "undo"} =>
       record.daily[Head(instance[i].todo)] <= record.again[Head(instance[i].todo)]

ReminderInv ==
  /\ ReminderTypeOK /\ SubjectsAtHand /\ QueuedFirst /\ PassedHandled
  /\ RemindedOnce /\ SentIsQueued /\ CompleteAfterAll
  /\ NudgeClaimed /\ NudgeAlone /\ NudgesPaid

\* What may happen apart from the instances.
RemindersMove ==
  /\ lease' \in Instances \cup {NoInstance}
  /\ schedule' \in [job : Jobs, due : BOOLEAN, current : BOOLEAN, complete : BOOLEAN] /\ schedule'.job = schedule.job
  /\ marker' \in [Listed -> Marker]
  /\ session' \in [stamped : SUBSET Listed, window : [Listed -> {"before", "open", "past"}], nudged : SUBSET Listed]
  /\ record' \in [rows : [Listed -> Nat], daily : [Listed -> Nat], again : [Listed -> Nat],
                  faults : 0 .. MaxFaults, lapses : 0 .. MaxLapses, zones : 0 .. MaxZones]
  /\ \A x \in Listed : record'.rows[x] <= 1 /\ (Handled(x) => Handled(x)')
  /\ SentIsQueued' /\ CompleteAfterAll'
NudgesStay == session'.nudged = session.nudged /\ record'.daily = record.daily /\ record'.again = record.again

LEMMA ReminderNumbers == MaxFaults \in Nat /\ MaxLapses \in Nat /\ MaxZones \in Nat
  BY RemindersAssumption

LEMMA ListedSeq == Subjects \in Seq(Listed) /\ Listed = {Subjects[k] : k \in 1 .. Len(Subjects)}
  BY RemindersAssumption DEF Listed, Range, IsInjective

LEMMA ReminderInvImplies == ReminderInv => RemindersSafe
<1> SUFFICES ASSUME ReminderInv PROVE RemindersSafe OBVIOUS
<1>1. DailyNudgeOnce
  <2> SUFFICES ASSUME NEW x \in Listed PROVE record.daily[x] <= 1 + record.again[x] BY DEF DailyNudgeOnce
  <2>1. record.daily[x] \in Nat /\ record.again[x] \in Nat BY DEF ReminderInv, ReminderTypeOK
  <2>2. record.daily[x] <= (IF x \in session.nudged THEN 1 ELSE 0) + record.again[x] BY DEF ReminderInv, NudgesPaid
  <2>3. CASE x \in session.nudged BY <2>2, <2>3
  <2>4. CASE x \notin session.nudged BY <2>1, <2>2, <2>4
  <2> QED BY <2>3, <2>4
<1> QED BY <1>1 DEF ReminderInv, RemindersSafe

LEMMA RemindersStart == (\E job \in {"deadlines", "remote", "daily"} : ReminderInit(job)) => ReminderInv
<1> SUFFICES ASSUME NEW job \in {"deadlines", "remote", "daily"}, ReminderInit(job) PROVE ReminderInv OBVIOUS
<1>1. Off \in Instance /\ Off.step = "idle" BY DEF Off, Instance
<1>2. instance \in [Instances -> Instance] /\ \A i \in Instances : instance[i].step = "idle"
  BY <1>1 DEF ReminderInit
<1>3. schedule = [job |-> job, due |-> FALSE, current |-> TRUE, complete |-> FALSE] BY DEF ReminderInit
<1>4. schedule \in [job : Jobs, due : BOOLEAN, current : BOOLEAN, complete : BOOLEAN] /\ ~schedule.complete
  BY <1>3 DEF Jobs
<1>5. marker \in [Listed -> Marker] /\ \A x \in Listed : marker[x].status = "none"
  BY DEF ReminderInit, Marker
<1>6. /\ session \in [stamped : SUBSET Listed, window : [Listed -> {"before", "open", "past"}], nudged : SUBSET Listed]
      /\ session.stamped = {}
  BY DEF ReminderInit
<1>7. 0 \in Nat /\ 0 \in 0 .. MaxFaults /\ 0 \in 0 .. MaxLapses /\ 0 \in 0 .. MaxZones BY ReminderNumbers
<1>8. record \in [rows : [Listed -> Nat], daily : [Listed -> Nat], again : [Listed -> Nat],
                  faults : 0 .. MaxFaults, lapses : 0 .. MaxLapses, zones : 0 .. MaxZones]
  BY <1>7 DEF ReminderInit
<1>9. \A x \in Listed : record.rows[x] = 0 /\ record.daily[x] = 0 /\ record.again[x] = 0 BY DEF ReminderInit
<1>10. ReminderTypeOK BY <1>2, <1>4, <1>5, <1>6, <1>8 DEF ReminderTypeOK, ReminderInit
<1>11. SubjectsAtHand /\ QueuedFirst /\ PassedHandled /\ NudgeClaimed /\ NudgeAlone
  BY <1>2 DEF SubjectsAtHand, QueuedFirst, PassedHandled, NudgeClaimed, NudgeAlone
<1>12. RemindedOnce /\ SentIsQueued /\ CompleteAfterAll
  BY <1>4, <1>5, <1>6, <1>9 DEF RemindedOnce, SentIsQueued, CompleteAfterAll
<1>13. NudgesPaid BY <1>2, <1>9 DEF NudgesPaid
<1> QED BY <1>10, <1>11, <1>12, <1>13 DEF ReminderInv

LEMMA InstanceFields ==
  ASSUME ReminderInv, NEW i \in Instances
  PROVE  /\ instance[i] \in Instance
         /\ instance[i].step \in {"idle", "next", "look", "queue", "complete", "retry", "stamp", "send", "undo"}
         /\ instance[i].todo \in Seq(Listed)
         /\ instance[i].step \notin {"idle", "next"} => instance[i].todo # <<>>
<1>1. instance[i] \in Instance BY DEF ReminderInv, ReminderTypeOK
<1>2. instance[i].todo \in Seq(Listed) BY <1>1 DEF Instance
<1>3. instance[i].step \in {"idle", "next", "look", "queue", "complete", "retry", "stamp", "send", "undo"}
  BY <1>1 DEF Instance
<1>4. instance[i].step \notin {"idle", "next"} => instance[i].todo # <<>> BY DEF ReminderInv, SubjectsAtHand
<1> QED BY <1>1, <1>2, <1>3, <1>4

LEMMA HeadTail ==
  ASSUME NEW s \in Seq(Listed), s # <<>>
  PROVE  /\ Head(s) \in Listed /\ Tail(s) \in Seq(Listed)
         /\ {s[k] : k \in 1 .. Len(s)} \subseteq {Head(s)} \cup {Tail(s)[k] : k \in 1 .. Len(Tail(s))}
<1>1. Head(s) = s[1] /\ Head(s) \in Listed /\ Tail(s) \in Seq(Listed) OBVIOUS
<1>2. Len(Tail(s)) = Len(s) - 1 /\ Len(s) \in Nat /\ \A k \in 1 .. Len(s) - 1 : Tail(s)[k] = s[k + 1] OBVIOUS
<1>3. ASSUME NEW k \in 1 .. Len(s), k # 1 PROVE s[k] \in {Tail(s)[n] : n \in 1 .. Len(Tail(s))}
  <2>1. k - 1 \in 1 .. Len(Tail(s)) BY <1>2, <1>3
  <2>2. Tail(s)[k - 1] = s[k] BY <1>2, <1>3
  <2> QED BY <2>1, <2>2
<1> QED BY <1>1, <1>3

\* One instance goes on, starts or ends.
LEMMA InstanceSide ==
  ASSUME ReminderInv, RemindersMove, NEW i \in Instances, NEW q \in Instance, instance' = [instance EXCEPT ![i] = q],
         q.step \notin {"idle", "next"} => q.todo # <<>>,
         q.step \in {"look", "queue", "complete", "retry", "stamp"} => schedule.job # "daily",
         q.step = "stamp" => schedule.job = "remote",
         q.step \in {"send", "undo"} => schedule.job = "daily",
         q.step \in {"complete", "stamp"} => Handled(Head(q.todo))',
         schedule.job = "deadlines" /\ q.step # "idle" /\ ~q.failed => Covers(q.todo)'
  PROVE  ReminderTypeOK' /\ SubjectsAtHand' /\ QueuedFirst' /\ PassedHandled' /\ RemindedOnce'
<1>1. instance' \in [Instances -> Instance] /\ instance'[i] = q /\ \A j \in Instances \ {i} : instance'[j] = instance[j]
  BY DEF ReminderInv, ReminderTypeOK
<1>2. ReminderTypeOK' BY <1>1 DEF RemindersMove, ReminderTypeOK
<1>3. schedule'.job = schedule.job BY DEF RemindersMove
<1>4. SubjectsAtHand' BY <1>1, <1>3 DEF ReminderInv, SubjectsAtHand
<1>5. QueuedFirst'
  <2> SUFFICES ASSUME NEW j \in Instances, instance'[j].step \in {"complete", "stamp"} PROVE Handled(Head(instance[j].todo))'
    BY DEF QueuedFirst
  <2>1. CASE j = i BY <1>1, <2>1 DEF Handled
  <2>2. CASE j # i
    <3>1. PICK x : x = Head(instance[j].todo) OBVIOUS
    <3>2. x \in Listed BY <1>1, <2>2, <3>1, InstanceFields, HeadTail
    <3>3. Handled(x) BY <1>1, <2>2, <3>1 DEF ReminderInv, QueuedFirst
    <3>4. Handled(x)' BY <3>2, <3>3 DEF RemindersMove
    <3> QED BY <1>1, <2>2, <3>1, <3>4 DEF Handled
  <2> QED BY <2>1, <2>2
<1>6. PassedHandled'
  <2> SUFFICES ASSUME NEW j \in Instances, schedule.job = "deadlines", instance'[j].step # "idle", ~instance'[j].failed
               PROVE  Covers(instance[j].todo)'
    BY <1>3 DEF PassedHandled
  <2>1. CASE j = i BY <1>1, <2>1 DEF Covers
  <2>2. CASE j # i
    <3>1. Covers(instance[j].todo) BY <1>1, <2>2 DEF ReminderInv, PassedHandled
    <3>2. PICK t : t = instance[j].todo OBVIOUS
    <3>3. instance'[j].todo = t BY <1>1, <2>2, <3>2
    <3>4. \A x \in Listed : Handled(x)' \/ x \in {t[k] : k \in 1 .. Len(t)} BY <3>1, <3>2 DEF Covers, RemindersMove
    <3> QED BY <3>3, <3>4 DEF Covers
  <2> QED BY <2>1, <2>2
<1>7. RemindedOnce' BY DEF RemindersMove, RemindedOnce
<1> QED BY <1>2, <1>4, <1>5, <1>6, <1>7

\* No nudge of the day is claimed, sent or given back.
LEMMA NudgeSide ==
  ASSUME ReminderInv, NudgesStay, NEW i \in Instances, NEW q \in Instance, instance' = [instance EXCEPT ![i] = q],
         q.step \notin {"send", "undo"}
  PROVE  NudgeClaimed' /\ NudgeAlone' /\ NudgesPaid'
<1>1. instance'[i] = q /\ \A j \in Instances \ {i} : instance'[j] = instance[j]
  BY DEF ReminderInv, ReminderTypeOK
<1>2. \A j \in Instances : instance'[j].step \in {"send", "undo"} => instance'[j] = instance[j] BY <1>1
<1>3. session'.nudged = session.nudged /\ record'.daily = record.daily /\ record'.again = record.again BY DEF NudgesStay
<1>4. NudgeClaimed' BY <1>2, <1>3 DEF ReminderInv, NudgeClaimed
<1>5. NudgeAlone' BY <1>2 DEF ReminderInv, NudgeAlone
<1>6. NudgesPaid' BY <1>2, <1>3 DEF ReminderInv, NudgesPaid
<1> QED BY <1>4, <1>5, <1>6

LEMMA InstanceGoes ==
  ASSUME ReminderInv, RemindersMove, NudgesStay, NEW i \in Instances, NEW q \in Instance,
         instance' = [instance EXCEPT ![i] = q], q.step \notin {"send", "undo"},
         q.step \notin {"idle", "next"} => q.todo # <<>>,
         q.step \in {"look", "queue", "complete", "retry", "stamp"} => schedule.job # "daily",
         q.step = "stamp" => schedule.job = "remote",
         q.step \in {"complete", "stamp"} => Handled(Head(q.todo))',
         schedule.job = "deadlines" /\ q.step # "idle" /\ ~q.failed => Covers(q.todo)'
  PROVE  ReminderInv'
<1>1. NudgeClaimed' /\ NudgeAlone' /\ NudgesPaid' BY NudgeSide
<1>2. ReminderTypeOK' /\ SubjectsAtHand' /\ QueuedFirst' /\ PassedHandled' /\ RemindedOnce' BY InstanceSide
<1> QED BY <1>1, <1>2 DEF ReminderInv, RemindersMove

LEMMA InstancesStay ==
  ASSUME ReminderInv, RemindersMove, NudgesStay, UNCHANGED instance
  PROVE  ReminderInv'
<1>1. ReminderTypeOK' BY DEF RemindersMove, ReminderTypeOK, ReminderInv
<1>2. SubjectsAtHand' /\ RemindedOnce' BY DEF RemindersMove, ReminderInv, SubjectsAtHand, RemindedOnce
<1>3. QueuedFirst'
  <2> SUFFICES ASSUME NEW j \in Instances, instance[j].step \in {"complete", "stamp"} PROVE Handled(Head(instance[j].todo))'
    BY DEF QueuedFirst
  <2>1. PICK x : x = Head(instance[j].todo) OBVIOUS
  <2>2. x \in Listed BY <2>1, InstanceFields, HeadTail
  <2>3. Handled(x) BY <2>1 DEF ReminderInv, QueuedFirst
  <2>4. Handled(x)' BY <2>2, <2>3 DEF RemindersMove
  <2> QED BY <2>1, <2>4
<1>4. PassedHandled' BY DEF ReminderInv, RemindersMove, PassedHandled, Covers
<1>5. NudgeClaimed' /\ NudgeAlone' /\ NudgesPaid'
  BY DEF ReminderInv, NudgesStay, NudgeClaimed, NudgeAlone, NudgesPaid
<1> QED BY <1>1, <1>2, <1>3, <1>4, <1>5 DEF ReminderInv, RemindersMove

LEMMA RemindersStill ==
  ASSUME ReminderInv, lease' \in Instances \cup {NoInstance}, UNCHANGED <<schedule, marker, session, record>>
  PROVE  RemindersMove /\ NudgesStay /\ \A x \in Listed : Handled(x)' <=> Handled(x)
<1>1. \A x \in Listed : Handled(x)' <=> Handled(x) BY DEF Handled
<1>2. SentIsQueued' /\ CompleteAfterAll' BY <1>1 DEF ReminderInv, SentIsQueued, CompleteAfterAll
<1> QED BY <1>1, <1>2 DEF ReminderInv, ReminderTypeOK, RemindersMove, NudgesStay, RemindedOnce

LEMMA StartKeeps == ASSUME ReminderInv, NEW i \in Instances, StartJob(i) PROVE ReminderInv'
<1>1. PICK q : q = [Off EXCEPT !.step = "next", !.ready = Selected, !.todo = Subjects] OBVIOUS
<1>2. instance' = [instance EXCEPT ![i] = q] /\ lease' = i /\ UNCHANGED <<schedule, marker, session, record>>
  BY <1>1 DEF StartJob
<1>3. Selected \subseteq Listed BY DEF Selected
<1>4. Off \in Instance BY DEF Off, Instance
<1>5. q \in Instance BY <1>1, <1>3, <1>4, ListedSeq DEF Instance
<1>6. q.step = "next" /\ q.todo = Subjects BY <1>1, <1>4 DEF Instance
<1>7. Covers(q.todo)' BY <1>6, ListedSeq DEF Covers
<1>8. RemindersMove /\ NudgesStay BY <1>2, RemindersStill
<1> QED BY <1>2, <1>5, <1>6, <1>7, <1>8, InstanceGoes

LEMMA EndsKeeps ==
  ASSUME ReminderInv, RemindersMove, NudgesStay, NEW i \in Instances, instance' = [instance EXCEPT ![i] = Off]
  PROVE  ReminderInv'
<1>1. PICK q : q = Off OBVIOUS
<1>2. q \in Instance /\ q.step = "idle" BY <1>1 DEF Off, Instance
<1>3. instance' = [instance EXCEPT ![i] = q] BY <1>1
<1> QED BY <1>2, <1>3, InstanceGoes

\* The lease after the end of a handler.
LEMMA EndsLease == ASSUME ReminderInv, NEW i \in Instances, Ends(i) PROVE lease' \in Instances \cup {NoInstance}
  BY DEF Ends, ReminderInv, ReminderTypeOK

\* Only a counter of record moves.
LEMMA CountersMove ==
  ASSUME ReminderInv, UNCHANGED <<schedule, marker, session>>, lease' \in Instances \cup {NoInstance},
         record' \in [rows : [Listed -> Nat], daily : [Listed -> Nat], again : [Listed -> Nat],
                      faults : 0 .. MaxFaults, lapses : 0 .. MaxLapses, zones : 0 .. MaxZones],
         record'.rows = record.rows, record'.daily = record.daily, record'.again = record.again
  PROVE  RemindersMove /\ NudgesStay
<1>1. \A x \in Listed : Handled(x)' <=> Handled(x) BY DEF Handled
<1>2. SentIsQueued' /\ CompleteAfterAll' BY <1>1 DEF ReminderInv, SentIsQueued, CompleteAfterAll
<1> QED BY <1>1, <1>2 DEF ReminderInv, ReminderTypeOK, RemindersMove, NudgesStay, RemindedOnce

RecordType == [rows : [Listed -> Nat], daily : [Listed -> Nat], again : [Listed -> Nat],
               faults : 0 .. MaxFaults, lapses : 0 .. MaxLapses, zones : 0 .. MaxZones]

LEMMA StatementFaultCounted ==
  ASSUME ReminderInv, record.faults < MaxFaults, record' = [record EXCEPT !.faults = @ + 1]
  PROVE  record' \in RecordType /\ record'.rows = record.rows /\ record'.daily = record.daily /\ record'.again = record.again
<1>1. record \in RecordType BY DEF ReminderInv, ReminderTypeOK, RecordType
<1>2. PICK n : n = record.faults + 1 OBVIOUS
<1>3. n \in 0 .. MaxFaults BY <1>1, <1>2, ReminderNumbers DEF RecordType
<1>4. record' = [record EXCEPT !.faults = n] BY <1>2
<1> QED BY <1>1, <1>3, <1>4 DEF RecordType

LEMMA LapseCounted ==
  ASSUME ReminderInv, record.lapses < MaxLapses, record' = [record EXCEPT !.lapses = @ + 1]
  PROVE  record' \in RecordType /\ record'.rows = record.rows /\ record'.daily = record.daily /\ record'.again = record.again
<1>1. record \in RecordType BY DEF ReminderInv, ReminderTypeOK, RecordType
<1>2. PICK n : n = record.lapses + 1 OBVIOUS
<1>3. n \in 0 .. MaxLapses BY <1>1, <1>2, ReminderNumbers DEF RecordType
<1>4. record' = [record EXCEPT !.lapses = n] BY <1>2
<1> QED BY <1>1, <1>3, <1>4 DEF RecordType

LEMMA ZoneCounted ==
  ASSUME ReminderInv, record.zones < MaxZones, record' = [record EXCEPT !.zones = @ + 1]
  PROVE  record' \in RecordType /\ record'.rows = record.rows /\ record'.daily = record.daily /\ record'.again = record.again
<1>1. record \in RecordType BY DEF ReminderInv, ReminderTypeOK, RecordType
<1>2. PICK n : n = record.zones + 1 OBVIOUS
<1>3. n \in 0 .. MaxZones BY <1>1, <1>2, ReminderNumbers DEF RecordType
<1>4. record' = [record EXCEPT !.zones = n] BY <1>2
<1> QED BY <1>1, <1>3, <1>4 DEF RecordType

LEMMA LapsesKeep ==
  ASSUME ReminderInv, LeaseLapses \/ (\E i \in Instances : InstanceDies(i))
  PROVE  ReminderInv'
<1>1. CASE LeaseLapses
  <2>1. lease' \in Instances \cup {NoInstance} /\ UNCHANGED <<schedule, marker, session, instance>> BY <1>1 DEF LeaseLapses
  <2>2. CASE UNCHANGED record BY <2>1, <2>2, RemindersStill, InstancesStay
  <2>3. CASE record.lapses < MaxLapses /\ record' = [record EXCEPT !.lapses = @ + 1]
    <3>1. RemindersMove /\ NudgesStay BY <2>1, <2>3, LapseCounted, CountersMove DEF RecordType
    <3> QED BY <2>1, <3>1, InstancesStay
  <2> QED BY <1>1, <2>2, <2>3 DEF LeaseLapses
<1>2. ASSUME NEW i \in Instances, InstanceDies(i) PROVE ReminderInv'
  <2>1. /\ instance' = [instance EXCEPT ![i] = Off] /\ UNCHANGED <<lease, schedule, marker, session>>
        /\ record.lapses < MaxLapses /\ record' = [record EXCEPT !.lapses = @ + 1]
    BY <1>2 DEF InstanceDies
  <2>2. lease' \in Instances \cup {NoInstance} BY <2>1 DEF ReminderInv, ReminderTypeOK
  <2>3. RemindersMove /\ NudgesStay BY <2>1, <2>2, LapseCounted, CountersMove DEF RecordType
  <2> QED BY <2>1, <2>3, EndsKeeps
<1> QED BY <1>1, <1>2

\* The schedule changes; it is complete when it was, or when all tasks are handled.
LEMMA ScheduleMoves ==
  ASSUME ReminderInv, UNCHANGED <<marker, session>>, lease' \in Instances \cup {NoInstance},
         record' \in RecordType, record'.rows = record.rows, record'.daily = record.daily, record'.again = record.again,
         schedule' \in [job : Jobs, due : BOOLEAN, current : BOOLEAN, complete : BOOLEAN], schedule'.job = schedule.job,
         schedule.job = "deadlines" /\ schedule'.complete => schedule.complete \/ \A x \in Listed : Handled(x)
  PROVE  RemindersMove /\ NudgesStay
<1>1. \A x \in Listed : Handled(x)' <=> Handled(x) BY DEF Handled
<1>2. SentIsQueued' BY <1>1 DEF ReminderInv, SentIsQueued
<1>3. CompleteAfterAll' BY <1>1 DEF ReminderInv, CompleteAfterAll
<1> QED BY <1>1, <1>2, <1>3 DEF ReminderInv, ReminderTypeOK, RemindersMove, NudgesStay, RemindedOnce, RecordType

LEMMA SchedulesKeep ==
  ASSUME ReminderInv, JobComesDue \/ ZoneChanges \/ (\E over \in BOOLEAN : Reconcile(over))
  PROVE  ReminderInv'
<1>0. /\ schedule \in [job : Jobs, due : BOOLEAN, current : BOOLEAN, complete : BOOLEAN]
      /\ lease \in Instances \cup {NoInstance} /\ record \in RecordType
  BY DEF ReminderInv, ReminderTypeOK, RecordType
<1>1. UNCHANGED <<lease, marker, session, instance>> BY DEF JobComesDue, ZoneChanges, Reconcile
<1>2. CASE JobComesDue
  <2>1. schedule' = [schedule EXCEPT !.due = TRUE] /\ UNCHANGED record BY <1>2 DEF JobComesDue
  <2>2. /\ schedule' \in [job : Jobs, due : BOOLEAN, current : BOOLEAN, complete : BOOLEAN]
        /\ schedule'.job = schedule.job /\ schedule'.complete = schedule.complete
    BY <1>0, <2>1
  <2>3. RemindersMove /\ NudgesStay BY <1>0, <1>1, <2>1, <2>2, ScheduleMoves
  <2> QED BY <1>1, <2>3, InstancesStay
<1>3. CASE ZoneChanges
  <2>1. schedule' = [schedule EXCEPT !.current = FALSE] /\ record.zones < MaxZones /\ record' = [record EXCEPT !.zones = @ + 1]
    BY <1>3 DEF ZoneChanges
  <2>2. /\ schedule' \in [job : Jobs, due : BOOLEAN, current : BOOLEAN, complete : BOOLEAN]
        /\ schedule'.job = schedule.job /\ schedule'.complete = schedule.complete
    BY <1>0, <2>1
  <2>3. record' \in RecordType /\ record'.rows = record.rows /\ record'.daily = record.daily /\ record'.again = record.again
    BY <2>1, ZoneCounted
  <2>4. RemindersMove /\ NudgesStay BY <1>0, <1>1, <2>2, <2>3, ScheduleMoves
  <2> QED BY <1>1, <2>4, InstancesStay
<1>4. ASSUME NEW over \in BOOLEAN, Reconcile(over) PROVE ReminderInv'
  <2>1. schedule' = [schedule EXCEPT !.due = over, !.current = TRUE, !.complete = FALSE] /\ UNCHANGED record
    BY <1>4 DEF Reconcile
  <2>2. /\ schedule' \in [job : Jobs, due : BOOLEAN, current : BOOLEAN, complete : BOOLEAN]
        /\ schedule'.job = schedule.job /\ ~schedule'.complete
    BY <1>0, <2>1
  <2>3. RemindersMove /\ NudgesStay BY <1>0, <1>1, <2>1, <2>2, ScheduleMoves
  <2> QED BY <1>1, <2>3, InstancesStay
<1> QED BY <1>2, <1>3, <1>4

LEMMA FinishKeeps == ASSUME ReminderInv, NEW i \in Instances, FinishJob(i) PROVE ReminderInv'
<1>1. /\ instance[i].step = "next" /\ instance[i].todo = <<>> /\ UNCHANGED <<marker, session, record>>
      /\ instance' = [instance EXCEPT ![i] = Off] /\ Ends(i)
  BY DEF FinishJob, Ends
<1>2. lease' \in Instances \cup {NoInstance} BY <1>1, EndsLease
<1>3. CASE ~Finishes(i)
  <2>1. UNCHANGED schedule BY <1>3 DEF FinishJob
  <2> QED BY <1>1, <1>2, <2>1, RemindersStill, EndsKeeps
<1>4. CASE Finishes(i)
  <2>1. PICK c \in BOOLEAN : schedule' = [schedule EXCEPT !.due = FALSE, !.complete = c]
    <3>1. schedule' = [schedule EXCEPT !.due = FALSE, !.complete = @ \/ schedule.due] BY <1>4 DEF FinishJob, MarksComplete
    <3>2. schedule \in [job : Jobs, due : BOOLEAN, current : BOOLEAN, complete : BOOLEAN] BY DEF ReminderInv, ReminderTypeOK
    <3>3. PICK c : c = (schedule.complete \/ schedule.due) OBVIOUS
    <3>4. c \in BOOLEAN BY <3>3
    <3>5. schedule' = [schedule EXCEPT !.due = FALSE, !.complete = c] BY <3>1, <3>2, <3>3
    <3> QED BY <3>4, <3>5
  <2>2. schedule \in [job : Jobs, due : BOOLEAN, current : BOOLEAN, complete : BOOLEAN] /\ record \in RecordType
    BY DEF ReminderInv, ReminderTypeOK, RecordType
  <2>3. schedule' \in [job : Jobs, due : BOOLEAN, current : BOOLEAN, complete : BOOLEAN] /\ schedule'.job = schedule.job
    BY <2>1, <2>2
  <2>4. schedule.job = "deadlines" => \A x \in Listed : Handled(x)
    <3>1. schedule.job = "deadlines" => Covers(instance[i].todo)
      BY <1>1, <1>4 DEF Finishes, ReminderInv, PassedHandled
    <3>2. {instance[i].todo[k] : k \in 1 .. Len(instance[i].todo)} = {} BY <1>1
    <3> QED BY <3>1, <3>2 DEF Covers
  <2>5. RemindersMove /\ NudgesStay BY <1>1, <1>2, <2>2, <2>3, <2>4, ScheduleMoves
  <2> QED BY <1>1, <2>5, EndsKeeps
<1> QED BY <1>3, <1>4

\* An instance takes the next step at its subject.
LEMMA InstanceSteps ==
  ASSUME ReminderInv, RemindersMove, NudgesStay, NEW i \in Instances, schedule.job # "daily",
         instance[i].step # "idle", instance[i].todo # <<>>,
         NEW q \in Instance, instance' = [instance EXCEPT ![i] = q],
         q.step \in {"look", "queue", "complete", "retry", "stamp"}, q.todo = instance[i].todo, q.failed = instance[i].failed,
         q.step = "stamp" => schedule.job = "remote",
         q.step \in {"complete", "stamp"} => Handled(Head(q.todo))'
  PROVE  ReminderInv'
<1>1. q.step \notin {"send", "undo"} OBVIOUS
<1>2. ASSUME schedule.job = "deadlines", ~q.failed PROVE Covers(q.todo)'
  <2>1. Covers(q.todo) BY <1>2 DEF ReminderInv, PassedHandled
  <2> QED BY <2>1 DEF Covers, RemindersMove
<1> QED BY <1>1, <1>2, InstanceGoes

\* An instance leaves its subject, which is handled unless it knows of a failure.
LEMMA InstancePasses ==
  ASSUME ReminderInv, RemindersMove, NudgesStay, NEW i \in Instances, instance[i].step # "idle", instance[i].todo # <<>>,
         NEW q \in Instance, instance' = [instance EXCEPT ![i] = q], q.step = "next", q.todo = Tail(instance[i].todo),
         NEW x, x = Head(instance[i].todo),
         schedule.job = "deadlines" /\ ~q.failed => ~instance[i].failed /\ Handled(x)'
  PROVE  ReminderInv'
<1>1. q.step \notin {"send", "undo"} OBVIOUS
<1>2. ASSUME schedule.job = "deadlines", ~q.failed PROVE Covers(q.todo)'
  <2>1. PICK t : t = instance[i].todo OBVIOUS
  <2>2. t \in Seq(Listed) /\ t # <<>> BY <2>1, InstanceFields
  <2>3. Covers(t) BY <1>2, <2>1 DEF ReminderInv, PassedHandled
  <2>4. \A y \in Listed : Handled(y)' \/ y \in {t[k] : k \in 1 .. Len(t)} BY <2>3 DEF Covers, RemindersMove
  <2>5. {t[k] : k \in 1 .. Len(t)} \subseteq {x} \cup {Tail(t)[k] : k \in 1 .. Len(Tail(t))} BY <2>1, <2>2, HeadTail
  <2>6. PICK u : u = Tail(t) OBVIOUS
  <2>7. \A y \in Listed : Handled(y)' \/ y \in {u[k] : k \in 1 .. Len(u)} BY <1>2, <2>4, <2>5, <2>6
  <2>8. q.todo = u BY <2>1, <2>6
  <2> QED BY <2>7, <2>8 DEF Covers
<1> QED BY <1>1, <1>2, InstanceGoes

LEMMA InstanceStepped ==
  ASSUME NEW r \in Instance, NEW p \in {"next", "look", "queue", "complete", "retry", "stamp", "send", "undo"}
  PROVE  /\ [r EXCEPT !.step = p] \in Instance /\ [r EXCEPT !.step = p].step = p
         /\ [r EXCEPT !.step = p].todo = r.todo /\ [r EXCEPT !.step = p].failed = r.failed
  BY DEF Instance

LEMMA InstancePassed ==
  ASSUME NEW r \in Instance, r.todo # <<>>, NEW f \in BOOLEAN
  PROVE  /\ [r EXCEPT !.step = "next", !.todo = Tail(@), !.failed = f] \in Instance
         /\ [r EXCEPT !.step = "next", !.todo = Tail(@), !.failed = f].step = "next"
         /\ [r EXCEPT !.step = "next", !.todo = Tail(@), !.failed = f].todo = Tail(r.todo)
         /\ [r EXCEPT !.step = "next", !.todo = Tail(@), !.failed = f].failed = f
<1>1. r.todo \in Seq(Listed) BY DEF Instance
<1>2. PICK t : t = Tail(r.todo) OBVIOUS
<1>3. t \in Seq(Listed) BY <1>1, <1>2, HeadTail
<1>4. PICK q : q = [r EXCEPT !.step = "next", !.todo = t, !.failed = f] OBVIOUS
<1>5. q \in Instance /\ q.step = "next" /\ q.todo = t /\ q.failed = f BY <1>3, <1>4 DEF Instance
<1> QED BY <1>2, <1>4, <1>5

\* Skips of the code, with the record of the instance at hand.
LEMMA SkipsAs ==
  ASSUME ReminderInv, NEW i \in Instances, instance[i].todo # <<>>, Skips(i)
  PROVE  \E q \in Instance : /\ instance' = [instance EXCEPT ![i] = q] /\ q.step = "next"
                             /\ q.todo = Tail(instance[i].todo) /\ q.failed = instance[i].failed
<1>1. PICK r : r = instance[i] OBVIOUS
<1>2. r \in Instance BY <1>1, InstanceFields
<1>3. PICK q : q = [r EXCEPT !.step = "next", !.todo = Tail(@), !.failed = r.failed] OBVIOUS
<1>4. r.failed \in BOOLEAN BY <1>2 DEF Instance
<1>5. q \in Instance /\ q.step = "next" /\ q.todo = Tail(r.todo) /\ q.failed = r.failed
  BY <1>1, <1>2, <1>3, <1>4, InstancePassed
<1>6. instance' = [instance EXCEPT ![i].step = "next", ![i].todo = Tail(@)] BY DEF Skips
<1>7. instance' = [instance EXCEPT ![i] = [r EXCEPT !.step = "next", !.todo = Tail(@)]]
  BY <1>1, <1>6 DEF ReminderInv, ReminderTypeOK
<1>8. q = [r EXCEPT !.step = "next", !.todo = Tail(@)] BY <1>2, <1>3 DEF Instance
<1> QED BY <1>1, <1>5, <1>7, <1>8

LEMMA StepsAs ==
  ASSUME ReminderInv, NEW i \in Instances, NEW p \in {"next", "look", "queue", "complete", "retry", "stamp", "send", "undo"},
         Steps(i, p)
  PROVE  \E q \in Instance : /\ instance' = [instance EXCEPT ![i] = q] /\ q.step = p
                             /\ q.todo = instance[i].todo /\ q.failed = instance[i].failed
<1>1. PICK r : r = instance[i] OBVIOUS
<1>2. r \in Instance BY <1>1, InstanceFields
<1>3. PICK q : q = [r EXCEPT !.step = p] OBVIOUS
<1>4. q \in Instance /\ q.step = p /\ q.todo = r.todo /\ q.failed = r.failed BY <1>2, <1>3, InstanceStepped
<1>5. instance' = [instance EXCEPT ![i].step = p] BY DEF Steps
<1>6. instance' = [instance EXCEPT ![i] = q] BY <1>1, <1>3, <1>5 DEF ReminderInv, ReminderTypeOK
<1> QED BY <1>1, <1>4, <1>6

\* Markers move; one that becomes sent has a subject that is handled.
LEMMA MarkersMove ==
  ASSUME ReminderInv, UNCHANGED <<schedule, session, record>>, lease' \in Instances \cup {NoInstance},
         marker' \in [Listed -> Marker],
         \A x \in Listed : marker'[x].status = "sent" => marker[x].status = "sent" \/ Handled(x)
  PROVE  RemindersMove /\ NudgesStay
<1>1. \A x \in Listed : Handled(x)' <=> Handled(x) BY DEF Handled
<1>2. SentIsQueued' BY <1>1 DEF ReminderInv, SentIsQueued
<1>3. CompleteAfterAll' BY <1>1 DEF ReminderInv, CompleteAfterAll
<1> QED BY <1>1, <1>2, <1>3 DEF ReminderInv, ReminderTypeOK, RemindersMove, NudgesStay, RemindedOnce

\* Sessions move; one is stamped when the nudge has been queued.
LEMMA SessionsMove ==
  ASSUME ReminderInv, UNCHANGED <<schedule, marker, record>>, lease' \in Instances \cup {NoInstance},
         session' \in [stamped : SUBSET Listed, window : [Listed -> {"before", "open", "past"}], nudged : SUBSET Listed],
         \A x \in Listed : x \in session'.stamped => x \in session.stamped \/ Handled(x)
  PROVE  RemindersMove
<1>1. \A x \in Listed : Handled(x)' <=> Handled(x) BY DEF Handled
<1>2. SentIsQueued' BY <1>1 DEF ReminderInv, SentIsQueued
<1>3. CompleteAfterAll' BY <1>1 DEF ReminderInv, CompleteAfterAll
<1> QED BY <1>1, <1>2, <1>3 DEF ReminderInv, ReminderTypeOK, RemindersMove, RemindedOnce

\* The record moves; reminders are added only.
LEMMA RecordsMove ==
  ASSUME ReminderInv, UNCHANGED <<schedule, marker, session>>, lease' \in Instances \cup {NoInstance},
         record' \in RecordType, \A x \in Listed : record'.rows[x] <= 1 /\ record.rows[x] <= record'.rows[x]
  PROVE  RemindersMove
<1>0. \A x \in Listed : record.rows[x] \in Nat /\ record'.rows[x] \in Nat BY DEF ReminderInv, ReminderTypeOK, RecordType
<1>1. \A x \in Listed : Handled(x) => Handled(x)' BY <1>0 DEF Handled
<1>2. SentIsQueued' BY <1>1 DEF ReminderInv, SentIsQueued
<1>3. CompleteAfterAll' BY <1>1 DEF ReminderInv, CompleteAfterAll
<1> QED BY <1>1, <1>2, <1>3 DEF ReminderInv, ReminderTypeOK, RemindersMove, RecordType

LEMMA ClaimKeeps == ASSUME ReminderInv, NEW i \in Instances, ClaimMarker(i) PROVE ReminderInv'
<1>0. PICK x : x = At(i) OBVIOUS
<1>1. /\ instance[i].step = "next" /\ instance[i].todo # <<>> /\ schedule.job # "daily"
      /\ UNCHANGED <<schedule, session, record>>
  BY DEF ClaimMarker, HasSubject
<1>2. x \in Listed /\ x = Head(instance[i].todo) BY <1>0, <1>1, InstanceFields, HeadTail DEF At
<1>3. CASE ~NotNow(i) /\ Acquirable(At(i))
  <2>1. marker' = [marker EXCEPT ![x] = [status |-> "processing", lapsed |-> FALSE]] /\ Steps(i, "queue")
    BY <1>0, <1>3 DEF ClaimMarker
  <2>2. PICK m : m = [status |-> "processing", lapsed |-> FALSE] OBVIOUS
  <2>3. m \in Marker /\ m.status = "processing" BY <2>2 DEF Marker
  <2>4. marker' = [marker EXCEPT ![x] = m] BY <2>1, <2>2
  <2>5. marker' \in [Listed -> Marker] /\ \A y \in Listed : marker'[y].status = "sent" => marker[y].status = "sent"
    BY <1>2, <2>3, <2>4 DEF ReminderInv, ReminderTypeOK
  <2>6. lease' \in Instances \cup {NoInstance} BY <2>1 DEF Steps, ReminderInv, ReminderTypeOK
  <2>7. RemindersMove /\ NudgesStay BY <1>1, <2>5, <2>6, MarkersMove
  <2>8. PICK q \in Instance : /\ instance' = [instance EXCEPT ![i] = q] /\ q.step = "queue"
                              /\ q.todo = instance[i].todo /\ q.failed = instance[i].failed
    BY <2>1, StepsAs
  <2> QED BY <1>1, <2>7, <2>8, InstanceSteps
<1>4. CASE ~(~NotNow(i) /\ Acquirable(At(i)))
  <2>1. UNCHANGED marker /\ IF schedule.job = "deadlines" THEN Steps(i, "look") ELSE Skips(i) BY <1>4 DEF ClaimMarker
  <2>2. lease' \in Instances \cup {NoInstance} BY <2>1 DEF Steps, Skips, ReminderInv, ReminderTypeOK
  <2>3. RemindersMove /\ NudgesStay BY <1>1, <2>1, <2>2, RemindersStill
  <2>4. CASE schedule.job = "deadlines"
    <3>1. PICK q \in Instance : /\ instance' = [instance EXCEPT ![i] = q] /\ q.step = "look"
                                /\ q.todo = instance[i].todo /\ q.failed = instance[i].failed
      BY <2>1, <2>4, StepsAs
    <3> QED BY <1>1, <2>3, <3>1, InstanceSteps
  <2>5. CASE schedule.job # "deadlines"
    <3>1. PICK q \in Instance : /\ instance' = [instance EXCEPT ![i] = q] /\ q.step = "next"
                                /\ q.todo = Tail(instance[i].todo)
      BY <1>1, <2>1, <2>5, SkipsAs
    <3> QED BY <1>1, <1>2, <2>3, <2>5, <3>1, InstancePasses
  <2> QED BY <2>4, <2>5
<1> QED BY <1>3, <1>4

LEMMA LookKeeps == ASSUME ReminderInv, NEW i \in Instances, LookAtMarker(i) PROVE ReminderInv'
<1>1. instance[i].step = "look" /\ UNCHANGED <<lease, schedule, marker, session, record>> BY DEF LookAtMarker
<1>2. instance[i].todo # <<>> BY <1>1, InstanceFields
<1>3. PICK x : x = Head(instance[i].todo) OBVIOUS
<1>4. x \in Listed BY <1>2, <1>3, InstanceFields, HeadTail
<1>5. PICK r : r = instance[i] OBVIOUS
<1>6. PICK f : f = (r.failed \/ marker[x].status # "sent") OBVIOUS
<1>7. PICK q : q = [r EXCEPT !.step = "next", !.todo = Tail(@), !.failed = f] OBVIOUS
<1>8. r \in Instance /\ f \in BOOLEAN BY <1>5, <1>6, InstanceFields
<1>9. q \in Instance /\ q.step = "next" /\ q.todo = Tail(r.todo) /\ q.failed = f
  BY <1>2, <1>5, <1>7, <1>8, InstancePassed
<1>10. instance' = [instance EXCEPT ![i].step = "next", ![i].todo = Tail(@),
                                    ![i].failed = @ \/ marker[x].status # "sent"]
  BY <1>3 DEF LookAtMarker, At
<1>11. instance' = [instance EXCEPT ![i] = [r EXCEPT !.step = "next", !.todo = Tail(@),
                                                     !.failed = @ \/ marker[x].status # "sent"]]
  BY <1>5, <1>10 DEF ReminderInv, ReminderTypeOK
<1>12. q = [r EXCEPT !.step = "next", !.todo = Tail(@), !.failed = @ \/ marker[x].status # "sent"]
  BY <1>6, <1>7, <1>8 DEF Instance
<1>13. instance' = [instance EXCEPT ![i] = q] BY <1>11, <1>12
<1>14. RemindersMove /\ NudgesStay /\ \A y \in Listed : Handled(y)' <=> Handled(y)
  <2>1. lease' \in Instances \cup {NoInstance} BY <1>1 DEF ReminderInv, ReminderTypeOK
  <2> QED BY <1>1, <2>1, RemindersStill
<1>15. ASSUME ~q.failed PROVE ~instance[i].failed /\ Handled(x)'
  <2>1. ~r.failed /\ marker[x].status = "sent" BY <1>6, <1>9, <1>15
  <2>2. Handled(x) BY <1>4, <2>1 DEF ReminderInv, SentIsQueued
  <2> QED BY <1>4, <1>5, <1>14, <2>1, <2>2
<1>16. instance[i].step # "idle" BY <1>1
<1>17. q.todo = Tail(instance[i].todo) BY <1>5, <1>9
<1> QED BY <1>2, <1>3, <1>9, <1>13, <1>14, <1>15, <1>16, <1>17, InstancePasses

LEMMA QueueKeeps == ASSUME ReminderInv, NEW i \in Instances, NEW ok \in BOOLEAN, QueueReminder(i, ok) PROVE ReminderInv'
<1>1. instance[i].step = "queue" /\ UNCHANGED <<schedule, marker, session>> /\ Steps(i, AfterQueueing(ok))
  BY DEF QueueReminder
<1>2. instance[i].todo # <<>> /\ schedule.job # "daily" BY <1>1, InstanceFields DEF ReminderInv, SubjectsAtHand
<1>3. PICK x : x = Head(instance[i].todo) OBVIOUS
<1>4. x \in Listed BY <1>2, <1>3, InstanceFields, HeadTail
<1>5. PICK p \in {"complete", "retry"} : p = AfterQueueing(ok) /\ (p = "complete" <=> ok) BY DEF AfterQueueing
<1>6. PICK q \in Instance : /\ instance' = [instance EXCEPT ![i] = q] /\ q.step = p
                            /\ q.todo = instance[i].todo /\ q.failed = instance[i].failed
  BY <1>1, <1>5, StepsAs
<1>7. lease' \in Instances \cup {NoInstance} BY <1>1 DEF Steps, ReminderInv, ReminderTypeOK
<1>8. instance[i].step # "idle" BY <1>1
<1>9. CASE ~ok
  <2>1. record.faults < MaxFaults /\ record' = [record EXCEPT !.faults = @ + 1] BY <1>9 DEF QueueReminder
  <2>2. RemindersMove /\ NudgesStay BY <1>1, <1>7, <2>1, StatementFaultCounted, CountersMove DEF RecordType
  <2>3. q.step = "retry" BY <1>5, <1>6, <1>9
  <2> QED BY <1>2, <1>6, <1>8, <2>2, <2>3, InstanceSteps
<1>10. CASE ok
  <2>1. record' = IF x \in Muted THEN record ELSE [record EXCEPT !.rows[x] = RowsAfter(x)]
    BY <1>3, <1>10 DEF QueueReminder, At
  <2>2. record \in RecordType BY DEF ReminderInv, ReminderTypeOK, RecordType
  <2>3. record.rows[x] \in Nat /\ record.rows[x] <= 1 BY <1>4, <2>2 DEF RecordType, ReminderInv, RemindedOnce
  <2>4. PICK n : n = RowsAfter(x) OBVIOUS
  <2>5. n \in Nat /\ n = 1 /\ record.rows[x] <= n BY <2>3, <2>4 DEF RowsAfter
  <2>6. RemindersMove /\ NudgesStay /\ Handled(x)'
    <3>1. CASE x \in Muted
      <4>1. UNCHANGED record BY <2>1, <3>1
      <4>2. RemindersMove /\ NudgesStay BY <1>1, <1>7, <4>1, RemindersStill
      <4> QED BY <3>1, <4>2 DEF Handled
    <3>2. CASE x \notin Muted
      <4>1. record' = [record EXCEPT !.rows[x] = n] BY <2>1, <2>4, <3>2
      <4>2. record' \in RecordType BY <1>4, <2>2, <2>5, <4>1 DEF RecordType
      <4>3. /\ record'.rows = [record.rows EXCEPT ![x] = n]
            /\ record'.daily = record.daily /\ record'.again = record.again
        BY <2>2, <4>1 DEF RecordType
      <4>4. record.rows \in [Listed -> Nat] BY <2>2 DEF RecordType
      <4>5. \A y \in Listed : record'.rows[y] <= 1 /\ record.rows[y] <= record'.rows[y]
        BY <1>4, <2>5, <4>3, <4>4 DEF ReminderInv, RemindedOnce
      <4>6. RemindersMove BY <1>1, <1>7, <4>2, <4>5, RecordsMove
      <4>7. record'.rows[x] = 1 BY <1>4, <2>5, <4>3, <4>4
      <4>8. Handled(x)' BY <4>7 DEF Handled
      <4> QED BY <1>1, <4>3, <4>6, <4>8 DEF NudgesStay
    <3> QED BY <3>1, <3>2
  <2>7. Handled(Head(q.todo))' BY <1>3, <1>6, <2>6
  <2>8. q.step = "complete" BY <1>5, <1>6, <1>10
  <2> QED BY <1>2, <1>6, <1>8, <2>6, <2>7, <2>8, InstanceSteps
<1> QED BY <1>9, <1>10

\* A marker in processing is settled.
LEMMA Marked ==
  ASSUME ReminderInv, NEW x \in Listed, NEW s \in {"sent", "pending"}, Marks(x, s), s = "sent" => Handled(x)
  PROVE  /\ marker' \in [Listed -> Marker]
         /\ \A y \in Listed : marker'[y].status = "sent" => marker[y].status = "sent" \/ Handled(y)
<1>1. marker \in [Listed -> Marker] /\ marker[x] \in Marker BY DEF ReminderInv, ReminderTypeOK
<1>2. PICK m : m = marker[x] OBVIOUS
<1>3. PICK t : t = IF m.status = "processing" THEN s ELSE m.status OBVIOUS
<1>4. m \in Marker /\ t \in {"none", "processing", "pending", "sent"} BY <1>1, <1>2, <1>3 DEF Marker
<1>5. PICK n : n = [m EXCEPT !.status = t] OBVIOUS
<1>6. n \in Marker /\ n.status = t BY <1>4, <1>5 DEF Marker
<1>7. marker' = [marker EXCEPT ![x].status = IF @ = "processing" THEN s ELSE @] BY DEF Marks
<1>8. marker' = [marker EXCEPT ![x] = n] BY <1>1, <1>2, <1>3, <1>5, <1>7
<1>9. t = "sent" => m.status = "sent" \/ Handled(x) BY <1>3
<1> QED BY <1>1, <1>2, <1>6, <1>8, <1>9

LEMMA CompleteKeeps == ASSUME ReminderInv, NEW i \in Instances, NEW ok \in BOOLEAN, CompleteMarker(i, ok) PROVE ReminderInv'
<1>1. instance[i].step = "complete" /\ UNCHANGED <<schedule, session>> BY DEF CompleteMarker
<1>2. instance[i].todo # <<>> /\ schedule.job # "daily" /\ instance[i].step # "idle"
  BY <1>1, InstanceFields DEF ReminderInv, SubjectsAtHand
<1>3. PICK x : x = Head(instance[i].todo) OBVIOUS
<1>4. x \in Listed BY <1>2, <1>3, InstanceFields, HeadTail
<1>5. Handled(x) BY <1>1, <1>3 DEF ReminderInv, QueuedFirst
<1>6. CASE ok
  <2>1. /\ Marks(x, "sent") /\ UNCHANGED record
        /\ IF schedule.job = "remote" THEN Steps(i, "stamp") ELSE Skips(i)
    BY <1>3, <1>6 DEF CompleteMarker, At
  <2>2. lease' \in Instances \cup {NoInstance} BY <2>1 DEF Steps, Skips, ReminderInv, ReminderTypeOK
  <2>3. RemindersMove /\ NudgesStay BY <1>1, <1>4, <1>5, <2>1, <2>2, Marked, MarkersMove
  <2>4. Handled(x)' BY <1>4, <1>5, <2>3 DEF RemindersMove
  <2>5. CASE schedule.job = "remote"
    <3>1. PICK q \in Instance : /\ instance' = [instance EXCEPT ![i] = q] /\ q.step = "stamp"
                                /\ q.todo = instance[i].todo /\ q.failed = instance[i].failed
      BY <2>1, <2>5, StepsAs
    <3>2. Handled(Head(q.todo))' BY <1>3, <2>4, <3>1
    <3> QED BY <1>2, <2>3, <2>5, <3>1, <3>2, InstanceSteps
  <2>6. CASE schedule.job # "remote"
    <3>1. PICK q \in Instance : /\ instance' = [instance EXCEPT ![i] = q] /\ q.step = "next"
                                /\ q.todo = Tail(instance[i].todo) /\ q.failed = instance[i].failed
      BY <1>2, <2>1, <2>6, SkipsAs
    <3> QED BY <1>2, <1>3, <2>3, <2>4, <3>1, InstancePasses
  <2> QED BY <2>5, <2>6
<1>7. CASE ~ok
  <2>1. /\ record.faults < MaxFaults /\ record' = [record EXCEPT !.faults = @ + 1] /\ UNCHANGED <<marker, lease>>
        /\ instance' = [instance EXCEPT ![i].step = "retry", ![i].abort = TRUE]
    BY <1>7 DEF CompleteMarker
  <2>2. lease' \in Instances \cup {NoInstance} BY <2>1 DEF ReminderInv, ReminderTypeOK
  <2>3. RemindersMove /\ NudgesStay BY <1>1, <2>1, <2>2, StatementFaultCounted, CountersMove DEF RecordType
  <2>4. PICK r : r = instance[i] OBVIOUS
  <2>5. PICK q : q = [r EXCEPT !.step = "retry", !.abort = TRUE] OBVIOUS
  <2>6. r \in Instance BY <2>4, InstanceFields
  <2>7. q \in Instance /\ q.step = "retry" /\ q.todo = r.todo /\ q.failed = r.failed BY <2>5, <2>6 DEF Instance
  <2>8. instance' = [instance EXCEPT ![i] = q] BY <2>1, <2>4, <2>5 DEF ReminderInv, ReminderTypeOK
  <2> QED BY <1>2, <2>3, <2>4, <2>7, <2>8, InstanceSteps
<1> QED BY <1>6, <1>7

LEMMA RetryKeeps == ASSUME ReminderInv, NEW i \in Instances, RetryMarker(i) PROVE ReminderInv'
<1>1. instance[i].step = "retry" /\ UNCHANGED <<schedule, session, record>> BY DEF RetryMarker
<1>2. instance[i].todo # <<>> /\ instance[i].step # "idle" BY <1>1, InstanceFields
<1>3. PICK x : x = Head(instance[i].todo) OBVIOUS
<1>4. x \in Listed BY <1>2, <1>3, InstanceFields, HeadTail
<1>5. Marks(x, "pending") BY <1>3 DEF RetryMarker, At
<1>6. /\ marker' \in [Listed -> Marker]
      /\ \A y \in Listed : marker'[y].status = "sent" => marker[y].status = "sent" \/ Handled(y)
  BY <1>4, <1>5, Marked
<1>7. CASE instance[i].abort
  <2>1. Ends(i) BY <1>7 DEF RetryMarker
  <2>2. RemindersMove /\ NudgesStay BY <1>1, <1>6, <2>1, EndsLease, MarkersMove
  <2> QED BY <2>1, <2>2, EndsKeeps DEF Ends
<1>8. CASE ~instance[i].abort
  <2>1. /\ instance' = [instance EXCEPT ![i].step = "next", ![i].todo = Tail(@), ![i].failed = TRUE] /\ UNCHANGED lease
    BY <1>8 DEF RetryMarker
  <2>2. lease' \in Instances \cup {NoInstance} BY <2>1 DEF ReminderInv, ReminderTypeOK
  <2>3. RemindersMove /\ NudgesStay BY <1>1, <1>6, <2>2, MarkersMove
  <2>4. PICK r : r = instance[i] OBVIOUS
  <2>5. PICK q : q = [r EXCEPT !.step = "next", !.todo = Tail(@), !.failed = TRUE] OBVIOUS
  <2>6. r \in Instance BY <2>4, InstanceFields
  <2>7. q \in Instance /\ q.step = "next" /\ q.todo = Tail(r.todo) /\ q.failed = TRUE
    BY <1>2, <2>4, <2>5, <2>6, InstancePassed
  <2>8. instance' = [instance EXCEPT ![i] = q] BY <2>1, <2>4, <2>5 DEF ReminderInv, ReminderTypeOK
  <2> QED BY <1>2, <1>3, <2>3, <2>4, <2>7, <2>8, InstancePasses
<1> QED BY <1>7, <1>8

LEMMA StampKeeps == ASSUME ReminderInv, NEW i \in Instances, StampSession(i) PROVE ReminderInv'
<1>1. instance[i].step = "stamp" /\ UNCHANGED <<lease, schedule, marker, record>> BY DEF StampSession
<1>2. instance[i].todo # <<>> BY <1>1, InstanceFields
<1>3. PICK x : x = Head(instance[i].todo) OBVIOUS
<1>4. x \in Listed BY <1>2, <1>3, InstanceFields, HeadTail
<1>5. Handled(x) BY <1>1, <1>3 DEF ReminderInv, QueuedFirst
<1>6. session' = [session EXCEPT !.stamped = @ \cup {x}] BY <1>3 DEF StampSession, At
<1>7. session \in [stamped : SUBSET Listed, window : [Listed -> {"before", "open", "past"}], nudged : SUBSET Listed]
  BY DEF ReminderInv, ReminderTypeOK
<1>8. /\ session' \in [stamped : SUBSET Listed, window : [Listed -> {"before", "open", "past"}], nudged : SUBSET Listed]
      /\ session'.stamped = session.stamped \cup {x} /\ session'.nudged = session.nudged
  BY <1>4, <1>6, <1>7
<1>9. lease' \in Instances \cup {NoInstance} BY <1>1 DEF ReminderInv, ReminderTypeOK
<1>10. RemindersMove BY <1>1, <1>5, <1>8, <1>9, SessionsMove
<1>11. NudgesStay BY <1>1, <1>8 DEF NudgesStay
<1>12. PICK r : r = instance[i] OBVIOUS
<1>13. PICK q : q = [r EXCEPT !.step = "next", !.todo = <<>>] OBVIOUS
<1>14. r \in Instance BY <1>12, InstanceFields
<1>15. q \in Instance /\ q.step = "next" /\ q.todo = <<>> /\ q.failed = r.failed
  <2>1. <<>> \in Seq(Listed) OBVIOUS
  <2> QED BY <1>13, <1>14, <2>1 DEF Instance
<1>16. instance' = [instance EXCEPT ![i] = q]
  <2>1. instance' = [instance EXCEPT ![i].step = "next", ![i].todo = <<>>] BY DEF StampSession
  <2> QED BY <1>12, <1>13, <2>1 DEF ReminderInv, ReminderTypeOK
<1>17. schedule.job # "deadlines" BY <1>1 DEF ReminderInv, SubjectsAtHand
<1> QED BY <1>10, <1>11, <1>15, <1>16, <1>17, InstanceGoes

LEMMA TimeKeeps == ASSUME ReminderInv, NEW x \in Listed, MarkerLapses(x) \/ WindowMoves(x) PROVE ReminderInv'
<1>1. CASE MarkerLapses(x)
  <2>1. /\ marker' = [marker EXCEPT ![x].lapsed = TRUE] /\ UNCHANGED <<lease, schedule, session, instance, record>>
    BY <1>1 DEF MarkerLapses
  <2>2. marker \in [Listed -> Marker] /\ marker[x] \in Marker BY DEF ReminderInv, ReminderTypeOK
  <2>3. PICK n : n = [marker[x] EXCEPT !.lapsed = TRUE] OBVIOUS
  <2>4. n \in Marker /\ n.status = marker[x].status BY <2>2, <2>3 DEF Marker
  <2>5. marker' = [marker EXCEPT ![x] = n] BY <2>1, <2>2, <2>3
  <2>6. marker' \in [Listed -> Marker] /\ \A y \in Listed : marker'[y].status = marker[y].status BY <2>2, <2>4, <2>5
  <2>7. lease' \in Instances \cup {NoInstance} BY <2>1 DEF ReminderInv, ReminderTypeOK
  <2>8. RemindersMove /\ NudgesStay BY <2>1, <2>6, <2>7, MarkersMove
  <2> QED BY <2>1, <2>8, InstancesStay
<1>2. CASE WindowMoves(x)
  <2>1. PICK w \in {"open", "past"} : session' = [session EXCEPT !.window[x] = w]
    BY <1>2 DEF WindowMoves
  <2>2. UNCHANGED <<lease, schedule, marker, instance, record>> BY <1>2 DEF WindowMoves
  <2>3. session \in [stamped : SUBSET Listed, window : [Listed -> {"before", "open", "past"}], nudged : SUBSET Listed]
    BY DEF ReminderInv, ReminderTypeOK
  <2>4. /\ session' \in [stamped : SUBSET Listed, window : [Listed -> {"before", "open", "past"}], nudged : SUBSET Listed]
        /\ session'.stamped = session.stamped /\ session'.nudged = session.nudged
    BY <2>1, <2>3
  <2>5. lease' \in Instances \cup {NoInstance} BY <2>2 DEF ReminderInv, ReminderTypeOK
  <2>6. RemindersMove BY <2>2, <2>4, <2>5, SessionsMove
  <2>7. NudgesStay BY <2>2, <2>4 DEF NudgesStay
  <2> QED BY <2>2, <2>6, <2>7, InstancesStay
<1> QED BY <1>1, <1>2

\* A free session is claimed for the nudge of the day.
LEMMA DailyClaimKeeps == ASSUME ReminderInv, NEW i \in Instances, ClaimDaily(i) PROVE ReminderInv'
<1>1. /\ instance[i].step = "next" /\ instance[i].todo # <<>> /\ schedule.job = "daily"
      /\ UNCHANGED <<schedule, marker, record>>
  BY DEF ClaimDaily, HasSubject
<1>2. PICK x : x = Head(instance[i].todo) OBVIOUS
<1>3. x \in Listed BY <1>1, <1>2, InstanceFields, HeadTail
<1>4. CASE ~(~NotNow(i) /\ FreeToday(At(i)))
  <2>1. UNCHANGED session /\ Skips(i) BY <1>4 DEF ClaimDaily
  <2>2. lease' \in Instances \cup {NoInstance} BY <2>1 DEF Skips, ReminderInv, ReminderTypeOK
  <2>3. RemindersMove /\ NudgesStay BY <1>1, <2>1, <2>2, RemindersStill
  <2>4. PICK q \in Instance : /\ instance' = [instance EXCEPT ![i] = q] /\ q.step = "next"
                              /\ q.todo = Tail(instance[i].todo)
    BY <1>1, <2>1, SkipsAs
  <2> QED BY <1>1, <1>2, <2>3, <2>4, InstancePasses
<1>5. CASE ~NotNow(i) /\ FreeToday(At(i))
  <2>1. session' = [session EXCEPT !.nudged = @ \cup {x}] /\ Steps(i, "send") /\ x \notin session.nudged
    BY <1>2, <1>5 DEF ClaimDaily, At, FreeToday
  <2>2. session \in [stamped : SUBSET Listed, window : [Listed -> {"before", "open", "past"}], nudged : SUBSET Listed]
    BY DEF ReminderInv, ReminderTypeOK
  <2>3. /\ session' \in [stamped : SUBSET Listed, window : [Listed -> {"before", "open", "past"}], nudged : SUBSET Listed]
        /\ session'.stamped = session.stamped /\ session'.nudged = session.nudged \cup {x}
    BY <1>3, <2>1, <2>2
  <2>4. lease' \in Instances \cup {NoInstance} BY <2>1 DEF Steps, ReminderInv, ReminderTypeOK
  <2>5. RemindersMove BY <1>1, <2>3, <2>4, SessionsMove
  <2>6. PICK q \in Instance : /\ instance' = [instance EXCEPT ![i] = q] /\ q.step = "send"
                              /\ q.todo = instance[i].todo /\ q.failed = instance[i].failed
    BY <2>1, StepsAs
  <2>7. ReminderTypeOK' /\ SubjectsAtHand' /\ QueuedFirst' /\ PassedHandled' /\ RemindedOnce'
    BY <1>1, <2>5, <2>6, InstanceSide
  <2>8. instance'[i] = q /\ \A j \in Instances \ {i} : instance'[j] = instance[j]
    BY <2>6 DEF ReminderInv, ReminderTypeOK
  <2>9. Head(q.todo) = x BY <1>2, <2>6
  <2>10. \A j \in Instances \ {i} : instance'[j].step \in {"send", "undo"} =>
           Head(instance'[j].todo) \in session.nudged
    BY <2>8 DEF ReminderInv, NudgeClaimed
  <2>11. NudgeClaimed' BY <2>3, <2>8, <2>9, <2>10 DEF NudgeClaimed
  <2>12. NudgeAlone' BY <2>1, <2>8, <2>9, <2>10 DEF ReminderInv, NudgeAlone
  <2>13. record.daily[x] <= record.again[x]
    <3>1. record.daily[x] \in Nat /\ record.again[x] \in Nat BY <1>3 DEF ReminderInv, ReminderTypeOK
    <3>2. record.daily[x] <= 0 + record.again[x] BY <1>3, <2>1 DEF ReminderInv, NudgesPaid
    <3> QED BY <3>1, <3>2
  <2>14. NudgesPaid'
    <3>1. ASSUME NEW y \in Listed
          PROVE  record.daily[y] <= (IF y \in session'.nudged THEN 1 ELSE 0) + record.again[y]
      <4>1. record.daily[y] \in Nat /\ record.again[y] \in Nat BY DEF ReminderInv, ReminderTypeOK
      <4>2. record.daily[y] <= (IF y \in session.nudged THEN 1 ELSE 0) + record.again[y] BY DEF ReminderInv, NudgesPaid
      <4>3. CASE y = x BY <2>3, <2>13, <4>1, <4>3
      <4>4. CASE y # x BY <2>3, <4>2, <4>4
      <4> QED BY <4>3, <4>4
    <3>2. ASSUME NEW j \in Instances, instance'[j].step \in {"send", "undo"}
          PROVE  record.daily[Head(instance'[j].todo)] <= record.again[Head(instance'[j].todo)]
      <4>1. CASE j = i BY <2>8, <2>9, <2>13, <4>1
      <4>2. CASE j # i BY <2>8, <3>2, <4>2 DEF ReminderInv, NudgesPaid
      <4> QED BY <4>1, <4>2
    <3> QED BY <1>1, <3>1, <3>2 DEF NudgesPaid
  <2> QED BY <2>5, <2>7, <2>11, <2>12, <2>14 DEF ReminderInv, RemindersMove
<1> QED BY <1>4, <1>5

\* The claim is given back: no message but those of a failure was sent.
LEMMA DailyUndoKeeps == ASSUME ReminderInv, NEW i \in Instances, UndoDaily(i) PROVE ReminderInv'
<1>1. instance[i].step = "undo" /\ Ends(i) /\ UNCHANGED <<schedule, marker, record>> BY DEF UndoDaily
<1>2. PICK x : x = Head(instance[i].todo) OBVIOUS
<1>3. x \in Listed BY <1>1, <1>2, InstanceFields, HeadTail
<1>4. session' = [session EXCEPT !.nudged = @ \ {x}] BY <1>2 DEF UndoDaily, At
<1>5. session \in [stamped : SUBSET Listed, window : [Listed -> {"before", "open", "past"}], nudged : SUBSET Listed]
  BY DEF ReminderInv, ReminderTypeOK
<1>6. /\ session' \in [stamped : SUBSET Listed, window : [Listed -> {"before", "open", "past"}], nudged : SUBSET Listed]
      /\ session'.stamped = session.stamped /\ session'.nudged = session.nudged \ {x}
  BY <1>4, <1>5
<1>7. RemindersMove BY <1>1, <1>6, EndsLease, SessionsMove
<1>8. PICK q : q = Off OBVIOUS
<1>9. q \in Instance /\ q.step = "idle" BY <1>8 DEF Off, Instance
<1>10. instance' = [instance EXCEPT ![i] = q] BY <1>1, <1>8 DEF Ends
<1>11. ReminderTypeOK' /\ SubjectsAtHand' /\ QueuedFirst' /\ PassedHandled' /\ RemindedOnce'
  BY <1>7, <1>9, <1>10, InstanceSide
<1>12. instance'[i] = q /\ \A j \in Instances \ {i} : instance'[j] = instance[j]
  BY <1>10 DEF ReminderInv, ReminderTypeOK
<1>13. \A j \in Instances : instance'[j].step \in {"send", "undo"} => j # i /\ instance'[j] = instance[j]
  BY <1>9, <1>12
<1>14. NudgeClaimed'
  <2> SUFFICES ASSUME NEW j \in Instances, instance'[j].step \in {"send", "undo"} PROVE Head(instance'[j].todo) \in session'.nudged
    BY DEF NudgeClaimed
  <2>1. j # i /\ instance'[j] = instance[j] BY <1>13
  <2>2. Head(instance[j].todo) \in session.nudged BY <2>1 DEF ReminderInv, NudgeClaimed
  <2>3. Head(instance[j].todo) # x BY <1>1, <1>2, <2>1 DEF ReminderInv, NudgeAlone
  <2> QED BY <1>6, <2>1, <2>2, <2>3
<1>15. NudgeAlone' BY <1>13 DEF ReminderInv, NudgeAlone
<1>16. NudgesPaid'
  <2>1. ASSUME NEW y \in Listed
        PROVE  record.daily[y] <= (IF y \in session'.nudged THEN 1 ELSE 0) + record.again[y]
    <3>1. record.daily[y] \in Nat /\ record.again[y] \in Nat BY DEF ReminderInv, ReminderTypeOK
    <3>2. record.daily[y] <= (IF y \in session.nudged THEN 1 ELSE 0) + record.again[y] BY DEF ReminderInv, NudgesPaid
    <3>3. CASE y = x
      <4>1. record.daily[x] <= record.again[x] BY <1>1, <1>2 DEF ReminderInv, NudgesPaid
      <4> QED BY <1>6, <3>1, <3>3, <4>1
    <3>4. CASE y # x BY <1>6, <3>2, <3>4
    <3> QED BY <3>3, <3>4
  <2>2. ASSUME NEW j \in Instances, instance'[j].step \in {"send", "undo"}
        PROVE  record.daily[Head(instance'[j].todo)] <= record.again[Head(instance'[j].todo)]
    BY <1>13, <2>2 DEF ReminderInv, NudgesPaid
  <2> QED BY <1>1, <2>1, <2>2 DEF NudgesPaid
<1> QED BY <1>7, <1>11, <1>14, <1>15, <1>16 DEF ReminderInv, RemindersMove

\* The messages and failures of one subject are counted.
LEMMA NudgeCounted ==
  ASSUME ReminderInv, NEW x \in Listed, NEW d \in {0, 1}, NEW a \in {0, 1}, NEW f \in {0, 1}, f = 1 => record.faults < MaxFaults,
         record' = [record EXCEPT !.daily[x] = @ + d, !.again[x] = @ + a, !.faults = @ + f]
  PROVE  /\ record' \in RecordType /\ record'.rows = record.rows
         /\ record'.daily = [record.daily EXCEPT ![x] = @ + d] /\ record'.again = [record.again EXCEPT ![x] = @ + a]
<1>1. record \in RecordType BY DEF ReminderInv, ReminderTypeOK, RecordType
<1>2. record.daily[x] \in Nat /\ record.again[x] \in Nat /\ record.faults \in 0 .. MaxFaults BY <1>1 DEF RecordType
<1>3. PICK m, n, k : m = record.daily[x] + d /\ n = record.again[x] + a /\ k = record.faults + f OBVIOUS
<1>4. m \in Nat /\ n \in Nat /\ k \in 0 .. MaxFaults BY <1>2, <1>3, ReminderNumbers
<1>5. record' = [record EXCEPT !.daily[x] = m, !.again[x] = n, !.faults = k] BY <1>3
<1>6. PICK e, g : e = [record.daily EXCEPT ![x] = m] /\ g = [record.again EXCEPT ![x] = n] OBVIOUS
<1>7. e \in [Listed -> Nat] /\ g \in [Listed -> Nat] BY <1>1, <1>4, <1>6 DEF RecordType
<1>8. record' = [record EXCEPT !.daily = e, !.again = g, !.faults = k] BY <1>1, <1>5, <1>6 DEF RecordType
<1>9. record' \in RecordType /\ record'.rows = record.rows /\ record'.daily = e /\ record'.again = g
  BY <1>1, <1>4, <1>7, <1>8 DEF RecordType
<1> QED BY <1>3, <1>6, <1>9

LEMMA DailySendKeeps ==
  ASSUME ReminderInv, NEW i \in Instances, NEW accepted \in BOOLEAN, NEW throws \in BOOLEAN, SendDaily(i, accepted, throws)
  PROVE  ReminderInv'
<1>1. /\ instance[i].step = "send" /\ UNCHANGED <<schedule, marker, session>>
      /\ throws => record.faults < MaxFaults
      /\ IF throws THEN Steps(i, "undo") ELSE Skips(i)
  BY DEF SendDaily
<1>2. instance[i].todo # <<>> BY <1>1, InstanceFields
<1>3. PICK x : x = Head(instance[i].todo) OBVIOUS
<1>4. x \in Listed BY <1>2, <1>3, InstanceFields, HeadTail
<1>5. PICK d \in {0, 1}, a \in {0, 1}, f \in {0, 1} :
        /\ d = (IF accepted THEN 1 ELSE 0) /\ a = (IF accepted /\ throws THEN 1 ELSE 0) /\ f = (IF throws THEN 1 ELSE 0)
  OBVIOUS
<1>6. record' = [record EXCEPT !.daily[x] = @ + d, !.again[x] = @ + a, !.faults = @ + f]
  BY <1>3, <1>5 DEF SendDaily, At
<1>7. f = 1 => record.faults < MaxFaults BY <1>1, <1>5
<1>8. /\ record' \in RecordType /\ record'.rows = record.rows
      /\ record'.daily = [record.daily EXCEPT ![x] = @ + d] /\ record'.again = [record.again EXCEPT ![x] = @ + a]
  BY <1>4, <1>6, <1>7, NudgeCounted
<1>9. /\ record.rows \in [Listed -> Nat] /\ record.daily \in [Listed -> Nat] /\ record.again \in [Listed -> Nat]
  BY DEF ReminderInv, ReminderTypeOK
<1>10. lease' \in Instances \cup {NoInstance} BY <1>1 DEF Steps, Skips, ReminderInv, ReminderTypeOK
<1>11. RemindersMove
  <2>1. \A y \in Listed : record'.rows[y] <= 1 /\ record.rows[y] <= record'.rows[y]
    BY <1>8, <1>9 DEF ReminderInv, RemindedOnce
  <2> QED BY <1>1, <1>8, <1>10, <2>1, RecordsMove
<1>12. PICK q \in Instance :
         /\ instance' = [instance EXCEPT ![i] = q] /\ q.failed = instance[i].failed
         /\ q.step = (IF throws THEN "undo" ELSE "next")
         /\ q.todo = (IF throws THEN instance[i].todo ELSE Tail(instance[i].todo))
  <2>1. CASE throws BY <1>1, <2>1, StepsAs
  <2>2. CASE ~throws BY <1>1, <1>2, <2>2, SkipsAs
  <2> QED BY <2>1, <2>2
<1>13. schedule.job = "daily" BY <1>1 DEF ReminderInv, SubjectsAtHand
<1>14. ReminderTypeOK' /\ SubjectsAtHand' /\ QueuedFirst' /\ PassedHandled' /\ RemindedOnce'
  <2>1. q.step \notin {"idle", "next"} => q.todo # <<>> BY <1>2, <1>12
  <2>2. q.step \notin {"look", "queue", "complete", "retry", "stamp"} BY <1>12
  <2> QED BY <1>11, <1>12, <1>13, <2>1, <2>2, InstanceSide
<1>15. instance'[i] = q /\ \A j \in Instances \ {i} : instance'[j] = instance[j]
  BY <1>12 DEF ReminderInv, ReminderTypeOK
<1>16. x \in session.nudged /\ record.daily[x] <= record.again[x] BY <1>1, <1>3 DEF ReminderInv, NudgeClaimed, NudgesPaid
<1>17. q.step \in {"send", "undo"} => throws /\ Head(q.todo) = x BY <1>3, <1>12
<1>18. \A j \in Instances \ {i} : instance'[j].step \in {"send", "undo"} =>
         Head(instance'[j].todo) \in session.nudged /\ Head(instance'[j].todo) # x
  BY <1>1, <1>3, <1>15 DEF ReminderInv, NudgeClaimed, NudgeAlone
<1>19. NudgeClaimed' BY <1>1, <1>15, <1>16, <1>17, <1>18 DEF NudgeClaimed
<1>20. NudgeAlone' BY <1>15, <1>17, <1>18 DEF ReminderInv, NudgeAlone
<1>21. NudgesPaid'
  <2>1. ASSUME NEW y \in Listed
        PROVE  record'.daily[y] <= (IF y \in session.nudged THEN 1 ELSE 0) + record'.again[y]
    <3>1. record.daily[y] <= (IF y \in session.nudged THEN 1 ELSE 0) + record.again[y] BY DEF ReminderInv, NudgesPaid
    <3>2. CASE y = x
      <4>1. record'.daily[x] = record.daily[x] + d /\ record'.again[x] = record.again[x] + a BY <1>4, <1>8, <1>9
      <4>2. record.daily[x] \in Nat /\ record.again[x] \in Nat BY <1>4, <1>9
      <4> QED BY <1>5, <1>16, <3>2, <4>1, <4>2
    <3>3. CASE y # x BY <1>8, <1>9, <3>1, <3>3
    <3> QED BY <3>2, <3>3
  <2>2. ASSUME NEW j \in Instances, instance'[j].step \in {"send", "undo"}
        PROVE  record'.daily[Head(instance'[j].todo)] <= record'.again[Head(instance'[j].todo)]
    <3>1. CASE j = i
      <4>1. record'.daily[x] = record.daily[x] + d /\ record'.again[x] = record.again[x] + a BY <1>4, <1>8, <1>9
      <4>2. record.daily[x] \in Nat /\ record.again[x] \in Nat BY <1>4, <1>9
      <4>3. throws /\ Head(instance'[j].todo) = x BY <1>15, <1>17, <2>2, <3>1
      <4>4. d = a BY <1>5, <4>3
      <4>5. record'.daily[x] <= record'.again[x] BY <1>16, <4>1, <4>2, <4>4
      <4> QED BY <4>3, <4>5
    <3>2. CASE j # i
      <4>1. PICK y : y = Head(instance[j].todo) OBVIOUS
      <4>2. instance'[j] = instance[j] /\ y # x BY <1>15, <1>18, <2>2, <3>2, <4>1
      <4>3. y \in Listed BY <2>2, <4>1, <4>2, InstanceFields, HeadTail
      <4>4. record.daily[y] <= record.again[y] BY <2>2, <4>1, <4>2 DEF ReminderInv, NudgesPaid
      <4>5. record'.daily[y] = record.daily[y] /\ record'.again[y] = record.again[y] BY <1>8, <1>9, <4>2, <4>3
      <4> QED BY <4>1, <4>2, <4>4, <4>5
    <3> QED BY <3>1, <3>2
  <2> QED BY <1>1, <2>1, <2>2 DEF NudgesPaid
<1> QED BY <1>11, <1>14, <1>19, <1>20, <1>21 DEF ReminderInv, RemindersMove

LEMMA ReminderStutter == ASSUME ReminderInv, UNCHANGED reminderVars PROVE ReminderInv'
<1>1. UNCHANGED <<lease, schedule, marker, session, record>> /\ UNCHANGED instance BY DEF reminderVars
<1>2. lease' \in Instances \cup {NoInstance} BY <1>1 DEF ReminderInv, ReminderTypeOK
<1> QED BY <1>1, <1>2, RemindersStill, InstancesStay

LEMMA ReminderStep == ASSUME ReminderInv, ReminderNext PROVE ReminderInv'
<1>1. ASSUME NEW i \in Instances, InstanceStep(i) PROVE ReminderInv'
  <2>1. CASE ClaimMarker(i) BY <2>1, ClaimKeeps
  <2>2. CASE LookAtMarker(i) BY <2>2, LookKeeps
  <2>3. CASE RetryMarker(i) BY <2>3, RetryKeeps
  <2>4. CASE StampSession(i) BY <2>4, StampKeeps
  <2>5. CASE ClaimDaily(i) BY <2>5, DailyClaimKeeps
  <2>6. CASE UndoDaily(i) BY <2>6, DailyUndoKeeps
  <2>7. CASE FinishJob(i) BY <2>7, FinishKeeps
  <2>8. ASSUME NEW ok \in BOOLEAN, QueueReminder(i, ok) PROVE ReminderInv' BY <2>8, QueueKeeps
  <2>9. ASSUME NEW ok \in BOOLEAN, CompleteMarker(i, ok) PROVE ReminderInv' BY <2>9, CompleteKeeps
  <2>10. ASSUME NEW accepted \in BOOLEAN, NEW throws \in BOOLEAN, SendDaily(i, accepted, throws) PROVE ReminderInv'
    BY <2>10, DailySendKeeps
  <2> QED BY <1>1, <2>1, <2>2, <2>3, <2>4, <2>5, <2>6, <2>7, <2>8, <2>9, <2>10 DEF InstanceStep
<1>2. ASSUME NEW i \in Instances, StartJob(i) PROVE ReminderInv' BY <1>2, StartKeeps
<1>3. CASE LeaseLapses \/ (\E i \in Instances : InstanceDies(i)) BY <1>3, LapsesKeep
<1>4. CASE JobComesDue \/ ZoneChanges \/ (\E over \in BOOLEAN : Reconcile(over)) BY <1>4, SchedulesKeep
<1>5. ASSUME NEW x \in Listed, MarkerLapses(x) \/ WindowMoves(x) PROVE ReminderInv' BY <1>5, TimeKeeps
<1> QED BY <1>1, <1>2, <1>3, <1>4, <1>5 DEF ReminderNext

\* Whatever instances overlap, lose the lease of the job, fail half-way or die,
\* and whatever the zone of the organisation does to the schedule: a reminder is
\* recorded once for its user, what is marked as sent or stamped was queued, the
\* deadline job is complete only when every task is handled, and the nudge of
\* the day goes out once but for failures after it was accepted
\* (claimSchedulerMarker, completeSchedulerMarker, retrySchedulerMarker,
\* markOrganizationJobComplete and the handlers of the scheduler).
THEOREM RemindersHold == ReminderSpec => []RemindersSafe
<1>1. (\E job \in {"deadlines", "remote", "daily"} : ReminderInit(job)) => ReminderInv BY RemindersStart
<1>2. ReminderInv /\ [ReminderNext]_reminderVars => ReminderInv' BY ReminderStep, ReminderStutter
<1>3. ReminderInv => RemindersSafe BY ReminderInvImplies
<1> QED BY <1>1, <1>2, <1>3, PTL DEF ReminderSpec

-----------------------------------------------------------------------------
(* Webhook deliveries *)

\* Where a process has a say in what becomes of its delivery.
ActivePc == ClaimPc \cup {"replay"}

\* Every process that works on a delivery knows it.
CurKnown == \A p \in Procs : pc[p] \in ActivePc \cup {"claim"} => cur[p] \in Deliveries

Replaying(d) == {p \in Procs : cur[p] = d /\ pc[p] = "replay"}

\* Attempts that have not used up their retry: should they fail, the row is
\* retried.
Keen(d) == {p \in Procs : cur[p] = d /\ \/ pc[p] = "read" /\ row[d].attempts < MaxAttempts
                                        \/ pc[p] \in {"send", "fail"} /\ got[p] < MaxAttempts}

\* 0 while an attempt in progress owns the claim, 1 if another may take it
\* over, be it after a recovery or a replay.
Free(d) == IF row[d].status = "delivering" /\ ~row[d].stale /\ InFlight(d) # {} THEN 0 ELSE 1
\* The same without a replay.
Takeable(d) == IF Settled(d) THEN 0 ELSE Free(d)
\* Below the limit the attempts do not matter.
Reached(d) == IF row[d].attempts >= MaxAttempts THEN row[d].attempts ELSE MaxAttempts - 1
\* A replay in progress whose dead letter came back to life by an old attempt.
Overtaken(d) == IF Replaying(d) # {} /\ row[d].status # "dead_letter" THEN 1 ELSE 0

\* Every attempt beyond one at a time is paid for by a crash or an overlong request.
SendersPaid(d) == Cardinality(InFlight(d)) + Free(d) + Overtaken(d) <= 1 + crashes + longSends

\* Attempts made and attempts that may still follow.
AttemptsPaid(d) == Reached(d) + Cardinality(Keen(d)) + Takeable(d) <= MaxAttempts + crashes + longSends

\* Nobody else works on the delivery of an attempt, or on a dead letter.
Alone(d) ==
  /\ \A p, q \in InFlight(d) : p = q
  /\ InFlight(d) # {} => row[d].status = "delivering" /\ ~row[d].stale
  /\ Replaying(d) # {} => row[d].status = "dead_letter"

DeliveryInv(d) == replays[d] <= 1 =>
  /\ \A p, q \in Replaying(d) : p = q
  /\ replays[d] = 0 => Replaying(d) = {}
  /\ longSends = 0 => Alone(d)
  /\ SendersPaid(d) /\ AttemptsPaid(d)

\* The endpoint is disabled before the alert, which is sent by one process.
AlertInv ==
  /\ alerts <= 1
  /\ \A p \in Procs : pc[p] = "alert" => alerts = 0 /\ ~hook.active
  /\ \A p, q \in Procs : pc[p] = "alert" /\ pc[q] = "alert" => p = q
  /\ hook.active => alerts = 0

WebhookInv == TypeOK /\ CurKnown /\ AlertInv /\ \A d \in Deliveries : DeliveryInv(d)

-----------------------------------------------------------------------------
(* Facts about numbers and sets of processes *)

LEMMA Constants ==
  /\ None \notin Deliveries /\ IsFiniteSet(Procs)
  /\ MaxAttempts \in Nat \ {0} /\ Threshold \in Nat \ {0}
  /\ MaxReplays \in Nat /\ MaxTests \in Nat /\ MaxCrashes \in Nat /\ MaxLongSends \in Nat
  BY WebhookAssumption

\* Sets of processes are finite, and a process that comes or goes counts one.
LEMMA Count ==
  ASSUME NEW S \in SUBSET Procs
  PROVE  /\ Cardinality(S) \in Nat
         /\ \A T \in SUBSET S : Cardinality(T) \in Nat /\ Cardinality(T) <= Cardinality(S)
         /\ \A p \in Procs : p \notin S => Cardinality(S \cup {p}) = Cardinality(S) + 1
         /\ \A p \in S : Cardinality(S \ {p}) = Cardinality(S) - 1
<1>1. IsFiniteSet(S) BY Constants, FS_Subset
<1>2. \A T \in SUBSET S : Cardinality(T) \in Nat /\ Cardinality(T) <= Cardinality(S)
  BY <1>1, FS_Subset, FS_CardinalityType
<1> QED BY <1>1, <1>2, FS_CardinalityType, FS_AddElement, FS_RemoveElement

LEMMA ProcSets ==
  ASSUME NEW d
  PROVE  /\ InFlight(d) \in SUBSET Procs /\ Keen(d) \in SUBSET InFlight(d) /\ Keen(d) \in SUBSET Procs
         /\ Replaying(d) \in SUBSET Procs
         /\ Cardinality(InFlight(d)) \in Nat /\ Cardinality(Keen(d)) \in Nat
<1>1. /\ InFlight(d) \in SUBSET Procs /\ Keen(d) \in SUBSET InFlight(d) /\ Keen(d) \in SUBSET Procs
      /\ Replaying(d) \in SUBSET Procs
  BY DEF InFlight, Keen, Replaying, ClaimPc
<1> QED BY <1>1, Count

\* The same after a step.
LEMMA ProcSetsAfter ==
  ASSUME NEW d
  PROVE  /\ InFlight(d)' \in SUBSET Procs /\ Keen(d)' \in SUBSET InFlight(d)' /\ Keen(d)' \in SUBSET Procs
         /\ Cardinality(InFlight(d)') \in Nat /\ Cardinality(Keen(d)') \in Nat
<1>1. /\ InFlight(d)' \in SUBSET Procs /\ Keen(d)' \in SUBSET InFlight(d)' /\ Keen(d)' \in SUBSET Procs
  BY DEF InFlight, Keen, ClaimPc
<1> QED BY <1>1, Count

\* The types that the bounds are computed with.
LEMMA Numbers ==
  ASSUME TypeOK, NEW d \in Deliveries
  PROVE  /\ row[d] \in Row /\ row[d].attempts \in Nat /\ Free(d) \in 0 .. 1 /\ Takeable(d) \in 0 .. 1
         /\ Overtaken(d) \in 0 .. 1 /\ Reached(d) \in Nat /\ crashes \in Nat /\ longSends \in Nat
         /\ replays[d] \in Nat
<1>1. row[d] \in Row /\ row[d].attempts \in Nat /\ crashes \in Nat /\ longSends \in Nat /\ replays[d] \in Nat
  BY Constants DEF TypeOK, Row
<1>2. Free(d) \in 0 .. 1 /\ Takeable(d) \in 0 .. 1 /\ Overtaken(d) \in 0 .. 1 BY DEF Free, Takeable, Overtaken
<1>3. Reached(d) \in Nat BY <1>1, Constants DEF Reached
<1> QED BY <1>1, <1>2, <1>3

-----------------------------------------------------------------------------
(* What a step does to the deliveries it is about *)

\* The row is untouched, no attempt comes or goes, and none gets keener.
LEMMA Untouched ==
  ASSUME WebhookInv, NEW d \in Deliveries, row'[d] = row[d], replays'[d] = replays[d],
         crashes' \in Nat, longSends' \in Nat, crashes' >= crashes, longSends' >= longSends,
         InFlight(d)' = InFlight(d), Keen(d)' \subseteq Keen(d), Replaying(d)' \subseteq Replaying(d)
  PROVE  DeliveryInv(d)'
<1> SUFFICES ASSUME replays[d] <= 1
             PROVE  /\ \A p, q \in Replaying(d)' : p = q
                    /\ replays[d] = 0 => Replaying(d)' = {}
                    /\ longSends' = 0 => Alone(d)'
                    /\ SendersPaid(d)' /\ AttemptsPaid(d)'
  BY DEF DeliveryInv
<1>0. DeliveryInv(d) /\ TypeOK BY DEF WebhookInv
<1>1. /\ \A p, q \in Replaying(d) : p = q
      /\ replays[d] = 0 => Replaying(d) = {}
      /\ longSends = 0 => Alone(d)
      /\ SendersPaid(d) /\ AttemptsPaid(d)
  BY <1>0 DEF DeliveryInv
<1>2. crashes \in Nat /\ longSends \in Nat BY <1>0, Numbers
<1>3. longSends' = 0 => Alone(d)'
  <2>1. longSends' = 0 => longSends = 0 BY <1>2
  <2> QED BY <1>1, <2>1 DEF Alone
<1>4. Free(d)' = Free(d) /\ Takeable(d)' = Takeable(d) /\ Reached(d)' = Reached(d)
  BY DEF Free, Takeable, Settled, Reached
<1>5. Overtaken(d)' <= Overtaken(d) /\ Overtaken(d)' \in 0 .. 1 BY DEF Overtaken
<1>6. Cardinality(Keen(d)') <= Cardinality(Keen(d)) BY ProcSets, Count
<1>7. SendersPaid(d)'
  BY <1>0, <1>1, <1>2, <1>4, <1>5, ProcSets, Numbers DEF SendersPaid
<1>8. AttemptsPaid(d)'
  BY <1>0, <1>1, <1>2, <1>4, <1>6, ProcSets, ProcSetsAfter, Numbers, Constants DEF AttemptsPaid
<1> QED BY <1>1, <1>3, <1>7, <1>8

\* A process did nothing, or was not active for this delivery and is not now.
Passive(q, d) ==
  \/ pc'[q] = pc[q] /\ cur'[q] = cur[q] /\ got'[q] = got[q]
  \/ (cur[q] # d \/ pc[q] \notin ActivePc) /\ (cur'[q] # d \/ pc'[q] \notin ActivePc)

LEMMA PassiveDelivery ==
  ASSUME WebhookInv, NEW d \in Deliveries, row'[d] = row[d], replays'[d] = replays[d],
         crashes' \in Nat, longSends' \in Nat, crashes' >= crashes, longSends' >= longSends,
         \A q \in Procs : Passive(q, d)
  PROVE  DeliveryInv(d)'
<1>1. InFlight(d)' = InFlight(d) /\ Keen(d)' = Keen(d) /\ Replaying(d)' = Replaying(d)
  BY DEF Passive, ActivePc, InFlight, Keen, Replaying, ClaimPc
<1> QED BY <1>1, Untouched

\* A process takes the claim of a row that is due.
LEMMA TakenDelivery ==
  ASSUME WebhookInv, NEW p \in Procs, NEW d \in Deliveries, Due(d), pc[p] \notin ActivePc,
         row' = Claimed(d), pc' = [pc EXCEPT ![p] = "read"], cur' = [cur EXCEPT ![p] = d],
         UNCHANGED <<got, replays, crashes, longSends>>
  PROVE  \A e \in Deliveries : DeliveryInv(e)'
<1>0. TypeOK /\ DeliveryInv(d) /\ row[d] \in Row /\ row[d].attempts \in Nat
  BY Numbers DEF WebhookInv
<1>1. /\ \A q \in Procs : q # p => pc'[q] = pc[q] /\ cur'[q] = cur[q] /\ got'[q] = got[q]
      /\ pc'[p] = "read" /\ cur'[p] = d
      /\ \A e \in Deliveries : e # d => row'[e] = row[e]
      /\ row'[d].status = "delivering" /\ ~row'[d].stale /\ row'[d].attempts = row[d].attempts + 1
      /\ row[d].status \in {"queued", "retrying"}
  <2>1. row \in [Deliveries -> Row] /\ pc[p] # "read" BY <1>0 DEF TypeOK, ActivePc, ClaimPc
  <2> DEFINE r == [row[d] EXCEPT !.status = "delivering", !.attempts = @ + 1, !.stale = FALSE]
  <2>2. row' = [row EXCEPT ![d] = r] BY DEF Claimed
  <2>3. r.status = "delivering" /\ ~r.stale /\ r.attempts = row[d].attempts + 1 BY <1>0 DEF Row
  <2>4. row'[d].status = "delivering" /\ ~row'[d].stale /\ row'[d].attempts = row[d].attempts + 1
    BY <2>1, <2>2, <2>3
  <2>5. \A e \in Deliveries : e # d => row'[e] = row[e] BY <2>1, <2>2
  <2>6. row[d].status \in {"queued", "retrying"} BY DEF Due
  <2> QED BY <1>0, <2>4, <2>5, <2>6 DEF TypeOK
<1>2. ASSUME NEW e \in Deliveries, e # d PROVE DeliveryInv(e)'
  <2>1. \A q \in Procs : Passive(q, e) BY <1>1, <1>2 DEF Passive
  <2>2. crashes \in Nat /\ longSends \in Nat /\ crashes >= crashes /\ longSends >= longSends BY <1>0, Numbers
  <2> QED BY <1>1, <1>2, <2>1, <2>2, PassiveDelivery
<1>3. DeliveryInv(d)'
  <2>0. /\ InFlight(d)' = InFlight(d) \cup {p} /\ p \notin InFlight(d) /\ Replaying(d)' = Replaying(d)
    BY <1>1 DEF InFlight, Replaying, ActivePc, ClaimPc
  <2> SUFFICES ASSUME replays[d] <= 1
               PROVE  /\ \A x, y \in Replaying(d) : x = y
                      /\ replays[d] = 0 => Replaying(d) = {}
                      /\ longSends = 0 => Alone(d)'
                      /\ SendersPaid(d)' /\ AttemptsPaid(d)'
    BY <2>0 DEF DeliveryInv
  <2>1. /\ \A x, y \in Replaying(d) : x = y
        /\ replays[d] = 0 => Replaying(d) = {}
        /\ longSends = 0 => Alone(d)
        /\ SendersPaid(d) /\ AttemptsPaid(d)
    BY <1>0 DEF DeliveryInv
  <2>2. longSends = 0 => Alone(d)'
    <3>1. longSends = 0 => InFlight(d) = {} /\ Replaying(d) = {} BY <1>1, <2>1 DEF Alone
    <3> QED BY <1>1, <2>0, <3>1 DEF Alone
  <2>3. Free(d) = 1 /\ Takeable(d) = 1 /\ Free(d)' = 0 /\ Takeable(d)' = 0 /\ Overtaken(d)' = Overtaken(d)
    BY <1>1, <2>0 DEF Free, Takeable, Settled, Overtaken
  <2>4. SendersPaid(d)'
    <3>1. Cardinality(InFlight(d)') = Cardinality(InFlight(d)) + 1 BY <2>0, ProcSets, Count
    <3> QED BY <1>0, <2>1, <2>3, <3>1, ProcSets, Numbers DEF SendersPaid
  <2>5. AttemptsPaid(d)'
    <3>1. CASE row[d].attempts + 1 < MaxAttempts
      <4>1. Keen(d)' = Keen(d) \cup {p} /\ p \notin Keen(d)
        <5>1. row[d].attempts < MaxAttempts /\ row'[d].attempts < MaxAttempts BY <1>0, <1>1, <3>1, Constants
        <5>2. p \notin Keen(d) BY <2>0, ProcSets
        <5> QED BY <1>1, <5>1, <5>2 DEF Keen
      <4>2. Cardinality(Keen(d)') = Cardinality(Keen(d)) + 1 BY <4>1, ProcSets, Count
      <4>3. Reached(d)' = Reached(d) BY <1>0, <1>1, <3>1, Constants DEF Reached
      <4> QED BY <1>0, <2>1, <2>3, <4>2, <4>3, ProcSets, Numbers, Constants DEF AttemptsPaid
    <3>2. CASE ~(row[d].attempts + 1 < MaxAttempts)
      <4>1. Keen(d)' \subseteq Keen(d) BY <1>0, <1>1, <2>0, <3>2, Constants, ProcSets DEF Keen
      <4>2. Cardinality(Keen(d)') <= Cardinality(Keen(d)) BY <4>1, ProcSets, Count
      <4>3. Reached(d)' = Reached(d) + 1 BY <1>0, <1>1, <3>2, Constants DEF Reached
      <4> QED BY <1>0, <2>1, <2>3, <4>2, <4>3, ProcSets, ProcSetsAfter, Numbers, Constants DEF AttemptsPaid
    <3> QED BY <3>1, <3>2
  <2> QED BY <2>1, <2>2, <2>4, <2>5
<1> QED BY <1>2, <1>3

\* An attempt writes its outcome and gives the claim up; only an attempt that
\* had a retry left makes the row claimable again.
LEMMA WrittenDelivery ==
  ASSUME WebhookInv, NEW p \in Procs, NEW d \in Deliveries, p \in InFlight(d), pc'[p] \notin ActivePc,
         \A q \in Procs : q # p => pc'[q] = pc[q] /\ cur'[q] = cur[q] /\ got'[q] = got[q],
         \A e \in Deliveries : e # d => row'[e] = row[e],
         row'[d].status \in {"delivered", "dead_letter", "retrying"},
         row'[d].status = "retrying" => p \in Keen(d),
         row'[d].attempts = row[d].attempts,
         UNCHANGED <<replays, crashes, longSends>>
  PROVE  \A e \in Deliveries : DeliveryInv(e)'
<1>0. TypeOK /\ DeliveryInv(d) /\ row[d] \in Row /\ row[d].attempts \in Nat
  BY Numbers DEF WebhookInv
<1>1. cur[p] = d /\ pc[p] \in ClaimPc BY DEF InFlight
<1>2. ASSUME NEW e \in Deliveries, e # d PROVE DeliveryInv(e)'
  <2>1. \A q \in Procs : Passive(q, e) BY <1>1, <1>2 DEF Passive
  <2>2. crashes \in Nat /\ longSends \in Nat /\ crashes >= crashes /\ longSends >= longSends BY <1>0, Numbers
  <2> QED BY <1>1, <1>2, <2>1, <2>2, PassiveDelivery
<1>3. DeliveryInv(d)'
  <2>0. InFlight(d)' = InFlight(d) \ {p} /\ Keen(d)' = Keen(d) \ {p} /\ Replaying(d)' = Replaying(d)
    BY <1>1 DEF InFlight, Keen, Replaying, ActivePc, ClaimPc
  <2> SUFFICES ASSUME replays[d] <= 1
               PROVE  /\ \A x, y \in Replaying(d) : x = y
                      /\ replays[d] = 0 => Replaying(d) = {}
                      /\ longSends = 0 => Alone(d)'
                      /\ SendersPaid(d)' /\ AttemptsPaid(d)'
    BY <2>0 DEF DeliveryInv
  <2>1. /\ \A x, y \in Replaying(d) : x = y
        /\ replays[d] = 0 => Replaying(d) = {}
        /\ longSends = 0 => Alone(d)
        /\ SendersPaid(d) /\ AttemptsPaid(d)
    BY <1>0 DEF DeliveryInv
  <2>2. longSends = 0 => Alone(d)'
    <3>1. longSends = 0 => InFlight(d)' = {} /\ Replaying(d) = {} BY <1>1, <2>0, <2>1 DEF Alone
    <3> QED BY <2>0, <3>1 DEF Alone
  <2>3. Free(d)' = 1 /\ (row'[d].status = "retrying" => Takeable(d)' = 1)
        /\ (row'[d].status # "retrying" => Takeable(d)' = 0) /\ Reached(d)' = Reached(d)
    BY DEF Free, Takeable, Settled, Reached
  <2>4. SendersPaid(d)'
    <3>1. Cardinality(InFlight(d)') = Cardinality(InFlight(d)) - 1 BY <2>0, ProcSets, Count
    <3>2. Overtaken(d)' \in 0 .. 1 /\ (Overtaken(d)' <= Overtaken(d) \/ Free(d) = 1)
      BY <2>0 DEF Overtaken, Free
    <3> QED BY <1>0, <2>1, <2>3, <3>1, <3>2, ProcSets, Numbers DEF SendersPaid
  <2>5. AttemptsPaid(d)'
    <3>1. CASE p \in Keen(d)
      <4>1. Cardinality(Keen(d)') = Cardinality(Keen(d)) - 1 BY <2>0, <3>1, ProcSets, Count
      <4> QED BY <1>0, <2>1, <2>3, <4>1, ProcSets, Numbers, Constants DEF AttemptsPaid
    <3>2. CASE p \notin Keen(d)
      <4>1. Keen(d)' = Keen(d) BY <2>0, <3>2
      <4> QED BY <1>0, <2>1, <2>3, <3>2, <4>1, ProcSets, Numbers, Constants DEF AttemptsPaid
    <3> QED BY <3>1, <3>2
  <2> QED BY <2>1, <2>2, <2>4, <2>5
<1> QED BY <1>2, <1>3

\* A process is gone: what it held may be taken over, at the price of a crash.
LEMMA CrashedDelivery ==
  ASSUME WebhookInv, NEW d \in Deliveries, row'[d] = row[d], replays'[d] = replays[d],
         crashes' = crashes + 1, longSends' = longSends,
         InFlight(d)' \subseteq InFlight(d), Keen(d)' \subseteq Keen(d), Replaying(d)' \subseteq Replaying(d)
  PROVE  DeliveryInv(d)'
<1>0. DeliveryInv(d) /\ TypeOK BY DEF WebhookInv
<1> SUFFICES ASSUME replays[d] <= 1
             PROVE  /\ \A p, q \in Replaying(d)' : p = q
                    /\ replays[d] = 0 => Replaying(d)' = {}
                    /\ longSends = 0 => Alone(d)'
                    /\ SendersPaid(d)' /\ AttemptsPaid(d)'
  BY DEF DeliveryInv
<1>1. /\ \A p, q \in Replaying(d) : p = q
      /\ replays[d] = 0 => Replaying(d) = {}
      /\ longSends = 0 => Alone(d)
      /\ SendersPaid(d) /\ AttemptsPaid(d)
  BY <1>0 DEF DeliveryInv
<1>2. longSends = 0 => Alone(d)' BY <1>1 DEF Alone
<1>3. Reached(d)' = Reached(d) /\ Overtaken(d)' <= Overtaken(d) /\ Overtaken(d)' \in 0 .. 1
  BY DEF Reached, Overtaken
<1>4. Free(d)' \in 0 .. 1 /\ Takeable(d)' \in 0 .. 1 BY DEF Free, Takeable
<1>5. Cardinality(InFlight(d)') <= Cardinality(InFlight(d)) /\ Cardinality(Keen(d)') <= Cardinality(Keen(d))
  BY ProcSets, Count
<1>6. SendersPaid(d)'
  BY <1>0, <1>1, <1>3, <1>4, <1>5, ProcSets, ProcSetsAfter, Numbers DEF SendersPaid
<1>7. AttemptsPaid(d)'
  BY <1>0, <1>1, <1>3, <1>4, <1>5, ProcSets, ProcSetsAfter, Numbers, Constants DEF AttemptsPaid
<1> QED BY <1>1, <1>2, <1>6, <1>7

\* A step of time or of the retry job, which leaves the processes alone.
LEMMA AgedDelivery ==
  ASSUME WebhookInv, NEW d \in Deliveries, UNCHANGED <<pc, cur, got, replays, crashes>>,
         row'[d].attempts = row[d].attempts,
         longSends' \in Nat, longSends' >= longSends,
         \/ row'[d].status = row[d].status
         \/ row[d].status = "delivering" /\ row[d].stale /\ row'[d].status = "retrying",
         \/ row'[d].status # "delivering"
         \/ row'[d].stale = row[d].stale
         \/ InFlight(d) = {}
         \/ longSends' = longSends + 1
  PROVE  DeliveryInv(d)'
<1>0. DeliveryInv(d) /\ TypeOK BY DEF WebhookInv
<1>s. InFlight(d)' = InFlight(d) /\ Keen(d)' = Keen(d) /\ Replaying(d)' = Replaying(d)
  BY DEF InFlight, Keen, Replaying
<1> SUFFICES ASSUME replays[d] <= 1
             PROVE  /\ \A p, q \in Replaying(d) : p = q
                    /\ replays[d] = 0 => Replaying(d) = {}
                    /\ longSends' = 0 => Alone(d)'
                    /\ SendersPaid(d)' /\ AttemptsPaid(d)'
  BY <1>s DEF DeliveryInv
<1>1. /\ \A p, q \in Replaying(d) : p = q
      /\ replays[d] = 0 => Replaying(d) = {}
      /\ longSends = 0 => Alone(d)
      /\ SendersPaid(d) /\ AttemptsPaid(d)
  BY <1>0 DEF DeliveryInv
<1>2. longSends \in Nat BY <1>0, Numbers
<1>3. longSends' = 0 => Alone(d)'
  <2>1. longSends' = 0 => longSends = 0 /\ longSends' # longSends + 1 BY <1>2
  <2> QED BY <1>1, <1>s, <2>1 DEF Alone
<1>4. Reached(d)' = Reached(d) /\ Overtaken(d)' = Overtaken(d) BY <1>s DEF Reached, Overtaken
<1>5. /\ Free(d)' \in 0 .. 1 /\ Takeable(d)' \in 0 .. 1
      /\ longSends' # longSends + 1 => Free(d)' <= Free(d) /\ Takeable(d)' <= Takeable(d)
  BY <1>s DEF Free, Takeable, Settled
<1>6. SendersPaid(d)'
  BY <1>0, <1>1, <1>2, <1>4, <1>5, <1>s, ProcSets, Numbers DEF SendersPaid
<1>7. AttemptsPaid(d)'
  BY <1>0, <1>1, <1>2, <1>4, <1>5, <1>s, ProcSets, Numbers, Constants DEF AttemptsPaid
<1> QED BY <1>1, <1>3, <1>6, <1>7

LEMMA ReplayReadDelivery ==
  ASSUME WebhookInv, NEW p \in Procs, NEW d \in Deliveries, ReplayRead(p, d)
  PROVE  \A e \in Deliveries : DeliveryInv(e)'
<1>0. TypeOK /\ DeliveryInv(d) BY DEF WebhookInv
<1>1. /\ pc[p] = "idle" /\ row[d].status = "dead_letter" /\ UNCHANGED <<row, got, crashes, longSends>>
      /\ \A q \in Procs : q # p => pc'[q] = pc[q] /\ cur'[q] = cur[q]
      /\ pc'[p] = "replay" /\ cur'[p] = d
      /\ replays'[d] = replays[d] + 1 /\ \A e \in Deliveries : e # d => replays'[e] = replays[e]
  BY <1>0 DEF ReplayRead, TypeOK
<1>2. crashes \in Nat /\ longSends \in Nat /\ crashes >= crashes /\ longSends >= longSends /\ replays[d] \in Nat
  BY <1>0, Numbers
<1>3. ASSUME NEW e \in Deliveries, e # d PROVE DeliveryInv(e)'
  <2>1. \A q \in Procs : Passive(q, e) BY <1>1, <1>3 DEF Passive, ActivePc, ClaimPc
  <2> QED BY <1>1, <1>2, <1>3, <2>1, PassiveDelivery
<1>4. DeliveryInv(d)'
  <2>0. InFlight(d)' = InFlight(d) /\ Keen(d)' = Keen(d) /\ Replaying(d)' = Replaying(d) \cup {p}
    BY <1>1 DEF InFlight, Keen, Replaying, ClaimPc
  <2> SUFFICES ASSUME replays'[d] <= 1
               PROVE  /\ \A x, y \in Replaying(d)' : x = y
                      /\ longSends = 0 => Alone(d)'
                      /\ SendersPaid(d)' /\ AttemptsPaid(d)'
    BY <1>1, <1>2 DEF DeliveryInv
  <2>1. replays[d] = 0 /\ replays[d] <= 1 BY <1>1, <1>2
  <2>2. Replaying(d) = {} /\ (longSends = 0 => Alone(d)) /\ SendersPaid(d) /\ AttemptsPaid(d)
    BY <1>0, <2>1 DEF DeliveryInv
  <2>3. longSends = 0 => Alone(d)' BY <1>1, <2>0, <2>2 DEF Alone
  <2>4. /\ Reached(d)' = Reached(d) /\ Overtaken(d)' = 0 /\ Overtaken(d) = 0
        /\ Free(d)' = Free(d) /\ Takeable(d)' = Takeable(d)
    BY <1>1, <2>0 DEF Reached, Overtaken, Free, Takeable, Settled
  <2>5. SendersPaid(d)' /\ AttemptsPaid(d)' BY <1>1, <2>0, <2>2, <2>4 DEF SendersPaid, AttemptsPaid
  <2> QED BY <2>0, <2>2, <2>3, <2>5
<1> QED BY <1>3, <1>4

\* The replay starts the delivery over: whatever attempt is still in progress
\* then has been paid for.
LEMMA ReplayWriteDelivery ==
  ASSUME WebhookInv, NEW p \in Procs, ReplayWrite(p)
  PROVE  \A e \in Deliveries : DeliveryInv(e)'
<1>0. PICK d \in Deliveries : cur[p] = d /\ pc[p] = "replay" /\ TypeOK
  BY DEF ReplayWrite, Step, WebhookInv, CurKnown, ActivePc
<1>1. /\ UNCHANGED <<cur, got, replays, crashes, longSends>> /\ pc'[p] = "claim"
      /\ \A q \in Procs : q # p => pc'[q] = pc[q]
      /\ row'[d] = [status |-> "queued", attempts |-> 0, due |-> TRUE, stale |-> FALSE]
      /\ \A e \in Deliveries : e # d => row'[e] = row[e]
  BY <1>0 DEF ReplayWrite, Step, TypeOK, counters
<1>2. /\ crashes \in Nat /\ longSends \in Nat /\ crashes >= crashes /\ longSends >= longSends
      /\ DeliveryInv(d) /\ p \in Replaying(d)
  BY <1>0, Numbers DEF WebhookInv, Replaying
<1>3. ASSUME NEW e \in Deliveries, e # d PROVE DeliveryInv(e)'
  <2>1. \A q \in Procs : Passive(q, e) BY <1>0, <1>1, <1>3 DEF Passive, ActivePc, ClaimPc
  <2> QED BY <1>1, <1>2, <1>3, <2>1, PassiveDelivery
<1>4. DeliveryInv(d)'
  <2>0. InFlight(d)' = InFlight(d) /\ Replaying(d)' = Replaying(d) \ {p}
    BY <1>0, <1>1 DEF InFlight, Replaying, ClaimPc
  <2> SUFFICES ASSUME replays[d] <= 1
               PROVE  Replaying(d)' = {} /\ (longSends = 0 => Alone(d)') /\ SendersPaid(d)' /\ AttemptsPaid(d)'
    BY <1>1 DEF DeliveryInv
  <2>1. /\ \A x, y \in Replaying(d) : x = y
        /\ longSends = 0 => Alone(d)
        /\ SendersPaid(d)
    BY <1>2 DEF DeliveryInv
  <2>2. Replaying(d)' = {} BY <1>2, <2>0, <2>1
  <2>3. longSends = 0 => Alone(d)' BY <1>1, <1>2, <2>0, <2>1, <2>2 DEF Alone
  <2>4. Free(d)' = 1 /\ Takeable(d)' = 1 /\ Overtaken(d)' = 0 /\ Reached(d)' = MaxAttempts - 1
    BY <1>1, <2>2, Constants DEF Free, Takeable, Settled, Overtaken, Reached
  <2>5. Cardinality(InFlight(d)) + 1 <= 1 + crashes + longSends
    <3>1. Free(d) = 1 \/ Overtaken(d) = 1 BY <1>2 DEF Free, Overtaken
    <3> QED BY <1>0, <2>1, <3>1, ProcSets, Numbers DEF SendersPaid
  <2>6. SendersPaid(d)' BY <1>1, <1>2, <2>0, <2>4, <2>5, ProcSets DEF SendersPaid
  <2>7. AttemptsPaid(d)'
    <3>1. Cardinality(Keen(d)') <= Cardinality(InFlight(d)) /\ Cardinality(Keen(d)') \in Nat
      BY <2>0, ProcSets, ProcSetsAfter, Count
    <3> QED BY <1>1, <1>2, <2>4, <2>5, <3>1, ProcSets, Constants DEF AttemptsPaid
  <2> QED BY <2>2, <2>3, <2>6, <2>7
<1> QED BY <1>3, <1>4

-----------------------------------------------------------------------------
(* The steps *)

LEMMA WebhookInvInit == Init => WebhookInv
<1> SUFFICES ASSUME Init PROVE WebhookInv OBVIOUS
<1>1. TypeOK BY Constants DEF Init, TypeOK, Row, Hook
<1>2. CurKnown /\ AlertInv BY DEF Init, CurKnown, ActivePc, ClaimPc, AlertInv
<1>3. ASSUME NEW d \in Deliveries PROVE DeliveryInv(d)
  <2>1. InFlight(d) = {} /\ Keen(d) = {} /\ Replaying(d) = {}
    BY DEF Init, InFlight, Keen, Replaying, ClaimPc
  <2>2. row[d].status = "queued" /\ row[d].attempts = 0 /\ replays[d] = 0 /\ crashes = 0 /\ longSends = 0
    BY DEF Init
  <2>3. Free(d) = 1 /\ Takeable(d) = 1 /\ Overtaken(d) = 0 /\ Reached(d) = MaxAttempts - 1
    BY <2>1, <2>2, Constants DEF Free, Takeable, Settled, Overtaken, Reached
  <2>4. SendersPaid(d) /\ AttemptsPaid(d)
    BY <2>1, <2>2, <2>3, FS_EmptySet, Constants DEF SendersPaid, AttemptsPaid
  <2> QED BY <2>1, <2>4 DEF DeliveryInv, Alone
<1> QED BY <1>1, <1>2, <1>3 DEF WebhookInv

\* The invariant gives the properties.
LEMMA WebhookInvImplies == WebhookInv => WebhookSafe
<1> SUFFICES ASSUME WebhookInv PROVE WebhookSafe OBVIOUS
<1>1. AlertedOnce BY DEF WebhookInv, AlertInv, AlertedOnce
<1>2. OneSender
  <2> SUFFICES ASSUME NEW d \in Deliveries, Undisturbed(d) PROVE Cardinality(InFlight(d)) <= 1
    BY DEF OneSender
  <2>1. \A p, q \in InFlight(d) : p = q BY DEF Undisturbed, WebhookInv, DeliveryInv, Alone
  <2>2. CASE InFlight(d) = {} BY <2>2, FS_EmptySet
  <2>3. CASE InFlight(d) # {}
    <3>1. PICK p : p \in InFlight(d) BY <2>3
    <3>2. InFlight(d) = {p} BY <2>1, <3>1
    <3> QED BY <3>2, FS_Singleton
  <2> QED BY <2>2, <2>3
<1>3. AttemptsPerRecovery
  <2> SUFFICES ASSUME NEW d \in Deliveries, replays[d] <= 1
               PROVE  row[d].attempts <= MaxAttempts + crashes + longSends
    BY DEF AttemptsPerRecovery
  <2>1. AttemptsPaid(d) /\ TypeOK BY DEF WebhookInv, DeliveryInv
  <2>2. row[d].attempts <= Reached(d) BY <2>1, Numbers, Constants DEF Reached
  <2> QED BY <2>1, <2>2, ProcSets, Numbers, Constants DEF AttemptsPaid
<1> QED BY <1>1, <1>2, <1>3 DEF WebhookSafe, WebhookInv

LEMMA ClaimedType == ASSUME TypeOK, NEW d \in Deliveries PROVE Claimed(d) \in [Deliveries -> Row]
<1> DEFINE n == row[d].attempts + 1
           r == [row[d] EXCEPT !.status = "delivering", !.attempts = n, !.stale = FALSE]
<1>1. row \in [Deliveries -> Row] /\ row[d] \in Row /\ n \in Nat BY DEF TypeOK, Row
<1>2. Claimed(d) = [row EXCEPT ![d] = r] BY DEF Claimed
<1> HIDE DEF n
<1>3. r \in Row BY <1>1 DEF Row
<1> HIDE DEF r
<1> QED BY <1>1, <1>2, <1>3

LEMMA ClaimWebhook == ASSUME WebhookInv, NEW p \in Procs, NEW d \in Deliveries, Claim(p, d) PROVE WebhookInv'
<1>0. /\ pc[p] = "idle" /\ Due(d) /\ row' = Claimed(d) /\ pc' = [pc EXCEPT ![p] = "read"]
      /\ cur' = [cur EXCEPT ![p] = d] /\ UNCHANGED <<hook, got, alerts, replays, tests, crashes, longSends>>
  BY DEF Claim, counters
<1>1. TypeOK' BY <1>0, ClaimedType DEF WebhookInv, TypeOK, AttemptPc
<1>2. CurKnown' BY <1>0 DEF WebhookInv, TypeOK, CurKnown
<1>3. AlertInv' BY <1>0 DEF WebhookInv, TypeOK, AlertInv
<1>4. pc[p] \notin ActivePc BY <1>0 DEF ActivePc, ClaimPc
<1>5. \A e \in Deliveries : DeliveryInv(e)' BY <1>0, <1>4, TakenDelivery
<1> QED BY <1>1, <1>2, <1>3, <1>5 DEF WebhookInv

LEMMA ReplayClaimWebhook == ASSUME WebhookInv, NEW p \in Procs, ReplayClaim(p) PROVE WebhookInv'
<1>0. PICK d \in Deliveries : cur[p] = d /\ pc[p] = "claim" /\ pc[p] \notin ActivePc
  BY DEF ReplayClaim, WebhookInv, CurKnown, ActivePc, ClaimPc
<1>1. UNCHANGED <<hook, alerts, replays, tests, crashes, longSends>> BY DEF ReplayClaim, counters
<1>2. CASE Due(d)
  <2>0. /\ row' = Claimed(d) /\ pc' = [pc EXCEPT ![p] = "read"] /\ UNCHANGED <<cur, got>>
    BY <1>0, <1>2 DEF ReplayClaim, Step
  <2>1. cur' = [cur EXCEPT ![p] = d] BY <1>0, <2>0 DEF WebhookInv, TypeOK
  <2>2. TypeOK' BY <1>1, <2>0, ClaimedType DEF WebhookInv, TypeOK, AttemptPc
  <2>3. CurKnown' BY <1>0, <1>1, <2>0 DEF WebhookInv, TypeOK, CurKnown
  <2>4. AlertInv' BY <1>1, <2>0 DEF WebhookInv, TypeOK, AlertInv
  <2>5. \A e \in Deliveries : DeliveryInv(e)' BY <1>0, <1>1, <1>2, <2>0, <2>1, TakenDelivery
  <2> QED BY <2>2, <2>3, <2>4, <2>5 DEF WebhookInv
<1>3. CASE ~Due(d)
  <2>0. Finish(p) /\ UNCHANGED row BY <1>0, <1>3 DEF ReplayClaim
  <2>1. TypeOK' BY <1>1, <2>0 DEF WebhookInv, TypeOK, Finish
  <2>2. CurKnown' BY <1>1, <2>0 DEF WebhookInv, TypeOK, CurKnown, Finish, ActivePc, ClaimPc
  <2>3. AlertInv' BY <1>1, <2>0 DEF WebhookInv, TypeOK, AlertInv, Finish
  <2>4. ASSUME NEW e \in Deliveries PROVE DeliveryInv(e)'
    <3>1. \A q \in Procs : Passive(q, e) BY <1>0, <2>0 DEF Passive, Finish, WebhookInv, TypeOK, ActivePc, ClaimPc
    <3>2. crashes \in Nat /\ longSends \in Nat /\ crashes >= crashes /\ longSends >= longSends
      BY Numbers DEF WebhookInv
    <3> QED BY <1>1, <2>0, <3>1, <3>2, PassiveDelivery
  <2> QED BY <2>1, <2>2, <2>3, <2>4 DEF WebhookInv
<1> QED BY <1>2, <1>3

\* A process that is not active for its delivery, before and after its step.
LEMMA PassiveStep ==
  ASSUME WebhookInv, NEW p \in Procs, pc[p] \notin ActivePc, pc'[p] \notin ActivePc \cup {"claim"}, TypeOK',
         \A q \in Procs : q # p => pc'[q] = pc[q] /\ cur'[q] = cur[q] /\ got'[q] = got[q],
         UNCHANGED <<row, replays, crashes, longSends>>
  PROVE  CurKnown' /\ \A e \in Deliveries : DeliveryInv(e)'
<1>1. CurKnown' BY DEF WebhookInv, CurKnown
<1>2. ASSUME NEW e \in Deliveries PROVE DeliveryInv(e)'
  <2>1. \A q \in Procs : Passive(q, e) BY DEF Passive
  <2>2. crashes \in Nat /\ longSends \in Nat /\ crashes >= crashes /\ longSends >= longSends
    BY Numbers DEF WebhookInv
  <2> QED BY <2>1, <2>2, PassiveDelivery
<1> QED BY <1>1, <1>2

LEMMA HookSteps ==
  ASSUME WebhookInv, NEW p \in Procs,
         ResetFailures(p) \/ CountFailure(p) \/ CheckHook(p) \/ DisableHook(p) \/ Alert(p) \/ TestRead(p) \/ TestWrite(p)
  PROVE  WebhookInv'
<1> USE DEF WebhookInv
<1>0. UNCHANGED <<row, replays, crashes, longSends>>
  BY DEF ResetFailures, CountFailure, CheckHook, DisableHook, Alert, TestRead, TestWrite, counters
<1>1. hook \in Hook /\ hook.failures \in Nat /\ \A q \in Procs : got[q] \in Nat BY DEF TypeOK, Hook
<1>2. /\ pc' \in [Procs -> AttemptPc \cup {"idle", "replay", "claim", "test", "test_write"}]
      /\ cur' \in [Procs -> Deliveries \cup {None}] /\ got' \in [Procs -> Nat]
      /\ \A q \in Procs : q # p => pc'[q] = pc[q] /\ cur'[q] = cur[q] /\ got'[q] = got[q]
      /\ pc[p] \in {"reset", "count", "check", "disable", "alert", "idle", "test"}
      /\ pc'[p] \in {"idle", "check", "disable", "alert", "test"}
      /\ tests' \in 0 .. MaxTests
  <2>1. CASE ResetFailures(p) BY <2>1 DEF ResetFailures, Finish, TypeOK, counters
  <2>2. CASE CountFailure(p) BY <2>2 DEF CountFailure, Step, Finish, TypeOK, counters, AttemptPc
  <2>3. CASE CheckHook(p) BY <2>3 DEF CheckHook, Step, Finish, TypeOK, counters, AttemptPc
  <2>4. CASE DisableHook(p) BY <2>4 DEF DisableHook, Step, Finish, TypeOK, counters, AttemptPc
  <2>5. CASE Alert(p) BY <2>5 DEF Alert, Finish, TypeOK, counters
  <2>6. CASE TestRead(p) BY <1>1, <2>6, Constants DEF TestRead, TypeOK, counters, AttemptPc
  <2>7. CASE TestWrite(p) BY <2>7 DEF TestWrite, Finish, TypeOK, counters
  <2> QED BY <2>1, <2>2, <2>3, <2>4, <2>5, <2>6, <2>7
<1>3. /\ hook' \in Hook /\ alerts' \in Nat /\ (hook'.active => hook.active)
      /\ \/ /\ alerts' = alerts /\ pc'[p] # "alert"
         \/ /\ alerts' = alerts /\ hook.active /\ ~hook'.active /\ pc'[p] = "alert"
         \/ /\ pc[p] = "alert" /\ alerts' = alerts + 1 /\ pc'[p] # "alert" /\ hook' = hook
  <2>1. CASE ResetFailures(p) BY <1>1, <2>1 DEF ResetFailures, Finish, TypeOK, Hook
  <2>2. CASE CountFailure(p) BY <1>1, <2>2 DEF CountFailure, Step, Finish, TypeOK, Hook
  <2>3. CASE CheckHook(p) BY <1>1, <2>3 DEF CheckHook, Step, Finish, TypeOK, Hook
  <2>4. CASE DisableHook(p) BY <1>1, <2>4 DEF DisableHook, Step, Finish, TypeOK, Hook
  <2>5. CASE Alert(p) BY <1>1, <2>5 DEF Alert, Finish, TypeOK
  <2>6. CASE TestRead(p) BY <1>1, <2>6 DEF TestRead, TypeOK
  <2>7. CASE TestWrite(p)
    <3>1. alerts' = alerts /\ alerts \in Nat /\ pc'[p] # "alert" /\ got[p] + 1 \in Nat
      BY <1>1, <2>7 DEF TestWrite, Finish, TypeOK
    <3>2. \/ hook' = hook \/ hook' = [hook EXCEPT !.failures = 0]
          \/ hook' = [hook EXCEPT !.failures = got[p] + 1, !.active = hook.active /\ got[p] + 1 < Threshold]
      BY <1>1, <2>7 DEF TestWrite, Hook
    <3>3. PICK n \in Nat, on \in BOOLEAN : /\ on => hook.active
                                           /\ hook' = [exists |-> hook.exists, active |-> on, failures |-> n]
      <4>1. hook = [exists |-> hook.exists, active |-> hook.active, failures |-> hook.failures]
            /\ hook.exists \in BOOLEAN /\ hook.active \in BOOLEAN
        BY <1>1 DEF Hook
      <4>2. CASE hook' = hook BY <1>1, <4>1, <4>2
      <4>3. CASE hook' = [hook EXCEPT !.failures = 0] BY <1>1, <4>1, <4>3 DEF Hook
      <4>4. CASE hook' = [hook EXCEPT !.failures = got[p] + 1, !.active = hook.active /\ got[p] + 1 < Threshold]
        <5> DEFINE on == hook.active /\ got[p] + 1 < Threshold
        <5>1. on \in BOOLEAN /\ (on => hook.active) BY <4>1
        <5>2. hook' = [exists |-> hook.exists, active |-> on, failures |-> got[p] + 1] BY <1>1, <4>4 DEF Hook
        <5> HIDE DEF on
        <5> QED BY <3>1, <5>1, <5>2
      <4> QED BY <3>2, <4>2, <4>3, <4>4
    <3>4. hook' \in Hook /\ (hook'.active => hook.active) BY <1>1, <3>3 DEF Hook
    <3> QED BY <3>1, <3>4
  <2> QED BY <2>1, <2>2, <2>3, <2>4, <2>5, <2>6, <2>7
<1>4. TypeOK' BY <1>0, <1>2, <1>3 DEF TypeOK
<1>5. AlertInv'
  <2>1. alerts \in Nat BY DEF TypeOK
  <2> QED BY <1>2, <1>3, <2>1 DEF AlertInv
<1>6. pc[p] \notin ActivePc /\ pc'[p] \notin ActivePc \cup {"claim"} BY <1>2 DEF ActivePc, ClaimPc
<1>7. CurKnown' /\ \A e \in Deliveries : DeliveryInv(e)' BY <1>0, <1>2, <1>4, <1>6, PassiveStep
<1> QED BY <1>4, <1>5, <1>7

LEMMA ReadSendWebhook == ASSUME WebhookInv, NEW p \in Procs, ReadDelivery(p) \/ Send(p) PROVE WebhookInv'
<1>0. PICK d \in Deliveries : cur[p] = d /\ pc[p] \in {"read", "send"}
  BY DEF ReadDelivery, Send, Step, WebhookInv, CurKnown, ActivePc, ClaimPc
<1>1. UNCHANGED <<row, hook, cur, alerts, replays, tests, crashes, longSends>> BY DEF ReadDelivery, Send, counters
<1>2. /\ \A q \in Procs : q # p => pc'[q] = pc[q] /\ got'[q] = got[q]
      /\ \/ pc[p] = "read" /\ pc'[p] = "send" /\ got'[p] = row[d].attempts
         \/ pc[p] = "send" /\ pc'[p] \in {"ok", "fail"} /\ got'[p] = got[p]
  BY <1>0 DEF ReadDelivery, Send, Step, WebhookInv, TypeOK
<1>3. TypeOK'
  <2>1. \A e \in Deliveries : row[e].attempts \in Nat BY Numbers DEF WebhookInv
  <2> QED BY <1>0, <1>1, <2>1 DEF ReadDelivery, Send, Step, WebhookInv, TypeOK, AttemptPc
<1>4. CurKnown' BY <1>0, <1>1, <1>2 DEF WebhookInv, CurKnown
<1>5. AlertInv' BY <1>1, <1>2 DEF WebhookInv, AlertInv
<1>6. ASSUME NEW e \in Deliveries PROVE DeliveryInv(e)'
  <2>1. InFlight(e)' = InFlight(e) /\ Keen(e)' \subseteq Keen(e) /\ Replaying(e)' = Replaying(e)
    BY <1>0, <1>1, <1>2 DEF InFlight, Keen, Replaying, ClaimPc
  <2>2. crashes \in Nat /\ longSends \in Nat /\ crashes >= crashes /\ longSends >= longSends
    BY Numbers DEF WebhookInv
  <2> QED BY <1>1, <2>1, <2>2, Untouched
<1> QED BY <1>3, <1>4, <1>5, <1>6 DEF WebhookInv

\* The row of delivery d gets its outcome.
LEMMA WriteWebhook == ASSUME WebhookInv, NEW p \in Procs, WriteDelivered(p) \/ WriteFailed(p) PROVE WebhookInv'
<1>0. PICK d \in Deliveries : cur[p] = d /\ pc[p] \in {"ok", "fail"}
  BY DEF WriteDelivered, WriteFailed, Step, WebhookInv, CurKnown, ActivePc, ClaimPc
<1>1. /\ UNCHANGED <<hook, cur, got, alerts, replays, tests, crashes, longSends>>
      /\ row[d] \in Row /\ row \in [Deliveries -> Row] /\ got[p] \in Nat
  BY DEF WriteDelivered, WriteFailed, counters, WebhookInv, TypeOK
<1>2. /\ \A q \in Procs : q # p => pc'[q] = pc[q]
      /\ pc'[p] \in {"reset", "count"}
      /\ pc' \in [Procs -> AttemptPc \cup {"idle", "replay", "claim", "test", "test_write"}]
  BY <1>0 DEF WriteDelivered, WriteFailed, Step, WebhookInv, TypeOK, AttemptPc
<1>3. PICK r \in Row : /\ row' = [row EXCEPT ![d] = r] /\ r.attempts = row[d].attempts
                       /\ r.status \in {"delivered", "dead_letter", "retrying"}
                       /\ r.status = "retrying" => pc[p] = "fail" /\ got[p] < MaxAttempts
  <2>1. CASE WriteDelivered(p)
    <3> DEFINE r == [row[d] EXCEPT !.status = "delivered", !.stale = FALSE]
    <3>1. r \in Row /\ r.attempts = row[d].attempts /\ r.status = "delivered" BY <1>1 DEF Row
    <3>2. row' = [row EXCEPT ![d] = r] BY <1>0, <2>1 DEF WriteDelivered
    <3> HIDE DEF r
    <3> QED BY <3>1, <3>2
  <2>2. CASE WriteFailed(p)
    <3> DEFINE s == IF DeadAfter(got[p]) THEN "dead_letter" ELSE "retrying"
               r == [row[d] EXCEPT !.status = s, !.due = FALSE, !.stale = FALSE]
    <3>1. s \in {"dead_letter", "retrying"} /\ (s = "retrying" => got[p] < MaxAttempts)
      BY <1>1, Constants DEF DeadAfter
    <3>2. row' = [row EXCEPT ![d] = r] /\ pc[p] = "fail" BY <1>0, <2>2 DEF WriteFailed, Step
    <3> HIDE DEF s
    <3>3. r \in Row /\ r.attempts = row[d].attempts /\ r.status = s BY <1>1, <3>1 DEF Row
    <3> HIDE DEF r
    <3> QED BY <3>1, <3>2, <3>3
  <2> QED BY <2>1, <2>2
<1>4. TypeOK'
  <2>1. row' \in [Deliveries -> Row] BY <1>1, <1>3
  <2> QED BY <1>1, <1>2, <2>1 DEF WebhookInv, TypeOK
<1>5. CurKnown' BY <1>0, <1>1, <1>2 DEF WebhookInv, CurKnown, ActivePc, ClaimPc
<1>6. AlertInv' BY <1>1, <1>2 DEF WebhookInv, AlertInv
<1>7. \A e \in Deliveries : DeliveryInv(e)'
  <2>1. p \in InFlight(d) /\ pc'[p] \notin ActivePc BY <1>0, <1>2 DEF InFlight, ClaimPc, ActivePc
  <2>2. row'[d] = r /\ \A e \in Deliveries : e # d => row'[e] = row[e] BY <1>1, <1>3
  <2>3. row'[d].status = "retrying" => p \in Keen(d) BY <1>0, <1>3, <2>2 DEF Keen
  <2> QED BY <1>1, <1>2, <1>3, <2>1, <2>2, <2>3, WrittenDelivery
<1> QED BY <1>4, <1>5, <1>6, <1>7 DEF WebhookInv

LEMMA ReplayWebhook ==
  ASSUME WebhookInv, NEW p \in Procs, ReplayWrite(p) \/ \E d \in Deliveries : ReplayRead(p, d)
  PROVE  WebhookInv'
<1>1. CASE ReplayWrite(p)
  <2>0. pc[p] = "replay" /\ cur[p] \in Deliveries BY <1>1 DEF ReplayWrite, Step, WebhookInv, CurKnown, ActivePc
  <2>1. TypeOK' BY <1>1, <2>0 DEF ReplayWrite, Step, WebhookInv, TypeOK, Row, counters
  <2>2. CurKnown' BY <1>1, <2>0 DEF ReplayWrite, Step, WebhookInv, TypeOK, CurKnown
  <2>3. AlertInv' BY <1>1 DEF ReplayWrite, Step, WebhookInv, TypeOK, AlertInv
  <2> QED BY <1>1, <2>1, <2>2, <2>3, ReplayWriteDelivery DEF WebhookInv
<1>2. ASSUME NEW d \in Deliveries, ReplayRead(p, d) PROVE WebhookInv'
  <2>1. TypeOK' BY <1>2, Constants DEF ReplayRead, WebhookInv, TypeOK
  <2>2. CurKnown' BY <1>2 DEF ReplayRead, WebhookInv, TypeOK, CurKnown
  <2>3. AlertInv' BY <1>2 DEF ReplayRead, WebhookInv, TypeOK, AlertInv
  <2> QED BY <1>2, <2>1, <2>2, <2>3, ReplayReadDelivery DEF WebhookInv
<1> QED BY <1>1, <1>2

LEMMA CrashWebhook == ASSUME WebhookInv, NEW p \in Procs, Crash(p) PROVE WebhookInv'
<1>0. /\ crashes' = crashes + 1 /\ Finish(p) /\ UNCHANGED <<row, hook, alerts, replays, tests, longSends>>
      /\ \A q \in Procs : q # p => pc'[q] = pc[q] /\ cur'[q] = cur[q] /\ got'[q] = got[q]
      /\ pc'[p] = "idle"
  BY DEF Crash, Finish, WebhookInv, TypeOK
<1>1. TypeOK' BY <1>0, Constants DEF Crash, Finish, WebhookInv, TypeOK
<1>2. CurKnown' BY <1>0 DEF WebhookInv, CurKnown, ActivePc, ClaimPc
<1>3. AlertInv' BY <1>0 DEF WebhookInv, AlertInv
<1>4. ASSUME NEW e \in Deliveries PROVE DeliveryInv(e)'
  <2>1. InFlight(e)' \subseteq InFlight(e) /\ Keen(e)' \subseteq Keen(e) /\ Replaying(e)' \subseteq Replaying(e)
    BY <1>0 DEF InFlight, Keen, Replaying, ClaimPc
  <2> QED BY <1>0, <2>1, CrashedDelivery
<1> QED BY <1>1, <1>2, <1>3, <1>4 DEF WebhookInv

\* Time passes for one delivery, or the retry job recovers stale claims.
LEMMA TimeWebhook ==
  ASSUME WebhookInv, RecoverStale \/ \E d \in Deliveries : ClaimAges(d) \/ LongSend(d) \/ BackoffElapses(d)
  PROVE  WebhookInv'
<1>0. UNCHANGED <<hook, pc, cur, got, alerts, replays, tests, crashes>> /\ longSends \in Nat
  BY Constants DEF RecoverStale, ClaimAges, LongSend, BackoffElapses, Ages, procs, counters, WebhookInv, TypeOK
<1>1. CurKnown' /\ AlertInv' BY <1>0 DEF WebhookInv, CurKnown, AlertInv
<1>2. CASE RecoverStale
  <2>0. longSends' = longSends BY <1>2 DEF RecoverStale, counters
  <2>1. \A d \in Deliveries : row[d] \in Row BY DEF WebhookInv, TypeOK
  <2>2. /\ row' = [d \in Deliveries |-> row'[d]]
        /\ \A d \in Deliveries : row'[d] = IF row[d].status = "delivering" /\ row[d].stale THEN Recovered(d) ELSE row[d]
    BY <1>2 DEF RecoverStale
  <2>3. \A d \in Deliveries : /\ Recovered(d) \in Row /\ Recovered(d).attempts = row[d].attempts
                              /\ Recovered(d).status = "retrying"
    BY <2>1 DEF Recovered, Row
  <2>4. TypeOK'
    <3>1. \A d \in Deliveries : row'[d] \in Row BY <2>1, <2>2, <2>3
    <3>2. row' \in [Deliveries -> Row] BY <2>2, <3>1
    <3> QED BY <1>0, <2>0, <3>2 DEF WebhookInv, TypeOK
  <2>5. ASSUME NEW d \in Deliveries PROVE DeliveryInv(d)'
    <3>1. CASE row[d].status = "delivering" /\ row[d].stale
      <4>1. row'[d] = Recovered(d) BY <2>2, <3>1
      <4>2. row'[d].status = "retrying" /\ row'[d].attempts = row[d].attempts BY <2>3, <4>1
      <4> QED BY <1>0, <2>0, <3>1, <4>2, AgedDelivery
    <3>2. CASE ~(row[d].status = "delivering" /\ row[d].stale)
      <4>1. row'[d] = row[d] BY <2>2, <3>2
      <4> QED BY <1>0, <2>0, <4>1, AgedDelivery
    <3> QED BY <3>1, <3>2
  <2> QED BY <1>1, <2>4, <2>5 DEF WebhookInv
<1>3. ASSUME NEW d \in Deliveries, ClaimAges(d) \/ LongSend(d) \/ BackoffElapses(d) PROVE WebhookInv'
  <2>0. row \in [Deliveries -> Row] /\ row[d] \in Row BY DEF WebhookInv, TypeOK
  <2>1. row' = [row EXCEPT ![d].stale = TRUE] \/ row' = [row EXCEPT ![d].due = TRUE]
    BY <1>3 DEF ClaimAges, LongSend, Ages, BackoffElapses
  <2>2. /\ row' \in [Deliveries -> Row] /\ row'[d].attempts = row[d].attempts /\ row'[d].status = row[d].status
        /\ \A e \in Deliveries : e # d => row'[e] = row[e]
    <3>1. CASE row' = [row EXCEPT ![d].stale = TRUE] BY <2>0, <3>1 DEF Row
    <3>2. CASE row' = [row EXCEPT ![d].due = TRUE] BY <2>0, <3>2 DEF Row
    <3> QED BY <2>1, <3>1, <3>2
  <2>3. longSends' \in 0 .. MaxLongSends /\ longSends' \in Nat /\ longSends' >= longSends
    BY <1>0, <1>3, Constants DEF ClaimAges, LongSend, BackoffElapses, counters, WebhookInv, TypeOK
  <2>4. TypeOK' BY <1>0, <2>2, <2>3 DEF WebhookInv, TypeOK
  <2>5. row'[d].stale = row[d].stale \/ InFlight(d) = {} \/ longSends' = longSends + 1
    <3>1. CASE ClaimAges(d) \/ LongSend(d) BY <3>1 DEF ClaimAges, LongSend
    <3>2. CASE BackoffElapses(d)
      <4>1. row' = [row EXCEPT ![d].due = TRUE] BY <3>2 DEF BackoffElapses
      <4> QED BY <2>0, <4>1 DEF Row
    <3> QED BY <1>3, <3>1, <3>2
  <2>6. DeliveryInv(d)' BY <1>0, <2>2, <2>3, <2>5, AgedDelivery
  <2>7. ASSUME NEW e \in Deliveries, e # d PROVE DeliveryInv(e)'
    <3>1. row'[e] = row[e] BY <2>2, <2>7
    <3> QED BY <1>0, <2>3, <3>1, AgedDelivery
  <2> QED BY <1>1, <2>4, <2>6, <2>7 DEF WebhookInv
<1> QED BY <1>2, <1>3

LEMMA DeleteWebhook == ASSUME WebhookInv, DeleteHook PROVE WebhookInv'
<1>0. hook' \in Hook /\ ~hook'.active /\ UNCHANGED <<row, pc, cur, got, alerts, replays, tests, crashes, longSends>>
  BY DEF DeleteHook, Hook, procs, counters
<1>1. TypeOK' /\ CurKnown' /\ AlertInv' BY <1>0 DEF WebhookInv, TypeOK, CurKnown, AlertInv
<1>2. ASSUME NEW d \in Deliveries PROVE DeliveryInv(d)'
  <2>1. longSends \in Nat /\ longSends >= longSends BY Numbers DEF WebhookInv
  <2> QED BY <1>0, <2>1, AgedDelivery
<1> QED BY <1>1, <1>2 DEF WebhookInv

-----------------------------------------------------------------------------

LEMMA WebhookNextInv == WebhookInv /\ [Next]_vars => WebhookInv'
<1> SUFFICES ASSUME WebhookInv, [Next]_vars PROVE WebhookInv' OBVIOUS
<1>1. CASE Next
  <2>1. ASSUME NEW p \in Procs, \/ \E d \in Deliveries : Claim(p, d) \/ ReplayRead(p, d)
                                \/ Attempt(p) \/ Replay(p) \/ TestRead(p) \/ TestWrite(p) \/ Crash(p)
        PROVE  WebhookInv'
    <3>1. CASE Attempt(p) BY <3>1, ReadSendWebhook, WriteWebhook, HookSteps DEF Attempt
    <3>2. CASE Replay(p) BY <3>2, ReplayWebhook, ReplayClaimWebhook DEF Replay
    <3>3. CASE TestRead(p) \/ TestWrite(p) BY <3>3, HookSteps
    <3> QED BY <2>1, <3>1, <3>2, <3>3, ClaimWebhook, ReplayWebhook, CrashWebhook
  <2> QED BY <1>1, <2>1, TimeWebhook, DeleteWebhook DEF Next
<1>2. CASE UNCHANGED vars
  <2>0. UNCHANGED <<row, hook, pc, cur, got, alerts, replays, tests, crashes, longSends>>
    BY <1>2 DEF vars, procs, counters
  <2>1. TypeOK' /\ CurKnown' /\ AlertInv' BY <2>0 DEF WebhookInv, TypeOK, CurKnown, AlertInv
  <2>2. ASSUME NEW d \in Deliveries PROVE DeliveryInv(d)'
    <3>1. longSends \in Nat /\ longSends >= longSends BY Numbers DEF WebhookInv
    <3> QED BY <2>0, <3>1, AgedDelivery
  <2> QED BY <2>1, <2>2 DEF WebhookInv
<1> QED BY <1>1, <1>2

\* The claim of attemptQueuedDelivery admits one sender per delivery, its limit
\* of attempts is exceeded at most once per crash or overlong request, and the
\* endpoint is reported as disabled at most once, for any number of deliveries
\* and of concurrent attempts, replays and test requests.
THEOREM WebhookHolds == Spec => []WebhookSafe
<1>1. Spec => []WebhookInv BY WebhookInvInit, WebhookNextInv, PTL DEF Spec
<1> QED BY <1>1, WebhookInvImplies, PTL

-----------------------------------------------------------------------------
(* Notifications *)

NotificationSpec == NotificationInit /\ [][NotificationNext]_notificationVars

\* Batch b has row d in hand: its claim was made and its answer is awaited.
Holds(b, d) == batch[b].step \in {"send", "mail"} /\ d \in batch[b].now
\* A claimed row whose batch has died.
Orphan(d) == Status(d) = "sending" /\ \A b \in Batches : ~Holds(b, d)

BatchShape(b) ==
  /\ batch[b].step \in {"idle", "read", "take", "digest"} => batch[b].now = {}
  /\ batch[b].step = "send" => \A x, y \in batch[b].now : x = y
  /\ batch[b].step \in {"digest", "claim", "mail"} => batch[b].prefs.digest /\ batch[b].digested
  /\ batch[b].step \in {"claim", "mail"} => batch[b].now \subseteq EmailItems
BatchesShaped == \A b \in Batches : BatchShape(b)

\* Recovery finds rows that no batch has in hand.
StaleIsFree == \A d \in Items : delivery[d].stale => Status(d) = "sending" /\ \A b \in Batches : d \notin batch[b].now

\* Every recovery, and every row that waits for one, is owed to a death.
OrphansOfDeaths ==
  /\ \A d \in Items : sent.again[d] <= sent.deaths /\ (Orphan(d) => sent.again[d] + 1 <= sent.deaths)
  /\ sent.overlaps + sent.deaths <= MaxLost

\* Batches under way, beyond one, are overlaps.
Alive == {b \in Batches : batch[b].step # "idle"}
AliveAreOverlaps == Cardinality(Alive) <= sent.overlaps + 1

\* A row that may be claimed has an attempt left.
AttemptsLeft ==
  \A d \in Items :
    /\ delivery[d].attempts <= MaxSends + sent.again[d] + sent.overlaps
    /\ Status(d) = "queued" => delivery[d].attempts + 1 <= MaxSends + sent.again[d] + sent.overlaps

\* Row d goes into the digest of batch c.
Digests(c, d) == batch[c].prefs.digest /\ d \in EmailItems
\* Batch c may yet claim row d, which it does once.
MayClaim(c, d) ==
  \/ batch[c].step = "read"
  \/ batch[c].step \notin {"idle", "read"} /\ ~Digests(c, d) /\ d \in batch[c].todo
  \/ batch[c].step \notin {"idle", "read"} /\ Digests(c, d) /\ (~batch[c].digested \/ batch[c].step \in {"digest", "claim"})
Claimants(b, d) == {c \in Batches \ {b} : MayClaim(c, d)}
\* The attempts that batch b has not seen were made by batches that overlap it.
Lags(b, d, own) ==
  delivery[d].attempts + Cardinality(Claimants(b, d)) <= batch[b].saw[d] + own + sent.overlaps
Takes(b, d) == batch[b].step \notin {"idle", "read"} /\ d \in batch[b].todo /\ ~Digests(b, d)
LagOf(b) ==
  \A d \in Items :
    /\ Takes(b, d) => Lags(b, d, 0)
    /\ batch[b].step = "claim" /\ d \in batch[b].now => Lags(b, d, 0)
    /\ Holds(b, d) => Lags(b, d, 1)
LagsBounded == \A b \in Batches : LagOf(b)

\* A row that no digest has crossed is in the hands of one batch.
HeldAlone ==
  \A d \in Items \ sent.crossed :
    /\ \A b, c \in Batches : Holds(b, d) /\ Holds(c, d) => b = c
    /\ (\E b \in Batches : Holds(b, d)) => Status(d) = "sending"
\* Copies that recoveries and failed updates account for.
Owed(d) == sent.again[d] + sent.unmarked[d]
\* What went out was recorded, could not be, or will be recovered.
CopiesCounted ==
  \A d \in Items \ sent.crossed :
    /\ sent.copies[d] <= Owed(d) + 1
    /\ Status(d) # "sent" /\ ~Orphan(d) => sent.copies[d] <= Owed(d)

NotificationInv ==
  /\ NotificationTypeOK /\ BatchesShaped /\ StaleIsFree /\ OrphansOfDeaths /\ AliveAreOverlaps /\ AttemptsLeft
  /\ LagsBounded /\ HeldAlone /\ CopiesCounted

BatchSteps == {"idle", "read", "take", "send", "digest", "claim", "mail"}
TriesRange == 0 .. MaxSends + MaxLost + 1

LEMMA NotificationNumbers ==
  /\ MaxSends \in Nat /\ MaxSends # 0 /\ MaxPrefs \in Nat /\ MaxLost \in Nat /\ TriesRange \subseteq Nat /\ 0 \in TriesRange
  /\ IsFiniteSet(Batches) /\ EmailItems \subseteq Items
  BY NotificationsAssumption DEF TriesRange

LEMMA NoBatchType ==
  /\ AllWanted \in Prefs
  /\ NoBatch \in Batch /\ NoBatch.step = "idle" /\ NoBatch.now = {} /\ NoBatch.todo = {}
<1>1. AllWanted \in Prefs BY DEF AllWanted, Prefs
<1>2. [d \in Items |-> 0] \in [Items -> 0 .. MaxSends + MaxLost + 1] BY NotificationNumbers DEF TriesRange
<1> QED BY <1>1, <1>2 DEF NoBatch, Batch

LEMMA RowFields ==
  ASSUME NotificationTypeOK, NEW d \in Items
  PROVE  /\ delivery[d] \in Delivery /\ delivery[d].status \in {"none", "queued", "sending", "sent", "failed", "suppressed"}
         /\ delivery[d].due \in BOOLEAN /\ delivery[d].stale \in BOOLEAN /\ delivery[d].attempts \in TriesRange
         /\ delivery[d].attempts \in Nat /\ Status(d) = delivery[d].status
<1>1. delivery[d] \in Delivery BY DEF NotificationTypeOK
<1>2. delivery[d].attempts \in TriesRange BY <1>1 DEF Delivery, TriesRange
<1> QED BY <1>1, <1>2, NotificationNumbers DEF Delivery, Status

LEMMA BatchFields ==
  ASSUME NotificationTypeOK, NEW b \in Batches
  PROVE  /\ batch[b] \in Batch /\ batch[b].step \in BatchSteps /\ batch[b].todo \subseteq Items
         /\ batch[b].saw \in [Items -> TriesRange] /\ batch[b].now \subseteq Items /\ batch[b].digested \in BOOLEAN
         /\ batch[b].prefs \in Prefs /\ batch[b].prefs.digest \in BOOLEAN /\ batch[b].clock \subseteq Items /\ batch[b].late \in BOOLEAN
         /\ \A d \in Items : batch[b].saw[d] \in Nat
<1>1. batch[b] \in Batch BY DEF NotificationTypeOK
<1>2. batch[b].saw \in [Items -> TriesRange] /\ batch[b].prefs \in Prefs BY <1>1 DEF Batch, TriesRange
<1> QED BY <1>1, <1>2, NotificationNumbers DEF Batch, BatchSteps, Prefs

LEMMA SentFields ==
  ASSUME NotificationTypeOK
  PROVE  /\ sent.copies \in [Items -> Nat] /\ sent.again \in [Items -> Nat] /\ sent.unmarked \in [Items -> Nat]
         /\ sent.crossed \subseteq Items
         /\ sent.prefs \in 0 .. MaxPrefs /\ sent.overlaps \in 0 .. MaxLost /\ sent.deaths \in 0 .. MaxLost
         /\ sent.overlaps \in Nat /\ sent.deaths \in Nat /\ sent.prefs \in Nat
         /\ \A d \in Items : sent.copies[d] \in Nat /\ sent.again[d] \in Nat /\ sent.unmarked[d] \in Nat /\ Owed(d) \in Nat
<1>1. sent.overlaps \in 0 .. MaxLost /\ sent.deaths \in 0 .. MaxLost /\ sent.prefs \in 0 .. MaxPrefs BY DEF NotificationTypeOK
<1>2. /\ sent.copies \in [Items -> Nat] /\ sent.again \in [Items -> Nat] /\ sent.unmarked \in [Items -> Nat]
      /\ sent.crossed \subseteq Items
  BY DEF NotificationTypeOK
<1>3. \A d \in Items : sent.copies[d] \in Nat /\ sent.again[d] \in Nat /\ sent.unmarked[d] \in Nat BY <1>2
<1>4. \A d \in Items : Owed(d) \in Nat BY <1>3 DEF Owed
<1> QED BY <1>1, <1>2, <1>3, <1>4, NotificationNumbers

LEMMA AfterFields ==
  ASSUME NotificationTypeOK'
  PROVE  /\ \A d \in Items : delivery'[d].attempts \in Nat
         /\ sent'.overlaps \in Nat /\ sent'.deaths \in Nat /\ \A d \in Items : sent'.copies[d] \in Nat /\ sent'.again[d] \in Nat
<1>1. ASSUME NEW d \in Items PROVE delivery'[d].attempts \in Nat
  <2>1. delivery'[d] \in Delivery BY DEF NotificationTypeOK
  <2>2. delivery'[d].attempts \in 0 .. MaxSends + MaxLost + 1 BY <2>1 DEF Delivery
  <2> QED BY <2>2, NotificationNumbers
<1>2. sent'.overlaps \in 0 .. MaxLost /\ sent'.deaths \in 0 .. MaxLost BY DEF NotificationTypeOK
<1>3. sent'.copies \in [Items -> Nat] /\ sent'.again \in [Items -> Nat] BY DEF NotificationTypeOK
<1> QED BY <1>1, <1>2, <1>3, NotificationNumbers

\* Everything about batch c but the clock is as before.
SameBatch(c) ==
  /\ batch'[c].step = batch[c].step /\ batch'[c].todo = batch[c].todo /\ batch'[c].saw = batch[c].saw
  /\ batch'[c].now = batch[c].now /\ batch'[c].digested = batch[c].digested /\ batch'[c].prefs = batch[c].prefs

LEMMA SameClaims ==
  ASSUME NEW c \in Batches, SameBatch(c), NEW d \in Items
  PROVE  /\ MayClaim(c, d)' <=> MayClaim(c, d)
         /\ Holds(c, d)' <=> Holds(c, d)
         /\ Takes(c, d)' <=> Takes(c, d)
  BY DEF SameBatch, MayClaim, Digests, Holds, Takes

LEMMA SameShape ==
  ASSUME NEW c \in Batches, SameBatch(c), BatchShape(c)
  PROVE  BatchShape(c)'
  BY DEF SameBatch, BatchShape

LEMMA ClaimantsFinite ==
  ASSUME NEW b \in Batches, NEW d \in Items
  PROVE  /\ IsFiniteSet(Claimants(b, d)) /\ Cardinality(Claimants(b, d)) \in Nat
         /\ IsFiniteSet(Claimants(b, d)') /\ Cardinality(Claimants(b, d)') \in Nat
<1>1. Claimants(b, d) \subseteq Batches /\ Claimants(b, d)' \subseteq Batches BY DEF Claimants
<1>2. IsFiniteSet(Claimants(b, d)) /\ IsFiniteSet(Claimants(b, d)') BY <1>1, NotificationNumbers, FS_Subset
<1> QED BY <1>2, FS_CardinalityType

\* Nobody new may claim row d: b lags no more than before.
LEMMA ClaimantsShrink ==
  ASSUME NEW b \in Batches, NEW d \in Items,
         \A c \in Batches \ {b} : MayClaim(c, d)' => MayClaim(c, d)
  PROVE  Cardinality(Claimants(b, d)') <= Cardinality(Claimants(b, d))
<1>1. Claimants(b, d)' \subseteq Claimants(b, d) BY DEF Claimants
<1> QED BY <1>1, ClaimantsFinite, FS_Subset

\* Somebody has used the claim.
LEMMA ClaimantGone ==
  ASSUME NEW b \in Batches, NEW d \in Items, NEW a \in Batches \ {b}, MayClaim(a, d), ~MayClaim(a, d)',
         \A c \in Batches \ {b} : MayClaim(c, d)' => MayClaim(c, d)
  PROVE  Cardinality(Claimants(b, d)') + 1 <= Cardinality(Claimants(b, d))
<1>1. Claimants(b, d)' \subseteq Claimants(b, d) \ {a} /\ a \in Claimants(b, d) BY DEF Claimants
<1>2. IsFiniteSet(Claimants(b, d)) /\ Cardinality(Claimants(b, d)) \in Nat /\ Cardinality(Claimants(b, d)') \in Nat BY ClaimantsFinite
<1>3. Cardinality(Claimants(b, d) \ {a}) = Cardinality(Claimants(b, d)) - 1 BY <1>1, <1>2, FS_RemoveElement
<1>4. IsFiniteSet(Claimants(b, d) \ {a}) BY <1>2, FS_Subset
<1>5. Cardinality(Claimants(b, d)') <= Cardinality(Claimants(b, d) \ {a}) BY <1>1, <1>4, FS_Subset
<1> QED BY <1>2, <1>3, <1>5

\* Those that may claim are under way, and b is another one.
LEMMA ClaimantsOverlap ==
  ASSUME NotificationTypeOK', AliveAreOverlaps', NEW b \in Batches, NEW d \in Items, batch'[b].step # "idle"
  PROVE  Cardinality(Claimants(b, d)') <= sent'.overlaps
<1>1. Claimants(b, d)' \subseteq Alive' \ {b} /\ b \in Alive' /\ Alive' \subseteq Batches
  BY DEF Claimants, Alive, MayClaim
<1>2. IsFiniteSet(Alive') BY <1>1, NotificationNumbers, FS_Subset
<1>3. Cardinality(Alive' \ {b}) = Cardinality(Alive') - 1 /\ Cardinality(Alive') \in Nat BY <1>1, <1>2, FS_RemoveElement, FS_CardinalityType
<1>4. IsFiniteSet(Alive' \ {b}) BY <1>2, FS_Subset
<1>5. Cardinality(Claimants(b, d)') <= Cardinality(Alive' \ {b}) BY <1>1, <1>4, FS_Subset
<1>6. Cardinality(Claimants(b, d)') \in Nat BY ClaimantsFinite
<1>7. sent'.overlaps \in Nat BY AfterFields
<1> QED BY <1>3, <1>5, <1>6, <1>7 DEF AliveAreOverlaps

LEMMA AliveShrinks ==
  ASSUME AliveAreOverlaps, NotificationTypeOK, sent'.overlaps = sent.overlaps, \A c \in Batches : batch'[c].step # "idle" => batch[c].step # "idle"
  PROVE  AliveAreOverlaps'
<1>1. Alive' \subseteq Alive /\ Alive \subseteq Batches BY DEF Alive
<1>2. IsFiniteSet(Alive) BY <1>1, NotificationNumbers, FS_Subset
<1>3. IsFiniteSet(Alive') /\ Cardinality(Alive') <= Cardinality(Alive) BY <1>1, <1>2, FS_Subset
<1>4. Cardinality(Alive) \in Nat /\ Cardinality(Alive') \in Nat BY <1>2, <1>3, FS_CardinalityType
<1>5. sent.overlaps \in Nat BY SentFields
<1> QED BY <1>3, <1>4, <1>5 DEF AliveAreOverlaps

\* A row that other batches wait for: its count and theirs.
LEMMA LagKept ==
  ASSUME NotificationTypeOK, NotificationTypeOK', sent'.overlaps = sent.overlaps, NEW b \in Batches, NEW d \in Items, NEW own \in {0, 1},
         batch'[b].saw[d] = batch[b].saw[d], Lags(b, d, own),
         delivery'[d].attempts + Cardinality(Claimants(b, d)') <= delivery[d].attempts + Cardinality(Claimants(b, d))
  PROVE  Lags(b, d, own)'
<1>1. delivery[d].attempts \in Nat /\ delivery'[d].attempts \in Nat BY RowFields, AfterFields
<1>2. batch[b].saw[d] \in Nat /\ sent.overlaps \in Nat BY BatchFields, SentFields
<1>3. Cardinality(Claimants(b, d)) \in Nat /\ Cardinality(Claimants(b, d)') \in Nat BY ClaimantsFinite
<1> QED BY <1>1, <1>2, <1>3 DEF Lags

\* The other batches, when a has claimed the rows S.
LEMMA LagOfOthers ==
  ASSUME NotificationInv, NotificationTypeOK', sent'.overlaps = sent.overlaps, NEW a \in Batches, NEW b \in Batches \ {a}, NEW S \in SUBSET Items,
         \A c \in Batches \ {a} : SameBatch(c),
         \A d \in Items : MayClaim(a, d)' => MayClaim(a, d),
         \A d \in S : MayClaim(a, d) /\ ~MayClaim(a, d)' /\ delivery'[d].attempts = delivery[d].attempts + 1,
         \A d \in Items \ S : delivery'[d].attempts = delivery[d].attempts
  PROVE  LagOf(b)'
<1>0. NotificationTypeOK BY DEF NotificationInv
<1> SUFFICES ASSUME NEW d \in Items
             PROVE  /\ Takes(b, d)' => Lags(b, d, 0)'
                    /\ batch'[b].step = "claim" /\ d \in batch'[b].now => Lags(b, d, 0)'
                    /\ Holds(b, d)' => Lags(b, d, 1)'
  BY DEF LagOf
<1>1. SameBatch(b) /\ batch'[b].saw = batch[b].saw BY DEF SameBatch
<1>2. \A c \in Batches \ {b} : MayClaim(c, d)' => MayClaim(c, d) BY SameClaims
<1>3. delivery'[d].attempts + Cardinality(Claimants(b, d)') <= delivery[d].attempts + Cardinality(Claimants(b, d))
  <2>1. Cardinality(Claimants(b, d)) \in Nat /\ Cardinality(Claimants(b, d)') \in Nat /\ delivery[d].attempts \in Nat
    BY <1>0, ClaimantsFinite, RowFields
  <2>2. CASE d \in S
    <3>1. Cardinality(Claimants(b, d)') + 1 <= Cardinality(Claimants(b, d)) BY <1>2, <2>2, ClaimantGone
    <3>2. delivery'[d].attempts = delivery[d].attempts + 1 BY <2>2
    <3> QED BY <2>1, <3>1, <3>2
  <2>3. CASE d \notin S
    <3>1. Cardinality(Claimants(b, d)') <= Cardinality(Claimants(b, d)) BY <1>2, ClaimantsShrink
    <3>2. delivery'[d].attempts = delivery[d].attempts BY <2>3
    <3> QED BY <2>1, <3>1, <3>2
  <2> QED BY <2>2, <2>3
<1>4. /\ Lags(b, d, 0) => Lags(b, d, 0)'
      /\ Lags(b, d, 1) => Lags(b, d, 1)'
  BY <1>0, <1>1, <1>3, LagKept
<1>5. /\ Takes(b, d)' => Takes(b, d)
      /\ Holds(b, d)' => Holds(b, d)
      /\ batch'[b].step = "claim" /\ d \in batch'[b].now => batch[b].step = "claim" /\ d \in batch[b].now
  BY <1>1, SameClaims DEF SameBatch
<1>6. /\ Takes(b, d) => Lags(b, d, 0)
      /\ batch[b].step = "claim" /\ d \in batch[b].now => Lags(b, d, 0)
      /\ Holds(b, d) => Lags(b, d, 1)
  BY DEF NotificationInv, LagsBounded, LagOf
<1> QED BY <1>4, <1>5, <1>6

\* A batch that has just read the count of row d.
LEMMA LagFresh ==
  ASSUME NotificationTypeOK', AliveAreOverlaps', NEW b \in Batches, NEW d \in Items, batch'[b].step # "idle",
         batch'[b].saw[d] = delivery'[d].attempts
  PROVE  Lags(b, d, 0)'
<1>1. Cardinality(Claimants(b, d)') <= sent'.overlaps BY ClaimantsOverlap
<1>2. delivery'[d].attempts \in Nat /\ sent'.overlaps \in Nat BY AfterFields
<1>3. Cardinality(Claimants(b, d)') \in Nat BY ClaimantsFinite
<1> QED BY <1>1, <1>2, <1>3 DEF Lags

\* A batch that looks at rows and neither claims nor sends.
QuietBatch(c) ==
  /\ batch[c].step \notin {"send", "mail"} /\ batch'[c].step \notin {"send", "mail"}
  /\ batch'[c].step # "idle" => batch[c].step # "idle"
  /\ BatchShape(c)'
  /\ \A d \in Items :
       /\ d \in batch'[c].now => d \in batch[c].now \/ ~delivery[d].stale
       /\ MayClaim(c, d)' => MayClaim(c, d)
       /\ Takes(c, d)' => Takes(c, d) /\ batch'[c].saw[d] = batch[c].saw[d]
       /\ batch'[c].step = "claim" /\ d \in batch'[c].now => batch'[c].saw[d] = delivery'[d].attempts
\* A row that is created, set aside or left alone.
QuietRow(d) ==
  /\ delivery'[d].attempts <= delivery[d].attempts
  /\ delivery'[d].stale => delivery[d].stale
  /\ \/ delivery'[d].status = delivery[d].status
     \/ delivery[d].status = "queued" /\ delivery'[d].status \in {"suppressed", "failed"}
     \/ delivery[d].status = "none" /\ delivery'[d].status = "queued" /\ delivery'[d].attempts = 0

LEMMA QuietDeliveries ==
  ASSUME NotificationInv, NotificationTypeOK', \A c \in Batches : SameBatch(c) \/ QuietBatch(c), \A d \in Items : QuietRow(d),
         sent'.copies = sent.copies, sent'.again = sent.again, sent'.overlaps = sent.overlaps, sent'.deaths = sent.deaths,
         sent'.unmarked = sent.unmarked, sent.crossed \subseteq sent'.crossed
  PROVE  NotificationInv'
<1>0. NotificationTypeOK BY DEF NotificationInv
<1>1. \A b \in Batches, d \in Items : Holds(b, d)' <=> Holds(b, d) BY SameClaims DEF QuietBatch, Holds
<1>2. BatchesShaped'
  <2>1. ASSUME NEW b \in Batches PROVE BatchShape(b)'
    <3>1. CASE SameBatch(b) BY <3>1, SameShape DEF NotificationInv, BatchesShaped
    <3>2. CASE QuietBatch(b) BY <3>2 DEF QuietBatch
    <3> QED BY <3>1, <3>2
  <2> QED BY <2>1 DEF BatchesShaped
<1>3. StaleIsFree'
  <2> SUFFICES ASSUME NEW d \in Items, delivery'[d].stale
               PROVE  delivery'[d].status = "sending" /\ \A b \in Batches : d \notin batch'[b].now
    BY DEF StaleIsFree, Status
  <2>1. delivery[d].stale BY DEF QuietRow
  <2>2. delivery[d].status = "sending" /\ \A b \in Batches : d \notin batch[b].now BY <2>1 DEF NotificationInv, StaleIsFree, Status
  <2> QED BY <2>1, <2>2 DEF QuietRow, SameBatch, QuietBatch
<1>4. \A d \in Items : Orphan(d)' <=> Orphan(d) BY <1>1 DEF Orphan, Status, QuietRow
<1>5. OrphansOfDeaths' BY <1>4 DEF NotificationInv, OrphansOfDeaths
<1>6. AliveAreOverlaps' BY <1>0, AliveShrinks DEF NotificationInv, SameBatch, QuietBatch
<1>7. AttemptsLeft'
  <2> SUFFICES ASSUME NEW d \in Items
               PROVE  /\ delivery'[d].attempts <= MaxSends + sent.again[d] + sent.overlaps
                      /\ delivery'[d].status = "queued" => delivery'[d].attempts + 1 <= MaxSends + sent.again[d] + sent.overlaps
    BY DEF AttemptsLeft, Status
  <2>1. /\ delivery[d].attempts <= MaxSends + sent.again[d] + sent.overlaps
        /\ delivery[d].status = "queued" => delivery[d].attempts + 1 <= MaxSends + sent.again[d] + sent.overlaps
    BY DEF NotificationInv, AttemptsLeft, Status
  <2>2. /\ delivery[d].attempts \in Nat /\ delivery'[d].attempts \in Nat /\ sent.again[d] \in Nat /\ sent.overlaps \in Nat
    BY <1>0, RowFields, SentFields, AfterFields
  <2> QED BY <2>1, <2>2, NotificationNumbers DEF QuietRow
<1>8. LagsBounded'
  <2> SUFFICES ASSUME NEW b \in Batches, NEW d \in Items
               PROVE  /\ Takes(b, d)' => Lags(b, d, 0)'
                      /\ batch'[b].step = "claim" /\ d \in batch'[b].now => Lags(b, d, 0)'
                      /\ Holds(b, d)' => Lags(b, d, 1)'
    BY DEF LagsBounded, LagOf
  <2>1. \A c \in Batches \ {b} : MayClaim(c, d)' => MayClaim(c, d) BY SameClaims DEF QuietBatch
  <2>2. Cardinality(Claimants(b, d)') <= Cardinality(Claimants(b, d)) BY <2>1, ClaimantsShrink
  <2>3. /\ Cardinality(Claimants(b, d)) \in Nat /\ Cardinality(Claimants(b, d)') \in Nat
        /\ delivery[d].attempts \in Nat /\ delivery'[d].attempts \in Nat
    BY <1>0, ClaimantsFinite, RowFields, AfterFields
  <2>4. delivery'[d].attempts + Cardinality(Claimants(b, d)') <= delivery[d].attempts + Cardinality(Claimants(b, d))
    BY <2>2, <2>3 DEF QuietRow
  <2>5. /\ batch'[b].saw[d] = batch[b].saw[d] /\ Lags(b, d, 0) => Lags(b, d, 0)'
        /\ batch'[b].saw[d] = batch[b].saw[d] /\ Lags(b, d, 1) => Lags(b, d, 1)'
    BY <1>0, <2>4, LagKept
  <2>6. /\ Takes(b, d) => Lags(b, d, 0)
        /\ batch[b].step = "claim" /\ d \in batch[b].now => Lags(b, d, 0)
        /\ Holds(b, d) => Lags(b, d, 1)
    BY DEF NotificationInv, LagsBounded, LagOf
  <2>7. CASE SameBatch(b)
    <3>1. batch'[b].saw[d] = batch[b].saw[d] BY <2>7 DEF SameBatch
    <3>2. /\ Takes(b, d)' => Takes(b, d)
          /\ batch'[b].step = "claim" /\ d \in batch'[b].now => batch[b].step = "claim" /\ d \in batch[b].now
      BY <2>7, SameClaims DEF SameBatch
    <3> QED BY <1>1, <2>5, <2>6, <3>1, <3>2
  <2>8. CASE QuietBatch(b)
    <3>1. Takes(b, d)' => Takes(b, d) /\ batch'[b].saw[d] = batch[b].saw[d] BY <2>8 DEF QuietBatch
    <3>2. ~Holds(b, d)' BY <2>8 DEF QuietBatch, Holds
    <3>3. ASSUME batch'[b].step = "claim", d \in batch'[b].now PROVE Lags(b, d, 0)'
      <4>1. batch'[b].saw[d] = delivery'[d].attempts /\ batch'[b].step # "idle" BY <2>8, <3>3 DEF QuietBatch
      <4> QED BY <1>6, <4>1, LagFresh
    <3> QED BY <2>5, <2>6, <3>1, <3>2, <3>3
  <2> QED BY <2>7, <2>8
<1>9. HeldAlone'
  <2> SUFFICES ASSUME NEW d \in Items \ sent'.crossed
               PROVE  /\ \A b, c \in Batches : Holds(b, d)' /\ Holds(c, d)' => b = c
                      /\ (\E b \in Batches : Holds(b, d)') => delivery'[d].status = "sending"
    BY DEF HeldAlone, Status
  <2>1. /\ \A b, c \in Batches : Holds(b, d) /\ Holds(c, d) => b = c
        /\ (\E b \in Batches : Holds(b, d)) => delivery[d].status = "sending"
    BY DEF NotificationInv, HeldAlone, Status
  <2> QED BY <1>1, <2>1 DEF QuietRow
<1>10. CopiesCounted' BY <1>4 DEF NotificationInv, CopiesCounted, Owed, Status, QuietRow
<1> QED BY <1>2, <1>3, <1>5, <1>6, <1>7, <1>8, <1>9, <1>10 DEF NotificationInv

LEMMA NotificationInvInit == NotificationInit => NotificationInv
<1> SUFFICES ASSUME NotificationInit PROVE NotificationInv OBVIOUS
<1>1. /\ delivery = [d \in Items |-> [status |-> "none", due |-> FALSE, stale |-> FALSE, attempts |-> 0]]
      /\ batch = [b \in Batches |-> NoBatch]
      /\ sent = [copies |-> [d \in Items |-> 0], again |-> [d \in Items |-> 0], unmarked |-> [d \in Items |-> 0],
                 crossed |-> {}, prefs |-> 0, overlaps |-> 0, deaths |-> 0]
      /\ prefs \in {[AllWanted EXCEPT !.digest = digest] : digest \in BOOLEAN}
  BY DEF NotificationInit
<1>2. prefs \in Prefs BY <1>1, NoBatchType DEF Prefs
<1>3. 0 \in 0 .. MaxSends + MaxLost + 1 /\ 0 \in 0 .. MaxLost /\ 0 \in 0 .. MaxPrefs BY NotificationNumbers
<1>4. NotificationTypeOK BY <1>1, <1>2, <1>3, NoBatchType DEF NotificationTypeOK, Delivery
<1>5. \A b \in Batches : batch[b].step = "idle" /\ batch[b].now = {} /\ batch[b].todo = {} BY <1>1, NoBatchType
<1>6. \A d \in Items : delivery[d].status = "none" /\ delivery[d].stale = FALSE /\ delivery[d].attempts = 0 BY <1>1
<1>7. /\ sent.overlaps = 0 /\ sent.deaths = 0 /\ \A d \in Items : sent.copies[d] = 0 /\ sent.again[d] = 0 /\ sent.unmarked[d] = 0
  BY <1>1
<1>8. \A b \in Batches, d \in Items : ~Holds(b, d) /\ ~Takes(b, d) BY <1>5 DEF Holds, Takes
<1>9. \A d \in Items : ~Orphan(d) BY <1>6 DEF Orphan, Status
<1>10. BatchesShaped /\ StaleIsFree BY <1>5, <1>6 DEF BatchesShaped, BatchShape, StaleIsFree
<1>11. OrphansOfDeaths BY <1>7, <1>9, NotificationNumbers DEF OrphansOfDeaths
<1>12. AliveAreOverlaps
  <2>1. Alive = {} BY <1>5 DEF Alive
  <2> QED BY <2>1, <1>7, FS_EmptySet DEF AliveAreOverlaps
<1>13. AttemptsLeft BY <1>6, <1>7, NotificationNumbers DEF AttemptsLeft
<1>14. LagsBounded BY <1>5, <1>8 DEF LagsBounded, LagOf
<1>15. HeldAlone /\ CopiesCounted BY <1>7, <1>8 DEF HeldAlone, CopiesCounted, Owed
<1> QED BY <1>4, <1>10, <1>11, <1>12, <1>13, <1>14, <1>15 DEF NotificationInv

LEMMA NotificationInvImplies == NotificationInv => NotificationsSafe
<1> SUFFICES ASSUME NotificationInv PROVE NotificationsSafe OBVIOUS
<1>1. \A d \in Items : sent.copies[d] \in Nat /\ sent.again[d] \in Nat /\ sent.unmarked[d] \in Nat
  BY SentFields DEF NotificationInv
<1>2. SentOncePerRecovery BY <1>1 DEF NotificationInv, CopiesCounted, Owed, SentOncePerRecovery
<1>3. AttemptsLimited BY DEF NotificationInv, AttemptsLeft, AttemptsLimited
<1> QED BY <1>2, <1>3 DEF NotificationInv, NotificationsSafe

\* Batch b is now r, but for its clock; the others have lost rows of their clocks.
Becomes(b, r) ==
  /\ batch' \in [Batches -> Batch]
  /\ batch'[b].step = r.step /\ batch'[b].todo = r.todo /\ batch'[b].saw = r.saw
  /\ batch'[b].now = r.now /\ batch'[b].digested = r.digested /\ batch'[b].prefs = r.prefs
  /\ \A c \in Batches \ {b} : SameBatch(c)

LEMMA WritesBatch ==
  ASSUME NotificationTypeOK, NEW b \in Batches, NEW r \in Batch, batch' = [batch EXCEPT ![b] = r]
  PROVE  Becomes(b, r)
<1>1. batch \in [Batches -> Batch] BY DEF NotificationTypeOK
<1> QED BY <1>1 DEF Becomes, SameBatch

LEMMA ReschedulesBatch ==
  ASSUME NotificationTypeOK, NEW b \in Batches, NEW r \in Batch, NEW S \in SUBSET Items, Reschedules(b, r, S)
  PROVE  Becomes(b, r)
<1>1. PICK gone \in SUBSET S :
        batch' = [c \in Batches |-> IF c = b THEN r ELSE [batch[c] EXCEPT !.clock = @ \ IF batch[c].late THEN gone ELSE S]]
  BY DEF Reschedules
<1>2. batch'[b] = r BY <1>1
<1>3. ASSUME NEW c \in Batches \ {b} PROVE batch'[c] \in Batch /\ SameBatch(c)
  <2>1. batch[c] \in Batch BY BatchFields
  <2>2. PICK T : T = IF batch[c].late THEN gone ELSE S OBVIOUS
  <2>3. PICK x : x = [batch[c] EXCEPT !.clock = @ \ T] OBVIOUS
  <2>4. /\ x \in Batch /\ x.step = batch[c].step /\ x.todo = batch[c].todo /\ x.saw = batch[c].saw
        /\ x.now = batch[c].now /\ x.digested = batch[c].digested /\ x.prefs = batch[c].prefs
    BY <2>1, <2>3 DEF Batch
  <2>5. batch'[c] = x BY <1>1, <2>2, <2>3
  <2> QED BY <2>4, <2>5 DEF SameBatch
<1>4. batch' \in [Batches -> Batch]
  <2>1. batch' = [c \in Batches |-> batch'[c]] BY <1>1
  <2>2. \A c \in Batches : batch'[c] \in Batch BY <1>2, <1>3
  <2> QED BY <2>1, <2>2
<1> QED BY <1>2, <1>3, <1>4 DEF Becomes

LEMMA PutsOffBatch ==
  ASSUME NotificationTypeOK, NEW b \in Batches, NEW r \in Batch, NEW S \in SUBSET Items, PutsOff(b, r, S)
  PROVE  Becomes(b, r)
<1>1. PICK x : x = [r EXCEPT !.clock = @ \ S] OBVIOUS
<1>2. /\ x \in Batch /\ x.step = r.step /\ x.todo = r.todo /\ x.saw = r.saw
      /\ x.now = r.now /\ x.digested = r.digested /\ x.prefs = r.prefs
  BY <1>1 DEF Batch
<1>3. Reschedules(b, x, S) BY <1>1 DEF PutsOff
<1>4. Becomes(b, x) BY <1>2, <1>3, ReschedulesBatch
<1> QED BY <1>2, <1>4 DEF Becomes

LEMMA RestOf ==
  ASSUME NotificationTypeOK, NEW b \in Batches, NEW todo \in SUBSET batch[b].todo, NEW r, r = Rest(b, todo)
  PROVE  /\ r \in Batch /\ r.now = {} /\ r.step \in {"idle", "take"}
         /\ r.step = "take" => /\ r.todo = todo /\ r.prefs = batch[b].prefs /\ r.digested = batch[b].digested
                               /\ \A d \in todo : r.saw[d] = batch[b].saw[d]
<1>1. CASE todo = {}
  <2>1. r = NoBatch BY <1>1 DEF Rest
  <2> QED BY <2>1, NoBatchType
<1>2. CASE todo # {}
  <2>1. batch[b] \in Batch /\ batch[b].saw \in [Items -> TriesRange] /\ batch[b].todo \subseteq Items BY BatchFields
  <2>2. PICK s : s = [d \in Items |-> IF d \in todo THEN batch[b].saw[d] ELSE 0] OBVIOUS
  <2>3. s \in [Items -> TriesRange] /\ \A d \in todo : s[d] = batch[b].saw[d] BY <2>1, <2>2, NotificationNumbers
  <2>4. r = [batch[b] EXCEPT !.step = "take", !.todo = todo, !.now = {}, !.saw = s] BY <1>2, <2>1, <2>2 DEF Rest
  <2> QED BY <2>1, <2>3, <2>4 DEF Batch, TriesRange
<1> QED BY <1>1, <1>2

LEMMA RestIsQuiet ==
  ASSUME NotificationInv, NEW b \in Batches, NEW todo \in SUBSET batch[b].todo, batch[b].step \in {"take", "digest", "claim"},
         Becomes(b, Rest(b, todo))
  PROVE  QuietBatch(b)
<1>0. NotificationTypeOK BY DEF NotificationInv
<1>1. PICK r : r = Rest(b, todo) OBVIOUS
<1>2. /\ r \in Batch /\ r.now = {} /\ r.step \in {"idle", "take"}
      /\ r.step = "take" => /\ r.todo = todo /\ r.prefs = batch[b].prefs /\ r.digested = batch[b].digested
                            /\ \A d \in todo : r.saw[d] = batch[b].saw[d]
  BY <1>0, <1>1, RestOf
<1>3. /\ batch'[b].step = r.step /\ batch'[b].todo = r.todo /\ batch'[b].saw = r.saw
      /\ batch'[b].now = {} /\ batch'[b].digested = r.digested /\ batch'[b].prefs = r.prefs
  BY <1>1, <1>2 DEF Becomes
<1>4. BatchShape(b)' BY <1>2, <1>3 DEF BatchShape
<1>5. ASSUME NEW d \in Items PROVE /\ MayClaim(b, d)' => MayClaim(b, d)
                                   /\ Takes(b, d)' => Takes(b, d) /\ batch'[b].saw[d] = batch[b].saw[d]
  <2>1. CASE r.step = "idle" BY <1>3, <2>1 DEF MayClaim, Takes
  <2>2. CASE r.step = "take"
    <3>1. /\ batch'[b].todo \subseteq batch[b].todo /\ batch'[b].prefs = batch[b].prefs /\ batch'[b].digested = batch[b].digested
          /\ batch'[b].step = "take" /\ \A x \in batch'[b].todo : batch'[b].saw[x] = batch[b].saw[x]
      BY <1>2, <1>3, <2>2
    <3> QED BY <3>1 DEF MayClaim, Takes, Digests
  <2> QED BY <1>2, <2>1, <2>2
<1> QED BY <1>2, <1>3, <1>4, <1>5 DEF QuietBatch

LEMMA SetRows ==
  ASSUME NotificationTypeOK, NEW S \in SUBSET Items, NEW s \in {"suppressed", "failed"}, Set(S, s)
  PROVE  delivery' \in [Items -> Delivery] /\ \A d \in Items : QuietRow(d)
<1>1. ASSUME NEW d \in Items PROVE delivery'[d] \in Delivery /\ QuietRow(d)
  <2>1. delivery[d] \in Delivery /\ delivery[d].attempts \in Nat /\ Status(d) = delivery[d].status BY RowFields
  <2>2. CASE d \in S /\ Status(d) = "queued"
    <3>1. PICK x : x = [delivery[d] EXCEPT !.status = s, !.due = FALSE, !.stale = FALSE] OBVIOUS
    <3>2. x \in Delivery /\ x.status = s /\ x.attempts = delivery[d].attempts /\ x.stale = FALSE BY <2>1, <3>1 DEF Delivery
    <3>3. delivery'[d] = x BY <2>2, <3>1 DEF Set
    <3> QED BY <2>1, <2>2, <3>2, <3>3 DEF QuietRow
  <2>3. CASE ~(d \in S /\ Status(d) = "queued")
    <3>1. delivery'[d] = delivery[d] BY <2>3 DEF Set
    <3> QED BY <2>1, <3>1 DEF QuietRow
  <2> QED BY <2>2, <2>3
<1>2. delivery' = [d \in Items |-> delivery'[d]] BY DEF Set
<1> QED BY <1>1, <1>2

LEMMA RowsStay ==
  ASSUME NotificationTypeOK, UNCHANGED delivery
  PROVE  delivery' \in [Items -> Delivery] /\ \A d \in Items : QuietRow(d)
  BY RowFields DEF NotificationTypeOK, QuietRow

\* due is set anew for the rows S.
LEMMA DueRows ==
  ASSUME NotificationTypeOK, NEW S \in SUBSET Items, NEW due \in BOOLEAN,
         delivery' = [d \in Items |-> IF d \in S THEN [delivery[d] EXCEPT !.due = due] ELSE delivery[d]]
  PROVE  delivery' \in [Items -> Delivery] /\ \A d \in Items : QuietRow(d)
<1>1. ASSUME NEW d \in Items PROVE delivery'[d] \in Delivery /\ QuietRow(d)
  <2>1. delivery[d] \in Delivery /\ delivery[d].attempts \in Nat BY RowFields
  <2>2. CASE d \in S
    <3>1. PICK x : x = [delivery[d] EXCEPT !.due = due] OBVIOUS
    <3>2. x \in Delivery /\ x.status = delivery[d].status /\ x.attempts = delivery[d].attempts /\ x.stale = delivery[d].stale
      BY <2>1, <3>1 DEF Delivery
    <3>3. delivery'[d] = x BY <2>2, <3>1
    <3> QED BY <2>1, <3>2, <3>3 DEF QuietRow
  <2>3. CASE d \notin S BY <2>1, <2>3 DEF QuietRow
  <2> QED BY <2>2, <2>3
<1> QED BY <1>1

LEMMA DueRow ==
  ASSUME NotificationTypeOK, NEW d \in Items, NEW due \in BOOLEAN, delivery' = [delivery EXCEPT ![d].due = due]
  PROVE  delivery' \in [Items -> Delivery] /\ \A x \in Items : QuietRow(x)
<1>1. delivery \in [Items -> Delivery] BY DEF NotificationTypeOK
<1>2. delivery' = [x \in Items |-> IF x \in {d} THEN [delivery[x] EXCEPT !.due = due] ELSE delivery[x]] BY <1>1
<1> QED BY <1>2, DueRows

LEMMA QuietSent ==
  ASSUME NotificationInv, UNCHANGED <<sent, prefs>>, delivery' \in [Items -> Delivery], \A d \in Items : QuietRow(d),
         batch' \in [Batches -> Batch], \A c \in Batches : SameBatch(c) \/ QuietBatch(c)
  PROVE  NotificationInv'
<1>1. NotificationTypeOK' BY DEF NotificationInv, NotificationTypeOK
<1> QED BY <1>1, QuietDeliveries

LEMMA BatchesStay ==
  ASSUME UNCHANGED batch
  PROVE  \A c \in Batches : SameBatch(c)
  BY DEF SameBatch

LEMMA CreateNotificationInv ==
  ASSUME NotificationInv, NEW d \in Items, CreateNotification(d)
  PROVE  NotificationInv'
<1>0. NotificationTypeOK BY DEF NotificationInv
<1>1. UNCHANGED <<prefs, batch, sent>> /\ Status(d) = "none" BY DEF CreateNotification
<1>2. PICK due \in BOOLEAN : due = (d \notin EmailItems \/ ~prefs.digest) OBVIOUS
<1>3. PICK x : x = [status |-> "queued", due |-> due, stale |-> FALSE, attempts |-> 0] OBVIOUS
<1>4. x \in Delivery /\ x.status = "queued" /\ x.stale = FALSE /\ x.attempts = 0 BY <1>3, NotificationNumbers DEF Delivery, TriesRange
<1>5. delivery' = [delivery EXCEPT ![d] = x] BY <1>2, <1>3 DEF CreateNotification
<1>6. delivery \in [Items -> Delivery] BY <1>0 DEF NotificationTypeOK
<1>7. delivery' \in [Items -> Delivery] BY <1>4, <1>5, <1>6
<1>8. ASSUME NEW y \in Items PROVE QuietRow(y)
  <2>1. delivery[y].attempts \in Nat BY <1>0, RowFields
  <2>2. CASE y = d BY <1>1, <1>4, <1>5, <1>6, <2>1, <2>2 DEF QuietRow, Status
  <2>3. CASE y # d BY <1>5, <1>6, <2>1, <2>3 DEF QuietRow
  <2> QED BY <2>2, <2>3
<1>9. batch' \in [Batches -> Batch] BY <1>0, <1>1 DEF NotificationTypeOK
<1> QED BY <1>1, <1>7, <1>8, <1>9, BatchesStay, QuietSent

LEMMA ComesDueInv ==
  ASSUME NotificationInv, NEW d \in Items, ComesDue(d)
  PROVE  NotificationInv'
<1>0. NotificationTypeOK BY DEF NotificationInv
<1>1. UNCHANGED <<prefs, batch, sent>> /\ delivery' = [delivery EXCEPT ![d].due = TRUE] BY DEF ComesDue
<1>2. delivery' \in [Items -> Delivery] /\ \A x \in Items : QuietRow(x) BY <1>0, <1>1, DueRow
<1>3. batch' \in [Batches -> Batch] BY <1>0, <1>1 DEF NotificationTypeOK
<1> QED BY <1>1, <1>2, <1>3, BatchesStay, QuietSent

LEMMA PrefsChangeInv ==
  ASSUME NotificationInv, ChangePrefs \/ QuietHoursEnd \/ UNCHANGED notificationVars
  PROVE  NotificationInv'
<1>0. NotificationTypeOK BY DEF NotificationInv
<1>1. UNCHANGED <<delivery, batch>> BY DEF ChangePrefs, QuietHoursEnd, notificationVars
<1>2. delivery' \in [Items -> Delivery] /\ \A x \in Items : QuietRow(x) BY <1>0, <1>1, RowsStay
<1>3. batch' \in [Batches -> Batch] /\ \A c \in Batches : SameBatch(c) BY <1>0, <1>1, BatchesStay DEF NotificationTypeOK
<1>4. prefs \in Prefs BY <1>0 DEF NotificationTypeOK
<1>5. prefs' \in Prefs
  <2>1. CASE ChangePrefs
    <3>1. PICK field \in DOMAIN prefs : prefs' = [prefs EXCEPT ![field] = ~@] BY <2>1 DEF ChangePrefs
    <3>2. DOMAIN prefs = {"active", "wanted", "digest", "quiet", "address"} BY <1>4 DEF Prefs
    <3>3. CASE field = "active" BY <1>4, <3>1, <3>3 DEF Prefs
    <3>4. CASE field = "wanted" BY <1>4, <3>1, <3>4 DEF Prefs
    <3>5. CASE field = "digest" BY <1>4, <3>1, <3>5 DEF Prefs
    <3>6. CASE field = "quiet" BY <1>4, <3>1, <3>6 DEF Prefs
    <3>7. CASE field = "address" BY <1>4, <3>1, <3>7 DEF Prefs
    <3> QED BY <3>1, <3>2, <3>3, <3>4, <3>5, <3>6, <3>7
  <2>2. CASE QuietHoursEnd BY <1>4, <2>2 DEF QuietHoursEnd, Prefs
  <2>3. CASE UNCHANGED notificationVars BY <1>4, <2>3 DEF notificationVars
  <2> QED BY <2>1, <2>2, <2>3
<1>6. /\ sent' \in [copies : [Items -> Nat], again : [Items -> Nat], unmarked : [Items -> Nat], crossed : SUBSET Items,
                    prefs : 0 .. MaxPrefs, overlaps : 0 .. MaxLost, deaths : 0 .. MaxLost]
      /\ sent'.copies = sent.copies /\ sent'.again = sent.again /\ sent'.unmarked = sent.unmarked
       /\ sent'.crossed = sent.crossed /\ sent'.overlaps = sent.overlaps
      /\ sent'.deaths = sent.deaths
  <2>0. sent \in [copies : [Items -> Nat], again : [Items -> Nat], unmarked : [Items -> Nat], crossed : SUBSET Items,
                  prefs : 0 .. MaxPrefs, overlaps : 0 .. MaxLost, deaths : 0 .. MaxLost]
    BY <1>0 DEF NotificationTypeOK
  <2>1. CASE ChangePrefs
    <3>1. sent.prefs + 1 \in 0 .. MaxPrefs BY <1>0, <2>1, SentFields, NotificationNumbers DEF ChangePrefs
    <3> QED BY <2>0, <2>1, <3>1 DEF ChangePrefs
  <2>2. CASE UNCHANGED sent BY <2>0, <2>2
  <2> QED BY <2>1, <2>2 DEF QuietHoursEnd, notificationVars
<1>7. NotificationTypeOK' BY <1>2, <1>3, <1>5, <1>6 DEF NotificationTypeOK
<1> QED BY <1>2, <1>3, <1>6, <1>7, QuietDeliveries

\* A batch that has decided about row d and leaves it, or turns to the digest.
LEMMA TakeLeavesInv ==
  ASSUME NotificationInv, NEW b \in Batches, NEW d \in Items, batch[b].step = "take", d \in batch[b].todo,
         delivery' \in [Items -> Delivery], \A x \in Items : QuietRow(x), UNCHANGED <<prefs, sent>>,
         Becomes(b, Rest(b, batch[b].todo \ {d}))
  PROVE  NotificationInv'
<1>1. QuietBatch(b) BY RestIsQuiet
<1>2. batch' \in [Batches -> Batch] /\ \A c \in Batches : SameBatch(c) \/ QuietBatch(c) BY <1>1 DEF Becomes
<1> QED BY <1>2, QuietSent

LEMMA TakeDigestsInv ==
  ASSUME NotificationInv, NEW b \in Batches, NEW d \in Items, batch[b].step = "take", d \in batch[b].todo, ~batch[b].digested,
         batch[b].prefs.digest, UNCHANGED <<delivery, prefs, sent>>, NEW rest, rest = [batch[b] EXCEPT !.todo = @ \ {d}],
         batch' = [batch EXCEPT ![b] = [rest EXCEPT !.step = "digest", !.digested = TRUE]]
  PROVE  NotificationInv'
<1>0. NotificationTypeOK BY DEF NotificationInv
<1>1. batch[b] \in Batch BY <1>0, BatchFields
<1>2. PICK r : r = [rest EXCEPT !.step = "digest", !.digested = TRUE] OBVIOUS
<1>3. /\ r \in Batch /\ r.step = "digest" /\ r.todo = batch[b].todo \ {d} /\ r.saw = batch[b].saw /\ r.now = batch[b].now
      /\ r.digested = TRUE /\ r.prefs = batch[b].prefs
  BY <1>1, <1>2 DEF Batch
<1>4. Becomes(b, r) BY <1>0, <1>2, <1>3, WritesBatch
<1>5. /\ batch'[b].step = "digest" /\ batch'[b].todo = batch[b].todo \ {d} /\ batch'[b].saw = batch[b].saw /\ batch'[b].now = batch[b].now
      /\ batch'[b].digested = TRUE /\ batch'[b].prefs = batch[b].prefs
  BY <1>3, <1>4 DEF Becomes
<1>6. batch[b].now = {} BY DEF NotificationInv, BatchesShaped, BatchShape
<1>7. BatchShape(b)' BY <1>5, <1>6 DEF BatchShape
<1>8. \A x \in Items : (MayClaim(b, x)' => MayClaim(b, x)) /\ (Takes(b, x)' => Takes(b, x)) BY <1>5 DEF MayClaim, Takes, Digests
<1>9. QuietBatch(b) BY <1>5, <1>6, <1>7, <1>8 DEF QuietBatch
<1>10. batch' \in [Batches -> Batch] /\ \A c \in Batches : SameBatch(c) \/ QuietBatch(c) BY <1>4, <1>9 DEF Becomes
<1>11. delivery' \in [Items -> Delivery] /\ \A x \in Items : QuietRow(x) BY <1>0, RowsStay
<1> QED BY <1>10, <1>11, QuietSent

\* Of the batch that acts: its own count of row d.
LEMMA LagOfSelf ==
  ASSUME NotificationInv, NotificationTypeOK', sent'.overlaps = sent.overlaps, NEW b \in Batches, \A c \in Batches \ {b} : SameBatch(c),
         NEW d \in Items, batch'[b].saw[d] = batch[b].saw[d]
  PROVE  /\ delivery'[d].attempts <= delivery[d].attempts /\ Lags(b, d, 0) => Lags(b, d, 0)'
         /\ delivery'[d].attempts <= delivery[d].attempts + 1 /\ Lags(b, d, 0) => Lags(b, d, 1)'
<1>0. NotificationTypeOK BY DEF NotificationInv
<1>1. \A c \in Batches \ {b} : MayClaim(c, d)' => MayClaim(c, d) BY SameClaims
<1>2. Cardinality(Claimants(b, d)') <= Cardinality(Claimants(b, d)) BY <1>1, ClaimantsShrink
<1>3. /\ Cardinality(Claimants(b, d)) \in Nat /\ Cardinality(Claimants(b, d)') \in Nat
      /\ delivery[d].attempts \in Nat /\ delivery'[d].attempts \in Nat /\ batch[b].saw[d] \in Nat /\ sent.overlaps \in Nat
  BY <1>0, ClaimantsFinite, RowFields, AfterFields, BatchFields, SentFields
<1> QED BY <1>2, <1>3 DEF Lags

\* The row is claimed.
LEMMA TakeClaimsInv ==
  ASSUME NotificationInv, NEW b \in Batches, NEW d \in Items, batch[b].step = "take", d \in batch[b].todo, ~Digests(b, d),
         Status(d) = "queued", NEW rest, rest = [batch[b] EXCEPT !.todo = @ \ {d}],
         delivery' = [delivery EXCEPT ![d].status = "sending", ![d].stale = FALSE, ![d].attempts = @ + 1],
         batch' = [batch EXCEPT ![b] = [rest EXCEPT !.step = "send", !.now = {d}]], UNCHANGED <<prefs, sent>>
  PROVE  NotificationInv'
<1>0. NotificationTypeOK BY DEF NotificationInv
<1>1. batch[b] \in Batch /\ delivery[d] \in Delivery /\ delivery \in [Items -> Delivery] BY <1>0, BatchFields, RowFields DEF NotificationTypeOK
<1>2. PICK r : r = [rest EXCEPT !.step = "send", !.now = {d}] OBVIOUS
<1>3. /\ r \in Batch /\ r.step = "send" /\ r.todo = batch[b].todo \ {d} /\ r.saw = batch[b].saw /\ r.now = {d}
      /\ r.digested = batch[b].digested /\ r.prefs = batch[b].prefs
  BY <1>1, <1>2 DEF Batch
<1>4. Becomes(b, r) BY <1>0, <1>2, <1>3, WritesBatch
<1>5. /\ batch'[b].step = "send" /\ batch'[b].todo = batch[b].todo \ {d} /\ batch'[b].saw = batch[b].saw /\ batch'[b].now = {d}
      /\ batch'[b].digested = batch[b].digested /\ batch'[b].prefs = batch[b].prefs /\ \A c \in Batches \ {b} : SameBatch(c)
  BY <1>3, <1>4 DEF Becomes
<1>6. /\ delivery[d].attempts \in Nat /\ sent.again[d] \in Nat /\ sent.overlaps \in Nat /\ sent.deaths \in Nat
      /\ delivery[d].attempts + 1 <= MaxSends + sent.again[d] + sent.overlaps
      /\ sent.again[d] <= sent.deaths /\ sent.overlaps + sent.deaths <= MaxLost
  BY <1>0, RowFields, SentFields DEF NotificationInv, AttemptsLeft, OrphansOfDeaths
<1>7. PICK x : x = [delivery[d] EXCEPT !.status = "sending", !.stale = FALSE, !.attempts = @ + 1] OBVIOUS
<1>8. delivery[d].attempts + 1 \in 0 .. MaxSends + MaxLost + 1 BY <1>6, NotificationNumbers
<1>9. x \in Delivery /\ x.status = "sending" /\ x.stale = FALSE /\ x.attempts = delivery[d].attempts + 1
  BY <1>1, <1>7, <1>8 DEF Delivery
<1>10. delivery' = [delivery EXCEPT ![d] = x] BY <1>1, <1>7
<1>11. /\ delivery' \in [Items -> Delivery] /\ delivery'[d] = x /\ \A y \in Items \ {d} : delivery'[y] = delivery[y]
  BY <1>1, <1>9, <1>10
<1>12. NotificationTypeOK' BY <1>0, <1>4, <1>11 DEF NotificationTypeOK, Becomes
<1>13. /\ \A c \in Batches \ {b}, y \in Items : Holds(c, y)' <=> Holds(c, y)
       /\ \A y \in Items : Holds(b, y)' <=> y = d
       /\ \A y \in Items : ~Holds(b, y)
  BY <1>5, SameClaims DEF Holds
<1>14. BatchesShaped'
  <2>1. BatchShape(b)' BY <1>5 DEF BatchShape
  <2> QED BY <1>5, <2>1, SameShape DEF NotificationInv, BatchesShaped
<1>15. StaleIsFree'
  <2> SUFFICES ASSUME NEW y \in Items, delivery'[y].stale
               PROVE  delivery'[y].status = "sending" /\ \A c \in Batches : y \notin batch'[c].now
    BY DEF StaleIsFree, Status
  <2>1. y # d /\ delivery[y].stale BY <1>9, <1>11
  <2>2. delivery[y].status = "sending" /\ \A c \in Batches : y \notin batch[c].now BY <2>1 DEF NotificationInv, StaleIsFree, Status
  <2> QED BY <1>5, <1>11, <2>1, <2>2 DEF SameBatch
<1>16. \A y \in Items : Orphan(y)' => Orphan(y) /\ y # d BY <1>11, <1>13 DEF Orphan, Status
<1>17. \A y \in Items \ {d} : Orphan(y) => Orphan(y)' BY <1>11, <1>13 DEF Orphan, Status
<1>18. OrphansOfDeaths' BY <1>16 DEF NotificationInv, OrphansOfDeaths
<1>19. AliveAreOverlaps' BY <1>0, <1>5, AliveShrinks DEF NotificationInv, SameBatch
<1>20. AttemptsLeft' BY <1>6, <1>9, <1>11 DEF NotificationInv, AttemptsLeft, Status
<1>21. LagsBounded'
  <2>1. /\ \A y \in Items : MayClaim(b, y)' => MayClaim(b, y)
        /\ MayClaim(b, d) /\ ~MayClaim(b, d)'
    BY <1>5 DEF MayClaim, Digests
  <2>2. ASSUME NEW c \in Batches \ {b} PROVE LagOf(c)'
    <3>1. PICK S : S = {d} OBVIOUS
    <3>2. S \in SUBSET Items /\ \A y \in S : MayClaim(b, y) /\ ~MayClaim(b, y)' /\ delivery'[y].attempts = delivery[y].attempts + 1
      BY <1>9, <1>11, <2>1, <3>1
    <3>3. \A y \in Items \ S : delivery'[y].attempts = delivery[y].attempts BY <1>11, <3>1
    <3> QED BY <1>5, <1>12, <2>1, <3>2, <3>3, LagOfOthers
  <2>3. LagOf(b)'
    <3> SUFFICES ASSUME NEW y \in Items PROVE (Takes(b, y)' => Lags(b, y, 0)') /\ (Holds(b, y)' => Lags(b, y, 1)')
      BY <1>5 DEF LagOf
    <3>1. Takes(b, y) => Lags(b, y, 0) BY DEF NotificationInv, LagsBounded, LagOf
    <3>2. batch'[b].saw[y] = batch[b].saw[y] /\ delivery[y].attempts \in Nat BY <1>0, <1>5, RowFields
    <3>3. ASSUME Takes(b, y)' PROVE Lags(b, y, 0)'
      <4>1. Takes(b, y) /\ y # d BY <1>5, <3>3 DEF Takes, Digests
      <4>2. delivery'[y].attempts <= delivery[y].attempts BY <1>11, <3>2, <4>1
      <4> QED BY <1>5, <1>12, <3>1, <3>2, <4>1, <4>2, LagOfSelf
    <3>4. ASSUME Holds(b, y)' PROVE Lags(b, y, 1)'
      <4>1. y = d /\ Takes(b, y) BY <1>13, <3>4 DEF Takes
      <4>2. delivery'[y].attempts <= delivery[y].attempts + 1 BY <1>6, <1>9, <1>11, <4>1
      <4> QED BY <1>5, <1>12, <3>1, <3>2, <4>1, <4>2, LagOfSelf
    <3> QED BY <3>3, <3>4
  <2> QED BY <2>2, <2>3 DEF LagsBounded
<1>22. HeldAlone'
  <2> SUFFICES ASSUME NEW y \in Items \ sent.crossed
               PROVE  /\ \A a, c \in Batches : Holds(a, y)' /\ Holds(c, y)' => a = c
                      /\ (\E a \in Batches : Holds(a, y)') => delivery'[y].status = "sending"
    BY DEF HeldAlone, Status
  <2>1. /\ \A a, c \in Batches : Holds(a, y) /\ Holds(c, y) => a = c
        /\ (\E a \in Batches : Holds(a, y)) => delivery[y].status = "sending"
    BY DEF NotificationInv, HeldAlone, Status
  <2>2. CASE y = d
    <3>1. \A a \in Batches : ~Holds(a, y) BY <2>1, <2>2 DEF Status
    <3> QED BY <1>9, <1>11, <1>13, <2>2, <3>1
  <2>3. CASE y # d BY <1>11, <1>13, <2>1, <2>3
  <2> QED BY <2>2, <2>3
<1>23. CopiesCounted'
  <2> SUFFICES ASSUME NEW y \in Items \ sent.crossed
               PROVE  /\ sent.copies[y] <= Owed(y) + 1
                      /\ delivery'[y].status # "sent" /\ ~Orphan(y)' => sent.copies[y] <= Owed(y)
    BY DEF CopiesCounted, Owed, Status
  <2>1. /\ sent.copies[y] <= Owed(y) + 1
        /\ delivery[y].status # "sent" /\ ~Orphan(y) => sent.copies[y] <= Owed(y)
    BY DEF NotificationInv, CopiesCounted, Status
  <2>2. CASE y = d BY <2>1, <2>2 DEF Orphan, Status
  <2>3. CASE y # d BY <1>11, <1>17, <2>1, <2>3
  <2> QED BY <2>2, <2>3
<1> QED BY <1>12, <1>14, <1>15, <1>18, <1>19, <1>20, <1>21, <1>22, <1>23 DEF NotificationInv

LEMMA BatchTakeInv ==
  ASSUME NotificationInv, NEW b \in Batches, NEW d \in Items, BatchTake(b, d)
  PROVE  NotificationInv'
<1>0. NotificationTypeOK BY DEF NotificationInv
<1> DEFINE user == batch[b].prefs
           wanted == user.active /\ user.wanted
           digest == user.digest /\ d \in EmailItems
<1>1. PICK rest : rest = [batch[b] EXCEPT !.todo = @ \ {d}] OBVIOUS
<1>2. batch[b] \in Batch BY <1>0, BatchFields
<1>3. rest.todo = batch[b].todo \ {d} /\ rest.digested = batch[b].digested BY <1>1, <1>2 DEF Batch
<1>4. PICK after : after = Rest(b, rest.todo) OBVIOUS
<1>5. /\ batch[b].step = "take" /\ d \in batch[b].todo /\ UNCHANGED <<prefs, sent>>
      /\ \/ ~wanted /\ Set({d}, "suppressed") /\ batch' = [batch EXCEPT ![b] = after]
         \/ /\ wanted /\ user.quiet
            /\ IF Status(d) = "queued" THEN delivery' = [delivery EXCEPT ![d].due = FALSE] /\ PutsOff(b, after, {d})
                                       ELSE batch' = [batch EXCEPT ![b] = after] /\ UNCHANGED delivery
         \/ /\ wanted /\ ~user.quiet /\ digest /\ UNCHANGED delivery
            /\ IF rest.digested THEN batch' = [batch EXCEPT ![b] = after]
               ELSE batch' = [batch EXCEPT ![b] = [rest EXCEPT !.step = "digest", !.digested = TRUE]]
         \/ /\ wanted /\ ~user.quiet /\ ~digest
            /\ IF Claimable(b, d)
                 THEN /\ delivery' = [delivery EXCEPT ![d].status = "sending", ![d].stale = FALSE, ![d].attempts = @ + 1]
                      /\ batch' = [batch EXCEPT ![b] = [rest EXCEPT !.step = "send", !.now = {d}]]
                 ELSE batch' = [batch EXCEPT ![b] = after] /\ UNCHANGED delivery
  BY <1>1, <1>4 DEF BatchTake
<1>6. after \in Batch
  <2>1. PICK todo : todo = batch[b].todo \ {d} OBVIOUS
  <2>2. todo \in SUBSET batch[b].todo /\ after = Rest(b, todo) BY <1>3, <1>4, <2>1
  <2> QED BY <1>0, <2>2, RestOf
<1>7. ASSUME batch' = [batch EXCEPT ![b] = after], delivery' \in [Items -> Delivery], \A x \in Items : QuietRow(x) PROVE NotificationInv'
  <2>1. Becomes(b, after) BY <1>0, <1>6, <1>7, WritesBatch
  <2>2. Becomes(b, Rest(b, batch[b].todo \ {d})) BY <1>3, <1>4, <2>1
  <2> QED BY <1>5, <1>7, <2>2, TakeLeavesInv
<1>8. ASSUME UNCHANGED delivery PROVE delivery' \in [Items -> Delivery] /\ \A x \in Items : QuietRow(x) BY <1>0, <1>8, RowsStay
<1>9. CASE Set({d}, "suppressed") /\ batch' = [batch EXCEPT ![b] = after]
  <2>1. delivery' \in [Items -> Delivery] /\ \A x \in Items : QuietRow(x) BY <1>0, <1>9, SetRows
  <2> QED BY <1>7, <1>9, <2>1
<1>10. CASE delivery' = [delivery EXCEPT ![d].due = FALSE] /\ PutsOff(b, after, {d})
  <2>1. Becomes(b, after) BY <1>0, <1>6, <1>10, PutsOffBatch
  <2>2. Becomes(b, Rest(b, batch[b].todo \ {d})) BY <1>3, <1>4, <2>1
  <2>3. delivery' \in [Items -> Delivery] /\ \A x \in Items : QuietRow(x) BY <1>0, <1>10, DueRow
  <2> QED BY <1>5, <2>2, <2>3, TakeLeavesInv
<1>11. CASE batch' = [batch EXCEPT ![b] = after] /\ UNCHANGED delivery BY <1>7, <1>8, <1>11
<1>12. CASE digest /\ ~rest.digested /\ UNCHANGED delivery /\ batch' = [batch EXCEPT ![b] = [rest EXCEPT !.step = "digest", !.digested = TRUE]]
  BY <1>1, <1>3, <1>5, <1>12, TakeDigestsInv
<1>13. CASE /\ ~digest /\ Claimable(b, d) /\ delivery' = [delivery EXCEPT ![d].status = "sending", ![d].stale = FALSE, ![d].attempts = @ + 1]
            /\ batch' = [batch EXCEPT ![b] = [rest EXCEPT !.step = "send", !.now = {d}]]
  <2>1. ~Digests(b, d) /\ Status(d) = "queued" BY <1>13 DEF Digests, Claimable
  <2> QED BY <1>1, <1>5, <1>13, <2>1, TakeClaimsInv
<1> HIDE DEF user, wanted, digest
<1> QED BY <1>5, <1>9, <1>10, <1>11, <1>12, <1>13

\* Row d has not been touched for ten minutes.
LEMMA GoesStaleInv ==
  ASSUME NotificationInv, NEW d \in Items, GoesStale(d)
  PROVE  NotificationInv'
<1>0. NotificationTypeOK BY DEF NotificationInv
<1>1. UNCHANGED <<prefs, batch, sent>> /\ Status(d) = "sending" /\ \A b \in Batches : d \notin batch[b].now BY DEF GoesStale
<1>2. delivery \in [Items -> Delivery] /\ delivery[d] \in Delivery BY <1>0, RowFields DEF NotificationTypeOK
<1>3. PICK x : x = [delivery[d] EXCEPT !.stale = TRUE] OBVIOUS
<1>4. x \in Delivery /\ x.status = delivery[d].status /\ x.attempts = delivery[d].attempts BY <1>2, <1>3 DEF Delivery
<1>5. delivery' = [delivery EXCEPT ![d] = x] BY <1>2, <1>3 DEF GoesStale
<1>6. delivery' \in [Items -> Delivery] BY <1>2, <1>4, <1>5
<1>7. \A y \in Items : delivery'[y].status = delivery[y].status /\ delivery'[y].attempts = delivery[y].attempts BY <1>2, <1>4, <1>5
<1>8. \A y \in Items \ {d} : delivery'[y] = delivery[y] BY <1>2, <1>5
<1>9. NotificationTypeOK' BY <1>0, <1>1, <1>6 DEF NotificationTypeOK
<1>10. BatchesShaped' BY <1>1 DEF NotificationInv, BatchesShaped, BatchShape
<1>11. StaleIsFree'
  <2> SUFFICES ASSUME NEW y \in Items, delivery'[y].stale
               PROVE  delivery'[y].status = "sending" /\ \A b \in Batches : y \notin batch'[b].now
    BY DEF StaleIsFree, Status
  <2>1. CASE y = d BY <1>1, <1>7, <2>1 DEF Status
  <2>2. CASE y # d BY <1>1, <1>8, <2>2 DEF NotificationInv, StaleIsFree, Status
  <2> QED BY <2>1, <2>2
<1>12. \A b \in Batches, y \in Items : (Holds(b, y)' <=> Holds(b, y)) /\ (Takes(b, y)' <=> Takes(b, y)) /\ (MayClaim(b, y)' <=> MayClaim(b, y))
  BY <1>1 DEF Holds, Takes, MayClaim, Digests
<1>13. \A y \in Items : Orphan(y)' <=> Orphan(y) BY <1>7, <1>12 DEF Orphan, Status
<1>14. OrphansOfDeaths' BY <1>1, <1>13 DEF NotificationInv, OrphansOfDeaths
<1>15. AliveAreOverlaps' BY <1>1 DEF NotificationInv, AliveAreOverlaps, Alive
<1>16. AttemptsLeft' BY <1>1, <1>7 DEF NotificationInv, AttemptsLeft, Status
<1>17. LagsBounded'
  <2> SUFFICES ASSUME NEW b \in Batches, NEW y \in Items
               PROVE  /\ Takes(b, y)' => Lags(b, y, 0)'
                      /\ batch'[b].step = "claim" /\ y \in batch'[b].now => Lags(b, y, 0)'
                      /\ Holds(b, y)' => Lags(b, y, 1)'
    BY DEF LagsBounded, LagOf
  <2>1. Claimants(b, y)' = Claimants(b, y) BY <1>12 DEF Claimants
  <2>2. (Lags(b, y, 0) => Lags(b, y, 0)') /\ (Lags(b, y, 1) => Lags(b, y, 1)') BY <1>1, <1>7, <2>1 DEF Lags
  <2> QED BY <1>1, <1>12, <2>2 DEF NotificationInv, LagsBounded, LagOf
<1>18. HeldAlone' BY <1>1, <1>7, <1>12 DEF NotificationInv, HeldAlone, Status
<1>19. CopiesCounted' BY <1>1, <1>7, <1>13 DEF NotificationInv, CopiesCounted, Owed, Status
<1> QED BY <1>9, <1>10, <1>11, <1>14, <1>15, <1>16, <1>17, <1>18, <1>19 DEF NotificationInv

\* A batch begins: the only one, or one overlap more.
LEMMA BatchStartInv ==
  ASSUME NotificationInv, NEW b \in Batches, BatchStart(b)
  PROVE  NotificationInv'
<1>0. NotificationTypeOK BY DEF NotificationInv
<1>1. batch[b] = NoBatch /\ UNCHANGED <<delivery, prefs>> BY DEF BatchStart
<1>2. PICK late \in BOOLEAN : late = (\E c \in Batches : batch[c] # NoBatch) OBVIOUS
<1>3. PICK r : r = [batch[b] EXCEPT !.step = "read", !.late = late] OBVIOUS
<1>4. r \in Batch /\ r.step = "read" /\ r.todo = {} /\ r.now = {} BY <1>1, <1>2, <1>3, NoBatchType DEF Batch
<1>5. batch \in [Batches -> Batch] BY <1>0 DEF NotificationTypeOK
<1>6. batch' = [batch EXCEPT ![b] = r] BY <1>2, <1>3, <1>5 DEF BatchStart
<1>7. Becomes(b, r) BY <1>0, <1>4, <1>6, WritesBatch
<1>8. /\ batch'[b].step = "read" /\ batch'[b].todo = {} /\ batch'[b].now = {} /\ \A c \in Batches \ {b} : SameBatch(c)
      /\ batch' \in [Batches -> Batch]
  BY <1>4, <1>7 DEF Becomes
<1>9. batch[b].step = "idle" /\ batch[b].now = {} /\ batch[b].todo = {} BY <1>1, NoBatchType
<1>10. /\ sent.overlaps \in Nat /\ sent.deaths \in Nat /\ sent.overlaps + sent.deaths <= MaxLost /\ sent.overlaps \in 0 .. MaxLost
       /\ sent.deaths \in 0 .. MaxLost
  BY <1>0, SentFields DEF NotificationInv, OrphansOfDeaths
<1>11. sent \in [copies : [Items -> Nat], again : [Items -> Nat], unmarked : [Items -> Nat], crossed : SUBSET Items,
                 prefs : 0 .. MaxPrefs, overlaps : 0 .. MaxLost, deaths : 0 .. MaxLost]
  BY <1>0 DEF NotificationTypeOK
<1>12. \/ (\A c \in Batches : batch[c] = NoBatch) /\ UNCHANGED sent
       \/ Lost < MaxLost /\ sent' = [sent EXCEPT !.overlaps = @ + 1]
  BY DEF BatchStart
<1>13. /\ sent' \in [copies : [Items -> Nat], again : [Items -> Nat], unmarked : [Items -> Nat], crossed : SUBSET Items,
                     prefs : 0 .. MaxPrefs, overlaps : 0 .. MaxLost, deaths : 0 .. MaxLost]
       /\ sent'.copies = sent.copies /\ sent'.again = sent.again /\ sent'.unmarked = sent.unmarked
       /\ sent'.crossed = sent.crossed /\ sent'.deaths = sent.deaths
       /\ \/ (\A c \in Batches : batch[c] = NoBatch) /\ sent'.overlaps = sent.overlaps
          \/ sent'.overlaps = sent.overlaps + 1
       /\ sent'.overlaps + sent.deaths <= MaxLost
  <2>1. CASE (\A c \in Batches : batch[c] = NoBatch) /\ UNCHANGED sent BY <1>10, <1>11, <2>1
  <2>2. CASE Lost < MaxLost /\ sent' = [sent EXCEPT !.overlaps = @ + 1]
    <3>1. sent.overlaps + 1 \in 0 .. MaxLost /\ sent.overlaps + 1 + sent.deaths <= MaxLost BY <1>10, <2>2, NotificationNumbers DEF Lost
    <3>2. /\ sent' \in [copies : [Items -> Nat], again : [Items -> Nat], unmarked : [Items -> Nat], crossed : SUBSET Items,
                     prefs : 0 .. MaxPrefs, overlaps : 0 .. MaxLost, deaths : 0 .. MaxLost]
          /\ sent'.copies = sent.copies /\ sent'.again = sent.again /\ sent'.unmarked = sent.unmarked
       /\ sent'.crossed = sent.crossed /\ sent'.deaths = sent.deaths
          /\ sent'.overlaps = sent.overlaps + 1
      BY <1>11, <2>2, <3>1
    <3> QED BY <3>1, <3>2
  <2> QED BY <1>12, <2>1, <2>2
<1>14. NotificationTypeOK' BY <1>0, <1>1, <1>8, <1>13 DEF NotificationTypeOK
<1>15. \A c \in Batches, d \in Items : Holds(c, d)' <=> Holds(c, d) BY <1>8, <1>9, SameClaims DEF Holds
<1>16. BatchesShaped'
  <2>1. BatchShape(b)' BY <1>8 DEF BatchShape
  <2> QED BY <1>8, <2>1, SameShape DEF NotificationInv, BatchesShaped
<1>17. StaleIsFree' BY <1>1, <1>8 DEF NotificationInv, StaleIsFree, Status, SameBatch
<1>18. \A d \in Items : Orphan(d)' <=> Orphan(d) BY <1>1, <1>15 DEF Orphan, Status
<1>19. OrphansOfDeaths' BY <1>13, <1>18 DEF NotificationInv, OrphansOfDeaths
<1>20. AliveAreOverlaps'
  <2>1. CASE \A c \in Batches : batch[c] = NoBatch
    <3>1. Alive' \subseteq {b} BY <1>8, <2>1, NoBatchType DEF Alive, SameBatch
    <3>2. IsFiniteSet({b}) /\ Cardinality({b}) = 1 BY FS_Singleton
    <3>3. IsFiniteSet(Alive') /\ Cardinality(Alive') <= 1 BY <3>1, <3>2, FS_Subset
    <3>4. Cardinality(Alive') \in Nat /\ sent'.overlaps \in Nat BY <1>14, <3>3, FS_CardinalityType, AfterFields
    <3> QED BY <3>3, <3>4 DEF AliveAreOverlaps
  <2>2. CASE sent'.overlaps = sent.overlaps + 1
    <3>1. Alive' \subseteq Alive \cup {b} /\ Alive \subseteq Batches /\ b \notin Alive BY <1>8, <1>9 DEF Alive, SameBatch
    <3>2. IsFiniteSet(Alive) BY <3>1, NotificationNumbers, FS_Subset
    <3>3. IsFiniteSet(Alive \cup {b}) /\ Cardinality(Alive \cup {b}) = Cardinality(Alive) + 1 /\ Cardinality(Alive) \in Nat
      BY <3>1, <3>2, FS_AddElement, FS_CardinalityType
    <3>4. IsFiniteSet(Alive') /\ Cardinality(Alive') <= Cardinality(Alive) + 1 BY <3>1, <3>3, FS_Subset
    <3>5. Cardinality(Alive') \in Nat BY <3>4, FS_CardinalityType
    <3>6. Cardinality(Alive) <= sent.overlaps + 1 BY DEF NotificationInv, AliveAreOverlaps
    <3>7. Cardinality(Alive') <= sent'.overlaps + 1 BY <1>10, <2>2, <3>3, <3>4, <3>5, <3>6
    <3> QED BY <3>7 DEF AliveAreOverlaps
  <2> QED BY <1>13, <2>1, <2>2
<1>21. sent'.overlaps \in Nat /\ sent.overlaps <= sent'.overlaps BY <1>10, <1>13
<1>22. AttemptsLeft'
  <2> SUFFICES ASSUME NEW d \in Items
               PROVE  /\ delivery[d].attempts <= MaxSends + sent.again[d] + sent'.overlaps
                      /\ delivery[d].status = "queued" => delivery[d].attempts + 1 <= MaxSends + sent.again[d] + sent'.overlaps
    BY <1>1, <1>13 DEF AttemptsLeft, Status
  <2>1. /\ delivery[d].attempts <= MaxSends + sent.again[d] + sent.overlaps
        /\ delivery[d].status = "queued" => delivery[d].attempts + 1 <= MaxSends + sent.again[d] + sent.overlaps
    BY DEF NotificationInv, AttemptsLeft, Status
  <2>2. delivery[d].attempts \in Nat /\ sent.again[d] \in Nat BY <1>0, RowFields, SentFields
  <2> QED BY <1>10, <1>21, <2>1, <2>2, NotificationNumbers
<1>23. LagsBounded'
  <2> SUFFICES ASSUME NEW c \in Batches, NEW d \in Items
               PROVE  /\ Takes(c, d)' => Lags(c, d, 0)'
                      /\ batch'[c].step = "claim" /\ d \in batch'[c].now => Lags(c, d, 0)'
                      /\ Holds(c, d)' => Lags(c, d, 1)'
    BY DEF LagsBounded, LagOf
  <2>1. CASE c = b BY <1>8, <2>1 DEF Takes, Holds
  <2>2. CASE c # b /\ \A a \in Batches : batch[a] = NoBatch
    <3>1. batch'[c].step = "idle" BY <1>8, <2>2, NoBatchType DEF SameBatch
    <3> QED BY <3>1 DEF Takes, Holds
  <2>3. CASE c # b /\ sent'.overlaps = sent.overlaps + 1
    <3>1. SameBatch(c) BY <1>8, <2>3
    <3>2. Claimants(c, d)' \subseteq Claimants(c, d) \cup {b} /\ b \notin Claimants(c, d)
      BY <1>8, <1>9, SameClaims DEF Claimants, MayClaim
    <3>3. IsFiniteSet(Claimants(c, d)) /\ Cardinality(Claimants(c, d)) \in Nat /\ Cardinality(Claimants(c, d)') \in Nat BY ClaimantsFinite
    <3>4. IsFiniteSet(Claimants(c, d) \cup {b}) /\ Cardinality(Claimants(c, d) \cup {b}) = Cardinality(Claimants(c, d)) + 1
      BY <3>2, <3>3, FS_AddElement
    <3>5. Cardinality(Claimants(c, d)') <= Cardinality(Claimants(c, d)) + 1 BY <3>2, <3>4, FS_Subset
    <3>6. delivery[d].attempts \in Nat /\ batch[c].saw[d] \in Nat BY <1>0, RowFields, BatchFields
    <3>7. batch'[c].saw[d] = batch[c].saw[d] BY <3>1 DEF SameBatch
    <3>8. Lags(c, d, 0) => Lags(c, d, 0)' BY <1>1, <1>10, <2>3, <3>3, <3>5, <3>6, <3>7 DEF Lags
    <3>9. Lags(c, d, 1) => Lags(c, d, 1)' BY <1>1, <1>10, <2>3, <3>3, <3>5, <3>6, <3>7 DEF Lags
    <3>10. /\ Takes(c, d)' => Takes(c, d)
           /\ batch'[c].step = "claim" /\ d \in batch'[c].now => batch[c].step = "claim" /\ d \in batch[c].now
      BY <3>1, SameClaims DEF SameBatch
    <3>11. /\ Takes(c, d) => Lags(c, d, 0)
           /\ batch[c].step = "claim" /\ d \in batch[c].now => Lags(c, d, 0)
           /\ Holds(c, d) => Lags(c, d, 1)
      BY DEF NotificationInv, LagsBounded, LagOf
    <3> QED BY <1>15, <3>8, <3>9, <3>10, <3>11
  <2> QED BY <1>13, <2>1, <2>2, <2>3
<1>24. HeldAlone' BY <1>1, <1>13, <1>15 DEF NotificationInv, HeldAlone, Status
<1>25. CopiesCounted' BY <1>1, <1>13, <1>18 DEF NotificationInv, CopiesCounted, Owed, Status
<1> QED BY <1>14, <1>16, <1>17, <1>19, <1>20, <1>22, <1>23, <1>24, <1>25 DEF NotificationInv
\* Interrupted rows are queued again, and a batch reads what is due.
LEMMA BatchReadInv ==
  ASSUME NotificationInv, NEW b \in Batches, BatchRead(b)
  PROVE  NotificationInv'
<1>0. NotificationTypeOK BY DEF NotificationInv
<1>1. PICK back : back = Interrupted OBVIOUS
<1>2. PICK rows : rows = [d \in Items |-> IF d \in back THEN [delivery[d] EXCEPT !.status = "queued", !.due = TRUE, !.stale = FALSE] ELSE delivery[d]] OBVIOUS
<1>3. PICK todo : todo = {d \in Items : rows[d].status = "queued" /\ rows[d].due} OBVIOUS
<1>4. PICK clock : clock = {d \in Items : rows[d].status \in {"queued", "sending"} /\ rows[d].due} OBVIOUS
<1>5. PICK begun : begun = IF todo = {} THEN NoBatch
                 ELSE [batch[b] EXCEPT !.step = "take", !.todo = todo, !.prefs = prefs, !.clock = clock,
                       !.saw = [d \in Items |-> IF d \in todo THEN delivery[d].attempts ELSE 0]]
  OBVIOUS
<1>6. PICK again : again = [d \in Items |-> IF d \in back THEN sent.again[d] + 1 ELSE sent.again[d]] OBVIOUS
<1>7. batch[b].step = "read" /\ delivery' = rows /\ Reschedules(b, begun, back) /\ prefs' = prefs
  BY <1>1, <1>2, <1>3, <1>4, <1>5 DEF BatchRead
<1>8. sent' = [sent EXCEPT !.again = [d \in Items |-> IF d \in back THEN @[d] + 1 ELSE @[d]]] BY <1>1 DEF BatchRead
<1>9. sent' = [sent EXCEPT !.again = again] BY <1>6, <1>8
<1>10. back \in SUBSET Items /\ \A d \in back : delivery[d].status = "sending" /\ delivery[d].stale BY <1>1 DEF Interrupted, Status
<1>11. ASSUME NEW d \in back
       PROVE  delivery'[d] \in Delivery /\ delivery'[d].status = "queued" /\ delivery'[d].stale = FALSE /\ delivery'[d].attempts = delivery[d].attempts
  <2>1. PICK x : x = [delivery[d] EXCEPT !.status = "queued", !.due = TRUE, !.stale = FALSE] OBVIOUS
  <2>2. delivery[d] \in Delivery BY <1>0, <1>10, RowFields
  <2>3. x \in Delivery /\ x.status = "queued" /\ x.stale = FALSE /\ x.attempts = delivery[d].attempts BY <2>1, <2>2 DEF Delivery
  <2>4. delivery'[d] = x BY <1>2, <1>7, <1>10, <2>1
  <2> QED BY <2>3, <2>4
<1>12. \A d \in Items \ back : delivery'[d] = delivery[d] /\ delivery'[d] \in Delivery BY <1>0, <1>2, <1>7, RowFields
<1>13. \A d \in Items : delivery'[d].attempts = delivery[d].attempts BY <1>11, <1>12
<1>14. delivery' \in [Items -> Delivery]
  <2>1. \A d \in Items : delivery'[d] \in Delivery BY <1>11, <1>12
  <2>2. delivery' = [d \in Items |-> delivery'[d]] BY <1>2, <1>7
  <2> QED BY <2>1, <2>2
<1>15. batch[b].now = {} BY <1>7 DEF NotificationInv, BatchesShaped, BatchShape
<1>16. todo \in SUBSET Items /\ clock \in SUBSET Items BY <1>3, <1>4
<1>17. /\ begun \in Batch /\ begun.now = {} /\ begun.step \in {"idle", "take"}
       /\ begun.step = "take" => begun.todo = todo /\ \A d \in todo : begun.saw[d] = delivery[d].attempts
  <2>1. PICK saw : saw = [d \in Items |-> IF d \in todo THEN delivery[d].attempts ELSE 0] OBVIOUS
  <2>2. todo = {} => begun = NoBatch BY <1>5
  <2>3. todo # {} => begun = [batch[b] EXCEPT !.step = "take", !.todo = todo, !.prefs = prefs, !.clock = clock, !.saw = saw] BY <1>5, <2>1
  <2>4. saw \in [Items -> TriesRange] /\ \A d \in todo : saw[d] = delivery[d].attempts BY <1>0, <1>16, <2>1, RowFields, NotificationNumbers
  <2>5. /\ begun \in Batch /\ begun.now = {} /\ begun.step \in {"idle", "take"}
        /\ begun.step = "take" => begun.todo = todo /\ begun.saw = saw
    <3>1. CASE todo = {} BY <2>2, <3>1, NoBatchType
    <3>2. CASE todo # {}
      <4>1. batch[b] \in Batch /\ prefs \in Prefs BY <1>0, BatchFields DEF NotificationTypeOK
      <4>2. begun = [batch[b] EXCEPT !.step = "take", !.todo = todo, !.prefs = prefs, !.clock = clock, !.saw = saw] BY <2>3, <3>2
      <4> QED BY <1>15, <1>16, <2>4, <4>1, <4>2 DEF Batch, TriesRange
    <3> QED BY <3>1, <3>2
  <2> QED BY <2>4, <2>5
<1>18. Becomes(b, begun) BY <1>0, <1>7, <1>10, <1>17, ReschedulesBatch
<1>19. /\ batch' \in [Batches -> Batch] /\ batch'[b].now = {} /\ batch'[b].step \in {"idle", "take"}
       /\ \A c \in Batches \ {b} : SameBatch(c)
  BY <1>17, <1>18 DEF Becomes
<1>20. batch'[b].step = "take" => \A d \in batch'[b].todo : batch'[b].saw[d] = delivery[d].attempts BY <1>17, <1>18 DEF Becomes
<1>21. /\ sent' \in [copies : [Items -> Nat], again : [Items -> Nat], unmarked : [Items -> Nat], crossed : SUBSET Items,
                     prefs : 0 .. MaxPrefs, overlaps : 0 .. MaxLost, deaths : 0 .. MaxLost]
       /\ sent'.copies = sent.copies /\ sent'.again = again /\ sent'.unmarked = sent.unmarked
       /\ sent'.crossed = sent.crossed /\ sent'.deaths = sent.deaths
       /\ sent'.overlaps = sent.overlaps
  <2>1. sent \in [copies : [Items -> Nat], again : [Items -> Nat], unmarked : [Items -> Nat], crossed : SUBSET Items,
                  prefs : 0 .. MaxPrefs, overlaps : 0 .. MaxLost, deaths : 0 .. MaxLost]
    BY <1>0 DEF NotificationTypeOK
  <2>2. again \in [Items -> Nat] BY <1>0, <1>6, SentFields
  <2> QED BY <1>9, <2>1, <2>2
<1>22. NotificationTypeOK' BY <1>0, <1>7, <1>14, <1>19, <1>21 DEF NotificationTypeOK
<1>23. /\ \A d \in back : sent'.again[d] = sent.again[d] + 1
       /\ \A d \in Items \ back : sent'.again[d] = sent.again[d]
  BY <1>6, <1>10, <1>21
<1>24. \A c \in Batches, d \in Items : Holds(c, d)' <=> Holds(c, d) BY <1>7, <1>19, SameClaims DEF Holds
<1>25. \A d \in back, c \in Batches : ~Holds(c, d) BY <1>10 DEF NotificationInv, StaleIsFree, Holds
<1>26. BatchesShaped'
  <2>1. BatchShape(b)' BY <1>19 DEF BatchShape
  <2> QED BY <1>19, <2>1, SameShape DEF NotificationInv, BatchesShaped
<1>27. StaleIsFree'
  <2>1. \A d \in Items : delivery[d].stale => d \in back BY <1>1 DEF NotificationInv, StaleIsFree, Interrupted
  <2>2. \A d \in Items : ~delivery'[d].stale BY <1>11, <1>12, <2>1
  <2> QED BY <2>2 DEF StaleIsFree
<1>28. \A d \in back : Orphan(d) /\ ~Orphan(d)' BY <1>10, <1>11, <1>25 DEF Orphan, Status
<1>29. \A d \in Items \ back : Orphan(d)' <=> Orphan(d) BY <1>12, <1>24 DEF Orphan, Status
<1>30. \A d \in Items : sent.copies[d] \in Nat /\ sent.again[d] \in Nat /\ sent.unmarked[d] \in Nat /\ Owed(d) \in Nat
  BY <1>0, SentFields
<1>31. OrphansOfDeaths'
  <2>1. ASSUME NEW d \in Items PROVE sent'.again[d] <= sent.deaths /\ (Orphan(d)' => sent'.again[d] + 1 <= sent.deaths)
    <3>1. sent.again[d] <= sent.deaths /\ (Orphan(d) => sent.again[d] + 1 <= sent.deaths) BY DEF NotificationInv, OrphansOfDeaths
    <3>2. CASE d \in back BY <1>23, <1>28, <3>1, <3>2
    <3>3. CASE d \notin back BY <1>23, <1>29, <3>1, <3>3
    <3> QED BY <3>2, <3>3
  <2> QED BY <1>21, <2>1 DEF NotificationInv, OrphansOfDeaths
<1>32. AliveAreOverlaps' BY <1>0, <1>7, <1>19, <1>21, AliveShrinks DEF NotificationInv, SameBatch
<1>33. AttemptsLeft'
  <2> SUFFICES ASSUME NEW d \in Items
               PROVE  /\ delivery'[d].attempts <= MaxSends + sent'.again[d] + sent.overlaps
                      /\ delivery'[d].status = "queued" => delivery'[d].attempts + 1 <= MaxSends + sent'.again[d] + sent.overlaps
    BY <1>21 DEF AttemptsLeft, Status
  <2>1. /\ delivery[d].attempts <= MaxSends + sent.again[d] + sent.overlaps
        /\ delivery[d].status = "queued" => delivery[d].attempts + 1 <= MaxSends + sent.again[d] + sent.overlaps
    BY DEF NotificationInv, AttemptsLeft, Status
  <2>2. delivery[d].attempts \in Nat /\ sent.overlaps \in Nat BY <1>0, RowFields, SentFields
  <2>3. CASE d \in back BY <1>13, <1>23, <1>30, <2>1, <2>2, <2>3, NotificationNumbers
  <2>4. CASE d \notin back BY <1>12, <1>23, <2>1, <2>4
  <2> QED BY <2>3, <2>4
<1>34. LagsBounded'
  <2>1. ASSUME NEW c \in Batches \ {b} PROVE LagOf(c)'
    <3>1. \A d \in Items : MayClaim(b, d)' => MayClaim(b, d) BY <1>7 DEF MayClaim
    <3>2. PICK S : S = {} OBVIOUS
    <3>3. /\ S \in SUBSET Items /\ \A d \in S : MayClaim(b, d) /\ ~MayClaim(b, d)' /\ delivery'[d].attempts = delivery[d].attempts + 1
          /\ \A d \in Items \ S : delivery'[d].attempts = delivery[d].attempts
      BY <1>13, <3>2
    <3> QED BY <1>19, <1>21, <1>22, <3>1, <3>3, LagOfOthers
  <2>2. LagOf(b)'
    <3> SUFFICES ASSUME NEW d \in Items, Takes(b, d)' PROVE Lags(b, d, 0)'
      BY <1>19 DEF LagOf, Holds
    <3>1. batch'[b].step = "take" /\ d \in batch'[b].todo BY <1>19 DEF Takes
    <3>2. batch'[b].saw[d] = delivery'[d].attempts BY <1>13, <1>20, <3>1
    <3> QED BY <1>22, <1>32, <3>1, <3>2, LagFresh
  <2> QED BY <2>1, <2>2 DEF LagsBounded
<1>35. HeldAlone'
  <2> SUFFICES ASSUME NEW d \in Items \ sent.crossed
               PROVE  /\ \A a, c \in Batches : Holds(a, d)' /\ Holds(c, d)' => a = c
                      /\ (\E a \in Batches : Holds(a, d)') => delivery'[d].status = "sending"
    BY <1>21 DEF HeldAlone, Status
  <2>1. /\ \A a, c \in Batches : Holds(a, d) /\ Holds(c, d) => a = c
        /\ (\E a \in Batches : Holds(a, d)) => delivery[d].status = "sending"
    BY DEF NotificationInv, HeldAlone, Status
  <2> QED BY <1>12, <1>24, <1>25, <2>1
<1>36. CopiesCounted'
  <2> SUFFICES ASSUME NEW d \in Items \ sent.crossed
               PROVE  /\ sent.copies[d] <= Owed(d)' + 1
                      /\ delivery'[d].status # "sent" /\ ~Orphan(d)' => sent.copies[d] <= Owed(d)'
    BY <1>21 DEF CopiesCounted, Status
  <2>1. /\ sent.copies[d] <= Owed(d) + 1
        /\ delivery[d].status # "sent" /\ ~Orphan(d) => sent.copies[d] <= Owed(d)
    BY DEF NotificationInv, CopiesCounted, Status
  <2>2. CASE d \in back
    <3>1. Owed(d)' = Owed(d) + 1 BY <1>21, <1>23, <1>30, <2>2 DEF Owed
    <3> QED BY <1>30, <2>1, <3>1
  <2>3. CASE d \notin back
    <3>1. Owed(d)' = Owed(d) BY <1>21, <1>23, <2>3 DEF Owed
    <3> QED BY <1>12, <1>29, <2>1, <2>3, <3>1
  <2> QED BY <2>2, <2>3
<1> QED BY <1>22, <1>26, <1>27, <1>31, <1>32, <1>33, <1>34, <1>35, <1>36 DEF NotificationInv
\* Row d went out or not; that it did is recorded, or could not be.
GoesOut(d) ==
  \/ sent'.copies[d] = sent.copies[d] /\ sent'.unmarked[d] = sent.unmarked[d]
  \/ sent'.copies[d] = sent.copies[d] + 1 /\ sent'.unmarked[d] = sent.unmarked[d] /\ delivery'[d].status = "sent"
  \/ sent'.copies[d] = sent.copies[d] + 1 /\ sent'.unmarked[d] = sent.unmarked[d] + 1

\* The provider has answered: batch b lets go of its rows.
LEMMA LetsGoInv ==
  ASSUME NotificationInv, NotificationTypeOK', NEW b \in Batches, batch[b].step \in {"send", "mail"}, Becomes(b, Rest(b, batch[b].todo)),
         sent'.again = sent.again, sent'.overlaps = sent.overlaps, sent'.deaths = sent.deaths, sent'.crossed = sent.crossed,
         \A d \in Items : delivery'[d].attempts = delivery[d].attempts,
         \A d \in Items \ batch[b].now : delivery'[d] = delivery[d] /\ sent'.copies[d] = sent.copies[d] /\ sent'.unmarked[d] = sent.unmarked[d],
         \A d \in batch[b].now : /\ delivery'[d].status # "sending"
                                 /\ delivery'[d].stale => delivery[d].stale
                                 /\ delivery'[d].status = "queued" => delivery[d].status = "queued" \/ ~GivesUp(batch[b].saw[d] + 1),
         \A d \in batch[b].now \ sent.crossed : GoesOut(d)
  PROVE  NotificationInv'
<1>0. NotificationTypeOK BY DEF NotificationInv
<1>1. PICK r : r = Rest(b, batch[b].todo) OBVIOUS
<1>2. PICK todo : todo = batch[b].todo OBVIOUS
<1>3. todo \in SUBSET batch[b].todo /\ r = Rest(b, todo) BY <1>1, <1>2
<1>4. /\ r \in Batch /\ r.now = {} /\ r.step \in {"idle", "take"}
      /\ r.step = "take" => /\ r.todo = todo /\ r.prefs = batch[b].prefs /\ r.digested = batch[b].digested
                            /\ \A d \in todo : r.saw[d] = batch[b].saw[d]
  BY <1>0, <1>3, RestOf
<1>5. Becomes(b, r) BY <1>1
<1>6. /\ batch'[b].now = {} /\ batch'[b].step \in {"idle", "take"} /\ \A c \in Batches \ {b} : SameBatch(c)
      /\ batch'[b].step = "take" => /\ batch'[b].todo = batch[b].todo /\ batch'[b].prefs = batch[b].prefs
                                    /\ batch'[b].digested = batch[b].digested
                                    /\ \A d \in batch[b].todo : batch'[b].saw[d] = batch[b].saw[d]
  BY <1>2, <1>4, <1>5 DEF Becomes
<1>7. batch[b].now \subseteq Items /\ batch[b].todo \subseteq Items BY <1>0, BatchFields
<1>8. /\ \A c \in Batches \ {b}, d \in Items : Holds(c, d)' <=> Holds(c, d)
      /\ \A d \in Items : ~Holds(b, d)'
      /\ \A d \in Items : Holds(b, d) <=> d \in batch[b].now
  BY <1>6, SameClaims DEF Holds
<1>9. BatchesShaped'
  <2>1. BatchShape(b)' BY <1>6 DEF BatchShape
  <2> QED BY <1>6, <2>1, SameShape DEF NotificationInv, BatchesShaped
<1>10. StaleIsFree'
  <2> SUFFICES ASSUME NEW d \in Items, delivery'[d].stale
               PROVE  delivery'[d].status = "sending" /\ \A c \in Batches : d \notin batch'[c].now
    BY DEF StaleIsFree, Status
  <2>1. delivery[d].stale OBVIOUS
  <2>2. delivery[d].status = "sending" /\ \A c \in Batches : d \notin batch[c].now BY <2>1 DEF NotificationInv, StaleIsFree, Status
  <2> QED BY <1>6, <2>2 DEF SameBatch
<1>11. \A d \in Items \ batch[b].now : Orphan(d)' <=> Orphan(d) BY <1>8 DEF Orphan, Status
<1>12. \A d \in batch[b].now : ~Orphan(d)' /\ ~Orphan(d) BY <1>7, <1>8 DEF Orphan, Status
<1>13. OrphansOfDeaths' BY <1>11, <1>12 DEF NotificationInv, OrphansOfDeaths
<1>14. AliveAreOverlaps' BY <1>0, <1>6, AliveShrinks DEF NotificationInv, SameBatch
<1>15. AttemptsLeft'
  <2> SUFFICES ASSUME NEW d \in Items
               PROVE  /\ delivery[d].attempts <= MaxSends + sent.again[d] + sent.overlaps
                      /\ delivery'[d].status = "queued" => delivery[d].attempts + 1 <= MaxSends + sent.again[d] + sent.overlaps
    BY DEF AttemptsLeft, Status
  <2>1. /\ delivery[d].attempts <= MaxSends + sent.again[d] + sent.overlaps
        /\ delivery[d].status = "queued" => delivery[d].attempts + 1 <= MaxSends + sent.again[d] + sent.overlaps
    BY DEF NotificationInv, AttemptsLeft, Status
  <2>2. ASSUME d \in batch[b].now, delivery'[d].status = "queued", delivery[d].status # "queued"
        PROVE  delivery[d].attempts + 1 <= MaxSends + sent.again[d] + sent.overlaps
    <3>1. Lags(b, d, 1) BY <1>8, <2>2 DEF NotificationInv, LagsBounded, LagOf
    <3>2. /\ Cardinality(Claimants(b, d)) \in Nat /\ delivery[d].attempts \in Nat /\ batch[b].saw[d] \in Nat
          /\ sent.again[d] \in Nat /\ sent.overlaps \in Nat
      BY <1>0, ClaimantsFinite, RowFields, BatchFields, SentFields
    <3>3. ~(batch[b].saw[d] + 1 >= MaxSends) BY <2>2 DEF GivesUp
    <3> QED BY <3>1, <3>2, <3>3, NotificationNumbers DEF Lags
  <2> QED BY <2>1, <2>2
<1>16. LagsBounded'
  <2>1. \A d \in Items : (MayClaim(b, d)' => MayClaim(b, d)) /\ (Takes(b, d)' => Takes(b, d)) BY <1>6 DEF MayClaim, Takes, Digests
  <2>2. ASSUME NEW c \in Batches \ {b} PROVE LagOf(c)'
    <3>1. PICK S : S = {} OBVIOUS
    <3>2. /\ S \in SUBSET Items /\ \A d \in S : MayClaim(b, d) /\ ~MayClaim(b, d)' /\ delivery'[d].attempts = delivery[d].attempts + 1
          /\ \A d \in Items \ S : delivery'[d].attempts = delivery[d].attempts
      BY <3>1
    <3> QED BY <1>6, <2>1, <3>2, LagOfOthers
  <2>3. LagOf(b)'
    <3> SUFFICES ASSUME NEW d \in Items, Takes(b, d)' PROVE Lags(b, d, 0)'
      BY <1>6 DEF LagOf, Holds
    <3>1. Lags(b, d, 0) BY <2>1 DEF NotificationInv, LagsBounded, LagOf
    <3>2. batch'[b].saw[d] = batch[b].saw[d] BY <1>6 DEF Takes
    <3>3. delivery'[d].attempts <= delivery[d].attempts BY <1>0, RowFields
    <3> QED BY <1>6, <3>1, <3>2, <3>3, LagOfSelf
  <2> QED BY <2>2, <2>3 DEF LagsBounded
<1>17. HeldAlone'
  <2> SUFFICES ASSUME NEW d \in Items \ sent.crossed
               PROVE  /\ \A a, c \in Batches : Holds(a, d)' /\ Holds(c, d)' => a = c
                      /\ (\E a \in Batches : Holds(a, d)') => delivery'[d].status = "sending"
    BY DEF HeldAlone, Status
  <2>1. /\ \A a, c \in Batches : Holds(a, d) /\ Holds(c, d) => a = c
        /\ (\E a \in Batches : Holds(a, d)) => delivery[d].status = "sending"
    BY DEF NotificationInv, HeldAlone, Status
  <2>2. CASE d \in batch[b].now BY <1>8, <2>1, <2>2
  <2>3. CASE d \notin batch[b].now BY <1>8, <2>1, <2>3
  <2> QED BY <2>2, <2>3
<1>18. CopiesCounted'
  <2> SUFFICES ASSUME NEW d \in Items \ sent.crossed
               PROVE  /\ sent'.copies[d] <= Owed(d)' + 1
                      /\ delivery'[d].status # "sent" /\ ~Orphan(d)' => sent'.copies[d] <= Owed(d)'
    BY DEF CopiesCounted, Status
  <2>1. /\ sent.copies[d] <= Owed(d) + 1
        /\ delivery[d].status # "sent" /\ ~Orphan(d) => sent.copies[d] <= Owed(d)
    BY DEF NotificationInv, CopiesCounted, Status
  <2>2. CASE d \in batch[b].now
    <3>1. delivery[d].status = "sending" BY <1>8, <2>2 DEF NotificationInv, HeldAlone, Status
    <3>2. sent.copies[d] <= Owed(d) BY <1>12, <2>1, <2>2, <3>1
    <3>3. sent.copies[d] \in Nat /\ sent.again[d] \in Nat /\ sent.unmarked[d] \in Nat BY <1>0, SentFields
    <3>4. GoesOut(d) BY <2>2
    <3> QED BY <3>2, <3>3, <3>4 DEF Owed, GoesOut
  <2>3. CASE d \notin batch[b].now
    <3>1. Owed(d)' = Owed(d) BY <2>3 DEF Owed
    <3> QED BY <1>11, <2>1, <2>3, <3>1
  <2> QED BY <2>2, <2>3
<1> QED BY <1>9, <1>10, <1>13, <1>14, <1>15, <1>16, <1>17, <1>18 DEF NotificationInv

LEMMA SendOneInv ==
  ASSUME NotificationInv, NEW b \in Batches, NEW outcome \in {"sent", "retry", "permanent", "unmarked"}, SendOne(b, outcome)
  PROVE  NotificationInv'
<1>0. NotificationTypeOK BY DEF NotificationInv
<1>1. PICK d \in batch[b].now :
        /\ batch[b].step = "send"
        /\ delivery' = [delivery EXCEPT
             ![d].status = IF outcome = "sent" THEN "sent"
                           ELSE IF outcome = "permanent" \/ GivesUp(batch[b].saw[d] + 1) THEN "failed" ELSE "queued",
             ![d].due = FALSE, ![d].stale = FALSE]
        /\ sent' = [sent EXCEPT !.copies[d] = IF outcome \in {"sent", "unmarked"} THEN @ + 1 ELSE @,
                                !.unmarked[d] = IF outcome = "unmarked" THEN @ + 1 ELSE @]
        /\ PutsOff(b, Continued(b), IF outcome = "sent" THEN {} ELSE {d})
        /\ UNCHANGED prefs
  BY DEF SendOne
<1>2. d \in Items /\ batch[b].now = {d}
  <2>1. batch[b].now \subseteq Items BY <1>0, BatchFields
  <2>2. \A x, y \in batch[b].now : x = y BY <1>1 DEF NotificationInv, BatchesShaped, BatchShape
  <2> QED BY <2>1, <2>2
<1>3. delivery \in [Items -> Delivery] /\ delivery[d] \in Delivery BY <1>0, <1>2, RowFields DEF NotificationTypeOK
<1>4. PICK s : s = IF outcome = "sent" THEN "sent" ELSE IF outcome = "permanent" \/ GivesUp(batch[b].saw[d] + 1) THEN "failed" ELSE "queued"
  OBVIOUS
<1>5. PICK x : x = [delivery[d] EXCEPT !.status = s, !.due = FALSE, !.stale = FALSE] OBVIOUS
<1>6. s \in {"sent", "failed", "queued"} /\ (s = "sent" <=> outcome = "sent") /\ (s = "queued" => ~GivesUp(batch[b].saw[d] + 1)) BY <1>4
<1>7. x \in Delivery /\ x.status = s /\ x.stale = FALSE /\ x.attempts = delivery[d].attempts BY <1>3, <1>5, <1>6 DEF Delivery
<1>8. delivery' = [delivery EXCEPT ![d] = x] BY <1>1, <1>3, <1>4, <1>5
<1>9. delivery' \in [Items -> Delivery] /\ delivery'[d] = x /\ \A y \in Items \ {d} : delivery'[y] = delivery[y] BY <1>2, <1>3, <1>7, <1>8
<1>10. sent \in [copies : [Items -> Nat], again : [Items -> Nat], unmarked : [Items -> Nat], crossed : SUBSET Items,
                 prefs : 0 .. MaxPrefs, overlaps : 0 .. MaxLost, deaths : 0 .. MaxLost]
  BY <1>0 DEF NotificationTypeOK
<1>11. PICK n, m : /\ n = IF outcome \in {"sent", "unmarked"} THEN sent.copies[d] + 1 ELSE sent.copies[d]
                   /\ m = IF outcome = "unmarked" THEN sent.unmarked[d] + 1 ELSE sent.unmarked[d]
  OBVIOUS
<1>12. sent.copies \in [Items -> Nat] /\ n \in Nat /\ sent.unmarked \in [Items -> Nat] /\ m \in Nat BY <1>0, <1>2, <1>11, SentFields
<1>13. PICK copies, unmarked : copies = [sent.copies EXCEPT ![d] = n] /\ unmarked = [sent.unmarked EXCEPT ![d] = m] OBVIOUS
<1>14. /\ copies \in [Items -> Nat] /\ copies[d] = n /\ unmarked \in [Items -> Nat] /\ unmarked[d] = m
       /\ \A y \in Items \ {d} : copies[y] = sent.copies[y] /\ unmarked[y] = sent.unmarked[y]
  BY <1>2, <1>12, <1>13
<1>15. sent' = [sent EXCEPT !.copies = copies, !.unmarked = unmarked] BY <1>1, <1>10, <1>11, <1>12, <1>13
<1>16. /\ sent' \in [copies : [Items -> Nat], again : [Items -> Nat], unmarked : [Items -> Nat], crossed : SUBSET Items,
                     prefs : 0 .. MaxPrefs, overlaps : 0 .. MaxLost, deaths : 0 .. MaxLost]
       /\ sent'.copies = copies /\ sent'.unmarked = unmarked /\ sent'.again = sent.again /\ sent'.crossed = sent.crossed
       /\ sent'.overlaps = sent.overlaps /\ sent'.deaths = sent.deaths
  BY <1>10, <1>14, <1>15
<1>17. Becomes(b, Rest(b, batch[b].todo))
  <2>1. PICK S : S = IF outcome = "sent" THEN {} ELSE {d} OBVIOUS
  <2>2. PICK todo : todo = batch[b].todo OBVIOUS
  <2>3. PICK r : r = Rest(b, todo) OBVIOUS
  <2>4. todo \in SUBSET batch[b].todo /\ S \in SUBSET Items BY <1>2, <2>1, <2>2
  <2>5. r \in Batch BY <1>0, <2>3, <2>4, RestOf
  <2>6. PutsOff(b, r, S) BY <1>1, <2>1, <2>2, <2>3 DEF Continued
  <2>7. Becomes(b, r) BY <1>0, <2>4, <2>5, <2>6, PutsOffBatch
  <2> QED BY <2>2, <2>3, <2>7
<1>18. NotificationTypeOK' BY <1>0, <1>1, <1>9, <1>16, <1>17 DEF NotificationTypeOK, Becomes
<1>19. \A y \in Items : delivery'[y].attempts = delivery[y].attempts BY <1>7, <1>9
<1>20. \A y \in Items \ batch[b].now :
         delivery'[y] = delivery[y] /\ sent'.copies[y] = sent.copies[y] /\ sent'.unmarked[y] = sent.unmarked[y]
  BY <1>2, <1>9, <1>14, <1>16
<1>21. \A y \in batch[b].now : /\ delivery'[y].status # "sending"
                               /\ delivery'[y].stale => delivery[y].stale
                               /\ delivery'[y].status = "queued" => delivery[y].status = "queued" \/ ~GivesUp(batch[b].saw[y] + 1)
  BY <1>2, <1>6, <1>7, <1>9
<1>22. \A y \in batch[b].now \ sent.crossed : GoesOut(y)
  BY <1>2, <1>6, <1>7, <1>9, <1>11, <1>14, <1>16 DEF GoesOut
<1>23. batch[b].step \in {"send", "mail"} BY <1>1
<1> QED BY <1>16, <1>17, <1>18, <1>19, <1>20, <1>21, <1>22, <1>23, LetsGoInv

LEMMA DigestMailInv ==
  ASSUME NotificationInv, NEW b \in Batches, NEW outcome \in {"sent", "retry", "unmarked"}, DigestMail(b, outcome)
  PROVE  NotificationInv'
<1>0. NotificationTypeOK BY DEF NotificationInv
<1>1. PICK mine : mine = {d \in batch[b].now : Status(d) = "sending"} OBVIOUS
<1>2. /\ batch[b].step = "mail" /\ prefs' = prefs
      /\ PutsOff(b, Continued(b), IF outcome = "sent" THEN {} ELSE mine)
  BY <1>1 DEF DigestMail
<1>3. delivery' = [d \in Items |->
           IF d \in mine
           THEN [delivery[d] EXCEPT !.status = IF outcome = "sent" THEN "sent" ELSE IF GivesUp(batch[b].saw[d] + 1) THEN "failed" ELSE "queued",
                                    !.due = FALSE, !.stale = FALSE]
           ELSE delivery[d]]
  BY <1>1 DEF DigestMail
<1>4. PICK copies, unmarked :
        /\ copies = [d \in Items |-> IF outcome \in {"sent", "unmarked"} /\ d \in batch[b].now THEN sent.copies[d] + 1 ELSE sent.copies[d]]
        /\ unmarked = [d \in Items |-> IF outcome = "unmarked" /\ d \in mine THEN sent.unmarked[d] + 1 ELSE sent.unmarked[d]]
  OBVIOUS
<1>5. sent' = [sent EXCEPT !.copies = copies, !.unmarked = unmarked] BY <1>0, <1>1, <1>4 DEF DigestMail, NotificationTypeOK
<1>6. batch[b].now \subseteq Items /\ mine \subseteq Items /\ mine \subseteq batch[b].now BY <1>0, <1>1, BatchFields
<1>7. ASSUME NEW d \in mine
      PROVE  /\ delivery'[d] \in Delivery /\ delivery'[d].status \in {"sent", "failed", "queued"} /\ delivery'[d].stale = FALSE
             /\ delivery'[d].attempts = delivery[d].attempts /\ (outcome = "sent" => delivery'[d].status = "sent")
             /\ delivery'[d].status = "queued" => ~GivesUp(batch[b].saw[d] + 1)
  <2>1. PICK s : s = IF outcome = "sent" THEN "sent" ELSE IF GivesUp(batch[b].saw[d] + 1) THEN "failed" ELSE "queued" OBVIOUS
  <2>2. PICK x : x = [delivery[d] EXCEPT !.status = s, !.due = FALSE, !.stale = FALSE] OBVIOUS
  <2>3. s \in {"sent", "failed", "queued"} /\ (outcome = "sent" => s = "sent") /\ (s = "queued" => ~GivesUp(batch[b].saw[d] + 1)) BY <2>1
  <2>4. delivery[d] \in Delivery BY <1>0, <1>6, RowFields
  <2>5. x \in Delivery /\ x.status = s /\ x.stale = FALSE /\ x.attempts = delivery[d].attempts BY <2>2, <2>3, <2>4 DEF Delivery
  <2>6. delivery'[d] = x BY <1>3, <1>6, <2>1, <2>2
  <2> QED BY <2>3, <2>5, <2>6
<1>8. \A d \in Items \ mine : delivery'[d] = delivery[d] /\ delivery'[d] \in Delivery BY <1>0, <1>3, RowFields
<1>9. delivery' \in [Items -> Delivery]
  <2>1. \A d \in Items : delivery'[d] \in Delivery BY <1>7, <1>8
  <2>2. delivery' = [d \in Items |-> delivery'[d]] BY <1>3
  <2> QED BY <2>1, <2>2
<1>10. copies \in [Items -> Nat] /\ unmarked \in [Items -> Nat] BY <1>0, <1>4, SentFields
<1>11. /\ sent' \in [copies : [Items -> Nat], again : [Items -> Nat], unmarked : [Items -> Nat], crossed : SUBSET Items,
                     prefs : 0 .. MaxPrefs, overlaps : 0 .. MaxLost, deaths : 0 .. MaxLost]
       /\ sent'.copies = copies /\ sent'.again = sent.again /\ sent'.unmarked = unmarked
       /\ sent'.crossed = sent.crossed /\ sent'.overlaps = sent.overlaps
       /\ sent'.deaths = sent.deaths
  BY <1>0, <1>5, <1>10 DEF NotificationTypeOK
<1>12. Becomes(b, Rest(b, batch[b].todo))
  <2>1. PICK S : S = IF outcome = "sent" THEN {} ELSE mine OBVIOUS
  <2>2. PICK todo : todo = batch[b].todo OBVIOUS
  <2>3. PICK r : r = Rest(b, todo) OBVIOUS
  <2>4. todo \in SUBSET batch[b].todo /\ S \in SUBSET Items BY <1>6, <2>1, <2>2
  <2>5. r \in Batch BY <1>0, <2>3, <2>4, RestOf
  <2>6. PutsOff(b, r, S) BY <1>2, <2>1, <2>2, <2>3 DEF Continued
  <2>7. Becomes(b, r) BY <1>0, <2>4, <2>5, <2>6, PutsOffBatch
  <2> QED BY <2>2, <2>3, <2>7
<1>13. NotificationTypeOK' BY <1>0, <1>2, <1>9, <1>11, <1>12 DEF NotificationTypeOK, Becomes
<1>14. \A d \in Items : delivery'[d].attempts = delivery[d].attempts BY <1>7, <1>8
<1>15. \A d \in Items \ batch[b].now :
         delivery'[d] = delivery[d] /\ sent'.copies[d] = sent.copies[d] /\ sent'.unmarked[d] = sent.unmarked[d]
  BY <1>4, <1>6, <1>8, <1>11
<1>16. \A d \in batch[b].now : /\ delivery'[d].status # "sending"
                               /\ delivery'[d].stale => delivery[d].stale
                               /\ delivery'[d].status = "queued" => delivery[d].status = "queued" \/ ~GivesUp(batch[b].saw[d] + 1)
  <2> SUFFICES ASSUME NEW d \in batch[b].now
               PROVE  /\ delivery'[d].status # "sending"
                      /\ delivery'[d].stale => delivery[d].stale
                      /\ delivery'[d].status = "queued" => delivery[d].status = "queued" \/ ~GivesUp(batch[b].saw[d] + 1)
    OBVIOUS
  <2>1. CASE d \in mine BY <1>7, <2>1
  <2>2. CASE d \notin mine BY <1>1, <1>6, <1>8, <2>2 DEF Status
  <2> QED BY <2>1, <2>2
<1>17. ASSUME NEW d \in batch[b].now \ sent.crossed
       PROVE  GoesOut(d)
  <2>1. Holds(b, d) BY <1>2 DEF Holds
  <2>2. d \in mine BY <1>1, <1>6, <2>1 DEF NotificationInv, HeldAlone
  <2>3. sent'.copies[d] = IF outcome \in {"sent", "unmarked"} THEN sent.copies[d] + 1 ELSE sent.copies[d] BY <1>4, <1>6, <1>11
  <2>4. sent'.unmarked[d] = IF outcome = "unmarked" THEN sent.unmarked[d] + 1 ELSE sent.unmarked[d] BY <1>4, <1>6, <1>11, <2>2
  <2>5. outcome = "sent" => delivery'[d].status = "sent" BY <1>7, <2>2
  <2> QED BY <2>3, <2>4, <2>5 DEF GoesOut
<1>18. batch[b].step \in {"send", "mail"} BY <1>2
<1> QED BY <1>11, <1>12, <1>13, <1>14, <1>15, <1>16, <1>17, <1>18, LetsGoInv
LEMMA GoesOnBatch ==
  ASSUME NotificationInv, NEW b \in Batches, batch[b].step \in {"digest", "claim"},
         GoesOn(b) \/ \E S \in SUBSET Items : PutsOff(b, Continued(b), S)
  PROVE  batch' \in [Batches -> Batch] /\ \A c \in Batches : SameBatch(c) \/ QuietBatch(c)
<1>0. NotificationTypeOK BY DEF NotificationInv
<1>1. PICK todo : todo = batch[b].todo OBVIOUS
<1>2. PICK r : r = Rest(b, todo) OBVIOUS
<1>3. todo \in SUBSET batch[b].todo BY <1>1
<1>4. r \in Batch BY <1>0, <1>2, <1>3, RestOf
<1>5. Continued(b) = r BY <1>1, <1>2 DEF Continued
<1>6. Becomes(b, r)
  <2>1. CASE GoesOn(b)
    <3>1. batch' = [batch EXCEPT ![b] = r] BY <1>5, <2>1 DEF GoesOn
    <3> QED BY <1>0, <1>4, <3>1, WritesBatch
  <2>2. CASE \E S \in SUBSET Items : PutsOff(b, Continued(b), S)
    <3>1. PICK S \in SUBSET Items : PutsOff(b, r, S) BY <1>5, <2>2
    <3> QED BY <1>0, <1>4, <3>1, PutsOffBatch
  <2> QED BY <2>1, <2>2
<1>7. Becomes(b, Rest(b, todo)) BY <1>2, <1>6
<1>8. batch[b].step \in {"take", "digest", "claim"} OBVIOUS
<1>9. QuietBatch(b) BY <1>3, <1>7, <1>8, RestIsQuiet
<1> QED BY <1>6, <1>9 DEF Becomes

\* The digest has read its rows.
LEMMA DigestGathersInv ==
  ASSUME NotificationInv, NEW b \in Batches, batch[b].step = "digest", NEW rows, rows = {d \in EmailItems : Claimable(b, d)},
         batch' = [batch EXCEPT ![b].step = "claim", ![b].now = rows,
                                ![b].saw = [d \in Items |-> IF d \in rows THEN delivery[d].attempts ELSE @[d]]],
         sent' = [sent EXCEPT !.crossed = @ \cup (rows \cap UNION {batch[c].todo \cup batch[c].now : c \in Batches \ {b}})],
         UNCHANGED <<delivery, prefs>>
  PROVE  NotificationInv'
<1>0. NotificationTypeOK BY DEF NotificationInv
<1>1. rows \subseteq Items /\ rows \subseteq EmailItems /\ \A d \in rows : Status(d) = "queued" BY NotificationNumbers DEF Claimable
<1>2. batch \in [Batches -> Batch] /\ batch[b] \in Batch /\ batch[b].saw \in [Items -> TriesRange] BY <1>0, BatchFields DEF NotificationTypeOK
<1>3. PICK saw : saw = [d \in Items |-> IF d \in rows THEN delivery[d].attempts ELSE batch[b].saw[d]] OBVIOUS
<1>4. /\ saw \in [Items -> TriesRange] /\ \A d \in rows : saw[d] = delivery[d].attempts
      /\ \A d \in Items \ rows : saw[d] = batch[b].saw[d]
  BY <1>0, <1>1, <1>2, <1>3, RowFields
<1>5. PICK r : r = [batch[b] EXCEPT !.step = "claim", !.now = rows, !.saw = saw] OBVIOUS
<1>6. /\ r \in Batch /\ r.step = "claim" /\ r.now = rows /\ r.saw = saw /\ r.todo = batch[b].todo
      /\ r.digested = batch[b].digested /\ r.prefs = batch[b].prefs
  BY <1>1, <1>2, <1>4, <1>5 DEF Batch, TriesRange
<1>7. batch' = [batch EXCEPT ![b] = r] BY <1>2, <1>3, <1>5
<1>8. Becomes(b, r) BY <1>0, <1>6, <1>7, WritesBatch
<1>9. /\ batch'[b].step = "claim" /\ batch'[b].now = rows /\ batch'[b].saw = saw /\ batch'[b].todo = batch[b].todo
      /\ batch'[b].digested = batch[b].digested /\ batch'[b].prefs = batch[b].prefs
      /\ batch' \in [Batches -> Batch] /\ \A c \in Batches \ {b} : SameBatch(c)
  BY <1>6, <1>8 DEF Becomes
<1>10. batch[b].prefs.digest /\ batch[b].digested BY DEF NotificationInv, BatchesShaped, BatchShape
<1>11. BatchShape(b)' BY <1>1, <1>9, <1>10 DEF BatchShape
<1>12. ASSUME NEW d \in Items
       PROVE  /\ d \in batch'[b].now => ~delivery[d].stale
              /\ MayClaim(b, d)' => MayClaim(b, d)
              /\ Takes(b, d)' => Takes(b, d) /\ batch'[b].saw[d] = batch[b].saw[d]
              /\ d \in batch'[b].now => batch'[b].saw[d] = delivery'[d].attempts
  <2>1. delivery[d].stale => Status(d) = "sending" BY DEF NotificationInv, StaleIsFree
  <2>2. d \in batch'[b].now => ~delivery[d].stale BY <1>1, <1>9, <2>1
  <2>3. MayClaim(b, d)' => MayClaim(b, d) BY <1>9 DEF MayClaim, Digests
  <2>4. Takes(b, d)' => Takes(b, d) /\ batch'[b].saw[d] = batch[b].saw[d]  BY <1>1, <1>4, <1>9, <1>10 DEF Takes, Digests
  <2>5. d \in batch'[b].now => batch'[b].saw[d] = delivery'[d].attempts BY <1>4, <1>9
  <2> QED BY <2>2, <2>3, <2>4, <2>5
<1>13. QuietBatch(b) BY <1>9, <1>11, <1>12 DEF QuietBatch
<1>14. \A c \in Batches : SameBatch(c) \/ QuietBatch(c) BY <1>9, <1>13
<1>15. delivery' \in [Items -> Delivery] /\ \A d \in Items : QuietRow(d) BY <1>0, RowsStay
<1>16. PICK crossed : crossed = sent.crossed \cup (rows \cap UNION {batch[c].todo \cup batch[c].now : c \in Batches \ {b}}) OBVIOUS
<1>17. crossed \subseteq Items /\ sent.crossed \subseteq crossed BY <1>0, <1>1, <1>16, SentFields
<1>18. sent' = [sent EXCEPT !.crossed = crossed] BY <1>16
<1>19. /\ sent' \in [copies : [Items -> Nat], again : [Items -> Nat], unmarked : [Items -> Nat], crossed : SUBSET Items,
                     prefs : 0 .. MaxPrefs, overlaps : 0 .. MaxLost, deaths : 0 .. MaxLost]
       /\ sent'.copies = sent.copies /\ sent'.again = sent.again /\ sent'.unmarked = sent.unmarked
       /\ sent'.crossed = crossed /\ sent'.overlaps = sent.overlaps
       /\ sent'.deaths = sent.deaths
  BY <1>0, <1>17, <1>18 DEF NotificationTypeOK
<1>20. NotificationTypeOK' BY <1>0, <1>9, <1>15, <1>19 DEF NotificationTypeOK
<1> QED BY <1>14, <1>15, <1>17, <1>19, <1>20, QuietDeliveries

LEMMA DigestReadInv ==
  ASSUME NotificationInv, NEW b \in Batches, DigestRead(b)
  PROVE  NotificationInv'
<1>0. NotificationTypeOK BY DEF NotificationInv
<1>1. PICK rows : rows = {d \in EmailItems : Claimable(b, d)} OBVIOUS
<1>2. rows \in SUBSET Items BY <1>1, NotificationNumbers
<1>3. /\ batch[b].step = "digest" /\ prefs' = prefs
      /\ \/ GoesOn(b) /\ UNCHANGED <<delivery, sent>>
         \/ Set(rows, "suppressed") /\ GoesOn(b) /\ UNCHANGED sent
         \/ /\ PutsOff(b, Continued(b), rows) /\ UNCHANGED sent
            /\ delivery' = [d \in Items |-> IF d \in rows THEN [delivery[d] EXCEPT !.due = FALSE] ELSE delivery[d]]
         \/ Set(rows, "failed") /\ GoesOn(b) /\ UNCHANGED sent
         \/ /\ batch' = [batch EXCEPT ![b].step = "claim", ![b].now = rows,
                                      ![b].saw = [d \in Items |-> IF d \in rows THEN delivery[d].attempts ELSE @[d]]]
            /\ sent' = [sent EXCEPT !.crossed = @ \cup (rows \cap UNION {batch[c].todo \cup batch[c].now : c \in Batches \ {b}})]
            /\ UNCHANGED delivery
  BY <1>1 DEF DigestRead
<1>4. ASSUME GoesOn(b) \/ \E S \in SUBSET Items : PutsOff(b, Continued(b), S), UNCHANGED sent,
             delivery' \in [Items -> Delivery] /\ \A d \in Items : QuietRow(d)
      PROVE  NotificationInv'
  <2>1. batch' \in [Batches -> Batch] /\ \A c \in Batches : SameBatch(c) \/ QuietBatch(c) BY <1>3, <1>4, GoesOnBatch
  <2> QED BY <1>3, <1>4, <2>1, QuietSent
<1>5. CASE GoesOn(b) /\ UNCHANGED <<delivery, sent>>
  <2>1. delivery' \in [Items -> Delivery] /\ \A d \in Items : QuietRow(d) BY <1>0, <1>5, RowsStay
  <2> QED BY <1>4, <1>5, <2>1
<1>6. CASE Set(rows, "suppressed") /\ GoesOn(b) /\ UNCHANGED sent
  <2>1. delivery' \in [Items -> Delivery] /\ \A d \in Items : QuietRow(d) BY <1>0, <1>2, <1>6, SetRows
  <2> QED BY <1>4, <1>6, <2>1
<1>7. CASE /\ PutsOff(b, Continued(b), rows) /\ UNCHANGED sent
           /\ delivery' = [d \in Items |-> IF d \in rows THEN [delivery[d] EXCEPT !.due = FALSE] ELSE delivery[d]]
  <2>1. delivery' \in [Items -> Delivery] /\ \A d \in Items : QuietRow(d) BY <1>0, <1>2, <1>7, DueRows
  <2> QED BY <1>2, <1>4, <1>7, <2>1
<1>8. CASE Set(rows, "failed") /\ GoesOn(b) /\ UNCHANGED sent
  <2>1. delivery' \in [Items -> Delivery] /\ \A d \in Items : QuietRow(d) BY <1>0, <1>2, <1>8, SetRows
  <2> QED BY <1>4, <1>8, <2>1
<1>9. CASE /\ batch' = [batch EXCEPT ![b].step = "claim", ![b].now = rows,
                                     ![b].saw = [d \in Items |-> IF d \in rows THEN delivery[d].attempts ELSE @[d]]]
           /\ sent' = [sent EXCEPT !.crossed = @ \cup (rows \cap UNION {batch[c].todo \cup batch[c].now : c \in Batches \ {b}})]
           /\ UNCHANGED delivery
  BY <1>1, <1>3, <1>9, DigestGathersInv
<1> QED BY <1>3, <1>5, <1>6, <1>7, <1>8, <1>9
\* The digest claims the rows that are still queued.
LEMMA DigestClaimsInv ==
  ASSUME NotificationInv, NEW b \in Batches, DigestClaim(b), \E d \in batch[b].now : Status(d) = "queued"
  PROVE  NotificationInv'
<1>0. NotificationTypeOK BY DEF NotificationInv
<1>a. PICK mine : mine = {d \in batch[b].now : Status(d) = "queued"} OBVIOUS
<1>b. delivery' = [d \in Items |-> IF d \in mine THEN [delivery[d] EXCEPT !.status = "sending", !.attempts = @ + 1, !.stale = FALSE]
                                      ELSE delivery[d]]
  BY <1>a DEF DigestClaim
<1>c. batch[b].step = "claim" /\ sent' = [sent EXCEPT !.crossed = @ \cup (batch[b].now \ mine)] /\ Proceed(b, "mail") /\ prefs' = prefs
  BY <1>a DEF DigestClaim
<1>1. /\ batch[b].now \subseteq Items /\ mine \subseteq Items /\ mine \subseteq batch[b].now /\ \A d \in mine : delivery[d].status = "queued"
      /\ batch \in [Batches -> Batch] /\ batch[b] \in Batch
  BY <1>0, <1>a, BatchFields DEF NotificationTypeOK, Status
<1>2. PICK r : r = [batch[b] EXCEPT !.step = "mail"] OBVIOUS
<1>3. /\ r \in Batch /\ r.step = "mail" /\ r.todo = batch[b].todo /\ r.saw = batch[b].saw /\ r.now = batch[b].now
      /\ r.digested = batch[b].digested /\ r.prefs = batch[b].prefs
  BY <1>1, <1>2 DEF Batch
<1>4. batch' = [batch EXCEPT ![b] = r] BY <1>1, <1>2, <1>c DEF Proceed
<1>5. Becomes(b, r) BY <1>0, <1>3, <1>4, WritesBatch
<1>6. /\ batch'[b].step = "mail" /\ batch'[b].todo = batch[b].todo /\ batch'[b].saw = batch[b].saw /\ batch'[b].now = batch[b].now
      /\ batch'[b].digested = batch[b].digested /\ batch'[b].prefs = batch[b].prefs
      /\ batch' \in [Batches -> Batch] /\ \A c \in Batches \ {b} : SameBatch(c)
  BY <1>3, <1>5 DEF Becomes
<1>7. batch[b].prefs.digest /\ batch[b].digested /\ batch[b].now \subseteq EmailItems BY <1>c DEF NotificationInv, BatchesShaped, BatchShape
<1>8. ASSUME NEW d \in mine
      PROVE  /\ delivery'[d] \in Delivery /\ delivery'[d].status = "sending" /\ delivery'[d].stale = FALSE
             /\ delivery'[d].attempts = delivery[d].attempts + 1 /\ delivery'[d].attempts <= MaxSends + sent.again[d] + sent.overlaps
  <2>1. /\ delivery[d] \in Delivery /\ delivery[d].attempts \in Nat /\ sent.again[d] \in Nat /\ sent.overlaps \in Nat /\ sent.deaths \in Nat
        /\ delivery[d].attempts + 1 <= MaxSends + sent.again[d] + sent.overlaps
        /\ sent.again[d] <= sent.deaths /\ sent.overlaps + sent.deaths <= MaxLost
    BY <1>0, <1>1, RowFields, SentFields DEF NotificationInv, AttemptsLeft, OrphansOfDeaths
  <2>2. delivery[d].attempts + 1 \in 0 .. MaxSends + MaxLost + 1 BY <2>1, NotificationNumbers
  <2>3. PICK x : x = [delivery[d] EXCEPT !.status = "sending", !.attempts = @ + 1, !.stale = FALSE] OBVIOUS
  <2>4. x \in Delivery /\ x.status = "sending" /\ x.stale = FALSE /\ x.attempts = delivery[d].attempts + 1
    BY <2>1, <2>2, <2>3 DEF Delivery
  <2>5. delivery'[d] = x BY <1>1, <1>b, <2>3
  <2> QED BY <2>1, <2>4, <2>5
<1>9. \A d \in Items \ mine : delivery'[d] = delivery[d] /\ delivery'[d] \in Delivery BY <1>0, <1>b, RowFields
<1>10. delivery' \in [Items -> Delivery]
  <2>1. \A d \in Items : delivery'[d] \in Delivery BY <1>8, <1>9
  <2>2. delivery' = [d \in Items |-> delivery'[d]] BY <1>b
  <2> QED BY <2>1, <2>2
<1>11. PICK crossed : crossed = sent.crossed \cup (batch[b].now \ mine) OBVIOUS
<1>12. crossed \subseteq Items BY <1>0, <1>1, <1>11, SentFields
<1>13. /\ sent' \in [copies : [Items -> Nat], again : [Items -> Nat], unmarked : [Items -> Nat], crossed : SUBSET Items,
                     prefs : 0 .. MaxPrefs, overlaps : 0 .. MaxLost, deaths : 0 .. MaxLost]
       /\ sent'.copies = sent.copies /\ sent'.again = sent.again /\ sent'.unmarked = sent.unmarked
       /\ sent'.crossed = crossed /\ sent'.overlaps = sent.overlaps
       /\ sent'.deaths = sent.deaths
  BY <1>0, <1>11, <1>12, <1>c DEF NotificationTypeOK
<1>14. NotificationTypeOK' BY <1>0, <1>6, <1>10, <1>13, <1>c DEF NotificationTypeOK
<1>15. /\ \A c \in Batches \ {b}, d \in Items : Holds(c, d)' <=> Holds(c, d)
       /\ \A d \in Items : Holds(b, d)' <=> d \in batch[b].now
       /\ \A d \in Items : ~Holds(b, d)
  BY <1>6, <1>c, SameClaims DEF Holds
<1>16. BatchesShaped'
  <2>1. BatchShape(b)' BY <1>6, <1>7 DEF BatchShape
  <2> QED BY <1>6, <2>1, SameShape DEF NotificationInv, BatchesShaped
<1>17. StaleIsFree'
  <2> SUFFICES ASSUME NEW d \in Items, delivery'[d].stale
               PROVE  delivery'[d].status = "sending" /\ \A c \in Batches : d \notin batch'[c].now
    BY DEF StaleIsFree, Status
  <2>1. d \notin mine /\ delivery[d].stale BY <1>8, <1>9
  <2>2. delivery[d].status = "sending" /\ \A c \in Batches : d \notin batch[c].now BY <2>1 DEF NotificationInv, StaleIsFree, Status
  <2> QED BY <1>6, <1>9, <2>1, <2>2 DEF SameBatch
<1>18. \A d \in Items : Orphan(d)' => Orphan(d) BY <1>1, <1>9, <1>15 DEF Orphan, Status
<1>19. \A d \in Items \ batch[b].now : Orphan(d) => Orphan(d)' BY <1>1, <1>9, <1>15 DEF Orphan, Status
<1>20. OrphansOfDeaths' BY <1>13, <1>18 DEF NotificationInv, OrphansOfDeaths
<1>21. AliveAreOverlaps' BY <1>0, <1>6, <1>13, <1>c, AliveShrinks DEF NotificationInv, SameBatch
<1>22. AttemptsLeft' BY <1>8, <1>9, <1>13 DEF NotificationInv, AttemptsLeft, Status
<1>23. LagsBounded'
  <2>1. \A d \in Items : MayClaim(b, d)' => MayClaim(b, d) BY <1>6, <1>c DEF MayClaim, Digests
  <2>2. \A d \in mine : MayClaim(b, d) /\ ~MayClaim(b, d)' BY <1>1, <1>6, <1>7, <1>c DEF MayClaim, Digests
  <2>3. ASSUME NEW c \in Batches \ {b} PROVE LagOf(c)'
    <3>1. mine \in SUBSET Items /\ \A d \in mine : MayClaim(b, d) /\ ~MayClaim(b, d)' /\ delivery'[d].attempts = delivery[d].attempts + 1
      BY <1>1, <1>8, <2>2
    <3>2. \A d \in Items \ mine : delivery'[d].attempts = delivery[d].attempts BY <1>9
    <3> QED BY <1>6, <1>13, <1>14, <2>1, <3>1, <3>2, LagOfOthers
  <2>4. LagOf(b)'
    <3> SUFFICES ASSUME NEW d \in Items PROVE (Takes(b, d)' => Lags(b, d, 0)') /\ (Holds(b, d)' => Lags(b, d, 1)')
      BY <1>6 DEF LagOf
    <3>1. /\ Takes(b, d) => Lags(b, d, 0)
          /\ d \in batch[b].now => Lags(b, d, 0)
      BY <1>c DEF NotificationInv, LagsBounded, LagOf
    <3>2. batch'[b].saw[d] = batch[b].saw[d] /\ delivery[d].attempts \in Nat BY <1>0, <1>6, RowFields
    <3>3. ASSUME Takes(b, d)' PROVE Lags(b, d, 0)'
      <4>1. Takes(b, d) /\ d \notin mine BY <1>1, <1>6, <1>7, <1>c, <3>3 DEF Takes, Digests
      <4>2. delivery'[d].attempts <= delivery[d].attempts BY <1>9, <3>2, <4>1
      <4> QED BY <1>6, <1>13, <1>14, <3>1, <3>2, <4>1, <4>2, LagOfSelf
    <3>4. ASSUME Holds(b, d)' PROVE Lags(b, d, 1)'
      <4>1. d \in batch[b].now BY <1>15, <3>4
      <4>2. delivery'[d].attempts = delivery[d].attempts + 1 \/ delivery'[d].attempts = delivery[d].attempts BY <1>8, <1>9
      <4>3. delivery'[d].attempts <= delivery[d].attempts + 1 BY <3>2, <4>2
      <4> QED BY <1>6, <1>13, <1>14, <3>1, <3>2, <4>1, <4>3, LagOfSelf
    <3> QED BY <3>3, <3>4
  <2> QED BY <2>3, <2>4 DEF LagsBounded
<1>24. ASSUME NEW d \in Items \ crossed PROVE d \in Items \ sent.crossed /\ (d \in batch[b].now => d \in mine) BY <1>11
<1>25. HeldAlone'
  <2> SUFFICES ASSUME NEW d \in Items \ crossed
               PROVE  /\ \A a, c \in Batches : Holds(a, d)' /\ Holds(c, d)' => a = c
                      /\ (\E a \in Batches : Holds(a, d)') => delivery'[d].status = "sending"
    BY <1>13 DEF HeldAlone, Status
  <2>1. /\ \A a, c \in Batches : Holds(a, d) /\ Holds(c, d) => a = c
        /\ (\E a \in Batches : Holds(a, d)) => delivery[d].status = "sending"
    BY <1>24 DEF NotificationInv, HeldAlone, Status
  <2>2. CASE d \in mine
    <3>1. \A a \in Batches : ~Holds(a, d) BY <1>1, <2>1, <2>2
    <3> QED BY <1>8, <1>15, <2>2, <3>1
  <2>3. CASE d \notin mine
    <3>1. d \notin batch[b].now /\ delivery'[d] = delivery[d] BY <1>9, <1>24, <2>3
    <3> QED BY <1>15, <2>1, <3>1
  <2> QED BY <2>2, <2>3
<1>26. CopiesCounted'
  <2> SUFFICES ASSUME NEW d \in Items \ crossed
               PROVE  /\ sent.copies[d] <= Owed(d) + 1
                      /\ delivery'[d].status # "sent" /\ ~Orphan(d)' => sent.copies[d] <= Owed(d)
    BY <1>13 DEF CopiesCounted, Owed, Status
  <2>1. /\ sent.copies[d] <= Owed(d) + 1
        /\ delivery[d].status # "sent" /\ ~Orphan(d) => sent.copies[d] <= Owed(d)
    BY <1>24 DEF NotificationInv, CopiesCounted, Status
  <2>2. CASE d \in mine BY <1>1, <2>1, <2>2 DEF Orphan, Status
  <2>3. CASE d \notin mine BY <1>9, <1>19, <1>24, <2>1, <2>3
  <2> QED BY <2>2, <2>3
<1> QED BY <1>14, <1>16, <1>17, <1>20, <1>21, <1>22, <1>23, <1>25, <1>26 DEF NotificationInv

LEMMA DigestClaimInv ==
  ASSUME NotificationInv, NEW b \in Batches, DigestClaim(b)
  PROVE  NotificationInv'
<1>0. NotificationTypeOK BY DEF NotificationInv
<1>1. PICK mine : mine = {d \in batch[b].now : Status(d) = "queued"} OBVIOUS
<1>2. /\ batch[b].step = "claim" /\ prefs' = prefs
      /\ sent' = [sent EXCEPT !.crossed = @ \cup (batch[b].now \ mine)]
      /\ IF mine = {} THEN GoesOn(b) ELSE Proceed(b, "mail")
  BY <1>1 DEF DigestClaim
<1>3. delivery' = [d \in Items |-> IF d \in mine THEN [delivery[d] EXCEPT !.status = "sending", !.attempts = @ + 1, !.stale = FALSE]
                                      ELSE delivery[d]]
  BY <1>1 DEF DigestClaim
<1>4. CASE mine # {} BY <1>1, <1>4, DigestClaimsInv
<1>5. CASE mine = {}
  <2>1. delivery' = delivery BY <1>0, <1>3, <1>5 DEF NotificationTypeOK
  <2>2. delivery' \in [Items -> Delivery] /\ \A d \in Items : QuietRow(d) BY <1>0, <2>1, RowsStay
  <2>3. batch' \in [Batches -> Batch] /\ \A c \in Batches : SameBatch(c) \/ QuietBatch(c) BY <1>2, <1>5, GoesOnBatch
  <2>4. PICK crossed : crossed = sent.crossed \cup (batch[b].now \ mine) OBVIOUS
  <2>5. crossed \subseteq Items /\ sent.crossed \subseteq crossed BY <1>0, <2>4, SentFields, BatchFields
  <2>6. sent' = [sent EXCEPT !.crossed = crossed] BY <1>2, <2>4
  <2>7. /\ sent' \in [copies : [Items -> Nat], again : [Items -> Nat], unmarked : [Items -> Nat], crossed : SUBSET Items,
                     prefs : 0 .. MaxPrefs, overlaps : 0 .. MaxLost, deaths : 0 .. MaxLost]
        /\ sent'.copies = sent.copies /\ sent'.again = sent.again /\ sent'.unmarked = sent.unmarked
       /\ sent'.crossed = crossed /\ sent'.overlaps = sent.overlaps
        /\ sent'.deaths = sent.deaths
    BY <1>0, <2>5, <2>6 DEF NotificationTypeOK
  <2>8. NotificationTypeOK' BY <1>0, <1>2, <2>2, <2>3, <2>7 DEF NotificationTypeOK
  <2> QED BY <2>2, <2>3, <2>5, <2>7, <2>8, QuietDeliveries
<1> QED BY <1>4, <1>5

\* The rows of a batch that dies wait for their recovery.
LEMMA BatchDiesInv ==
  ASSUME NotificationInv, NEW b \in Batches, BatchDies(b)
  PROVE  NotificationInv'
<1>0. NotificationTypeOK BY DEF NotificationInv
<1>1. Lost < MaxLost /\ batch' = [batch EXCEPT ![b] = NoBatch] /\ UNCHANGED <<delivery, prefs>> BY DEF BatchDies
<1>2. PICK out \in {{}, IF batch[b].step \in {"send", "mail"} THEN batch[b].now ELSE {}} :
        sent' = [sent EXCEPT !.deaths = @ + 1, !.copies = [d \in Items |-> IF d \in out THEN @[d] + 1 ELSE @[d]]]
  BY DEF BatchDies
<1>3. \A d \in Items : d \in out => Holds(b, d) BY <1>2 DEF Holds
<1>4. PICK copies : copies = [d \in Items |-> IF d \in out THEN sent.copies[d] + 1 ELSE sent.copies[d]] OBVIOUS
<1>5. sent' = [sent EXCEPT !.deaths = @ + 1, !.copies = copies] BY <1>2, <1>4
<1>6. copies \in [Items -> Nat] BY <1>0, <1>4, SentFields
<1>7. /\ sent.overlaps \in Nat /\ sent.deaths \in Nat /\ sent.overlaps + sent.deaths < MaxLost
  BY <1>0, <1>1, SentFields DEF Lost
<1>8. sent.deaths + 1 \in 0 .. MaxLost BY <1>7, NotificationNumbers
<1>9. /\ sent' \in [copies : [Items -> Nat], again : [Items -> Nat], unmarked : [Items -> Nat], crossed : SUBSET Items,
                    prefs : 0 .. MaxPrefs, overlaps : 0 .. MaxLost, deaths : 0 .. MaxLost]
      /\ sent'.copies = copies /\ sent'.again = sent.again /\ sent'.unmarked = sent.unmarked
       /\ sent'.crossed = sent.crossed /\ sent'.overlaps = sent.overlaps
      /\ sent'.deaths = sent.deaths + 1
  BY <1>0, <1>5, <1>6, <1>8 DEF NotificationTypeOK
<1>10. Becomes(b, NoBatch) BY <1>0, <1>1, NoBatchType, WritesBatch
<1>11. /\ batch'[b].step = "idle" /\ batch'[b].now = {} /\ batch' \in [Batches -> Batch] /\ \A c \in Batches \ {b} : SameBatch(c)
  BY <1>10, NoBatchType DEF Becomes
<1>12. NotificationTypeOK' BY <1>0, <1>1, <1>9, <1>11 DEF NotificationTypeOK
<1>13. /\ \A c \in Batches \ {b}, d \in Items : Holds(c, d)' <=> Holds(c, d)
       /\ \A d \in Items : ~Holds(b, d)'
  BY <1>11, SameClaims DEF Holds
<1>14. BatchesShaped'
  <2>1. BatchShape(b)' BY <1>11 DEF BatchShape
  <2> QED BY <1>11, <2>1, SameShape DEF NotificationInv, BatchesShaped
<1>15. StaleIsFree' BY <1>1, <1>11 DEF NotificationInv, StaleIsFree, Status, SameBatch
<1>16. \A d \in Items : Orphan(d) => Orphan(d)' BY <1>1, <1>13 DEF Orphan, Status
<1>17. OrphansOfDeaths'
  <2>1. \A d \in Items : sent.again[d] <= sent.deaths /\ sent.again[d] \in Nat BY <1>0, SentFields DEF NotificationInv, OrphansOfDeaths
  <2> QED BY <1>7, <1>9, <2>1, NotificationNumbers DEF OrphansOfDeaths
<1>18. AliveAreOverlaps' BY <1>0, <1>9, <1>11, AliveShrinks DEF NotificationInv, SameBatch
<1>19. AttemptsLeft' BY <1>1, <1>9 DEF NotificationInv, AttemptsLeft, Status
<1>20. LagsBounded'
  <2>1. \A d \in Items : MayClaim(b, d)' => MayClaim(b, d) BY <1>11 DEF MayClaim
  <2>2. ASSUME NEW c \in Batches \ {b} PROVE LagOf(c)'
    <3>1. PICK S : S = {} OBVIOUS
    <3>2. /\ S \in SUBSET Items /\ \A d \in S : MayClaim(b, d) /\ ~MayClaim(b, d)' /\ delivery'[d].attempts = delivery[d].attempts + 1
          /\ \A d \in Items \ S : delivery'[d].attempts = delivery[d].attempts
      BY <1>1, <3>1
    <3> QED BY <1>9, <1>11, <1>12, <2>1, <3>2, LagOfOthers
  <2>3. LagOf(b)' BY <1>11 DEF LagOf, Takes, Holds
  <2> QED BY <2>2, <2>3 DEF LagsBounded
<1>21. HeldAlone'
  <2> SUFFICES ASSUME NEW d \in Items \ sent.crossed
               PROVE  /\ \A a, c \in Batches : Holds(a, d)' /\ Holds(c, d)' => a = c
                      /\ (\E a \in Batches : Holds(a, d)') => delivery[d].status = "sending"
    BY <1>1, <1>9 DEF HeldAlone, Status
  <2>1. /\ \A a, c \in Batches : Holds(a, d) /\ Holds(c, d) => a = c
        /\ (\E a \in Batches : Holds(a, d)) => delivery[d].status = "sending"
    BY DEF NotificationInv, HeldAlone, Status
  <2> QED BY <1>13, <2>1
<1>22. CopiesCounted'
  <2> SUFFICES ASSUME NEW d \in Items \ sent.crossed
               PROVE  /\ copies[d] <= Owed(d) + 1
                      /\ delivery[d].status # "sent" /\ ~Orphan(d)' => copies[d] <= Owed(d)
    BY <1>1, <1>9 DEF CopiesCounted, Owed, Status
  <2>1. /\ sent.copies[d] <= Owed(d) + 1
        /\ delivery[d].status # "sent" /\ ~Orphan(d) => sent.copies[d] <= Owed(d)
    BY DEF NotificationInv, CopiesCounted, Status
  <2>2. CASE d \in out
    <3>1. Holds(b, d) BY <1>3, <2>2
    <3>2. /\ delivery[d].status = "sending" /\ \A c \in Batches \ {b} : ~Holds(c, d) BY <3>1 DEF NotificationInv, HeldAlone, Status
    <3>3. ~Orphan(d) BY <3>1 DEF Orphan
    <3>4. Orphan(d)' BY <1>1, <1>13, <3>2 DEF Orphan, Status
    <3>5. sent.copies[d] <= Owed(d) /\ sent.copies[d] \in Nat /\ Owed(d) \in Nat BY <1>0, <2>1, <3>2, <3>3, SentFields
    <3>6. copies[d] = sent.copies[d] + 1 BY <1>4, <2>2
    <3> QED BY <3>4, <3>5, <3>6
  <2>3. CASE d \notin out
    <3>1. copies[d] = sent.copies[d] BY <1>4, <2>3
    <3> QED BY <1>16, <2>1, <3>1
  <2> QED BY <2>2, <2>3
<1> QED BY <1>12, <1>14, <1>15, <1>17, <1>18, <1>19, <1>20, <1>21, <1>22 DEF NotificationInv

LEMMA NotificationNextInv == NotificationInv /\ [NotificationNext]_notificationVars => NotificationInv'
<1> SUFFICES ASSUME NotificationInv, [NotificationNext]_notificationVars PROVE NotificationInv' OBVIOUS
<1>1. CASE ChangePrefs \/ QuietHoursEnd \/ UNCHANGED notificationVars BY <1>1, PrefsChangeInv
<1>2. ASSUME NEW d \in Items, CreateNotification(d) PROVE NotificationInv' BY <1>2, CreateNotificationInv
<1>3. ASSUME NEW d \in Items, ComesDue(d) PROVE NotificationInv' BY <1>3, ComesDueInv
<1>4. ASSUME NEW d \in Items, GoesStale(d) PROVE NotificationInv' BY <1>4, GoesStaleInv
<1>5. ASSUME NEW b \in Batches, BatchStart(b) PROVE NotificationInv' BY <1>5, BatchStartInv
<1>6. ASSUME NEW b \in Batches, BatchRead(b) PROVE NotificationInv' BY <1>6, BatchReadInv
<1>7. ASSUME NEW b \in Batches, NEW d \in Items, BatchTake(b, d) PROVE NotificationInv' BY <1>7, BatchTakeInv
<1>8. ASSUME NEW b \in Batches, NEW outcome \in {"sent", "retry", "permanent", "unmarked"}, SendOne(b, outcome) PROVE NotificationInv'
  BY <1>8, SendOneInv
<1>9. ASSUME NEW b \in Batches, DigestRead(b) PROVE NotificationInv' BY <1>9, DigestReadInv
<1>10. ASSUME NEW b \in Batches, DigestClaim(b) PROVE NotificationInv' BY <1>10, DigestClaimInv
<1>11. ASSUME NEW b \in Batches, NEW outcome \in {"sent", "retry", "unmarked"}, DigestMail(b, outcome) PROVE NotificationInv' BY <1>11, DigestMailInv
<1>12. ASSUME NEW b \in Batches, BatchDies(b) PROVE NotificationInv' BY <1>12, BatchDiesInv
<1> QED BY <1>1, <1>2, <1>3, <1>4, <1>5, <1>6, <1>7, <1>8, <1>9, <1>10, <1>11, <1>12 DEF NotificationNext, Passing, BatchNext

\* However many batches of deliverNotificationBatch overlap or die
\* (services/notificationDelivery.ts), a delivery that createNotification queued
\* (services/notifications.ts) goes out once, and once more for every
\* interruption that was recovered and every update to sent that failed, unless
\* a digest crossed it; and it is tried
\* MAX_ATTEMPTS times, once more for every recovery and every overlap.
THEOREM NotificationsHold == NotificationSpec => []NotificationsSafe
<1>1. NotificationInit => NotificationInv BY NotificationInvInit
<1>2. NotificationInv /\ [NotificationNext]_notificationVars => NotificationInv' BY NotificationNextInv
<1>3. NotificationInv => NotificationsSafe BY NotificationInvImplies
<1> QED BY <1>1, <1>2, <1>3, PTL DEF NotificationSpec
=============================================================================
