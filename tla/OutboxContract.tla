--------------------------- MODULE OutboxContract ---------------------------
(***************************************************************************)
(* What the transactional outbox promises about one event: once its row is   *)
(* committed with the business transaction it is owed; each of its effects    *)
(* is queued at most once; it is published when all that it owes is done,     *)
(* and for ever; what is given up is a dead letter, which an administrator    *)
(* may put back. Claims, attempts, batches and crashes are not mentioned.     *)
(***************************************************************************)
EXTENDS Naturals

CONSTANTS
  Parts,  \* effects an event may have
  Owes    \* those a published event must have had

VARIABLES
  outcome,  \* what has become of the event
  made      \* how often each of its effects was queued

contractVars == <<outcome, made>>

Init == outcome = "none" /\ made = [x \in Parts |-> 0]

Becomes(from, to) == outcome = from /\ outcome' = to /\ UNCHANGED made

Accept == Becomes("none", "owed")

\* A slow batch may still do this after the event was given up or published.
Make(x) ==
  /\ outcome # "none" /\ UNCHANGED outcome
  /\ made[x] = 0 /\ made' = [made EXCEPT ![x] = 1]

Complete == Becomes("owed", "published") /\ \A x \in Owes : made[x] = 1
GiveUp   == Becomes("owed", "dead")
PutBack  == Becomes("dead", "owed")

Next == Accept \/ Complete \/ GiveUp \/ PutBack \/ \E x \in Parts : Make(x)
Spec == Init /\ [][Next]_contractVars
=============================================================================
