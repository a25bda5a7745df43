-------------------------- MODULE MCWebhookDelivery --------------------------
(* Small instances of WebhookDelivery for TLC. *)
EXTENDS WebhookDelivery, TLC

MCSymmetry == Permutations(Procs) \cup Permutations(Deliveries)
=============================================================================
