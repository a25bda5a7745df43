------------------------------ MODULE MCOutbox ------------------------------
(* Small instances of Outbox for TLC. *)
EXTENDS Outbox, TLC

MCTwoKinds   == 1 :> "notification" @@ 2 :> "org"
MCBadAndOrg  == 1 :> "unsupported" @@ 2 :> "org"
MCSymmetry   == Permutations(Workers) \cup Permutations(Admins)
=============================================================================
