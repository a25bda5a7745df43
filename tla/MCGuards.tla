------------------------------- MODULE MCGuards -------------------------------
(* What guards a request against being repeated, overtaken or made up: the    *)
(* session's refresh tokens, the idempotency key, the device's challenges,     *)
(* the confirmation of an assistant's change and the lock of an offline       *)
(* batch; one at a time.                                                      *)
EXTENDS RefreshTokens, Idempotency, Devices, Assistant, OfflineSync, TLC

VARIABLE focus

MCSymmetry == {p @@ h : p \in Permutations(Procs), h \in Permutations(Hashes)}
vars == <<tokensVars, idempotencyVars, devicesVars, assistantVars, syncVars, focus>>

MCInit ==
  /\ focus \in {"tokens", "keys", "devices", "assistant", "sync"}
  /\ TokensInit /\ IdempotencyInit /\ DevicesInit /\ SyncInit
  /\ AssistantInit /\ (focus # "assistant" => \A l \in Limits : policy.limit >= l)

MCNext ==
  /\ UNCHANGED focus
  /\ \/ /\ focus = "tokens" /\ TokensNext
        /\ UNCHANGED <<idempotencyVars, devicesVars, assistantVars, syncVars>>
     \/ /\ focus = "keys" /\ IdempotencyNext
        /\ UNCHANGED <<tokensVars, devicesVars, assistantVars, syncVars>>
     \/ /\ focus = "devices" /\ DevicesNext
        /\ UNCHANGED <<tokensVars, idempotencyVars, assistantVars, syncVars>>
     \/ /\ focus = "assistant" /\ AssistantNext
        /\ UNCHANGED <<tokensVars, idempotencyVars, devicesVars, syncVars>>
     \/ /\ focus = "sync" /\ SyncNext
        /\ UNCHANGED <<tokensVars, idempotencyVars, devicesVars, assistantVars>>

MCSpec == MCInit /\ [][MCNext]_vars
=============================================================================
