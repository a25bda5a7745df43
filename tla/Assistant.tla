------------------------------ MODULE Assistant ------------------------------
(***************************************************************************)
(* POST /ai/chat (src/src/routes/ai.ts) for one conversation: requests of   *)
(* its owner that overlap, the monthly quota they draw from, and the        *)
(* changes the assistant proposes and applies once they are confirmed.      *)
(*                                                                         *)
(* The language model is external: in every turn it answers, calls a tool   *)
(* that reads, calls one that writes, or fails. What a message says is       *)
(* reduced to how the route tells messages apart. A tool that writes has    *)
(* its effect or fails without one.                                         *)
(***************************************************************************)
EXTENDS Integers, Sequences, FiniteSets

CONSTANTS
  Chats,        \* overlapping requests
  Changes,      \* calls of writing tools: a name with its arguments
  Limits,       \* monthly limits an administrator may set
  MaxRounds,    \* turns of the model in a request; 4 in the code
  MaxMessages,  \* bound: messages of the assistant in the conversation
  MaxPolicies,  \* bound: changes of the policy
  NoChange

ASSUME AssistantAssumption ==
  /\ NoChange \notin Changes /\ Limits \subseteq Nat \ {0} /\ Limits # {}
  /\ MaxRounds \in Nat \ {0} /\ MaxMessages \in Nat /\ MaxPolicies \in Nat

VARIABLES
  policy,    \* ai_enabled and ai_monthly_request_limit
  policies,  \* changes of the policy so far
  granted,   \* history: the highest limit there has been
  used,      \* request_count of the month
  log,       \* the assistant's messages: the change each awaits confirmation of
  chat,      \* a request: its step and what it has read
  proposed,  \* history: the change each message proposed
  applied,   \* history: the changes applied on behalf of each message
  cancelled  \* history: the messages whose change was cancelled

assistantVars == <<policy, policies, granted, used, log, chat, proposed, applied, cancelled>>

\* "phrase" is the prompt of the button Confirm; "yes" may also answer something else.
Messages == {"ask", "yes", "phrase", "cancel"}
Steps == {"idle", "reserve", "load", "recheck", "claim", "execute", "model", "persist"}
MessageIds == 0 .. MaxMessages
Pending == Changes \cup {NoChange}
Chat == [at : Steps, says : Messages, limit : Limits \cup {0},
         seen : Pending,     \* pendingAction of the message that was last when the conversation was loaded
         last : MessageIds,  \* the message that was last when it was read again ...
         read : Pending,     \* ... and its pendingAction
         rounds : 0 .. MaxRounds, reply : Pending]
NoChat == [at |-> "idle", says |-> "ask", limit |-> 0, seen |-> NoChange, last |-> 0, read |-> NoChange,
           rounds |-> 0, reply |-> NoChange]

AssistantTypeOK ==
  /\ policy \in [enabled : BOOLEAN, limit : Limits] /\ policies \in 0 .. MaxPolicies
  /\ granted \in Limits /\ used \in Nat
  /\ log \in Seq(Pending) /\ Len(log) <= MaxMessages /\ proposed \in Seq(Pending)
  /\ Len(proposed) = Len(log)
  /\ chat \in [Chats -> Chat]
  /\ applied \in [1 .. MaxMessages -> Seq(Changes)]
  /\ cancelled \subseteq 1 .. MaxMessages

AssistantInit ==
  /\ policy \in [enabled : {TRUE}, limit : Limits] /\ policies = 0
  /\ granted = policy.limit /\ used = 0
  /\ log = <<>> /\ proposed = <<>>
  /\ chat = [c \in Chats |-> NoChat]
  /\ applied = [m \in 1 .. MaxMessages |-> <<>>]
  /\ cancelled = {}

UNCHANGED_quota == UNCHANGED <<policy, policies, granted, used>>
UNCHANGED_conversation == UNCHANGED <<log, proposed, applied, cancelled>>
Step(c, fields) == chat' = [chat EXCEPT ![c] = fields]
\* The request is answered, with an error or not, or its instance dies.
EndChat(c) == Step(c, NoChat)

-----------------------------------------------------------------------------
(* The quota *)

\* PUT /ai/org-policy
SetPolicy(on, limit) ==
  /\ policies < MaxPolicies
  /\ policies' = policies + 1
  /\ policy' = [enabled |-> on, limit |-> limit]
  /\ granted' = IF limit > granted THEN limit ELSE granted
  /\ UNCHANGED <<used, chat>> /\ UNCHANGED_conversation

\* A message arrives; reserveAiRequest reads the policy ...
Send(c, says) ==
  /\ chat[c].at = "idle" /\ Len(log) < MaxMessages
  /\ policy.enabled
  /\ Step(c, [NoChat EXCEPT !.at = "reserve", !.says = says, !.limit = policy.limit])
  /\ UNCHANGED_quota /\ UNCHANGED_conversation

Reservable(c) == used < chat[c].limit

\* ... and counts the request in the statement that tests the limit.
Reserve(c) ==
  /\ chat[c].at = "reserve"
  /\ IF Reservable(c)
       THEN used' = used + 1 /\ Step(c, [chat[c] EXCEPT !.at = "load"])
       ELSE used' = used /\ EndChat(c)
  /\ UNCHANGED <<policy, policies, granted>> /\ UNCHANGED_conversation

-----------------------------------------------------------------------------
(* Confirmation *)

LastPending == IF log = <<>> THEN NoChange ELSE log[Len(log)]

\* Loads the conversation and decides what the message is about. A sentence like
\* "add someone to the task" is answered with choices, without the model.
LoadConversation(c) ==
  /\ chat[c].at = "load"
  /\ LET decides == chat[c].says # "ask" /\ LastPending # NoChange IN
     \/ decides /\ Step(c, [chat[c] EXCEPT !.at = "recheck", !.seen = LastPending])
     \/ ~decides /\ chat[c].says = "phrase" /\ EndChat(c)
     \/ /\ ~decides /\ chat[c].says # "phrase"
        /\ \E at \in {"model", "persist"} : Step(c, [chat[c] EXCEPT !.at = at])
  /\ UNCHANGED_quota /\ UNCHANGED_conversation

StillProposed(c) == LastPending # NoChange /\ LastPending = chat[c].seen

\* Reads the last message again: it must propose the same change.
Recheck(c) ==
  /\ chat[c].at = "recheck"
  /\ IF StillProposed(c) THEN Step(c, [chat[c] EXCEPT !.at = "claim", !.last = Len(log), !.read = LastPending])
     ELSE EndChat(c)
  /\ UNCHANGED_quota /\ UNCHANGED_conversation

\* Mutant: the message is cleared by its id.
ClaimableAny(c) == chat[c].last \in 1 .. Len(log)

\* The update matches the message only while its toolCalls are what was read.
ClaimableChange(c) == log[chat[c].last] = chat[c].read

\* Clears the pending action; one request does, and applies it or drops it.
ClaimChange(c) ==
  /\ chat[c].at = "claim"
  /\ IF ClaimableChange(c)
       THEN /\ log' = [log EXCEPT ![chat[c].last] = NoChange]
            /\ IF chat[c].says = "cancel"
                 THEN /\ cancelled' = cancelled \cup {chat[c].last}
                      /\ Step(c, [chat[c] EXCEPT !.at = "persist"])
                 ELSE cancelled' = cancelled /\ Step(c, [chat[c] EXCEPT !.at = "execute"])
       ELSE UNCHANGED <<log, cancelled>> /\ EndChat(c)
  /\ UNCHANGED_quota /\ UNCHANGED <<proposed, applied>>

\* executeTool: the change is made or refused, and either is reported.
ExecuteChange(c) ==
  /\ chat[c].at = "execute"
  /\ \/ applied' = [applied EXCEPT ![chat[c].last] = Append(@, chat[c].seen)]
     \/ UNCHANGED applied
  /\ Step(c, [chat[c] EXCEPT !.at = "persist"])
  /\ UNCHANGED_quota /\ UNCHANGED <<log, proposed, cancelled>>

-----------------------------------------------------------------------------
(* Conversation with the model *)

\* One of the turns: the model answers or has the route ask for details; it calls a
\* tool that reads, and there is another turn; it calls one that writes, and the
\* call is proposed. A failing provider ends the request.
Turn(c) ==
  /\ chat[c].at = "model" /\ chat[c].rounds < MaxRounds
  /\ \/ Step(c, [chat[c] EXCEPT !.at = "persist"])
     \/ Step(c, [chat[c] EXCEPT !.rounds = @ + 1])
     \/ \E d \in Changes : Step(c, [chat[c] EXCEPT !.at = "persist", !.reply = d])
     \/ EndChat(c)
  /\ UNCHANGED_quota /\ UNCHANGED_conversation

\* The last turn still called tools.
TurnsEnd(c) ==
  /\ chat[c].at = "model" /\ chat[c].rounds = MaxRounds
  /\ Step(c, [chat[c] EXCEPT !.at = "persist"])
  /\ UNCHANGED_quota /\ UNCHANGED_conversation

\* persistConversation: question and answer are appended by one statement.
PersistConversation(c) ==
  /\ chat[c].at = "persist" /\ Len(log) < MaxMessages
  /\ log' = Append(log, chat[c].reply)
  /\ proposed' = Append(proposed, chat[c].reply)
  /\ EndChat(c)
  /\ UNCHANGED_quota /\ UNCHANGED <<applied, cancelled>>

ChatCrash(c) ==
  /\ chat[c].at # "idle"
  /\ EndChat(c)
  /\ UNCHANGED_quota /\ UNCHANGED_conversation

AssistantNext ==
  \/ \E on \in BOOLEAN, l \in Limits : SetPolicy(on, l)
  \/ \E c \in Chats : \/ \E says \in Messages : Send(c, says)
                      \/ Reserve(c) \/ LoadConversation(c) \/ Recheck(c) \/ ClaimChange(c)
                      \/ ExecuteChange(c) \/ Turn(c) \/ TurnsEnd(c) \/ PersistConversation(c)
                      \/ ChatCrash(c)

-----------------------------------------------------------------------------
(* Properties *)

\* A proposed change is applied once or cancelled once, never both and never
\* twice: of two requests that confirm it, or confirm and cancel it, one wins
\* (the conditional update of POST /ai/chat).
ChangeDecidedOnce ==
  \A m \in 1 .. MaxMessages :
    Len(applied[m]) + (IF m \in cancelled THEN 1 ELSE 0) <= 1

\* What is applied is what the message said it would do: a confirmation never
\* applies a change that was proposed by another message, or by none.
AppliesWhatWasProposed ==
  \A m \in 1 .. MaxMessages : \A i \in 1 .. Len(applied[m]) :
    m <= Len(proposed) /\ applied[m][i] = proposed[m]

\* The requests of a month stay within the highest limit there has been, however
\* they overlap with each other and with changes of the limit (reserveAiRequest).
QuotaHeld == used <= granted

\* The assistant changes what was proposed and confirmed, once, and within the
\* organisation's quota, whatever messages and confirmations overlap.
AssistantSafe == AssistantTypeOK /\ ChangeDecidedOnce /\ AppliesWhatWasProposed /\ QuotaHeld
=============================================================================
