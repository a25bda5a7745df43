----------------------------- MODULE Idempotency -----------------------------
(***************************************************************************)
(* The Idempotency-Key middleware (src/src/middleware/idempotency.ts) for    *)
(* one user and one key: the row of idempotency_records, the requests that  *)
(* carry the key and the daily purge.                                       *)
(*                                                                         *)
(* Requests without a well-formed key, an actor or an encryption key are      *)
(* refused before the row is read and are left out.                          *)
(*                                                                         *)
(* The route behind the middleware is abstracted to whether it commits its   *)
(* mutation and to the class of its response; it answers 4xx only before    *)
(* it has committed anything.                                               *)
(***************************************************************************)
EXTENDS Integers

CONSTANTS
  Hashes,      \* contents of requests (request_hash)
  Callers,       \* concurrent requests with the key
  MaxRecords,  \* bound: rows created for the key
  MayCrash,    \* TRUE when an API instance may die during a request
  None

ASSUME IdempotencyAssumption ==
  /\ None \notin Hashes /\ MaxRecords \in Nat \ {0} /\ MayCrash \in BOOLEAN

VARIABLES
  rec,      \* the row of the key; id 0 means that there is none
  nextId,   \* ids (and created rows) so far
  stage, hash, \* a request: its step and its content (kept after the answer)
  found,     \* the row as the request read it
  mine,     \* the id of the row the request created
  outcome,  \* what the route did: [committed, status class]
  reply,    \* what the client was last answered: [kind, the content whose response it is]
  commits   \* history: executions committed since the key was last free

request == <<stage, hash, found, mine, outcome>>
idempotencyVars == <<rec, nextId, request, reply, commits>>

States == {"processing", "completed", "unknown"}
Ids == 0 .. MaxRecords
\* body is the content whose response is stored; old and expired stand for updated_at and expires_at.
Rec == [id : Ids, hash : Hashes \cup {None}, state : States, body : Hashes \cup {None},
        old : BOOLEAN, expired : BOOLEAN]
NoRec == [id |-> 0, hash |-> None, state |-> "unknown", body |-> None, old |-> FALSE, expired |-> FALSE]
Kinds == {"none", "2xx", "4xx", "5xx", "reused", "unknown", "in_progress", "error", "replay", "unavailable"}
Outcome == [committed : BOOLEAN, status : {"2xx", "4xx", "5xx"}]
NoOutcome == [committed |-> FALSE, status |-> "2xx"]

IdempotencyTypeOK ==
  /\ rec \in Rec /\ (rec.state = "completed" => rec.body # None)
  /\ nextId \in 1 .. MaxRecords + 1
  /\ stage \in [Callers -> {"idle", "delete", "stale", "reread", "create", "conflict", "handler", "send"}]
  /\ hash \in [Callers -> Hashes \cup {None}]
  /\ found \in [Callers -> Rec]
  /\ mine \in [Callers -> Ids]
  /\ outcome \in [Callers -> Outcome]
  /\ reply \in [Callers -> [kind : Kinds, body : Hashes \cup {None}]]
  /\ commits \in Nat

NoReply == [kind |-> "none", body |-> None]

IdempotencyInit ==
  /\ rec = NoRec /\ nextId = 1
  /\ stage = [p \in Callers |-> "idle"]
  /\ hash = [p \in Callers |-> None]
  /\ found = [p \in Callers |-> NoRec]
  /\ mine = [p \in Callers |-> 0]
  /\ outcome = [p \in Callers |-> NoOutcome]
  /\ reply = [p \in Callers |-> NoReply]
  /\ commits = 0

Found(r) == r.id # 0
Goto(p, label) == stage' = [stage EXCEPT ![p] = label] /\ UNCHANGED <<hash, mine, outcome>>

Answer(p, kind, body, h) ==
  /\ reply' = [reply EXCEPT ![p] = [kind |-> kind, body |-> body]]
  /\ stage' = [stage EXCEPT ![p] = "idle"]
  /\ hash' = [hash EXCEPT ![p] = h]
  /\ found' = [found EXCEPT ![p] = NoRec]
  /\ mine' = [mine EXCEPT ![p] = 0]
  /\ outcome' = [outcome EXCEPT ![p] = NoOutcome]

\* payloadHash: two requests are the same when method, path, query, body (but for
\* the fields offline and idempotency_key) and file are.
SameRequest(r, h) == r.hash = h

-----------------------------------------------------------------------------

\* The answers for an existing row, in the order of the checks.
AnswerFrom(p, r, h) ==
  IF ~SameRequest(r, h) THEN Answer(p, "reused", None, h)
  ELSE IF r.state = "unknown" THEN Answer(p, "unknown", None, h)
  ELSE IF r.state = "processing" THEN Answer(p, "in_progress", None, h)
  ELSE \E kind \in {"replay", "unavailable"} : Answer(p, kind, r.body, h)

\* What a request does with the row r it has just read.
Decide(p, r, h) ==
  IF ~Found(r) THEN Goto(p, "create") /\ found' = [found EXCEPT ![p] = r] /\ UNCHANGED reply
  ELSE AnswerFrom(p, r, h)

\* A request arrives and reads the row; expired and stale rows need a write first.
Arrive(p, h) ==
  /\ stage[p] = "idle" /\ nextId <= MaxRecords
  /\ IF Found(rec) /\ (rec.expired \/ (rec.state = "processing" /\ rec.old))
       THEN /\ found' = [found EXCEPT ![p] = rec]
            /\ stage' = [stage EXCEPT ![p] = IF rec.expired THEN "delete" ELSE "stale"]
            /\ hash' = [hash EXCEPT ![p] = h]
            /\ reply' = [reply EXCEPT ![p] = NoReply]
            /\ UNCHANGED <<mine, outcome>>
       ELSE IF Found(rec) THEN AnswerFrom(p, rec, h)
       ELSE /\ stage' = [stage EXCEPT ![p] = "create"]
            /\ hash' = [hash EXCEPT ![p] = h]
            /\ reply' = [reply EXCEPT ![p] = NoReply]
            /\ UNCHANGED <<found, mine, outcome>>
  /\ UNCHANGED <<rec, nextId, commits>>

DeletesSeen(p) == rec.id = found[p].id

\* delete by id: throws when another request has deleted the row already.
DeleteExpired(p) ==
  /\ stage[p] = "delete"
  /\ IF DeletesSeen(p)
       THEN rec' = NoRec /\ Goto(p, "create") /\ UNCHANGED <<found, reply>>
       ELSE rec' = rec /\ Answer(p, "error", None, hash[p])
  /\ UNCHANGED <<nextId, commits>>

\* A claim of five minutes is given up, unless it has changed in the meantime.
GiveUpStale(p) ==
  /\ stage[p] = "stale"
  /\ rec' = IF rec.id = found[p].id /\ rec.state = "processing" /\ rec.old
              THEN [rec EXCEPT !.state = "unknown"] ELSE rec
  /\ Goto(p, "reread")
  /\ UNCHANGED <<nextId, found, reply, commits>>

Reread(p) ==
  /\ stage[p] = "reread"
  /\ Decide(p, rec, hash[p])
  /\ UNCHANGED <<rec, nextId, commits>>

\* Insert the claim; the unique index lets one request through.
Create(p) ==
  /\ stage[p] = "create"
  /\ IF Found(rec)
       THEN Goto(p, "conflict") /\ UNCHANGED <<rec, nextId, found, reply>>
       ELSE /\ nextId <= MaxRecords
            /\ rec' = [id |-> nextId, hash |-> hash[p], state |-> "processing", body |-> None,
                       old |-> FALSE, expired |-> FALSE]
            /\ nextId' = nextId + 1
            /\ mine' = [mine EXCEPT ![p] = nextId]
            /\ stage' = [stage EXCEPT ![p] = "handler"]
            /\ UNCHANGED <<hash, outcome, found, reply>>
  /\ UNCHANGED commits

\* P2002: read the winner's row.
Conflict(p) ==
  /\ stage[p] = "conflict"
  /\ IF Found(rec) THEN AnswerFrom(p, rec, hash[p]) ELSE Answer(p, "error", None, hash[p])
  /\ UNCHANGED <<rec, nextId, commits>>

-----------------------------------------------------------------------------
\* The route runs: it commits or not, and answers.
Handler(p) ==
  /\ stage[p] = "handler"
  /\ \E o \in Outcome :
       /\ o.status = "4xx" => ~o.committed
       /\ o.status = "2xx" => o.committed
       /\ outcome' = [outcome EXCEPT ![p] = o]
       /\ commits' = IF o.committed THEN commits + 1 ELSE commits
  /\ stage' = [stage EXCEPT ![p] = "send"]
  /\ UNCHANGED <<rec, nextId, hash, found, mine, reply>>

Mine(p) == rec.id = mine[p]

\* Mutant: a server error frees the key.
AfterErrorFree(p) ==
  IF outcome[p].status \in {"4xx", "5xx"} /\ Mine(p) /\ rec.state = "processing" THEN NoRec ELSE rec

\* Not 2xx: a client error frees the key, a server error makes its outcome unknown.
AfterError(p) ==
  IF ~(Mine(p) /\ rec.state = "processing") THEN rec
  ELSE IF outcome[p].status = "4xx" THEN NoRec ELSE [rec EXCEPT !.state = "unknown"]

\* The response is recorded before it is sent; recording may fail, and then the
\* original response is sent all the same.
SendError(p) ==
  /\ stage[p] = "send" /\ outcome[p].status # "2xx"
  /\ rec' \in {AfterError(p), rec}
  /\ Answer(p, outcome[p].status, hash[p], hash[p])
  /\ UNCHANGED <<nextId, commits>>

Stored(p) == [rec EXCEPT !.state = "completed", !.body = hash[p], !.old = FALSE]

\* 2xx: the response is stored whatever the state of the row ...
SendRecorded(p) ==
  /\ stage[p] = "send" /\ outcome[p].status = "2xx"
  /\ Mine(p)
  /\ rec' = Stored(p)
  /\ Answer(p, "2xx", hash[p], hash[p])
  /\ UNCHANGED <<nextId, commits>>

\* ... or it is too large, cannot be encrypted or its update fails.
SendUnrecorded(p) ==
  /\ stage[p] = "send" /\ outcome[p].status = "2xx"
  /\ rec' \in {rec, IF Mine(p) /\ rec.state = "processing" THEN [rec EXCEPT !.state = "unknown"] ELSE rec}
  /\ Answer(p, "2xx", hash[p], hash[p])
  /\ UNCHANGED <<nextId, commits>>

-----------------------------------------------------------------------------
CallerCrash(p) ==
  /\ MayCrash /\ stage[p] # "idle"
  /\ Answer(p, "error", None, hash[p])
  /\ UNCHANGED <<rec, nextId, commits>>

\* Five minutes pass since the claim was written, also under a slow route.
Ages ==
  /\ rec.id # 0 /\ rec.state = "processing" /\ ~rec.old
  /\ rec' = [rec EXCEPT !.old = TRUE]
  /\ UNCHANGED <<nextId, request, reply, commits>>

Running(p) == stage[p] \in {"handler", "send"}

\* The retention of 24 hours ends; no request is that slow.
Expires ==
  /\ rec.id # 0 /\ ~rec.expired /\ \A p \in Callers : ~Running(p)
  /\ rec' = [rec EXCEPT !.expired = TRUE]
  /\ commits' = 0
  /\ UNCHANGED <<nextId, request, reply>>

\* purgeExpiredIdempotencyRecords
PurgeRecords ==
  /\ rec.expired
  /\ rec' = NoRec
  /\ UNCHANGED <<nextId, request, reply, commits>>

IdempotencyNext ==
  \/ \E p \in Callers : \/ \E h \in Hashes : Arrive(p, h)
                      \/ DeleteExpired(p) \/ GiveUpStale(p) \/ Reread(p) \/ Create(p)
                      \/ Conflict(p) \/ Handler(p) \/ SendError(p) \/ SendRecorded(p)
                      \/ SendUnrecorded(p) \/ CallerCrash(p)
  \/ Ages \/ Expires \/ PurgeRecords

-----------------------------------------------------------------------------
(* Properties *)

\* Within the retention time the mutation of a key is committed at most once,
\* however the requests overlap, fail, crash or outlast the claim timeout.
CommittedOnce == commits <= 1

\* A committed mutation always has a row that stops later requests: a lost
\* response or a crash never frees the key.
CommitIsGuarded == commits > 0 => rec.id # 0

\* A replayed response is the response to the content the client has just
\* sent: never that of another request under the same key.
ReplayAnswersTheRequest ==
  \A p \in Callers : reply[p].kind = "replay" => reply[p].body = hash[p]

\* The route never runs for two requests of the key at the same time, also when
\* the first one has outlasted the five minutes of its claim.
OneRunsAtATime ==
  \A p, q \in Callers : Running(p) /\ Running(q) => p = q

\* A key protects its mutation: one request runs at a time, one commits, the
\* commit leaves a row that stops the others, and what is replayed is theirs.
IdempotencySafe ==
  /\ IdempotencyTypeOK
  /\ CommittedOnce
  /\ CommitIsGuarded
  /\ ReplayAnswersTheRequest
  /\ OneRunsAtATime
=============================================================================
