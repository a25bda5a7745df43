----------------------------- MODULE GuardsProofs -----------------------------
(***************************************************************************)
(* Proofs about what guards a request, for any number of concurrent         *)
(* requests: idempotency keys, refresh tokens, the lock of offline batches,   *)
(* the challenges of devices and the confirmation of the assistant's changes. *)
(***************************************************************************)
EXTENDS RefreshTokens, Idempotency, Devices, Assistant, OfflineSync,
        FiniteSetTheorems, WellFoundedInduction, SequenceTheorems, TLAPS

-----------------------------------------------------------------------------
(* Idempotency keys *)

IdempotencySpec == IdempotencyInit /\ [][IdempotencyNext]_idempotencyVars

\* Whoever is past the arrival has a content, and only who runs the route has a row.
RequestsKnown == \A p \in Callers :
  /\ stage[p] # "idle" => hash[p] \in Hashes
  /\ Running(p) <=> mine[p] # 0

\* Ids are not used twice.
IdsFresh ==
  /\ rec.id < nextId
  /\ \A p \in Callers : found[p].id < nextId

\* The row that a running request created is there, is its own and has not expired.
RunnerHasRow == \A p \in Callers :
  Running(p) => rec.id = mine[p] /\ ~rec.expired /\ rec.hash = hash[p]

\* A request deletes the expired row it has read, if that is still there.
DeletesExpired == \A p \in Callers :
  stage[p] = "delete" => found[p].id # 0 /\ (rec.id = found[p].id => rec.expired)

\* What is stored is the answer to the content of the row.
StoresAnswer ==
  /\ rec.id # 0 => rec.hash \in Hashes
  /\ rec.state = "completed" => rec.body = rec.hash /\ rec.id # 0

\* What was committed, by where the request that runs is.
CommitsKnown ==
  /\ commits <= 1
  /\ rec.id = 0 \/ rec.expired => commits = 0
  /\ \A p \in Callers :
       /\ stage[p] = "handler" => commits = 0
       /\ stage[p] = "send" => /\ outcome[p].committed <=> commits = 1
                               /\ outcome[p].status = "4xx" => ~outcome[p].committed

KeyInv ==
  /\ IdempotencyTypeOK /\ RequestsKnown /\ IdsFresh /\ RunnerHasRow /\ OneRunsAtATime
  /\ DeletesExpired /\ StoresAnswer /\ CommitsKnown /\ ReplayAnswersTheRequest

LEMMA KeyInvImplies == KeyInv => IdempotencySafe
  BY DEF KeyInv, IdempotencySafe, CommittedOnce, CommitIsGuarded, CommitsKnown, IdempotencyTypeOK

LEMMA KeyInit == IdempotencyInit => KeyInv
  BY IdempotencyAssumption DEF IdempotencyInit, KeyInv, IdempotencyTypeOK, RequestsKnown, IdsFresh, RunnerHasRow,
     OneRunsAtATime, DeletesExpired, StoresAnswer, CommitsKnown, ReplayAnswersTheRequest, Running,
     NoRec, NoReply, NoOutcome, Rec, Ids, States, Outcome, Kinds

-----------------------------------------------------------------------------
(* The rows *)

\* A step leaves the row but for its state, answer and age, or it removes a row
\* that nothing was committed under and no other request runs on.
RowAfter(p) ==
  \/ /\ rec'.id = rec.id /\ rec'.hash = rec.hash /\ rec'.expired = rec.expired
     /\ rec'.state = "completed" => rec'.body = rec'.hash /\ rec'.id # 0
  \/ /\ rec' = NoRec /\ commits = 0 /\ \A q \in Callers \ {p} : ~Running(q)

LEMMA NoRecType == NoRec \in Rec
  BY IdempotencyAssumption DEF NoRec, Rec, Ids, States

\* The state and the answer of a row change, its identity does not.
LEMMA RowUpdates ==
  ASSUME KeyInv
  PROVE  /\ [rec EXCEPT !.state = "unknown"] \in Rec /\ [rec EXCEPT !.old = TRUE] \in Rec
         /\ \A p \in Callers : Running(p) => Stored(p) \in Rec
  BY DEF KeyInv, IdempotencyTypeOK, RequestsKnown, RunnerHasRow, Running, Stored, Rec, States

\* Nobody else runs the route when p does.
LEMMA RunsAlone ==
  ASSUME KeyInv, NEW p \in Callers, Running(p)
  PROVE  /\ \A q \in Callers \ {p} : ~Running(q)
         /\ rec.id = mine[p] /\ rec.id # 0 /\ rec.hash = hash[p] /\ hash[p] \in Hashes
  BY DEF KeyInv, OneRunsAtATime, RunnerHasRow, RequestsKnown, Running

\* A request is answered.
LEMMA AnswerKey ==
  ASSUME KeyInv, NEW p \in Callers, NEW h \in Hashes, NEW kind \in Kinds, NEW body \in Hashes \cup {None},
         Answer(p, kind, body, h), kind = "replay" => body = h,
         nextId' = nextId, commits' = commits, rec' \in Rec, RowAfter(p)
  PROVE  KeyInv'
<1>1. IdempotencyTypeOK'
  <2>1. rec'.state = "completed" => rec'.body # None
    BY IdempotencyAssumption DEF KeyInv, StoresAnswer, RowAfter, NoRec
  <2>2. found' \in [Callers -> Rec] BY NoRecType DEF KeyInv, IdempotencyTypeOK, Answer
  <2> QED BY <2>1, <2>2, IdempotencyAssumption DEF KeyInv, IdempotencyTypeOK, Answer, NoOutcome, Outcome, Ids
<1>2. \A q \in Callers : /\ Running(q)' => Running(q) /\ q # p
                         /\ q # p => stage'[q] = stage[q] /\ hash'[q] = hash[q] /\ mine'[q] = mine[q]
                                     /\ outcome'[q] = outcome[q] /\ found'[q] = found[q] /\ reply'[q] = reply[q]
  BY DEF KeyInv, IdempotencyTypeOK, Answer, Running
<1>3. stage'[p] = "idle" /\ hash'[p] = h /\ mine'[p] = 0 /\ found'[p] = NoRec /\ reply'[p] = [kind |-> kind, body |-> body]
  BY DEF KeyInv, IdempotencyTypeOK, Answer
<1>4. RequestsKnown' BY <1>2, <1>3 DEF KeyInv, RequestsKnown, Running
<1>5. IdsFresh' BY <1>2, <1>3 DEF KeyInv, IdempotencyTypeOK, IdsFresh, RowAfter, NoRec
<1>6. RunnerHasRow' BY <1>2 DEF KeyInv, RunnerHasRow, RowAfter
<1>7. OneRunsAtATime' BY <1>2 DEF KeyInv, OneRunsAtATime
<1>8. DeletesExpired' BY <1>2, <1>3 DEF KeyInv, DeletesExpired, RowAfter, NoRec
<1>9. StoresAnswer' BY DEF KeyInv, StoresAnswer, RowAfter, NoRec
<1>10. CommitsKnown' BY <1>2, <1>3 DEF KeyInv, CommitsKnown, RowAfter
<1>11. ReplayAnswersTheRequest' BY <1>2, <1>3 DEF KeyInv, ReplayAnswersTheRequest
<1> QED BY <1>1, <1>4, <1>5, <1>6, <1>7, <1>8, <1>9, <1>10, <1>11 DEF KeyInv

\* Without a change of the row.
LEMMA AnswerSameRow ==
  ASSUME KeyInv, NEW p \in Callers, NEW h \in Hashes, NEW kind \in Kinds, NEW body \in Hashes \cup {None},
         Answer(p, kind, body, h), kind = "replay" => body = h, nextId' = nextId, commits' = commits, rec' = rec
  PROVE  KeyInv'
<1>1. rec' \in Rec /\ RowAfter(p) BY DEF KeyInv, IdempotencyTypeOK, StoresAnswer, RowAfter
<1> QED BY <1>1, AnswerKey

\* A replay answers from the row.
LEMMA AnswerFromKey ==
  ASSUME KeyInv, NEW p \in Callers, NEW h \in Hashes, AnswerFrom(p, rec, h), rec.id # 0,
         nextId' = nextId, commits' = commits, rec' = rec
  PROVE  KeyInv'
<1>1. PICK kind \in Kinds, body \in Hashes \cup {None} : Answer(p, kind, body, h) /\ (kind = "replay" => body = h)
  BY DEF AnswerFrom, SameRequest, KeyInv, IdempotencyTypeOK, Rec, States, StoresAnswer, Kinds
<1> QED BY <1>1, AnswerSameRow

\* A request goes on without touching what it has read, created or answered.
LEMMA GotoKey ==
  ASSUME KeyInv, NEW p \in Callers, NEW label \in {"reread", "create", "conflict"}, stage[p] # "idle", ~Running(p),
         Goto(p, label), found' = [found EXCEPT ![p] = rec] \/ found' = found,
         UNCHANGED <<reply, nextId, commits>>, rec' \in Rec, RowAfter(p)
  PROVE  KeyInv'
<1>1. IdempotencyTypeOK'
  <2>1. rec'.state = "completed" => rec'.body # None
    BY IdempotencyAssumption DEF KeyInv, StoresAnswer, RowAfter, NoRec
  <2> QED BY <2>1 DEF KeyInv, IdempotencyTypeOK, Goto
<1>2. \A q \in Callers : /\ Running(q)' <=> Running(q)
                         /\ stage'[q] = IF q = p THEN label ELSE stage[q]
                         /\ hash'[q] = hash[q] /\ mine'[q] = mine[q] /\ outcome'[q] = outcome[q] /\ reply'[q] = reply[q]
                         /\ found'[q] = found[q] \/ (found'[q] = rec /\ q = p)
  BY DEF KeyInv, IdempotencyTypeOK, Goto, Running
<1>4. RequestsKnown' BY <1>2 DEF KeyInv, RequestsKnown
<1>5. IdsFresh' BY <1>2 DEF KeyInv, IdempotencyTypeOK, IdsFresh, RowAfter, NoRec
<1>6. RunnerHasRow' BY <1>2 DEF KeyInv, RunnerHasRow, RowAfter
<1>7. OneRunsAtATime' BY <1>2 DEF KeyInv, OneRunsAtATime
<1>8. DeletesExpired' BY <1>2 DEF KeyInv, DeletesExpired, RowAfter, NoRec
<1>9. StoresAnswer' BY DEF KeyInv, StoresAnswer, RowAfter, NoRec
<1>10. CommitsKnown' BY <1>2 DEF KeyInv, CommitsKnown, RowAfter
<1>11. ReplayAnswersTheRequest' BY <1>2 DEF KeyInv, ReplayAnswersTheRequest
<1> QED BY <1>1, <1>4, <1>5, <1>6, <1>7, <1>8, <1>9, <1>10, <1>11 DEF KeyInv

-----------------------------------------------------------------------------
(* The actions *)

LEMMA ArriveKey == ASSUME KeyInv, NEW p \in Callers, NEW h \in Hashes, Arrive(p, h) PROVE KeyInv'
<1>0. stage[p] = "idle" /\ ~Running(p) /\ rec' = rec /\ nextId' = nextId /\ commits' = commits
  BY DEF Arrive, Running
<1>1. CASE rec.id # 0 /\ ~(rec.expired \/ (rec.state = "processing" /\ rec.old))
  BY <1>0, <1>1, AnswerFromKey DEF Arrive, Found
<1>2. CASE ~(rec.id # 0 /\ ~(rec.expired \/ (rec.state = "processing" /\ rec.old)))
  <2>1. PICK label \in {"delete", "stale", "create"} :
          /\ stage' = [stage EXCEPT ![p] = label] /\ hash' = [hash EXCEPT ![p] = h]
          /\ reply' = [reply EXCEPT ![p] = NoReply] /\ UNCHANGED <<mine, outcome>>
          /\ found' = [found EXCEPT ![p] = rec] \/ (found' = found /\ label = "create")
          /\ label = "delete" => rec.id # 0 /\ rec.expired
    BY <1>2 DEF Arrive, Found
  <2>2. IdempotencyTypeOK' BY <1>0, <2>1 DEF KeyInv, IdempotencyTypeOK, NoReply, Kinds
  <2>3. \A q \in Callers : /\ Running(q)' <=> Running(q)
                           /\ stage'[q] = IF q = p THEN label ELSE stage[q]
                           /\ hash'[q] = IF q = p THEN h ELSE hash[q]
                           /\ reply'[q] = IF q = p THEN NoReply ELSE reply[q]
                           /\ found'[q] = found[q] \/ (found'[q] = rec /\ q = p)
                           /\ label = "delete" => found'[p] = rec
    BY <1>0, <2>1 DEF KeyInv, IdempotencyTypeOK, Running
  <2>4. RequestsKnown' /\ IdsFresh' BY <1>0, <2>1, <2>3 DEF KeyInv, RequestsKnown, IdsFresh
  <2>5. RunnerHasRow' /\ OneRunsAtATime' BY <1>0, <2>1, <2>3 DEF KeyInv, RunnerHasRow, OneRunsAtATime
  <2>6. DeletesExpired' /\ StoresAnswer' BY <1>0, <2>1, <2>3 DEF KeyInv, DeletesExpired, StoresAnswer
  <2>7. CommitsKnown' BY <1>0, <2>1, <2>3 DEF KeyInv, CommitsKnown
  <2>8. ReplayAnswersTheRequest' BY <2>3 DEF KeyInv, ReplayAnswersTheRequest, NoReply
  <2> QED BY <2>2, <2>4, <2>5, <2>6, <2>7, <2>8 DEF KeyInv
<1> QED BY <1>1, <1>2

LEMMA DeleteExpiredKey == ASSUME KeyInv, NEW p \in Callers, DeleteExpired(p) PROVE KeyInv'
<1>0. stage[p] = "delete" /\ ~Running(p) /\ hash[p] \in Hashes /\ nextId' = nextId /\ commits' = commits
  BY DEF KeyInv, RequestsKnown, DeleteExpired, Running
<1>1. CASE DeletesSeen(p)
  <2>1. rec.expired /\ rec' = NoRec
    BY <1>0, <1>1 DEF KeyInv, DeletesExpired, DeletesSeen, DeleteExpired
  <2>2. commits = 0 /\ \A q \in Callers : ~Running(q)
    BY <2>1 DEF KeyInv, CommitsKnown, RunnerHasRow
  <2> QED BY <1>0, <1>1, <2>1, <2>2, GotoKey, NoRecType DEF DeleteExpired, RowAfter
<1>2. CASE ~DeletesSeen(p)
  BY <1>0, <1>2, AnswerSameRow DEF DeleteExpired, Kinds
<1> QED BY <1>1, <1>2

LEMMA GiveUpStaleKey == ASSUME KeyInv, NEW p \in Callers, GiveUpStale(p) PROVE KeyInv'
<1>1. rec' \in Rec /\ RowAfter(p)
  BY RowUpdates DEF KeyInv, IdempotencyTypeOK, GiveUpStale, RowAfter, StoresAnswer, Rec
<1> QED BY <1>1, GotoKey DEF GiveUpStale, Running

LEMMA RereadKey == ASSUME KeyInv, NEW p \in Callers, Reread(p) PROVE KeyInv'
<1>0. hash[p] \in Hashes /\ rec' = rec /\ nextId' = nextId /\ commits' = commits /\ stage[p] = "reread"
  BY DEF KeyInv, RequestsKnown, Reread
<1>1. CASE rec.id = 0
  <2>1. rec' \in Rec /\ RowAfter(p) BY <1>0 DEF KeyInv, IdempotencyTypeOK, StoresAnswer, RowAfter
  <2> QED BY <1>0, <1>1, <2>1, GotoKey DEF Reread, Decide, Found, Running
<1>2. CASE rec.id # 0 BY <1>0, <1>2, AnswerFromKey DEF Reread, Decide, Found
<1> QED BY <1>1, <1>2

LEMMA CreateKey == ASSUME KeyInv, NEW p \in Callers, Create(p) PROVE KeyInv'
<1>0. stage[p] = "create" /\ ~Running(p) /\ hash[p] \in Hashes /\ commits' = commits
  BY DEF KeyInv, RequestsKnown, Create, Running
<1>1. CASE rec.id # 0
  <2>1. rec' \in Rec /\ RowAfter(p)
    BY <1>1 DEF KeyInv, IdempotencyTypeOK, StoresAnswer, RowAfter, Create, Found
  <2> QED BY <1>0, <1>1, <2>1, GotoKey DEF Create, Found
<1>2. CASE rec.id = 0
  <2>1. /\ rec' = [id |-> nextId, hash |-> hash[p], state |-> "processing", body |-> None, old |-> FALSE, expired |-> FALSE]
        /\ nextId \in 1 .. MaxRecords /\ nextId' = nextId + 1 /\ UNCHANGED <<hash, outcome, found, reply>>
        /\ mine' = [mine EXCEPT ![p] = nextId] /\ stage' = [stage EXCEPT ![p] = "handler"]
    BY <1>2, IdempotencyAssumption DEF KeyInv, IdempotencyTypeOK, Create, Found
  <2>2. IdempotencyTypeOK'
    BY <1>0, <2>1, IdempotencyAssumption DEF KeyInv, IdempotencyTypeOK, Rec, Ids, States
  <2>3. \A q \in Callers : ~Running(q) BY <1>2 DEF KeyInv, RunnerHasRow, RequestsKnown
  <2>4. \A q \in Callers : /\ Running(q)' <=> q = p
                           /\ stage'[q] = IF q = p THEN "handler" ELSE stage[q]
                           /\ mine'[q] = IF q = p THEN nextId ELSE mine[q]
    BY <2>1, <2>3 DEF KeyInv, IdempotencyTypeOK, Running
  <2>5. RequestsKnown' BY <1>0, <2>1, <2>3, <2>4 DEF KeyInv, RequestsKnown
  <2>6. IdsFresh' BY <2>1 DEF KeyInv, IdempotencyTypeOK, IdsFresh, Rec, Ids
  <2>7. RunnerHasRow' /\ OneRunsAtATime' BY <2>1, <2>4 DEF RunnerHasRow, OneRunsAtATime
  <2>8. DeletesExpired' /\ StoresAnswer' BY <1>0, <2>1, <2>4 DEF KeyInv, IdsFresh, DeletesExpired, StoresAnswer
  <2>9. CommitsKnown' BY <1>0, <1>2, <2>1, <2>3, <2>4 DEF KeyInv, CommitsKnown, Running
  <2>10. ReplayAnswersTheRequest' BY <2>1 DEF KeyInv, ReplayAnswersTheRequest
  <2> QED BY <2>2, <2>5, <2>6, <2>7, <2>8, <2>9, <2>10 DEF KeyInv
<1> QED BY <1>1, <1>2

LEMMA ConflictKey == ASSUME KeyInv, NEW p \in Callers, Conflict(p) PROVE KeyInv'
<1>0. hash[p] \in Hashes /\ rec' = rec /\ nextId' = nextId /\ commits' = commits
  BY DEF KeyInv, RequestsKnown, Conflict
<1>1. CASE rec.id = 0 BY <1>0, <1>1, AnswerSameRow DEF Conflict, Found, Kinds
<1>2. CASE rec.id # 0 BY <1>0, <1>2, AnswerFromKey DEF Conflict, Found
<1> QED BY <1>1, <1>2

LEMMA HandlerKey == ASSUME KeyInv, NEW p \in Callers, Handler(p) PROVE KeyInv'
<1>0. /\ stage[p] = "handler" /\ Running(p) /\ commits = 0 /\ stage' = [stage EXCEPT ![p] = "send"]
      /\ UNCHANGED <<rec, nextId, hash, found, mine, reply>>
  BY DEF KeyInv, CommitsKnown, Handler, Running
<1>1. PICK o \in Outcome : /\ o.status = "4xx" => ~o.committed
                           /\ outcome' = [outcome EXCEPT ![p] = o]
                           /\ commits' = IF o.committed THEN commits + 1 ELSE commits
  BY DEF Handler
<1>2. IdempotencyTypeOK' BY <1>0, <1>1 DEF KeyInv, IdempotencyTypeOK
<1>3. \A q \in Callers : /\ Running(q)' <=> Running(q)
                         /\ stage'[q] = IF q = p THEN "send" ELSE stage[q]
                         /\ outcome'[q] = IF q = p THEN o ELSE outcome[q]
  BY <1>0, <1>1 DEF KeyInv, IdempotencyTypeOK, Running
<1>4. RequestsKnown' /\ IdsFresh' BY <1>0, <1>3 DEF KeyInv, RequestsKnown, IdsFresh
<1>5. RunnerHasRow' /\ OneRunsAtATime' BY <1>0, <1>3 DEF KeyInv, RunnerHasRow, OneRunsAtATime
<1>6. DeletesExpired' /\ StoresAnswer' BY <1>0, <1>3 DEF KeyInv, DeletesExpired, StoresAnswer
<1>7. CommitsKnown'
  <2>1. rec'.id # 0 /\ ~rec'.expired BY <1>0 DEF KeyInv, RunnerHasRow, RequestsKnown
  <2>2. \A q \in Callers \ {p} : ~Running(q) BY <1>0, RunsAlone
  <2> QED BY <1>0, <1>1, <1>3, <2>1, <2>2 DEF CommitsKnown, Running, Outcome
<1>8. ReplayAnswersTheRequest' BY <1>0 DEF KeyInv, ReplayAnswersTheRequest
<1> QED BY <1>2, <1>4, <1>5, <1>6, <1>7, <1>8 DEF KeyInv

LEMMA SendErrorKey == ASSUME KeyInv, NEW p \in Callers, SendError(p) PROVE KeyInv'
<1>0. Running(p) /\ stage[p] = "send" /\ outcome[p].status # "2xx" /\ nextId' = nextId /\ commits' = commits
  BY DEF SendError, Running
<1>1. rec' \in Rec /\ RowAfter(p)
  <2>1. CASE rec' = rec BY <2>1 DEF KeyInv, IdempotencyTypeOK, StoresAnswer, RowAfter
  <2>2. CASE rec' = NoRec /\ outcome[p].status = "4xx"
    BY <1>0, <2>2, RunsAlone, NoRecType DEF KeyInv, CommitsKnown, IdempotencyTypeOK, RowAfter
  <2>3. CASE rec' = [rec EXCEPT !.state = "unknown"]
    BY <2>3, RowUpdates DEF KeyInv, IdempotencyTypeOK, Rec, RowAfter
  <2> QED BY <2>1, <2>2, <2>3 DEF SendError, AfterError
<1>2. outcome[p].status \in Kinds BY DEF KeyInv, IdempotencyTypeOK, Outcome, Kinds
<1>3. outcome[p].status # "replay" BY DEF KeyInv, IdempotencyTypeOK, Outcome
<1> QED BY <1>0, <1>1, <1>2, <1>3, RunsAlone, AnswerKey DEF SendError

LEMMA SendRecordedKey == ASSUME KeyInv, NEW p \in Callers, SendRecorded(p) PROVE KeyInv'
<1>0. Running(p) /\ nextId' = nextId /\ commits' = commits /\ rec' = Stored(p)
  BY DEF SendRecorded, Running
<1>1. rec' \in Rec /\ RowAfter(p)
  BY <1>0, RunsAlone, RowUpdates DEF KeyInv, IdempotencyTypeOK, Stored, Rec, RowAfter
<1> QED BY <1>0, <1>1, RunsAlone, AnswerKey DEF SendRecorded, Kinds

LEMMA SendUnrecordedKey == ASSUME KeyInv, NEW p \in Callers, SendUnrecorded(p) PROVE KeyInv'
<1>0. Running(p) /\ nextId' = nextId /\ commits' = commits
  BY DEF SendUnrecorded, Running
<1>1. rec' \in Rec /\ RowAfter(p)
  <2>1. CASE rec' = rec BY <2>1 DEF KeyInv, IdempotencyTypeOK, StoresAnswer, RowAfter
  <2>2. CASE rec' = [rec EXCEPT !.state = "unknown"]
    BY <2>2, RowUpdates DEF KeyInv, IdempotencyTypeOK, Rec, RowAfter
  <2> QED BY <2>1, <2>2 DEF SendUnrecorded
<1> QED BY <1>0, <1>1, RunsAlone, AnswerKey DEF SendUnrecorded, Kinds

LEMMA CallerCrashKey == ASSUME KeyInv, NEW p \in Callers, CallerCrash(p) PROVE KeyInv'
<1>1. hash[p] \in Hashes BY DEF KeyInv, RequestsKnown, CallerCrash
<1> QED BY <1>1, AnswerSameRow DEF CallerCrash, Kinds

\* Time passes for the row, or it is removed; no request moves.
LEMMA TimeKey == ASSUME KeyInv, Ages \/ Expires \/ PurgeRecords PROVE KeyInv'
<1>0. UNCHANGED <<nextId, stage, hash, found, mine, outcome, reply>>
  BY DEF Ages, Expires, PurgeRecords, request
<1>1. CASE Ages
  BY <1>0, <1>1, RowUpdates DEF Ages, KeyInv, IdempotencyTypeOK, RequestsKnown, IdsFresh, RunnerHasRow, OneRunsAtATime,
     DeletesExpired, StoresAnswer, CommitsKnown, ReplayAnswersTheRequest, Running, Rec
<1>2. CASE Expires
  <2>1. /\ rec' \in Rec /\ rec'.id = rec.id /\ rec'.hash = rec.hash /\ rec'.state = rec.state /\ rec'.body = rec.body
        /\ rec'.expired /\ rec.id # 0 /\ commits' = 0 /\ \A p \in Callers : ~Running(p)
    BY <1>2 DEF Expires, KeyInv, IdempotencyTypeOK, Rec
  <2>2. \A p \in Callers : ~Running(p)' BY <1>0, <2>1 DEF Running
  <2>3. IdempotencyTypeOK' BY <1>0, <2>1 DEF KeyInv, IdempotencyTypeOK
  <2>4. RequestsKnown' /\ IdsFresh' BY <1>0, <2>1, <2>2 DEF KeyInv, RequestsKnown, IdsFresh
  <2>5. RunnerHasRow' /\ OneRunsAtATime' BY <2>2 DEF RunnerHasRow, OneRunsAtATime
  <2>6. DeletesExpired' /\ StoresAnswer' BY <1>0, <2>1 DEF KeyInv, DeletesExpired, StoresAnswer
  <2>7. CommitsKnown' BY <2>1, <2>2 DEF CommitsKnown, Running
  <2>8. ReplayAnswersTheRequest' BY <1>0 DEF KeyInv, ReplayAnswersTheRequest
  <2> QED BY <2>3, <2>4, <2>5, <2>6, <2>7, <2>8 DEF KeyInv
<1>3. CASE PurgeRecords
  BY <1>0, <1>3, NoRecType DEF PurgeRecords, KeyInv, IdempotencyTypeOK, RequestsKnown, IdsFresh, RunnerHasRow, OneRunsAtATime,
     DeletesExpired, StoresAnswer, CommitsKnown, ReplayAnswersTheRequest, Running, NoRec
<1> QED BY <1>1, <1>2, <1>3

LEMMA KeyNext == KeyInv /\ [IdempotencyNext]_idempotencyVars => KeyInv'
<1> SUFFICES ASSUME KeyInv, [IdempotencyNext]_idempotencyVars PROVE KeyInv'
  OBVIOUS
<1>1. CASE UNCHANGED idempotencyVars
  BY <1>1 DEF idempotencyVars, request, KeyInv, IdempotencyTypeOK, RequestsKnown, IdsFresh, RunnerHasRow, OneRunsAtATime,
     DeletesExpired, StoresAnswer, CommitsKnown, ReplayAnswersTheRequest, Running
<1>2. CASE IdempotencyNext
  BY <1>2, ArriveKey, DeleteExpiredKey, GiveUpStaleKey, RereadKey, CreateKey, ConflictKey, HandlerKey, SendErrorKey,
     SendRecordedKey, SendUnrecordedKey, CallerCrashKey, TimeKey DEF IdempotencyNext
<1> QED BY <1>1, <1>2

\* The middleware keeps its promise for any number of requests that carry the
\* key: however they overlap, crash, outlast the claim or lose their response,
\* one runs at a time, one commits within the retention, a commit leaves a row
\* behind, and a replay answers the content that was sent.
THEOREM IdempotencyHolds == IdempotencySpec => []IdempotencySafe
<1>1. IdempotencySpec => []KeyInv BY KeyInit, KeyNext, PTL DEF IdempotencySpec
<1> QED BY <1>1, KeyInvImplies, PTL

-----------------------------------------------------------------------------
(* Refresh tokens *)

TokensSpec == TokensInit /\ [][TokensNext]_tokensVars

Issued == {t \in Tokens : t < nextToken}
\* Requests that rotate the token they were presented, or were about to when
\* they found it used.
Holding(t) == {p \in Procs : pc[p] # "idle" /\ cur[p] = t}
\* Requests that may still need a token.
Wanting == {p \in Procs : pc[p] \in {"session", "issue_session", "issue_token"}}

\* What was not handed out yet is untouched, and there is a token left for every
\* request that was let in.
AllocFresh ==
  /\ \A t \in AllTokens \ Issued : row[t] = NoRow
  /\ \A t \in Tokens \ Issued : exchanged[t] = 0 /\ uses[t] = 0 /\ t \notin held
  /\ \A f \in Families : f >= nextFamily => session[f] = NoSession
  /\ nextToken + Cardinality(Wanting) <= MaxToken + 1

\* The rows of tokens: a row that is gone had outlived every JWT on it.
RowsInTime == \A t \in Issued :
  /\ row[t].family \in Families /\ row[t].family < nextFamily
  /\ row[t].issued <= now
  /\ row[t].revoked => row[t].issued <= row[t].revokedAt
  /\ ~row[t].exists => row[t].issued + RowTtl < now

\* Requests, by the step they are at.
RequestShape == \A p \in Procs :
  /\ \A f \in fam[p] : f < nextFamily
  /\ pc[p] = "idle" => cur[p] = 0 /\ seen[p] = "none"
  /\ pc[p] \notin {"idle", "revoke"} => \E f \in Families : fam[p] = {f}
  /\ pc[p] \in {"session", "consume"} => cur[p] \in Tokens /\ seen[p] # "none"
  /\ pc[p] \in {"issue_session", "issue_token"} => seen[p] # "used" /\ (seen[p] = "fresh" <=> cur[p] \in Tokens)
  /\ pc[p] = "consume" => succ[p] \in Issued

\* A request holds a token whose JWT is valid, and works on the token's family.
HeldInTime == \A p \in Procs :
  cur[p] \in Tokens => /\ cur[p] \in Issued /\ fam[p] = {row[cur[p]].family}
                       /\ now < row[cur[p]].issued + JwtTtl

\* A family that has rows has a session, which outlives them.
SessionsOutlive == \A t \in Issued :
  row[t].exists =>
    LET s == session[row[t].family]
    IN  /\ s.exists /\ row[t].issued <= s.expires
        /\ s.revoked => row[t].issued <= s.revokedAt
        /\ ~s.revoked => row[t].issued + RowTtl <= s.expires

\* A session that is being extended was open at this time.
ExtendsOpen == \A p \in Procs, f \in Families :
  pc[p] \in {"issue_session", "issue_token"} /\ fam[p] = {f} =>
    /\ session[f].exists => now <= session[f].expires
    /\ session[f].revoked => session[f].revokedAt = now
    /\ pc[p] = "issue_token" => session[f].exists /\ (~session[f].revoked => session[f].expires = now + RowTtl)

\* A rotation that has passed the check of the session loses its token with it.
RevokedTogether == \A p \in Procs :
  pc[p] \in {"issue_session", "issue_token", "consume"} /\ cur[p] \in Tokens /\ session[row[cur[p]].family].revoked
    => row[cur[p]].revoked

\* A token that was exchanged is replaced.
ExchangeReplaces == \A t \in Tokens :
  exchanged[t] <= 1 /\ (exchanged[t] = 1 => row[t].replaced)

\* As long as the family is open, every use of a token was exchanged for another
\* or is in progress.
UsesKnown == crashes = 0 => \A t \in Issued :
  row[t].exists /\ ~session[row[t].family].revoked => uses[t] = exchanged[t] + Cardinality(Holding(t))

TokensInv ==
  /\ TokensTypeOK /\ AllocFresh /\ RowsInTime /\ RequestShape /\ HeldInTime
  /\ SessionsOutlive /\ ExtendsOpen /\ RevokedTogether /\ ExchangeReplaces /\ UsesKnown

-----------------------------------------------------------------------------
(* Facts about tokens, requests and their numbers *)

LEMMA TokenNumbers ==
  /\ MaxToken \in Nat \ {0} /\ MaxFamily \in Nat \ {0} /\ JwtTtl \in Nat \ {0} /\ RowTtl \in Nat \ {0} /\ JwtTtl <= RowTtl
  /\ MaxTime \in Nat /\ MaxUses \in Nat /\ MaxCrashes \in Nat
  /\ Legacy \subseteq Nat /\ Legacy \cap Tokens = {} /\ 0 \notin Tokens /\ IsFiniteSet(Procs)
<1>1. /\ MaxToken \in Nat \ {0} /\ MaxFamily \in Nat \ {0} /\ JwtTtl \in Nat \ {0} /\ RowTtl \in Nat \ {0}
      /\ JwtTtl <= RowTtl /\ MaxTime \in Nat /\ MaxUses \in Nat /\ MaxCrashes \in Nat
      /\ Legacy \subseteq Nat /\ Legacy \cap Tokens = {} /\ IsFiniteSet(Procs)
  BY TokensAssumption
<1>2. 0 \notin Tokens BY <1>1 DEF Tokens
<1> QED BY <1>1, <1>2

LEMMA NoRowType == NoRow \in Row /\ NoSession \in Session
  BY TokenNumbers DEF NoRow, Row, NoSession, Session

LEMMA FamilyOfKnown == ASSUME NEW p, NEW f, fam[p] = {f} PROVE FamilyOf(p) = f
  BY Zenon DEF FamilyOf

\* Sets of requests are finite, and a request that comes or goes counts one.
LEMMA CountProcs ==
  ASSUME NEW S \in SUBSET Procs, NEW p
  PROVE  /\ IsFiniteSet(S) /\ Cardinality(S) \in Nat
         /\ p \notin S => Cardinality(S \cup {p}) = Cardinality(S) + 1
         /\ p \in S => Cardinality(S \ {p}) = Cardinality(S) - 1
<1>1. IsFiniteSet(S) BY TokenNumbers, FS_Subset
<1> QED BY <1>1, FS_CardinalityType, FS_AddElement, FS_RemoveElement

LEMMA WantingCount ==
  ASSUME NEW p
  PROVE  /\ Cardinality(Wanting) \in Nat
         /\ p \notin Wanting => Cardinality(Wanting \cup {p}) = Cardinality(Wanting) + 1
         /\ p \in Wanting => Cardinality(Wanting \ {p}) = Cardinality(Wanting) - 1
<1>1. Wanting \in SUBSET Procs BY DEF Wanting
<1> QED BY <1>1, CountProcs

LEMMA HoldingCount ==
  ASSUME NEW p, NEW t
  PROVE  /\ Cardinality(Holding(t)) \in Nat
         /\ p \notin Holding(t) => Cardinality(Holding(t) \cup {p}) = Cardinality(Holding(t)) + 1
         /\ p \in Holding(t) => Cardinality(Holding(t) \ {p}) = Cardinality(Holding(t)) - 1
<1>1. Holding(t) \in SUBSET Procs BY DEF Holding
<1> QED BY <1>1, CountProcs

LEMMA TokensInvInit == TokensInit => TokensInv
<1> SUFFICES ASSUME TokensInit PROVE TokensInv OBVIOUS
<1>1. TokensTypeOK
  BY TokenNumbers, NoRowType DEF TokensInit, TokensTypeOK, AllTokens
<1>2. Issued = {} /\ Wanting = {} BY DEF TokensInit, Issued, Wanting, Tokens
<1>3. AllocFresh
  BY <1>2, TokenNumbers, FS_EmptySet DEF TokensInit, AllocFresh, AllTokens
<1>4. RowsInTime /\ SessionsOutlive /\ UsesKnown BY <1>2 DEF RowsInTime, SessionsOutlive, UsesKnown
<1>5. RequestShape /\ HeldInTime /\ ExtendsOpen /\ RevokedTogether
  BY TokenNumbers DEF TokensInit, RequestShape, HeldInTime, ExtendsOpen, RevokedTogether
<1>6. ExchangeReplaces BY DEF TokensInit, ExchangeReplaces, AllTokens
<1> QED BY <1>1, <1>3, <1>4, <1>5, <1>6 DEF TokensInv

\* The invariant gives the properties.
LEMMA TokensInvImplies == TokensInv => TokensSafe
<1> SUFFICES ASSUME TokensInv PROVE TokensSafe OBVIOUS
<1>1. ExchangedOnce BY DEF TokensInv, ExchangeReplaces, ExchangedOnce
<1>2. ReuseRevokesFamily
  <2> SUFFICES ASSUME crashes = 0, NEW t \in Tokens, \A p \in Procs : pc[p] = "idle", uses[t] > 1, row[t].exists,
                      ~session[row[t].family].revoked
               PROVE  FALSE
    BY DEF ReuseRevokesFamily
  <2>1. t \in Issued BY DEF TokensInv, AllocFresh, AllTokens, NoRow
  <2>2. Cardinality(Holding(t)) = 0 BY FS_EmptySet DEF Holding
  <2>3. uses[t] = exchanged[t] + 0 BY <2>1, <2>2 DEF TokensInv, UsesKnown
  <2> QED BY <2>3 DEF TokensInv, ExchangeReplaces, TokensTypeOK, AllTokens
<1> QED BY <1>1, <1>2 DEF TokensSafe, TokensInv

-----------------------------------------------------------------------------
(* Steps of a request that leave rows and sessions alone *)

\* Request p begins: it holds no token yet.
LEMMA IdleHolds ==
  ASSUME TokensInv, NEW p \in Procs, pc[p] = "idle"
  PROVE  cur[p] = 0 /\ cur[p] \notin Tokens /\ p \notin Wanting /\ \A t \in AllTokens : p \notin Holding(t)
  BY TokenNumbers DEF TokensInv, RequestShape, Wanting, Holding

LEMMA LoginTokens == ASSUME TokensInv, NEW p \in Procs, Login(p) PROVE TokensInv'
<1>0. /\ pc[p] = "idle" /\ nextFamily \in Families /\ nextFamily' = nextFamily + 1
      /\ UNCHANGED <<row, session, held, now, nextToken, cur, seen, succ, uses, exchanged, crashes>>
  BY TokenNumbers DEF TokensInv, TokensTypeOK, Login, db, Families
<1>1. \A q \in Procs : /\ pc'[q] = IF q = p THEN "issue_session" ELSE pc[q]
                       /\ fam'[q] = IF q = p THEN {nextFamily} ELSE fam[q]
  BY DEF TokensInv, TokensTypeOK, Login
<1>2. TokensTypeOK' BY <1>0, TokenNumbers DEF TokensInv, TokensTypeOK, Login, Families
<1>3. Issued' = Issued BY <1>0 DEF Issued
<1>4. AllocFresh'
  <2>1. Wanting' = Wanting \cup {p} BY <1>1 DEF Wanting
  <2>2. nextToken + Cardinality(Wanting) <= MaxToken BY DEF Login, TokenLeft, Wanting
  <2>3. Cardinality(Wanting') = Cardinality(Wanting) + 1 /\ Cardinality(Wanting) \in Nat
    BY <1>0, <2>1, IdleHolds, WantingCount
  <2>4. nextToken' + Cardinality(Wanting') <= MaxToken + 1
    BY <1>0, <2>2, <2>3, TokenNumbers DEF TokensInv, TokensTypeOK
  <2> QED BY <1>0, <1>3, <2>4 DEF TokensInv, TokensTypeOK, AllocFresh, Families
<1>5. RowsInTime' BY <1>0, <1>3 DEF TokensInv, TokensTypeOK, RowsInTime, Families
<1>6. RequestShape'
  <2>1. seen[p] = "none" BY <1>0 DEF TokensInv, RequestShape
  <2>2. \A q \in Procs : \A f \in fam[q] : f < nextFamily + 1
    BY TokenNumbers DEF TokensInv, TokensTypeOK, RequestShape, Families
  <2>3. nextFamily < nextFamily + 1 BY DEF TokensInv, TokensTypeOK
  <2> QED BY <1>0, <1>1, <1>3, <2>1, <2>2, <2>3, IdleHolds DEF TokensInv, RequestShape
<1>7. HeldInTime' BY <1>0, <1>1, <1>3, IdleHolds DEF TokensInv, HeldInTime
<1>8. SessionsOutlive' BY <1>0, <1>3 DEF TokensInv, SessionsOutlive
<1>9. ExtendsOpen'
  <2>1. session[nextFamily] = NoSession BY <1>0 DEF TokensInv, TokensTypeOK, AllocFresh
  <2> QED BY <1>0, <1>1, <2>1 DEF TokensInv, ExtendsOpen, NoSession
<1>10. RevokedTogether' BY <1>0, <1>1, IdleHolds DEF TokensInv, RevokedTogether
<1>11. ExchangeReplaces' BY <1>0 DEF TokensInv, ExchangeReplaces
<1>12. UsesKnown'
  <2>1. \A t \in Issued : Holding(t)' = Holding(t) BY <1>0, <1>1, IdleHolds DEF Holding, Issued
  <2> QED BY <1>0, <1>3, <2>1 DEF TokensInv, UsesKnown
<1> QED BY <1>2, <1>4, <1>5, <1>6, <1>7, <1>8, <1>9, <1>10, <1>11, <1>12 DEF TokensInv

\* Only tokens from before rotation are presented without a row: a row outlives
\* the JWT.
LEMMA PresentedHasRow ==
  ASSUME TokensInv, NEW p \in Procs, NEW t \in Tokens, Present(p, t)
  PROVE  t \in Issued /\ row[t].exists
<1>1. t \in Issued BY DEF TokensInv, AllocFresh, Present
<1>2. row[t] \in Row /\ now \in Int BY TokenNumbers DEF TokensInv, TokensTypeOK, AllTokens
<1>3. now < row[t].issued + JwtTtl BY DEF Present, Verifies
<1> QED BY <1>1, <1>2, <1>3, TokenNumbers DEF TokensInv, RowsInTime, Row

LEMMA PresentTokens == ASSUME TokensInv, NEW p \in Procs, NEW t \in AllTokens, Present(p, t) PROVE TokensInv'
<1>0. /\ pc[p] = "idle" /\ now < row[t].issued + JwtTtl /\ uses[t] \in 0 .. MaxUses /\ uses[t] < MaxUses
      /\ UNCHANGED <<row, session, held, now, nextToken, succ, exchanged, crashes>>
      /\ uses' = [uses EXCEPT ![t] = @ + 1] /\ cur' = [cur EXCEPT ![p] = t]
  BY DEF TokensInv, TokensTypeOK, Present, Verifies, db
<1> DEFINE f == IF row[t].exists THEN row[t].family ELSE nextFamily
           s == IF row[t].exists THEN (IF row[t].revoked \/ row[t].replaced THEN "used" ELSE "fresh") ELSE "none"
           step == IF row[t].exists THEN "session" ELSE "issue_session"
<1>1. /\ f \in Families /\ s \in {"none", "fresh", "used"} /\ step \in {"session", "issue_session"}
      /\ fam' = [fam EXCEPT ![p] = {f}] /\ pc' = [pc EXCEPT ![p] = step] /\ seen' = [seen EXCEPT ![p] = s]
      /\ nextFamily' \in 1 .. MaxFamily + 1 /\ nextFamily <= nextFamily' /\ f < nextFamily'
      /\ \/ t \in Issued /\ row[t].exists /\ f = row[t].family /\ s # "none" /\ step = "session"
         \/ t \notin Tokens /\ f = nextFamily /\ s = "none" /\ step = "issue_session"
  <2>1. CASE row[t].exists
    <3>1. t \in Issued BY <2>1 DEF TokensInv, AllocFresh, NoRow
    <3>2. /\ fam' = [fam EXCEPT ![p] = {row[t].family}] /\ pc' = [pc EXCEPT ![p] = "session"]
          /\ seen' = [seen EXCEPT ![p] = IF row[t].revoked \/ row[t].replaced THEN "used" ELSE "fresh"]
          /\ nextFamily' = nextFamily
      BY <2>1 DEF Present
    <3>3. row[t].family \in Families /\ row[t].family < nextFamily /\ nextFamily \in 1 .. MaxFamily + 1
      BY <3>1 DEF TokensInv, RowsInTime, TokensTypeOK
    <3> QED BY <2>1, <3>1, <3>2, <3>3
  <2>2. CASE ~row[t].exists
    <3>1. t \notin Tokens BY <2>2, PresentedHasRow
    <3>2. /\ fam' = [fam EXCEPT ![p] = {nextFamily}] /\ pc' = [pc EXCEPT ![p] = "issue_session"] /\ seen' = seen
          /\ nextFamily <= MaxFamily /\ nextFamily' = nextFamily + 1 /\ nextFamily \in 1 .. MaxFamily + 1
      BY <2>2 DEF Present, TokensInv, TokensTypeOK
    <3>3. seen[p] = "none" /\ seen \in [Procs -> {"none", "fresh", "used"}]
      BY <1>0 DEF TokensInv, RequestShape, TokensTypeOK
    <3>4. seen' = [seen EXCEPT ![p] = "none"] BY <3>2, <3>3
    <3>5. nextFamily \in Families /\ nextFamily < nextFamily' /\ nextFamily' \in 1 .. MaxFamily + 1
      BY <3>2, TokenNumbers DEF Families
    <3>6. nextFamily <= nextFamily' BY <3>2, TokenNumbers
    <3> QED BY <2>2, <3>1, <3>2, <3>4, <3>5, <3>6
  <2> QED BY <2>1, <2>2
<1> HIDE DEF f, s, step
<1>2. \A q \in Procs : /\ pc'[q] = IF q = p THEN step ELSE pc[q]
                       /\ cur'[q] = IF q = p THEN t ELSE cur[q]
                       /\ fam'[q] = IF q = p THEN {f} ELSE fam[q]
                       /\ seen'[q] = IF q = p THEN s ELSE seen[q]
  BY <1>0, <1>1 DEF TokensInv, TokensTypeOK
<1>3. \A u \in AllTokens : uses'[u] = IF u = t THEN uses[t] + 1 ELSE uses[u]
  BY <1>0 DEF TokensInv, TokensTypeOK
<1>4. TokensTypeOK'
  <2>1. uses' \in [AllTokens -> 0 .. MaxUses] BY <1>0, TokenNumbers DEF TokensInv, TokensTypeOK
  <2> QED BY <1>0, <1>1, <2>1 DEF TokensInv, TokensTypeOK
<1>5. Issued' = Issued BY <1>0 DEF Issued
<1>6. AllocFresh'
  <2>1. Wanting' = Wanting \cup {p} BY <1>1, <1>2 DEF Wanting
  <2>2. nextToken + Cardinality(Wanting) <= MaxToken BY DEF Present, TokenLeft, Wanting
  <2>3. Cardinality(Wanting') = Cardinality(Wanting) + 1 /\ Cardinality(Wanting) \in Nat
    BY <1>0, <2>1, IdleHolds, WantingCount
  <2>4. nextToken' + Cardinality(Wanting') <= MaxToken + 1
    BY <1>0, <2>2, <2>3, TokenNumbers DEF TokensInv, TokensTypeOK
  <2>5. \A u \in Tokens \ Issued : u # t BY <1>1
  <2>6. \A g \in Families : g >= nextFamily' => g >= nextFamily
    BY <1>1, TokenNumbers DEF TokensInv, TokensTypeOK, Families
  <2>7. \A u \in Tokens : u \in AllTokens BY DEF AllTokens
  <2> QED BY <1>0, <1>3, <1>5, <2>4, <2>5, <2>6, <2>7 DEF TokensInv, AllocFresh
<1>7. RowsInTime'
  <2>1. \A u \in Issued : row[u].family < nextFamily'
    BY <1>1, TokenNumbers DEF TokensInv, TokensTypeOK, RowsInTime, Families
  <2> QED BY <1>0, <1>5, <2>1 DEF TokensInv, RowsInTime
<1>8. RequestShape'
  <2>1. \A q \in Procs : \A g \in fam[q] : g < nextFamily'
    BY <1>1, TokenNumbers DEF TokensInv, TokensTypeOK, RequestShape, Families
  <2>2. Issued \subseteq Tokens BY DEF Issued
  <2> QED BY <1>0, <1>1, <1>2, <1>5, <2>1, <2>2 DEF TokensInv, RequestShape
<1>9. HeldInTime' BY <1>0, <1>1, <1>2, <1>5 DEF TokensInv, HeldInTime
<1>10. SessionsOutlive' BY <1>0, <1>5 DEF TokensInv, SessionsOutlive
<1>11. ExtendsOpen'
  <2>1. nextFamily \in Families => session[nextFamily] = NoSession
    BY DEF TokensInv, TokensTypeOK, AllocFresh
  <2> QED BY <1>0, <1>1, <1>2, <2>1 DEF TokensInv, ExtendsOpen, NoSession
<1>12. RevokedTogether' BY <1>0, <1>1, <1>2 DEF TokensInv, RevokedTogether
<1>13. ExchangeReplaces' BY <1>0 DEF TokensInv, ExchangeReplaces
<1>14. UsesKnown'
  <2>1. \A u \in Issued : u \in AllTokens /\ u # 0 BY TokenNumbers DEF Issued, AllTokens
  <2>2. \A u \in Issued : Holding(u)' = IF u = t THEN Holding(t) \cup {p} ELSE Holding(u)
    BY <1>0, <1>1, <1>2, <2>1, IdleHolds DEF Holding
  <2>3. Cardinality(Holding(t) \cup {p}) = Cardinality(Holding(t)) + 1 /\ Cardinality(Holding(t)) \in Nat
    BY <1>0, IdleHolds, HoldingCount
  <2>4. uses[t] \in Nat /\ exchanged[t] \in Nat BY TokenNumbers DEF TokensInv, TokensTypeOK
  <2>5. SUFFICES ASSUME crashes = 0, NEW u \in Issued, row[u].exists, ~session[row[u].family].revoked
                 PROVE  uses'[u] = exchanged[u] + Cardinality(Holding(u)')
    BY <1>0, <1>5 DEF UsesKnown
  <2>6. uses[u] = exchanged[u] + Cardinality(Holding(u)) BY <2>5 DEF TokensInv, UsesKnown
  <2>7. CASE u = t
    <3>1. Cardinality(Holding(u)') = Cardinality(Holding(t)) + 1 BY <2>2, <2>3, <2>7
    <3>2. uses'[u] = uses[t] + 1 BY <1>3, <2>7
    <3> QED BY <3>1, <3>2, <2>3, <2>4, <2>6, <2>7
  <2>8. CASE u # t
    <3>1. Holding(u)' = Holding(u) /\ uses'[u] = uses[u] BY <1>3, <2>1, <2>2, <2>8
    <3> QED BY <3>1, <2>6
  <2> QED BY <2>7, <2>8
<1> QED BY <1>4, <1>6, <1>7, <1>8, <1>9, <1>10, <1>11, <1>12, <1>13, <1>14 DEF TokensInv

\* A request ends.
LEMMA FinishShape ==
  ASSUME TokensInv, NEW p \in Procs, Finish(p), nextToken' = nextToken, nextFamily' = nextFamily,
         held' \subseteq AllTokens, now' = now
  PROVE  /\ \A q \in Procs : /\ q # p => pc'[q] = pc[q] /\ cur'[q] = cur[q] /\ fam'[q] = fam[q]
                                         /\ seen'[q] = seen[q] /\ succ'[q] = succ[q]
                             /\ q = p => pc'[q] = "idle" /\ cur'[q] = 0 /\ fam'[q] = {} /\ seen'[q] = "none"
         /\ Issued' = Issued
         /\ nextToken' + Cardinality(Wanting') <= MaxToken + 1
         /\ RequestShape'
         /\ \A t \in Tokens : Holding(t)' = IF t = cur[p] THEN Holding(t) \ {p} ELSE Holding(t)
<1>1. \A q \in Procs : /\ q # p => pc'[q] = pc[q] /\ cur'[q] = cur[q] /\ fam'[q] = fam[q]
                                   /\ seen'[q] = seen[q] /\ succ'[q] = succ[q]
                       /\ q = p => pc'[q] = "idle" /\ cur'[q] = 0 /\ fam'[q] = {} /\ seen'[q] = "none"
  BY DEF TokensInv, TokensTypeOK, Finish
<1>2. Issued' = Issued BY DEF Issued
<1>3. Wanting' = Wanting \ {p} BY <1>1 DEF Wanting
<1>4. nextToken' + Cardinality(Wanting') <= MaxToken + 1
  <2>1. CASE p \in Wanting
    BY <1>3, <2>1, WantingCount, TokenNumbers DEF TokensInv, TokensTypeOK, AllocFresh
  <2>2. CASE p \notin Wanting
    <3>1. Wanting' = Wanting BY <1>3, <2>2
    <3> QED BY <3>1 DEF TokensInv, AllocFresh
  <2> QED BY <2>1, <2>2
<1>5. RequestShape' BY <1>1, <1>2, TokenNumbers DEF TokensInv, RequestShape
<1>6. \A t \in Tokens : Holding(t)' = IF t = cur[p] THEN Holding(t) \ {p} ELSE Holding(t)
  BY <1>1 DEF Holding
<1> QED BY <1>1, <1>2, <1>4, <1>5, <1>6

\* A request ends without a write: it died, or found the session revoked.
LEMMA FinishTokens ==
  ASSUME TokensInv, NEW p \in Procs, Finish(p),
         UNCHANGED <<row, session, held, now, nextToken, nextFamily, uses, exchanged>>, crashes' \in 0 .. MaxCrashes,
         crashes' = 0 => crashes = 0 /\ (cur[p] \in Tokens => session[row[cur[p]].family].revoked)
  PROVE  TokensInv'
<1>0. held' \subseteq AllTokens BY DEF TokensInv, TokensTypeOK
<1>1. TokensTypeOK'
  BY TokenNumbers DEF TokensInv, TokensTypeOK, Finish
<1>2. AllocFresh' BY <1>0, FinishShape DEF TokensInv, AllocFresh
<1>3. RowsInTime' /\ SessionsOutlive' BY <1>0, FinishShape DEF TokensInv, RowsInTime, SessionsOutlive
<1>4. HeldInTime' BY <1>0, FinishShape, TokenNumbers DEF TokensInv, HeldInTime
<1>5. ExtendsOpen' BY <1>0, FinishShape DEF TokensInv, ExtendsOpen
<1>6. RevokedTogether' BY <1>0, FinishShape DEF TokensInv, RevokedTogether
<1>7. ExchangeReplaces' BY DEF TokensInv, ExchangeReplaces
<1>8. UsesKnown'
  <2>1. Issued \subseteq Tokens BY DEF Issued
  <2> QED BY <1>0, <2>1, FinishShape DEF TokensInv, UsesKnown
<1>9. RequestShape' BY <1>0, FinishShape
<1> QED BY <1>1, <1>2, <1>3, <1>4, <1>5, <1>6, <1>7, <1>8, <1>9 DEF TokensInv

LEMMA CrashTokens == ASSUME TokensInv, NEW p \in Procs, Crash(p) PROVE TokensInv'
<1>1. crashes' \in 0 .. MaxCrashes /\ crashes' # 0 BY TokenNumbers DEF Crash, TokensInv, TokensTypeOK
<1> QED BY <1>1, FinishTokens DEF Crash, db, alloc

LEMMA CheckSessionTokens == ASSUME TokensInv, NEW p \in Procs, CheckSession(p) PROVE TokensInv'
<1>0. /\ pc[p] = "session" /\ cur[p] \in Issued /\ cur[p] \in Tokens /\ fam[p] = {row[cur[p]].family}
      /\ now < row[cur[p]].issued + JwtTtl /\ row[cur[p]].family \in Families
      /\ UNCHANGED <<row, session, held, now, nextToken, nextFamily, uses, exchanged, crashes>>
  BY DEF CheckSession, TokensInv, RequestShape, HeldInTime, RowsInTime, db, alloc
<1>1. FamilyOf(p) = row[cur[p]].family BY <1>0, FamilyOfKnown
<1>2. ~(row[cur[p]].issued + RowTtl < now)
  <2>1. row[cur[p]] \in Row /\ now \in Int BY <1>0, TokenNumbers DEF TokensInv, TokensTypeOK, AllTokens
  <2> QED BY <1>0, <2>1, TokenNumbers DEF Row
<1>3. CASE ~SessionOk(FamilyOf(p))
  <2>1. session[row[cur[p]].family].revoked BY <1>1, <1>3 DEF SessionOk
  <2>2. Finish(p) BY <1>3 DEF CheckSession
  <2> QED BY <1>0, <2>1, <2>2, FinishTokens DEF TokensInv, TokensTypeOK
<1>4. CASE SessionOk(FamilyOf(p))
  <2>0. PICK step \in {"revoke", "issue_session"} :
          /\ pc' = [pc EXCEPT ![p] = step] /\ step = IF seen[p] = "used" THEN "revoke" ELSE "issue_session"
          /\ UNCHANGED <<cur, fam, seen, succ>>
    BY <1>2, <1>4 DEF CheckSession
  <2>1. \A q \in Procs : pc'[q] = IF q = p THEN step ELSE pc[q] BY <2>0 DEF TokensInv, TokensTypeOK
  <2>2. Issued' = Issued BY <1>0 DEF Issued
  <2>3. TokensTypeOK' BY <1>0, <2>0 DEF TokensInv, TokensTypeOK
  <2>4. AllocFresh'
    <3>1. Wanting' = Wanting \/ Wanting' = Wanting \ {p} BY <1>0, <2>1 DEF Wanting
    <3>2. p \in Wanting BY <1>0 DEF Wanting
    <3>3. nextToken' + Cardinality(Wanting') <= MaxToken + 1
      BY <1>0, <3>1, <3>2, WantingCount, TokenNumbers DEF TokensInv, TokensTypeOK, AllocFresh
    <3> QED BY <1>0, <2>2, <3>3 DEF TokensInv, AllocFresh
  <2>5. RowsInTime' /\ SessionsOutlive' BY <1>0, <2>2 DEF TokensInv, RowsInTime, SessionsOutlive
  <2>6. RequestShape'
    <3>1. seen[p] # "none" BY <1>0 DEF TokensInv, RequestShape
    <3> QED BY <1>0, <2>0, <2>1, <2>2, <3>1 DEF TokensInv, TokensTypeOK, RequestShape
  <2>7. HeldInTime' BY <1>0, <2>0, <2>2 DEF TokensInv, HeldInTime
  <2>8. ExtendsOpen'
    <3>1. row[cur[p]] \in Row /\ now \in Int /\ session[row[cur[p]].family] \in Session
      BY <1>0, TokenNumbers DEF TokensInv, TokensTypeOK, AllTokens
    <3>2. row[cur[p]].exists BY <1>0, <3>1, TokenNumbers DEF TokensInv, RowsInTime, Row
    <3>3. row[cur[p]].issued + RowTtl <= session[row[cur[p]].family].expires
      BY <1>0, <1>1, <1>4, <3>2 DEF TokensInv, SessionsOutlive, SessionOk
    <3>4. now <= session[row[cur[p]].family].expires
      BY <1>0, <3>1, <3>3, TokenNumbers DEF Row, Session
    <3> QED BY <1>0, <1>1, <1>4, <2>0, <2>1, <3>4 DEF TokensInv, ExtendsOpen, SessionOk
  <2>9. RevokedTogether' BY <1>0, <1>1, <1>4, <2>0, <2>1 DEF TokensInv, RevokedTogether, SessionOk
  <2>10. ExchangeReplaces' BY <1>0 DEF TokensInv, ExchangeReplaces
  <2>11. UsesKnown'
    <3>1. \A t \in Issued : Holding(t)' = Holding(t) BY <1>0, <2>0, <2>1 DEF Holding
    <3> QED BY <1>0, <2>2, <3>1 DEF TokensInv, UsesKnown
  <2> QED BY <2>3, <2>4, <2>5, <2>6, <2>7, <2>8, <2>9, <2>10, <2>11 DEF TokensInv
<1> QED BY <1>3, <1>4

LEMMA RevokeStartTokens == ASSUME TokensInv, NEW p \in Procs, NEW f \in Families, RevokeStart(p, f) PROVE TokensInv'
<1>0. /\ pc[p] = "idle"
      /\ UNCHANGED <<row, session, held, now, nextToken, nextFamily, cur, seen, succ, uses, exchanged, crashes>>
  BY DEF RevokeStart, db, alloc
<1>1. PICK S \in SUBSET OpenSessions : fam' = [fam EXCEPT ![p] = S] BY DEF RevokeStart
<1>2. \A q \in Procs : /\ pc'[q] = IF q = p THEN "revoke" ELSE pc[q]
                       /\ fam'[q] = IF q = p THEN S ELSE fam[q]
  BY <1>1 DEF RevokeStart, TokensInv, TokensTypeOK
<1>3. \A g \in S : g \in Families /\ g < nextFamily
  BY TokenNumbers DEF OpenSessions, TokensInv, AllocFresh, TokensTypeOK, NoSession, Families
<1>4. TokensTypeOK' BY <1>0, <1>1, <1>3 DEF RevokeStart, TokensInv, TokensTypeOK
<1>5. Issued' = Issued BY <1>0 DEF Issued
<1>6. AllocFresh'
  <2>1. Wanting' = Wanting BY <1>0, <1>2 DEF Wanting
  <2> QED BY <1>0, <1>5, <2>1 DEF TokensInv, AllocFresh
<1>7. RowsInTime' /\ SessionsOutlive' BY <1>0, <1>5 DEF TokensInv, RowsInTime, SessionsOutlive
<1>8. RequestShape' BY <1>0, <1>2, <1>3, <1>5 DEF TokensInv, RequestShape
<1>9. HeldInTime' BY <1>0, <1>2, <1>5, IdleHolds DEF TokensInv, HeldInTime
<1>10. ExtendsOpen' BY <1>0, <1>2 DEF TokensInv, ExtendsOpen
<1>11. RevokedTogether' /\ ExchangeReplaces' BY <1>0, <1>2 DEF TokensInv, RevokedTogether, ExchangeReplaces
<1>12. UsesKnown'
  <2>1. \A t \in Issued : Holding(t)' = Holding(t) BY <1>0, <1>2, IdleHolds DEF Holding, Issued
  <2> QED BY <1>0, <1>5, <2>1 DEF TokensInv, UsesKnown
<1> QED BY <1>4, <1>6, <1>7, <1>8, <1>9, <1>10, <1>11, <1>12 DEF TokensInv


-----------------------------------------------------------------------------
(* Steps that write rows and sessions *)

\* A request that issues a token works on one family, which exists.
LEMMA IssuerFamily ==
  ASSUME TokensInv, NEW p \in Procs, pc[p] \in {"issue_session", "issue_token"}
  PROVE  /\ fam[p] = {FamilyOf(p)} /\ FamilyOf(p) \in Families /\ FamilyOf(p) < nextFamily
         /\ p \in Wanting
<1>1. PICK f \in Families : fam[p] = {f} BY DEF TokensInv, RequestShape
<1>2. f < nextFamily BY <1>1 DEF TokensInv, RequestShape
<1>3. FamilyOf(p) = f BY <1>1, FamilyOfKnown
<1> QED BY <1>1, <1>2, <1>3 DEF Wanting

LEMMA IssueSessionTokens == ASSUME TokensInv, NEW p \in Procs, IssueSession(p) PROVE TokensInv'
<1> DEFINE f == FamilyOf(p)
<1>0. /\ pc[p] = "issue_session" /\ fam[p] = {f} /\ f \in Families /\ f < nextFamily /\ session[f] \in Session
      /\ UNCHANGED <<row, held, now, nextToken, nextFamily, cur, fam, seen, succ, uses, exchanged, crashes>>
      /\ p \in Wanting
  BY IssuerFamily DEF IssueSession, TokensInv, TokensTypeOK, alloc
<1>1. /\ \A g \in Families : g # f => session'[g] = session[g]
      /\ session'[f] = IF ~session[f].exists
                         THEN [exists |-> TRUE, revoked |-> FALSE, expires |-> now + RowTtl, revokedAt |-> 0]
                         ELSE IF session[f].revoked THEN session[f] ELSE [session[f] EXCEPT !.expires = now + RowTtl]
  BY <1>0 DEF IssueSession, TokensInv, TokensTypeOK
<1> HIDE DEF f
<1>2. now \in 0 .. MaxTime /\ now + RowTtl \in 0 .. MaxTime + RowTtl
  BY TokenNumbers DEF TokensInv, TokensTypeOK
<1>3. /\ session'[f].exists /\ (session'[f].revoked => session[f].exists /\ session[f].revoked /\ session'[f] = session[f])
      /\ (session[f].exists /\ session[f].revoked => session'[f].revoked)
      /\ (~session'[f].revoked => session'[f].expires = now + RowTtl)
  BY <1>0, <1>1 DEF Session
<1>4. \A q \in Procs : pc'[q] = IF q = p THEN "issue_token" ELSE pc[q]
  BY DEF IssueSession, TokensInv, TokensTypeOK
<1>5. TokensTypeOK'
  <2>1. session'[f] \in Session BY <1>0, <1>1, <1>2, TokenNumbers DEF Session
  <2>2. session' \in [Families -> Session]
    <3>1. \A g \in Families : session'[g] \in Session BY <1>1, <2>1 DEF TokensInv, TokensTypeOK
    <3>2. session' = [g \in Families |-> session'[g]] BY DEF IssueSession, TokensInv, TokensTypeOK
    <3> QED BY <3>1, <3>2
  <2>3. pc' = [pc EXCEPT ![p] = "issue_token"] BY DEF IssueSession
  <2> QED BY <1>0, <2>2, <2>3 DEF TokensInv, TokensTypeOK
<1>6. Issued' = Issued BY <1>0 DEF Issued
<1>7. AllocFresh'
  <2>1. Wanting' = Wanting BY <1>0, <1>4 DEF Wanting
  <2>2. \A g \in Families : g >= nextFamily => g # f BY <1>0, TokenNumbers DEF TokensInv, TokensTypeOK, Families
  <2> QED BY <1>0, <1>1, <1>6, <2>1, <2>2 DEF TokensInv, AllocFresh
<1>8. RowsInTime' BY <1>0, <1>6 DEF TokensInv, RowsInTime
<1>9. RequestShape' BY <1>0, <1>4, <1>6 DEF TokensInv, RequestShape
<1>10. HeldInTime' BY <1>0, <1>6 DEF TokensInv, HeldInTime
<1>11. SessionsOutlive'
  <2> SUFFICES ASSUME NEW t \in Issued, row[t].exists
               PROVE  /\ session'[row[t].family].exists /\ row[t].issued <= session'[row[t].family].expires
                      /\ session'[row[t].family].revoked => row[t].issued <= session'[row[t].family].revokedAt
                      /\ ~session'[row[t].family].revoked => row[t].issued + RowTtl <= session'[row[t].family].expires
    BY <1>0, <1>6 DEF SessionsOutlive
  <2>1. row[t].family \in Families /\ row[t].issued <= now /\ row[t] \in Row
    BY DEF TokensInv, RowsInTime, TokensTypeOK, AllTokens, Issued
  <2>2. CASE row[t].family # f
    BY <1>1, <2>1, <2>2 DEF TokensInv, SessionsOutlive
  <2>3. CASE row[t].family = f
    <3>1. row[t].issued + RowTtl <= now + RowTtl /\ row[t].issued <= now + RowTtl
      BY <1>2, <2>1, TokenNumbers DEF Row
    <3> QED BY <1>3, <2>3, <3>1 DEF TokensInv, SessionsOutlive
  <2> QED BY <2>2, <2>3
<1>12. ExtendsOpen'
  <2> SUFFICES ASSUME NEW q \in Procs, NEW g \in Families, pc'[q] \in {"issue_session", "issue_token"}, fam[q] = {g}
               PROVE  /\ session'[g].exists => now <= session'[g].expires
                      /\ session'[g].revoked => session'[g].revokedAt = now
                      /\ pc'[q] = "issue_token" =>
                           session'[g].exists /\ (~session'[g].revoked => session'[g].expires = now + RowTtl)
    BY <1>0 DEF ExtendsOpen
  <2>1. CASE g # f
    <3>1. q # p BY <1>0, <2>1
    <3> QED BY <1>1, <1>4, <2>1, <3>1 DEF TokensInv, ExtendsOpen
  <2>2. CASE g = f
    <3>1. session'[f].revoked => session[f].revokedAt = now /\ now <= session[f].expires
      BY <1>0, <1>3 DEF TokensInv, ExtendsOpen
    <3>2. now <= now + RowTtl BY <1>2, TokenNumbers
    <3> QED BY <1>3, <2>2, <3>1, <3>2
  <2> QED BY <2>1, <2>2
<1>13. RevokedTogether'
  <2>1. \A q \in Procs : cur[q] \in Tokens => row[cur[q]].family \in Families
    BY DEF TokensInv, HeldInTime, RowsInTime
  <2> QED BY <1>0, <1>1, <1>3, <1>4, <2>1 DEF TokensInv, RevokedTogether
<1>14. ExchangeReplaces' BY <1>0 DEF TokensInv, ExchangeReplaces
<1>15. UsesKnown'
  <2>1. \A t : Holding(t)' = Holding(t) BY <1>0, <1>4 DEF Holding
  <2>2. \A t \in Issued : row[t].exists /\ ~session'[row[t].family].revoked => ~session[row[t].family].revoked
    <3>1. \A t \in Issued : row[t].exists => row[t].family \in Families /\ session[row[t].family].exists
      BY DEF TokensInv, SessionsOutlive, RowsInTime
    <3> QED BY <1>1, <1>3, <3>1
  <2> QED BY <1>0, <1>6, <2>1, <2>2 DEF TokensInv, UsesKnown
<1> QED BY <1>5, <1>7, <1>8, <1>9, <1>10, <1>11, <1>12, <1>13, <1>14, <1>15 DEF TokensInv


LEMMA IssueTokenTokens == ASSUME TokensInv, NEW p \in Procs, IssueToken(p) PROVE TokensInv'
<1> DEFINE f == FamilyOf(p)
           n == nextToken
           new == [exists |-> TRUE, family |-> f, revoked |-> FALSE, replaced |-> FALSE, issued |-> now, revokedAt |-> 0]
<1>0. /\ pc[p] = "issue_token" /\ fam[p] = {f} /\ f \in Families /\ f < nextFamily /\ p \in Wanting
      /\ UNCHANGED <<session, now, nextFamily, uses, crashes>>
  BY IssuerFamily DEF IssueToken
<1>1. n \in Tokens /\ n \in AllTokens /\ n \notin Issued /\ n \in Nat /\ nextToken' = n + 1
  <2>1. Cardinality(Wanting) >= 1
    <3>1. Wanting \in SUBSET Procs BY DEF Wanting
    <3>2. IsFiniteSet(Wanting) /\ Wanting # {} BY <1>0, <3>1, CountProcs
    <3>3. Cardinality(Wanting) \in Nat BY <3>1, CountProcs
    <3>4. Cardinality(Wanting) # 0 BY <3>2, FS_EmptySet
    <3> QED BY <3>3, <3>4
  <2>2. nextToken + Cardinality(Wanting) <= MaxToken + 1 /\ nextToken \in 1 .. MaxToken + 1
    BY DEF TokensInv, AllocFresh, TokensTypeOK
  <2>3. nextToken <= MaxToken
    <3>1. Cardinality(Wanting) \in Nat BY <1>0, WantingCount
    <3> QED BY <2>1, <2>2, <3>1, TokenNumbers
  <2> QED BY <2>2, <2>3, TokenNumbers DEF IssueToken, Tokens, AllTokens, Issued
<1>2. new \in Row /\ now \in Nat
  BY <1>0, TokenNumbers DEF Row, TokensInv, TokensTypeOK, Families
<1>3. /\ row' \in [AllTokens -> Row] /\ row'[n] = new
      /\ \A t \in AllTokens : t # n => row'[t] = row[t]
  BY <1>1, <1>2 DEF IssueToken, TokensInv, TokensTypeOK
<1>4. Issued' = Issued \cup {n} /\ Issued \subseteq Tokens /\ Tokens \subseteq AllTokens
  BY <1>1, TokenNumbers DEF Issued, Tokens, AllTokens
<1>5. \A q \in Procs : cur[q] \in Tokens => cur[q] \in Issued /\ cur[q] # n
  BY <1>1 DEF TokensInv, HeldInTime
<1>6. /\ held' \subseteq AllTokens /\ held' \subseteq held \cup {n}
      /\ exchanged' \in [AllTokens -> Nat] /\ \A t \in Tokens : exchanged'[t] = exchanged[t]
      /\ pc' \in [Procs -> {"idle", "session", "issue_session", "issue_token", "consume", "revoke"}]
      /\ cur' \in [Procs -> AllTokens \cup {0}] /\ fam' \in [Procs -> SUBSET Families]
      /\ seen' \in [Procs -> {"none", "fresh", "used"}] /\ succ' \in [Procs -> 0 .. MaxToken]
      /\ \A q \in Procs : q # p => pc'[q] = pc[q] /\ cur'[q] = cur[q] /\ fam'[q] = fam[q]
                                   /\ seen'[q] = seen[q] /\ succ'[q] = succ[q]
      /\ \/ /\ pc'[p] = "consume" /\ cur[p] \in Tokens /\ cur'[p] = cur[p] /\ fam'[p] = fam[p] /\ seen'[p] = "fresh"
            /\ succ'[p] = n
         \/ pc'[p] = "idle" /\ cur[p] \notin Tokens /\ cur'[p] = 0 /\ fam'[p] = {} /\ seen'[p] = "none"
  <2>1. CASE seen[p] = "fresh"
    <3>1. /\ succ' = [succ EXCEPT ![p] = n] /\ pc' = [pc EXCEPT ![p] = "consume"]
          /\ UNCHANGED <<cur, fam, seen, held, exchanged>>
      BY <2>1 DEF IssueToken
    <3>2. cur[p] \in Tokens BY <1>0, <2>1 DEF TokensInv, RequestShape
    <3>3. n \in 0 .. MaxToken BY <1>1, TokenNumbers DEF Tokens
    <3> QED BY <2>1, <3>1, <3>2, <3>3 DEF TokensInv, TokensTypeOK
  <2>2. CASE seen[p] # "fresh"
    <3>1. /\ held' = held \cup {n} /\ Finish(p)
          /\ exchanged' = IF cur[p] = 0 THEN exchanged ELSE [exchanged EXCEPT ![cur[p]] = @ + 1]
      BY <2>2 DEF IssueToken
    <3>2. cur[p] \notin Tokens BY <1>0, <2>2 DEF TokensInv, RequestShape
    <3>3. cur[p] \in AllTokens \cup {0} BY DEF TokensInv, TokensTypeOK
    <3>4. exchanged' \in [AllTokens -> Nat] /\ \A t \in Tokens : exchanged'[t] = exchanged[t]
      BY <1>4, <3>1, <3>2, <3>3 DEF TokensInv, TokensTypeOK
    <3>5. /\ pc' = [pc EXCEPT ![p] = "idle"] /\ cur' = [cur EXCEPT ![p] = 0] /\ fam' = [fam EXCEPT ![p] = {}]
          /\ seen' = [seen EXCEPT ![p] = "none"] /\ succ' = [succ EXCEPT ![p] = 0]
      BY <3>1 DEF Finish
    <3>6. 0 \in 0 .. MaxToken BY TokenNumbers
    <3> QED BY <1>1, <3>1, <3>2, <3>4, <3>5, <3>6 DEF TokensInv, TokensTypeOK
  <2> QED BY <2>1, <2>2
<1>7. TokensTypeOK'
  <2>1. nextToken' \in 1 .. MaxToken + 1 BY <1>1, TokenNumbers DEF Tokens
  <2> QED BY <1>0, <1>3, <1>6, <2>1 DEF TokensInv, TokensTypeOK
<1> HIDE DEF f, n
<1>8. AllocFresh'
  <2>1. Wanting' = Wanting \ {p} BY <1>0, <1>6 DEF Wanting
  <2>2. nextToken' + Cardinality(Wanting') <= MaxToken + 1
    BY <1>0, <1>1, <2>1, WantingCount, TokenNumbers DEF TokensInv, AllocFresh, n
  <2> QED BY <1>0, <1>3, <1>4, <1>6, <2>2 DEF TokensInv, AllocFresh
<1>9. RowsInTime'
  <2>1. \A t \in Issued : row'[t] = row[t] BY <1>1, <1>3, <1>4
  <2>2. now <= now BY <1>2
  <2> QED BY <1>0, <1>3, <1>4, <2>1, <2>2 DEF TokensInv, RowsInTime
<1>10. RequestShape' BY <1>0, <1>4, <1>6, TokenNumbers DEF TokensInv, RequestShape
<1>11. HeldInTime'
  <2>1. \A q \in Procs : cur[q] \in Tokens => row'[cur[q]] = row[cur[q]] BY <1>3, <1>4, <1>5
  <2> QED BY <1>0, <1>4, <1>6, <2>1, TokenNumbers DEF TokensInv, HeldInTime
<1>12. SessionsOutlive'
  <2>1. /\ session[f].exists /\ now <= session[f].expires /\ (session[f].revoked => now <= session[f].revokedAt)
        /\ ~session[f].revoked => now + RowTtl <= session[f].expires
    <3>1. /\ session[f].exists /\ now <= session[f].expires /\ (session[f].revoked => session[f].revokedAt = now)
          /\ ~session[f].revoked => session[f].expires = now + RowTtl
      BY <1>0 DEF TokensInv, ExtendsOpen
    <3> QED BY <1>2, <3>1, TokenNumbers
  <2>2. \A t \in Issued : row'[t] = row[t] BY <1>1, <1>3, <1>4
  <2>3. row'[n].family = f /\ row'[n].issued = now BY <1>3
  <2> QED BY <1>0, <1>4, <2>1, <2>2, <2>3 DEF TokensInv, SessionsOutlive
<1>13. ExtendsOpen' BY <1>0, <1>6 DEF TokensInv, ExtendsOpen
<1>14. RevokedTogether'
  <2>1. \A q \in Procs : cur[q] \in Tokens => row'[cur[q]] = row[cur[q]] BY <1>3, <1>4, <1>5
  <2> QED BY <1>0, <1>6, <2>1, TokenNumbers DEF TokensInv, RevokedTogether
<1>15. ExchangeReplaces'
  <2>1. exchanged[n] = 0 BY <1>1 DEF TokensInv, AllocFresh
  <2> QED BY <1>3, <1>4, <1>6, <2>1 DEF TokensInv, ExchangeReplaces
<1>16. UsesKnown'
  <2>1. \A t \in Tokens : Holding(t)' = Holding(t) BY <1>0, <1>6, TokenNumbers DEF Holding
  <2>2. Holding(n) = {} BY <1>1, <1>5 DEF Holding
  <2>3. uses[n] = exchanged[n] + Cardinality(Holding(n))
    BY <1>1, <2>2, FS_EmptySet DEF TokensInv, AllocFresh
  <2>4. SUFFICES ASSUME crashes = 0, NEW t \in Issued \cup {n}, row'[t].exists, ~session[row'[t].family].revoked
                 PROVE  uses[t] = exchanged[t] + Cardinality(Holding(t))
    BY <1>0, <1>1, <1>4, <1>6, <2>1 DEF UsesKnown
  <2>5. CASE t = n BY <2>3, <2>5
  <2>6. CASE t # n
    <3>1. t \in Issued /\ row'[t] = row[t] BY <1>3, <1>4, <2>6
    <3> QED BY <2>4, <3>1 DEF TokensInv, UsesKnown
  <2> QED BY <2>5, <2>6
<1> QED BY <1>7, <1>8, <1>9, <1>10, <1>11, <1>12, <1>13, <1>14, <1>15, <1>16 DEF TokensInv

LEMMA ConsumeTokens == ASSUME TokensInv, NEW p \in Procs, Consume(p) PROVE TokensInv'
<1> DEFINE c == cur[p]
<1>0. /\ pc[p] = "consume" /\ c \in Tokens /\ c \in Issued /\ c \in AllTokens /\ row[c] \in Row /\ succ[p] \in Tokens
      /\ UNCHANGED <<session, now, nextToken, nextFamily, uses, crashes>>
  BY DEF Consume, TokensInv, TokensTypeOK, RequestShape, HeldInTime, alloc, AllTokens, Issued
<1>1. CASE Consumable(c)
  <2>0. /\ row' = [row EXCEPT ![c].replaced = TRUE] /\ held' = held \cup {succ[p]} /\ Finish(p)
        /\ exchanged' = [exchanged EXCEPT ![c] = @ + 1]
    BY <1>1 DEF Consume
  <2> HIDE DEF c
  <2>1. /\ \A t \in AllTokens : t # c => row'[t] = row[t]
        /\ row'[c] = [row[c] EXCEPT !.replaced = TRUE]
        /\ \A t \in AllTokens : exchanged'[t] = IF t = c THEN exchanged[c] + 1 ELSE exchanged[t]
    BY <1>0, <2>0 DEF TokensInv, TokensTypeOK
  <2>2. /\ row'[c] \in Row /\ row'[c].replaced
        /\ row'[c].exists = row[c].exists /\ row'[c].family = row[c].family /\ row'[c].revoked = row[c].revoked
        /\ row'[c].issued = row[c].issued /\ row'[c].revokedAt = row[c].revokedAt
    BY <1>0, <2>1 DEF Row
  <2>3. \A t \in AllTokens : /\ row'[t].exists = row[t].exists /\ row'[t].family = row[t].family
                             /\ row'[t].revoked = row[t].revoked /\ row'[t].issued = row[t].issued
                             /\ row'[t].revokedAt = row[t].revokedAt /\ (row[t].replaced => row'[t].replaced)
    BY <2>1, <2>2
  <2>4. exchanged[c] = 0 /\ exchanged'[c] = 1
    <3>1. ~row[c].replaced BY <1>1 DEF Consumable, c
    <3>2. exchanged[c] \in Nat /\ exchanged[c] <= 1 /\ exchanged[c] # 1
      BY <1>0, <3>1 DEF TokensInv, TokensTypeOK, ExchangeReplaces
    <3> QED BY <1>0, <2>1, <3>2
  <2>5. held' \subseteq AllTokens BY <1>0, <2>0 DEF TokensInv, TokensTypeOK, AllTokens
  <2>6. TokensTypeOK'
    <3>1. row' \in [AllTokens -> Row] BY <1>0, <2>0, <2>1, <2>2 DEF TokensInv, TokensTypeOK
    <3>2. exchanged' \in [AllTokens -> Nat]
      <4>1. exchanged \in [AllTokens -> Nat] BY DEF TokensInv, TokensTypeOK
      <4> QED BY <1>0, <2>0, <2>4, <4>1
    <3>3. /\ pc' \in [Procs -> {"idle", "session", "issue_session", "issue_token", "consume", "revoke"}]
          /\ cur' \in [Procs -> AllTokens \cup {0}] /\ fam' \in [Procs -> SUBSET Families]
          /\ seen' \in [Procs -> {"none", "fresh", "used"}] /\ succ' \in [Procs -> 0 .. MaxToken]
      BY <2>0, TokenNumbers DEF TokensInv, TokensTypeOK, Finish
    <3> QED BY <1>0, <2>5, <3>1, <3>2, <3>3 DEF TokensInv, TokensTypeOK
  <2>7. /\ \A q \in Procs : /\ q # p => pc'[q] = pc[q] /\ cur'[q] = cur[q] /\ fam'[q] = fam[q]
                                        /\ seen'[q] = seen[q] /\ succ'[q] = succ[q]
                            /\ q = p => pc'[q] = "idle" /\ cur'[q] = 0 /\ fam'[q] = {} /\ seen'[q] = "none"
        /\ Issued' = Issued /\ nextToken' + Cardinality(Wanting') <= MaxToken + 1 /\ RequestShape'
        /\ \A t \in Tokens : Holding(t)' = IF t = c THEN Holding(t) \ {p} ELSE Holding(t)
    BY <1>0, <2>0, <2>5, FinishShape DEF c
  <2>8. Issued \subseteq Tokens /\ Tokens \subseteq AllTokens /\ 0 \notin Tokens BY TokenNumbers DEF Issued, AllTokens
  <2>9. AllocFresh'
    <3>1. \A t \in Tokens \ Issued : t # succ[p] BY <1>0 DEF TokensInv, RequestShape
    <3>2. c \in Issued BY <1>0
    <3> QED BY <1>0, <2>0, <2>1, <2>7, <2>8, <3>1, <3>2 DEF TokensInv, AllocFresh
  <2>10. RowsInTime' BY <1>0, <2>3, <2>7, <2>8 DEF TokensInv, RowsInTime
  <2>11. HeldInTime'
    <3>1. \A q \in Procs : cur'[q] \in Tokens => q # p BY <2>7, <2>8
    <3> QED BY <1>0, <2>3, <2>7, <2>8, <3>1 DEF TokensInv, HeldInTime
  <2>12. SessionsOutlive'
    <3> SUFFICES ASSUME NEW t \in Issued, row'[t].exists
                 PROVE  /\ session[row[t].family].exists /\ row[t].issued <= session[row[t].family].expires
                        /\ session[row[t].family].revoked => row[t].issued <= session[row[t].family].revokedAt
                        /\ ~session[row[t].family].revoked => row[t].issued + RowTtl <= session[row[t].family].expires
      BY <1>0, <2>3, <2>7, <2>8 DEF SessionsOutlive
    <3> QED BY <2>3, <2>8 DEF TokensInv, SessionsOutlive
  <2>13. ExtendsOpen'
    <3>1. \A q \in Procs : pc'[q] \in {"issue_session", "issue_token"} => q # p BY <2>7
    <3> QED BY <1>0, <2>7, <3>1 DEF TokensInv, ExtendsOpen
  <2>14. RevokedTogether'
    <3>1. \A q \in Procs : cur'[q] \in Tokens => q # p BY <2>7, <2>8
    <3> QED BY <1>0, <2>3, <2>7, <2>8, <3>1 DEF TokensInv, RevokedTogether
  <2>15. ExchangeReplaces'
    <3> SUFFICES ASSUME NEW t \in Tokens PROVE exchanged'[t] <= 1 /\ (exchanged'[t] = 1 => row'[t].replaced)
      BY DEF ExchangeReplaces
    <3>1. CASE t = c BY <2>2, <2>4, <3>1
    <3>2. CASE t # c BY <2>1, <2>8, <3>2 DEF TokensInv, ExchangeReplaces
    <3> QED BY <3>1, <3>2
  <2>16. UsesKnown'
    <3> SUFFICES ASSUME crashes = 0, NEW t \in Issued, row[t].exists, ~session[row[t].family].revoked
                 PROVE  uses[t] = exchanged'[t] + Cardinality(Holding(t)')
      BY <1>0, <2>3, <2>7, <2>8 DEF UsesKnown
    <3>1. uses[t] = exchanged[t] + Cardinality(Holding(t)) BY DEF TokensInv, UsesKnown
    <3>2. CASE t = c
      <4>1. p \in Holding(t) BY <1>0, <3>2 DEF Holding, c
      <4>2. Cardinality(Holding(t)') = Cardinality(Holding(t)) - 1 /\ Cardinality(Holding(t)) \in Nat
        BY <2>7, <2>8, <3>2, <4>1, HoldingCount
      <4> QED BY <2>4, <3>1, <3>2, <4>2
    <3>3. CASE t # c BY <2>1, <2>7, <2>8, <3>1, <3>3
    <3> QED BY <3>2, <3>3
  <2> QED BY <2>6, <2>7, <2>9, <2>10, <2>11, <2>12, <2>13, <2>14, <2>15, <2>16 DEF TokensInv
<1>2. CASE ~Consumable(c)
  <2>0. pc' = [pc EXCEPT ![p] = "revoke"] /\ UNCHANGED <<row, held, exchanged, cur, fam, seen, succ>>
    BY <1>2 DEF Consume
  <2>1. \A q \in Procs : pc'[q] = IF q = p THEN "revoke" ELSE pc[q] BY <2>0 DEF TokensInv, TokensTypeOK
  <2>2. Issued' = Issued /\ Wanting' = Wanting BY <1>0, <2>1 DEF Issued, Wanting
  <2>3. TokensTypeOK' BY <1>0, <2>0 DEF TokensInv, TokensTypeOK
  <2>4. AllocFresh' /\ RowsInTime' /\ SessionsOutlive'
    BY <1>0, <2>0, <2>2 DEF TokensInv, AllocFresh, RowsInTime, SessionsOutlive
  <2>5. RequestShape' BY <1>0, <2>0, <2>1, <2>2 DEF TokensInv, RequestShape
  <2>6. HeldInTime' BY <1>0, <2>0, <2>2 DEF TokensInv, HeldInTime
  <2>7. ExtendsOpen' BY <1>0, <2>0, <2>1 DEF TokensInv, ExtendsOpen
  <2>8. RevokedTogether' /\ ExchangeReplaces'
    BY <1>0, <2>0, <2>1 DEF TokensInv, RevokedTogether, ExchangeReplaces
  <2>9. UsesKnown'
    <3>1. \A t : Holding(t)' = Holding(t) BY <1>0, <2>0, <2>1 DEF Holding
    <3> QED BY <1>0, <2>0, <2>2, <3>1 DEF TokensInv, UsesKnown
  <2> QED BY <2>3, <2>4, <2>5, <2>6, <2>7, <2>8, <2>9 DEF TokensInv
<1> QED BY <1>1, <1>2


-----------------------------------------------------------------------------
(* Revocation, the purge and the clock *)

\* What revoking the families S does to rows and sessions.
LEMMA RevokedDb ==
  ASSUME TokensInv, NEW S, Revoked(S)
  PROVE  /\ row' \in [AllTokens -> Row] /\ session' \in [Families -> Session]
         /\ \A t \in AllTokens :
              /\ row'[t].exists = row[t].exists /\ row'[t].family = row[t].family
              /\ row'[t].issued = row[t].issued /\ row'[t].replaced = row[t].replaced
              /\ ~row[t].exists => row'[t] = row[t]
              /\ row'[t].revoked <=> row[t].revoked \/ (row[t].exists /\ row[t].family \in S)
              /\ row'[t].revokedAt = IF row'[t].revoked /\ ~row[t].revoked THEN now ELSE row[t].revokedAt
         /\ \A f \in Families :
              /\ session'[f].exists = session[f].exists /\ session'[f].expires = session[f].expires
              /\ ~session[f].exists => session'[f] = session[f]
              /\ session'[f].revoked <=> session[f].revoked \/ (session[f].exists /\ f \in S)
              /\ session'[f].revokedAt = IF session'[f].revoked /\ ~session[f].revoked THEN now ELSE session[f].revokedAt
<1>0. now \in 0 .. MaxTime BY DEF TokensInv, TokensTypeOK
<1>1. ASSUME NEW t \in AllTokens
      PROVE  /\ row'[t] \in Row
             /\ row'[t].exists = row[t].exists /\ row'[t].family = row[t].family
             /\ row'[t].issued = row[t].issued /\ row'[t].replaced = row[t].replaced
             /\ ~row[t].exists => row'[t] = row[t]
             /\ row'[t].revoked <=> row[t].revoked \/ (row[t].exists /\ row[t].family \in S)
             /\ row'[t].revokedAt = IF row'[t].revoked /\ ~row[t].revoked THEN now ELSE row[t].revokedAt
  <2>1. row[t] \in Row BY DEF TokensInv, TokensTypeOK
  <2>2. row'[t] = IF row[t].exists /\ row[t].family \in S /\ ~row[t].revoked
                    THEN [row[t] EXCEPT !.revoked = TRUE, !.revokedAt = now] ELSE row[t]
    BY DEF Revoked
  <2> QED BY <1>0, <2>1, <2>2 DEF Row
<1>2. ASSUME NEW f \in Families
      PROVE  /\ session'[f] \in Session
             /\ session'[f].exists = session[f].exists /\ session'[f].expires = session[f].expires
             /\ ~session[f].exists => session'[f] = session[f]
             /\ session'[f].revoked <=> session[f].revoked \/ (session[f].exists /\ f \in S)
             /\ session'[f].revokedAt = IF session'[f].revoked /\ ~session[f].revoked THEN now ELSE session[f].revokedAt
  <2>1. session[f] \in Session BY DEF TokensInv, TokensTypeOK
  <2>2. session'[f] = IF f \in S /\ session[f].exists /\ ~session[f].revoked
                        THEN [session[f] EXCEPT !.revoked = TRUE, !.revokedAt = now] ELSE session[f]
    BY DEF Revoked
  <2> QED BY <1>0, <2>1, <2>2 DEF Session
<1>3. row' = [t \in AllTokens |-> row'[t]] /\ session' = [f \in Families |-> session'[f]] BY DEF Revoked
<1>4. row' \in [AllTokens -> Row] /\ session' \in [Families -> Session] BY <1>1, <1>2, <1>3
<1> QED BY <1>1, <1>2, <1>4

\* The row of a token that a request holds is still there.
LEMMA HeldRowExists ==
  ASSUME TokensInv, NEW p \in Procs, cur[p] \in Tokens
  PROVE  cur[p] \in Issued /\ row[cur[p]].exists /\ row[cur[p]].family \in Families
<1>1. cur[p] \in Issued /\ now < row[cur[p]].issued + JwtTtl BY DEF TokensInv, HeldInTime
<1>2. row[cur[p]] \in Row /\ now \in Int BY TokenNumbers DEF TokensInv, TokensTypeOK, AllTokens
<1> QED BY <1>1, <1>2, TokenNumbers DEF TokensInv, RowsInTime, Row

\* Revocation, for the requests as they are after it.
LEMMA RevokedTokens ==
  ASSUME TokensInv, NEW S, Revoked(S),
         UNCHANGED <<held, now, nextToken, nextFamily, uses, exchanged, crashes>>,
         TokensTypeOK', RequestShape', nextToken' + Cardinality(Wanting') <= MaxToken + 1,
         \A q \in Procs : \/ pc'[q] = pc[q] /\ cur'[q] = cur[q] /\ fam'[q] = fam[q]
                          \/ pc'[q] = "idle" /\ cur'[q] = 0,
         \A t \in Issued : row[t].exists /\ row[t].family \notin S => Holding(t)' = Holding(t)
  PROVE  TokensInv'
<1>1. Issued' = Issued /\ Issued \subseteq Tokens /\ Tokens \subseteq AllTokens /\ 0 \notin Tokens
  BY TokenNumbers DEF Issued, AllTokens
<1>2. now \in Nat BY DEF TokensInv, TokensTypeOK
<1>3. AllocFresh'
  <2>1. \A t \in AllTokens \ Issued : row'[t] = row[t] BY RevokedDb DEF TokensInv, AllocFresh, NoRow
  <2>2. \A f \in Families : f >= nextFamily => session'[f] = session[f] BY RevokedDb DEF TokensInv, AllocFresh, NoSession
  <2> QED BY <1>1, <2>1, <2>2 DEF TokensInv, AllocFresh
<1>4. RowsInTime'
  <2>1. \A t \in Issued : row[t].issued <= now BY DEF TokensInv, RowsInTime
  <2> QED BY <1>1, <2>1, RevokedDb DEF TokensInv, RowsInTime
<1>5. HeldInTime'
  <2>1. \A q \in Procs : cur'[q] \in Tokens => cur'[q] = cur[q] /\ fam'[q] = fam[q] BY <1>1
  <2> QED BY <1>1, <2>1, RevokedDb DEF TokensInv, HeldInTime
<1>6. SessionsOutlive'
  <2> SUFFICES ASSUME NEW t \in Issued, row[t].exists
               PROVE  /\ session'[row[t].family].exists /\ row[t].issued <= session'[row[t].family].expires
                      /\ session'[row[t].family].revoked => row[t].issued <= session'[row[t].family].revokedAt
                      /\ ~session'[row[t].family].revoked => row[t].issued + RowTtl <= session'[row[t].family].expires
    BY <1>1, RevokedDb DEF SessionsOutlive
  <2>1. row[t].family \in Families /\ row[t].issued <= now BY DEF TokensInv, RowsInTime
  <2> QED BY <2>1, RevokedDb DEF TokensInv, SessionsOutlive
<1>7. ExtendsOpen'
  <2>1. \A q \in Procs : pc'[q] \in {"issue_session", "issue_token"} => pc'[q] = pc[q] /\ fam'[q] = fam[q] OBVIOUS
  <2> QED BY <2>1, RevokedDb DEF TokensInv, ExtendsOpen
<1>8. RevokedTogether'
  <2> SUFFICES ASSUME NEW q \in Procs, pc'[q] \in {"issue_session", "issue_token", "consume"}, cur'[q] \in Tokens,
                      session'[row'[cur'[q]].family].revoked
               PROVE  row'[cur'[q]].revoked
    BY DEF RevokedTogether
  <2>1. pc'[q] = pc[q] /\ cur'[q] = cur[q] OBVIOUS
  <2>2. cur[q] \in Issued /\ row[cur[q]].exists /\ row[cur[q]].family \in Families BY <2>1, HeldRowExists
  <2>3. row'[cur[q]].family = row[cur[q]].family BY <1>1, <2>2, RevokedDb
  <2>4. session[row[cur[q]].family].revoked \/ row[cur[q]].family \in S BY <2>1, <2>2, <2>3, RevokedDb
  <2>5. row[cur[q]].revoked \/ row[cur[q]].family \in S BY <2>1, <2>4 DEF TokensInv, RevokedTogether
  <2> QED BY <1>1, <2>1, <2>2, <2>5, RevokedDb
<1>9. ExchangeReplaces' BY <1>1, RevokedDb DEF TokensInv, ExchangeReplaces
<1>10. UsesKnown'
  <2>1. \A t \in Issued : row[t].exists /\ ~session'[row[t].family].revoked =>
          row[t].family \notin S /\ ~session[row[t].family].revoked
    <3>1. \A t \in Issued : row[t].exists => row[t].family \in Families /\ session[row[t].family].exists
      BY DEF TokensInv, RowsInTime, SessionsOutlive
    <3> QED BY <3>1, RevokedDb
  <2> QED BY <1>1, <2>1, RevokedDb DEF TokensInv, UsesKnown
<1> QED BY <1>3, <1>4, <1>5, <1>6, <1>7, <1>8, <1>9, <1>10 DEF TokensInv

LEMMA RevokeStepTokens == ASSUME TokensInv, NEW p \in Procs, RevokeStep(p) PROVE TokensInv'
<1>0. /\ pc[p] = "revoke" /\ Revoked(fam[p]) /\ Finish(p)
      /\ UNCHANGED <<held, now, nextToken, nextFamily, uses, exchanged, crashes>>
  BY DEF RevokeStep, alloc
<1>1. held' \subseteq AllTokens BY <1>0 DEF TokensInv, TokensTypeOK
<1>2. TokensTypeOK'
  <2>1. /\ pc' \in [Procs -> {"idle", "session", "issue_session", "issue_token", "consume", "revoke"}]
        /\ cur' \in [Procs -> AllTokens \cup {0}] /\ fam' \in [Procs -> SUBSET Families]
        /\ seen' \in [Procs -> {"none", "fresh", "used"}] /\ succ' \in [Procs -> 0 .. MaxToken]
    BY <1>0, TokenNumbers DEF TokensInv, TokensTypeOK, Finish
  <2>2. row' \in [AllTokens -> Row] /\ session' \in [Families -> Session] BY <1>0, RevokedDb
  <2> QED BY <1>0, <2>1, <2>2 DEF TokensInv, TokensTypeOK
<1>3. \A t \in Issued : row[t].exists /\ row[t].family \notin fam[p] => Holding(t)' = Holding(t)
  <2>1. \A t \in Issued : t = cur[p] => row[t].family \in fam[p] BY DEF TokensInv, HeldInTime, Issued
  <2> QED BY <1>0, <1>1, <2>1, FinishShape DEF Issued
<1>4. \A q \in Procs : \/ pc'[q] = pc[q] /\ cur'[q] = cur[q] /\ fam'[q] = fam[q]
                       \/ pc'[q] = "idle" /\ cur'[q] = 0
  BY <1>0, <1>1, FinishShape
<1>5. RequestShape' /\ nextToken' + Cardinality(Wanting') <= MaxToken + 1 BY <1>0, <1>1, FinishShape
<1> QED BY <1>0, <1>2, <1>3, <1>4, <1>5, RevokedTokens

\* A step that leaves requests and counters alone keeps what is said of them.
LEMMA RequestsSame ==
  ASSUME TokensInv, UNCHANGED <<nextToken, nextFamily, pc, cur, fam, seen, succ>>
  PROVE  /\ Issued' = Issued /\ Wanting' = Wanting /\ RequestShape' /\ \A t : Holding(t)' = Holding(t)
<1>1. Issued' = Issued /\ Wanting' = Wanting /\ \A t : Holding(t)' = Holding(t) BY DEF Issued, Wanting, Holding
<1> QED BY <1>1 DEF TokensInv, RequestShape

LEMMA RevokeAllTokens == ASSUME TokensInv, RevokeAll PROVE TokensInv'
<1>0. /\ Revoked(Families)
      /\ UNCHANGED <<held, now, nextToken, nextFamily, pc, cur, fam, seen, succ, uses, exchanged, crashes>>
  BY DEF RevokeAll, alloc, req
<1>1. TokensTypeOK'
  <2>1. row' \in [AllTokens -> Row] /\ session' \in [Families -> Session] BY <1>0, RevokedDb
  <2> QED BY <1>0, <2>1 DEF TokensInv, TokensTypeOK
<1>2. nextToken' + Cardinality(Wanting') <= MaxToken + 1 BY <1>0, RequestsSame DEF TokensInv, AllocFresh
<1>3. RequestShape' /\ \A t : Holding(t)' = Holding(t) BY <1>0, RequestsSame
<1> QED BY <1>0, <1>1, <1>2, <1>3, RevokedTokens


\* A row that is still there after the purge keeps its session.
LEMMA PurgeTokens == ASSUME TokensInv, Purge PROVE TokensInv'
<1>0. UNCHANGED <<held, now, nextToken, nextFamily, pc, cur, fam, seen, succ, uses, exchanged, crashes>>
  BY DEF Purge, alloc, req
<1> DEFINE Gone(f) == \/ session[f].expires + RowTtl < now
                      \/ session[f].revoked /\ session[f].revokedAt + RowTtl < now
<1>1. /\ \A t \in AllTokens : row'[t] = IF Purgeable(t) THEN [row[t] EXCEPT !.exists = FALSE] ELSE row[t]
      /\ \A f \in Families : session'[f] = IF session[f].exists /\ Gone(f) THEN NoSession ELSE session[f]
  BY DEF Purge
<1>2. now \in Nat /\ RowTtl \in Nat /\ row \in [AllTokens -> Row] /\ session \in [Families -> Session]
  BY TokenNumbers DEF TokensInv, TokensTypeOK
<1>3. /\ Issued' = Issued /\ Wanting' = Wanting /\ RequestShape' /\ \A t : Holding(t)' = Holding(t)
      /\ Issued \subseteq Tokens /\ Tokens \subseteq AllTokens
  BY <1>0, RequestsSame DEF Issued, AllTokens
<1>4. ASSUME NEW t \in AllTokens
      PROVE  /\ row'[t] \in Row /\ row'[t].family = row[t].family /\ row'[t].issued = row[t].issued
             /\ row'[t].replaced = row[t].replaced /\ row'[t].revoked = row[t].revoked
             /\ row'[t].revokedAt = row[t].revokedAt
             /\ row'[t].exists <=> row[t].exists /\ ~Purgeable(t)
             /\ ~row[t].exists => row'[t] = row[t]
  BY <1>1, <1>2 DEF Row, Purgeable
<1>5. TokensTypeOK'
  <2>1. \A f \in Families : session'[f] \in Session BY <1>1, <1>2, NoRowType
  <2>2. row' = [t \in AllTokens |-> row'[t]] /\ session' = [f \in Families |-> session'[f]] BY DEF Purge
  <2>3. row' \in [AllTokens -> Row] /\ session' \in [Families -> Session] BY <1>4, <2>1, <2>2
  <2> QED BY <1>0, <2>3 DEF TokensInv, TokensTypeOK
<1>6. AllocFresh'
  <2>1. \A t \in AllTokens \ Issued : row'[t] = row[t] BY <1>4 DEF TokensInv, AllocFresh, NoRow
  <2>2. \A f \in Families : f >= nextFamily => session'[f] = NoSession BY <1>1 DEF TokensInv, AllocFresh
  <2> QED BY <1>0, <1>3, <2>1, <2>2 DEF TokensInv, AllocFresh
<1>7. \A t \in Issued : row[t].exists /\ Purgeable(t) => row[t].issued + RowTtl < now
  <2>1. \A t \in Issued : row[t] \in Row /\ (row[t].revoked => row[t].issued <= row[t].revokedAt)
    BY <1>2, <1>3 DEF TokensInv, RowsInTime
  <2> QED BY <1>2, <2>1 DEF Purgeable, Row
<1>8. RowsInTime' BY <1>0, <1>3, <1>4, <1>7 DEF TokensInv, RowsInTime
<1>9. ASSUME NEW t \in Issued, row'[t].exists
      PROVE  row[t].exists /\ row[t].family \in Families /\ session'[row[t].family] = session[row[t].family]
  <2>1. row[t].exists /\ ~(row[t].issued + RowTtl < now) /\ row[t].family \in Families /\ row[t] \in Row
    BY <1>2, <1>3, <1>4, <1>9 DEF Purgeable, TokensInv, RowsInTime
  <2> DEFINE s == session[row[t].family]
  <2>2. s \in Session /\ row[t].issued <= s.expires /\ (s.revoked => row[t].issued <= s.revokedAt)
    BY <1>2, <2>1 DEF TokensInv, SessionsOutlive
  <2>3. ~Gone(row[t].family) BY <1>2, <2>1, <2>2 DEF Session, Row
  <2> QED BY <1>1, <2>1, <2>3
<1>10. HeldInTime' BY <1>0, <1>3, <1>4 DEF TokensInv, HeldInTime
<1>11. SessionsOutlive'
  <2> SUFFICES ASSUME NEW t \in Issued, row'[t].exists
               PROVE  /\ session'[row[t].family].exists /\ row[t].issued <= session'[row[t].family].expires
                      /\ session'[row[t].family].revoked => row[t].issued <= session'[row[t].family].revokedAt
                      /\ ~session'[row[t].family].revoked => row[t].issued + RowTtl <= session'[row[t].family].expires
    BY <1>3, <1>4 DEF SessionsOutlive
  <2> QED BY <1>9 DEF TokensInv, SessionsOutlive
<1>12. ExtendsOpen'
  <2> SUFFICES ASSUME NEW p \in Procs, NEW f \in Families, pc[p] \in {"issue_session", "issue_token"}, fam[p] = {f}
               PROVE  /\ session'[f].exists => now <= session'[f].expires
                      /\ session'[f].revoked => session'[f].revokedAt = now
                      /\ pc[p] = "issue_token" =>
                           session'[f].exists /\ (~session'[f].revoked => session'[f].expires = now + RowTtl)
    BY <1>0 DEF ExtendsOpen
  <2>1. /\ session[f].exists => now <= session[f].expires
        /\ session[f].revoked => session[f].revokedAt = now
        /\ pc[p] = "issue_token" =>
             session[f].exists /\ (~session[f].revoked => session[f].expires = now + RowTtl)
    BY DEF TokensInv, ExtendsOpen
  <2>2. session[f].exists => ~Gone(f)
    <3>1. session[f] \in Session BY <1>2
    <3> QED BY <1>2, <2>1, <3>1 DEF Session
  <2>3. session'[f] = session[f] BY <1>1, <2>2
  <2> QED BY <2>1, <2>3
<1>13. RevokedTogether'
  <2>1. \A p \in Procs : cur[p] \in Tokens => row[cur[p]].family \in Families BY HeldRowExists
  <2>2. \A f \in Families : session'[f].revoked => session[f].revoked BY <1>1 DEF NoSession
  <2> QED BY <1>0, <1>3, <1>4, <2>1, <2>2 DEF TokensInv, RevokedTogether
<1>14. ExchangeReplaces' BY <1>0, <1>3, <1>4 DEF TokensInv, ExchangeReplaces
<1>15. UsesKnown'
  <2> SUFFICES ASSUME crashes = 0, NEW t \in Issued, row'[t].exists, ~session'[row[t].family].revoked
               PROVE  uses[t] = exchanged[t] + Cardinality(Holding(t))
    BY <1>0, <1>3, <1>4 DEF UsesKnown
  <2> QED BY <1>9 DEF TokensInv, UsesKnown
<1> QED BY <1>3, <1>5, <1>6, <1>8, <1>10, <1>11, <1>12, <1>13, <1>14, <1>15 DEF TokensInv

\* The clock only advances while no request is running.
LEMMA TickTokens == ASSUME TokensInv, Tick PROVE TokensInv'
<1>0. /\ now < MaxTime /\ now' = now + 1 /\ now \in 0 .. MaxTime /\ \A p \in Procs : pc[p] = "idle"
      /\ UNCHANGED <<row, session, held, nextToken, nextFamily, pc, cur, fam, seen, succ, uses, exchanged, crashes>>
  BY DEF Tick, db, alloc, req, TokensInv, TokensTypeOK
<1>1. now' \in 0 .. MaxTime /\ now <= now' /\ now' \in Nat BY <1>0, TokenNumbers
<1>2. TokensTypeOK' BY <1>0, <1>1 DEF TokensInv, TokensTypeOK
<1>3. Issued' = Issued /\ Wanting' = Wanting /\ RequestShape' /\ \A t : Holding(t)' = Holding(t)
  BY <1>0, RequestsSame
<1>4. AllocFresh' /\ SessionsOutlive' /\ ExchangeReplaces' /\ UsesKnown'
  BY <1>0, <1>3 DEF TokensInv, AllocFresh, SessionsOutlive, ExchangeReplaces, UsesKnown
<1>5. RowsInTime'
  <2> SUFFICES ASSUME NEW t \in Issued PROVE row[t].issued <= now' /\ (~row[t].exists => row[t].issued + RowTtl < now')
    BY <1>0, <1>3 DEF TokensInv, RowsInTime
  <2>1. row[t] \in Row BY DEF TokensInv, TokensTypeOK, Issued, AllTokens
  <2> QED BY <1>0, <1>1, <2>1, TokenNumbers DEF TokensInv, RowsInTime, Row
<1>6. \A p \in Procs : cur[p] \notin Tokens BY <1>0, IdleHolds
<1>7. HeldInTime' /\ ExtendsOpen' /\ RevokedTogether' BY <1>0, <1>6 DEF HeldInTime, ExtendsOpen, RevokedTogether
<1> QED BY <1>2, <1>3, <1>4, <1>5, <1>7 DEF TokensInv

-----------------------------------------------------------------------------

LEMMA TokensNextInv == TokensInv /\ [TokensNext]_tokensVars => TokensInv'
<1> SUFFICES ASSUME TokensInv, [TokensNext]_tokensVars PROVE TokensInv' OBVIOUS
<1>1. CASE TokensNext
  BY <1>1, LoginTokens, PresentTokens, CheckSessionTokens, IssueSessionTokens, IssueTokenTokens, ConsumeTokens,
     RevokeStepTokens, RevokeStartTokens, CrashTokens, RevokeAllTokens, PurgeTokens, TickTokens
  DEF TokensNext
<1>2. CASE UNCHANGED tokensVars
  <2>1. UNCHANGED <<row, session, held, now, nextToken, nextFamily, pc, cur, fam, seen, succ, uses, exchanged, crashes>>
    BY <1>2 DEF tokensVars, db, alloc, req
  <2>2. Issued' = Issued /\ Wanting' = Wanting /\ RequestShape' /\ \A t : Holding(t)' = Holding(t)
    BY <2>1, RequestsSame
  <2> QED BY <2>1, <2>2 DEF TokensInv, TokensTypeOK, AllocFresh, RowsInTime, HeldInTime, SessionsOutlive, ExtendsOpen,
                            RevokedTogether, ExchangeReplaces, UsesKnown
<1> QED BY <1>1, <1>2

\* Rotation is safe for any number of tokens, families and concurrent requests:
\* a token that refreshTokens.ts tracks buys at most one successor, and when it
\* was presented again after that, its family is revoked once the requests ended.
THEOREM TokensHold == TokensSpec => []TokensSafe
<1>1. TokensSpec => []TokensInv BY TokensInvInit, TokensNextInv, PTL DEF TokensSpec
<1> QED BY <1>1, TokensInvImplies, PTL

\* No step of rotateRefreshToken exchanges a token of a revoked session, however
\* the request overlapped the revocation.
THEOREM RevocationHolds == TokensSpec => NoExchangeAfterRevocation
<1> DEFINE Late == \A t \in Tokens : exchanged'[t] > exchanged[t] => ~session[row[t].family].revoked
<1>1. TokensSpec => []TokensInv BY TokensInvInit, TokensNextInv, PTL DEF TokensSpec
<1>2. TokensInv /\ [TokensNext]_tokensVars => [Late]_tokensVars
  <2> SUFFICES ASSUME TokensInv, TokensNext, NEW t \in Tokens, exchanged'[t] > exchanged[t]
               PROVE  ~session[row[t].family].revoked
    OBVIOUS
  <2>1. exchanged \in [AllTokens -> Nat] /\ t \in AllTokens BY DEF TokensInv, TokensTypeOK, AllTokens
  <2>2. exchanged' # exchanged BY <2>1
  <2>3. PICK p \in Procs : IssueToken(p) \/ Consume(p)
    <3>1. ~RevokeAll /\ ~Purge /\ ~Tick BY <2>2 DEF RevokeAll, Purge, Tick
    <3>2. PICK p \in Procs : \/ Login(p) \/ \E u \in AllTokens : Present(p, u)
                             \/ CheckSession(p) \/ IssueSession(p) \/ IssueToken(p) \/ Consume(p)
                             \/ RevokeStep(p) \/ \E f \in Families : RevokeStart(p, f)
                             \/ Crash(p)
      BY <3>1 DEF TokensNext
    <3>3. ~Login(p) /\ ~CheckSession(p) /\ ~IssueSession(p) /\ ~RevokeStep(p) /\ ~Crash(p)
      BY <2>2 DEF Login, CheckSession, IssueSession, RevokeStep, Crash
    <3>4. \A u \in AllTokens : ~Present(p, u) BY <2>2 DEF Present
    <3>5. \A f \in Families : ~RevokeStart(p, f) BY <2>2 DEF RevokeStart
    <3> QED BY <3>2, <3>3, <3>4, <3>5
  <2>4. CASE IssueToken(p)
    <3>1. seen[p] # "fresh" /\ cur[p] = t BY <2>1, <2>2, <2>4 DEF IssueToken
    <3>2. cur[p] \notin Tokens BY <2>4, <3>1 DEF IssueToken, TokensInv, RequestShape
    <3> QED BY <3>1, <3>2
  <2>5. CASE Consume(p)
    <3>1. Consumable(cur[p]) /\ cur[p] = t BY <2>1, <2>2, <2>5 DEF Consume
    <3>2. pc[p] = "consume" /\ ~row[t].revoked BY <2>5, <3>1 DEF Consume, Consumable
    <3> QED BY <3>1, <3>2 DEF TokensInv, RevokedTogether
  <2> QED BY <2>3, <2>4, <2>5
<1> QED BY <1>1, <1>2, PTL DEF TokensSpec, NoExchangeAfterRevocation

-----------------------------------------------------------------------------
(* Offline batches *)

SyncSpec == SyncInit /\ [][SyncNext]_syncVars

\* The lock admits one batch at a time: it outlives whoever holds it.
BatchHasLock == \A s \in Syncs : sync[s].at # "idle" => syncLock = s

\* The events of the batch under way that are not still to be sent took effect.
PrefixApplied == \A s \in Syncs :
  sync[s].at \in {"read", "mark", "touch", "wait"} =>
    /\ sync[s].todo \subseteq sync[s].batch
    /\ sync[s].at = "wait" => sync[s].todo # {}
    /\ \A e \in sync[s].batch \ sync[s].todo : event[e] = "applied"

SyncInv == SyncTypeOK /\ BatchHasLock /\ PrefixApplied /\ PendingDuringBatch

LEMMA LeastExists ==
  ASSUME NEW S \in SUBSET Nat, S # {}
  PROVE  \E x \in S : \A y \in S : x =< y
<1>1. PICK x \in S : \A y \in S : <<y, x>> \notin OpToRel(<, Nat)
  BY NatLessThanWellFounded, WFMin
<1>2. \A y \in S : ~(y < x)
  BY <1>1 DEF OpToRel
<1> QED BY <1>2

\* Min is the least element of a set of events, Max one of its elements.
LEMMA LeastEvent ==
  ASSUME NEW S \in SUBSET Nat, S # {}
  PROVE  Min(S) \in S /\ \A y \in S : Min(S) =< y
<1> DEFINE Least(x) == \A y \in S : x =< y
<1>1. \E x \in S : Least(x) BY LeastExists
<1>2. Min(S) = CHOOSE x \in S : Least(x) BY DEF Min
<1> HIDE DEF Least
<1>3. Min(S) \in S /\ Least(Min(S)) BY <1>1, <1>2
<1> QED BY <1>3 DEF Least

LEMMA GreatestIsIn ==
  ASSUME NEW n \in Nat, NEW S \in SUBSET (0 .. n), S # {}
  PROVE  Max(S) \in S
<1> DEFINE Least == {n - x : x \in S}
<1>0. \A x \in S : n - x \in Nat OBVIOUS
<1>1. Least \in SUBSET Nat /\ Least # {} BY <1>0
<1>2. PICK z \in Least : \A y \in Least : z =< y BY <1>1, LeastExists
<1>3. PICK x \in S : z = n - x BY <1>2
<1>4. \A y \in S : n - y \in Least OBVIOUS
<1>5. \A y \in S : x >= y BY <1>2, <1>3, <1>4
<1> QED BY <1>5 DEF Max

LEMMA SyncInvImplies == SyncInv => SyncSafe
<1> SUFFICES ASSUME SyncInv, NEW s \in Syncs, sync[s].at = "wait", NEW e \in sync[s].batch, e < Current(s)
             PROVE  event[e] = "applied"
  BY DEF SyncInv, SyncSafe, OrderKept
<1>1. sync[s].todo \in SUBSET Nat /\ sync[s].todo # {} /\ e \in Nat
  BY SyncAssumption DEF SyncInv, SyncTypeOK, Sync, Events, PrefixApplied
<1>2. Current(s) \in Nat /\ e \notin sync[s].todo
  BY <1>1, LeastEvent DEF Current
<1> QED BY <1>2 DEF SyncInv, PrefixApplied

LEMMA SyncStarts == SyncInit => SyncInv
  BY SyncAssumption
     DEF SyncInit, SyncInv, SyncTypeOK, Sync, NoSync, Outcomes, EventStates, BatchHasLock, PrefixApplied, PendingDuringBatch

\* The event that a batch is at.
LEMMA CurrentIsEvent ==
  ASSUME SyncInv, NEW s \in Syncs, sync[s].todo # {}
  PROVE  Current(s) \in Events /\ Current(s) \in sync[s].todo
<1>1. sync[s].todo \in SUBSET Nat /\ sync[s].todo \subseteq Events
  BY SyncAssumption DEF SyncInv, SyncTypeOK, Sync, Events
<1> QED BY <1>1, LeastEvent DEF Current

\* What a step of a batch may do without disturbing the others.
LEMMA BatchStep ==
  ASSUME SyncInv, NEW s \in Syncs, syncLock = s, NEW r \in Sync, sync' = [sync EXCEPT ![s] = r],
         syncLock' = s \/ r.at = "idle",
         syncLock' \in Syncs \cup {NoHolder}, admitted' \in 0 .. MaxSyncs,
         watermark' \in [last : 0 .. LastEvent, pending : BOOLEAN],
         event' \in [Events -> EventStates], answered' \in [Events -> Outcomes],
         r.at \in {"read", "mark", "touch", "wait"} =>
           /\ r.todo \subseteq r.batch
           /\ r.at = "wait" => r.todo # {}
           /\ \A e \in r.batch \ r.todo : event'[e] = "applied",
         r.at \in {"touch", "wait", "finish"} => watermark'.pending
  PROVE  SyncInv'
<1>1. \A t \in Syncs \ {s} : sync[t].at = "idle" /\ sync'[t] = sync[t]
  BY DEF SyncInv, BatchHasLock, SyncTypeOK
<1>2. sync'[s] = r /\ sync' \in [Syncs -> Sync]
  BY DEF SyncInv, SyncTypeOK
<1>3. SyncTypeOK' BY <1>2 DEF SyncTypeOK
<1>4. BatchHasLock' BY <1>1, <1>2 DEF BatchHasLock
<1>5. PrefixApplied' BY <1>1, <1>2 DEF PrefixApplied
<1>6. PendingDuringBatch' BY <1>1, <1>2 DEF PendingDuringBatch
<1> QED BY <1>3, <1>4, <1>5, <1>6 DEF SyncInv

LEMMA HolderType ==
  ASSUME SyncInv, NEW s \in Syncs
  PROVE  /\ sync[s] \in Sync /\ (sync[s].at # "idle" => syncLock = s)
         /\ sync[s].batch \in SUBSET Events /\ sync[s].todo \in SUBSET Events
         /\ sync[s].previous \in 0 .. LastEvent
  BY DEF SyncInv, SyncTypeOK, BatchHasLock, Sync

\* A step that only moves the batch on.
LEMMA MovesOn ==
  ASSUME SyncInv, NEW s \in Syncs, syncLock = s, sync[s].at # "idle", NEW at \in {"mark", "touch", "wait", "finish", "release"},
         Move(s, at), UNCHANGED <<syncLock, admitted>>,
         watermark' \in [last : 0 .. LastEvent, pending : BOOLEAN],
         event' \in [Events -> EventStates], answered' \in [Events -> Outcomes],
         at \in {"mark", "touch", "wait"} =>
           /\ sync[s].at \in {"read", "mark", "touch", "wait"}
           /\ at = "wait" => sync[s].todo # {}
           /\ \A e \in sync[s].batch \ sync[s].todo : event'[e] = "applied",
         at \in {"touch", "wait", "finish"} => watermark'.pending
  PROVE  SyncInv'
<1>0. sync[s] \in Sync BY HolderType
<1>1. PICK r : r = [sync[s] EXCEPT !.at = at] OBVIOUS
<1>2. r \in Sync /\ r.at = at /\ r.todo = sync[s].todo /\ r.batch = sync[s].batch
  BY <1>0, <1>1 DEF Sync
<1>3. sync' = [sync EXCEPT ![s] = r] BY <1>1 DEF Move, SyncInv, SyncTypeOK
<1>4. syncLock' = s /\ syncLock' \in Syncs \cup {NoHolder} /\ admitted' \in 0 .. MaxSyncs
  BY DEF SyncInv, SyncTypeOK
<1>5. r.at \in {"read", "mark", "touch", "wait"} =>
           /\ r.todo \subseteq r.batch
           /\ r.at = "wait" => r.todo # {}
           /\ \A e \in r.batch \ r.todo : event'[e] = "applied"
  BY <1>2 DEF SyncInv, PrefixApplied
<1> QED BY <1>2, <1>3, <1>4, <1>5, BatchStep

\* Answers are outcomes, whichever event is refused and the rest held back.
LEMMA AnswersType ==
  ASSUME SyncInv, NEW s \in Syncs, NEW result \in Outcomes
  PROVE  [e \in Events |-> IF e = Current(s) THEN result
                           ELSE IF e \in sync[s].todo THEN "not_attempted" ELSE answered[e]]
           \in [Events -> Outcomes]
  BY DEF SyncInv, SyncTypeOK, Outcomes

LEMMA TakeLockSy ==
  ASSUME SyncInv, NEW s \in Syncs, NEW batch \in SUBSET Queued, TakeLock(s, batch) PROVE SyncInv'
<1>0. \A t \in Syncs : sync[t].at = "idle"
  BY SyncAssumption DEF TakeLock, LockFree, SyncInv, BatchHasLock
<1>1. PICK r : r = [NoSync EXCEPT !.at = "read", !.batch = batch, !.todo = batch] OBVIOUS
<1>2. r \in Sync /\ r.at = "read" /\ r.todo = batch /\ r.batch = batch
  <2>1. batch \in SUBSET Events BY DEF Queued
  <2>2. NoSync \in Sync BY SyncAssumption DEF NoSync, Sync
  <2> QED BY <1>1, <2>1, <2>2 DEF Sync
<1>3. /\ sync' = [sync EXCEPT ![s] = r] /\ syncLock' = s /\ admitted' \in 0 .. MaxSyncs
      /\ UNCHANGED <<watermark, event, answered>>
  BY <1>1, SyncAssumption DEF TakeLock, SyncInv, SyncTypeOK
<1>4. sync'[s] = r /\ \A t \in Syncs \ {s} : sync'[t] = sync[t]
  BY <1>3 DEF SyncInv, SyncTypeOK
<1>5. SyncTypeOK' BY <1>2, <1>3 DEF SyncInv, SyncTypeOK
<1>6. BatchHasLock' BY <1>0, <1>3, <1>4 DEF BatchHasLock
<1>7. PrefixApplied' BY <1>0, <1>2, <1>4 DEF PrefixApplied
<1>8. PendingDuringBatch' BY <1>0, <1>2, <1>4 DEF PendingDuringBatch
<1> QED BY <1>5, <1>6, <1>7, <1>8 DEF SyncInv

LEMMA ReadWatermarkSy == ASSUME SyncInv, NEW s \in Syncs, ReadWatermark(s) PROVE SyncInv'
<1>1. PICK r : r = [sync[s] EXCEPT !.at = "mark", !.previous = watermark.last] OBVIOUS
<1>2. r \in Sync /\ r.at = "mark" /\ r.todo = sync[s].todo /\ r.batch = sync[s].batch
  BY <1>1, HolderType DEF Sync, SyncInv, SyncTypeOK
<1>3. sync' = [sync EXCEPT ![s] = r] /\ UNCHANGED <<syncLock, watermark, event, answered, admitted>> /\ syncLock = s
  BY <1>1, HolderType DEF ReadWatermark, SyncInv, SyncTypeOK
<1>4. syncLock' = s /\ syncLock' \in Syncs \cup {NoHolder} /\ admitted' \in 0 .. MaxSyncs
      /\ watermark' \in [last : 0 .. LastEvent, pending : BOOLEAN]
      /\ event' \in [Events -> EventStates] /\ answered' \in [Events -> Outcomes]
  BY <1>3 DEF SyncInv, SyncTypeOK
<1>5. r.todo \subseteq r.batch /\ \A e \in r.batch \ r.todo : event'[e] = "applied"
  BY <1>2, <1>3 DEF SyncInv, PrefixApplied, ReadWatermark
<1> QED BY <1>2, <1>3, <1>4, <1>5, BatchStep

LEMMA MarkPendingSy == ASSUME SyncInv, NEW s \in Syncs, MarkPending(s) PROVE SyncInv'
<1> DEFINE Known == sync[s].batch \cup {sync[s].previous}
<1>1. Known \in SUBSET (0 .. LastEvent) /\ Known # {}
  <2>1. sync[s].batch \in SUBSET Events /\ sync[s].previous \in 0 .. LastEvent BY HolderType
  <2>2. Events \subseteq 0 .. LastEvent BY SyncAssumption DEF Events
  <2> QED BY <2>1, <2>2
<1>2. Max(Known) \in 0 .. LastEvent BY <1>1, GreatestIsIn, SyncAssumption
<1>3. watermark' \in [last : 0 .. LastEvent, pending : BOOLEAN] /\ watermark'.pending
  BY <1>2 DEF MarkPending
<1>4. /\ sync[s].at = "mark" /\ syncLock = s /\ Move(s, "touch") /\ UNCHANGED <<syncLock, admitted>>
      /\ event' \in [Events -> EventStates] /\ answered' \in [Events -> Outcomes]
      /\ \A e \in sync[s].batch \ sync[s].todo : event'[e] = "applied"
  BY HolderType DEF MarkPending, SyncInv, SyncTypeOK, PrefixApplied
<1> QED BY <1>3, <1>4, MovesOn

LEMMA SendEventSy == ASSUME SyncInv, NEW s \in Syncs, SendEvent(s) PROVE SyncInv'
<1>0. Current(s) \in Events BY CurrentIsEvent DEF SendEvent
<1>1. /\ sync[s].at = "touch" /\ syncLock = s /\ UNCHANGED <<syncLock, admitted>> /\ sync[s].todo # {}
      /\ watermark' \in [last : 0 .. LastEvent, pending : BOOLEAN] /\ watermark'.pending
  BY HolderType DEF SendEvent, SyncInv, SyncTypeOK
<1>2. event' \in [Events -> EventStates] /\ \A e \in Events : event[e] = "applied" => event'[e] = "applied"
  BY <1>0 DEF SendEvent, SyncInv, SyncTypeOK, EventStates
<1>3. \A e \in sync[s].batch \ sync[s].todo : event'[e] = "applied"
  <2>1. sync[s].batch \in SUBSET Events BY HolderType
  <2>2. \A e \in sync[s].batch \ sync[s].todo : event[e] = "applied"
    BY <1>1 DEF SyncInv, PrefixApplied
  <2> QED BY <1>2, <2>1, <2>2
<1>4. CASE event[Current(s)] \in {"running", "unknown"}
  <2>1. answered' \in [Events -> Outcomes]
    BY <1>4, AnswersType, "parked_for_review" \in Outcomes DEF SendEvent, Outcomes
  <2>2. Move(s, "finish") BY <1>4 DEF SendEvent, Move
  <2> QED BY <1>1, <1>2, <2>1, <2>2, MovesOn
<1>5. CASE event[Current(s)] \notin {"running", "unknown"}
  <2>1. answered' \in [Events -> Outcomes] /\ Move(s, "wait")
    BY <1>5 DEF SendEvent, SyncInv, SyncTypeOK
  <2> QED BY <1>1, <1>2, <1>3, <2>1, MovesOn
<1> QED BY <1>4, <1>5

LEMMA EventAppliedSy == ASSUME SyncInv, NEW s \in Syncs, EventApplied(s) PROVE SyncInv'
<1>0. Current(s) \in Events /\ Current(s) \in sync[s].todo
  BY CurrentIsEvent DEF EventApplied, SyncInv, PrefixApplied
<1>1. PICK r : r = [sync[s] EXCEPT !.at = "touch", !.todo = @ \ {Current(s)}] OBVIOUS
<1>2. r \in Sync /\ r.at = "touch" /\ r.todo = sync[s].todo \ {Current(s)} /\ r.batch = sync[s].batch
  <2>1. sync[s] \in Sync BY HolderType
  <2> QED BY <1>1, <2>1 DEF Sync
<1>3. sync' = [sync EXCEPT ![s] = r] /\ UNCHANGED <<syncLock, watermark, admitted>> /\ syncLock = s
  BY <1>1, HolderType DEF EventApplied, SyncInv, SyncTypeOK
<1>4. /\ syncLock' = s /\ syncLock' \in Syncs \cup {NoHolder} /\ admitted' \in 0 .. MaxSyncs
      /\ watermark' \in [last : 0 .. LastEvent, pending : BOOLEAN] /\ watermark'.pending
  BY <1>3 DEF SyncInv, SyncTypeOK, PendingDuringBatch, EventApplied
<1>5. /\ event' \in [Events -> EventStates] /\ answered' \in [Events -> Outcomes]
      /\ event'[Current(s)] = "applied" /\ \A e \in Events : event[e] = "applied" => event'[e] = "applied"
  BY <1>0 DEF SyncInv, SyncTypeOK, EventApplied, EventStates, Outcomes
<1>6. r.todo \subseteq r.batch /\ \A e \in r.batch \ r.todo : event'[e] = "applied"
  <2>1. sync[s].batch \in SUBSET Events BY HolderType
  <2>2. sync[s].todo \subseteq sync[s].batch /\ \A e \in sync[s].batch \ sync[s].todo : event[e] = "applied"
    BY DEF SyncInv, PrefixApplied, EventApplied
  <2> QED BY <1>2, <1>5, <2>1, <2>2
<1> QED BY <1>2, <1>3, <1>4, <1>5, <1>6, BatchStep

LEMMA StopSy ==
  ASSUME SyncInv, NEW s \in Syncs, NEW result \in Outcomes, NEW becomes \in EventStates, Stop(s, result, becomes)
  PROVE  SyncInv'
<1>1. /\ sync[s].at = "wait" /\ syncLock = s /\ Move(s, "finish") /\ UNCHANGED <<syncLock, admitted>>
      /\ watermark' \in [last : 0 .. LastEvent, pending : BOOLEAN] /\ watermark'.pending
  BY HolderType DEF Stop, AfterFailure, SyncInv, SyncTypeOK, PendingDuringBatch
<1>2. event' \in [Events -> EventStates] BY DEF Stop, SyncInv, SyncTypeOK
<1>3. answered' \in [Events -> Outcomes] BY AnswersType DEF Stop
<1> QED BY <1>1, <1>2, <1>3, MovesOn

LEMMA EventTimesOutSy == ASSUME SyncInv, NEW s \in Syncs, EventTimesOut(s) PROVE SyncInv'
<1>1. /\ sync[s].at # "idle" /\ syncLock = s /\ Move(s, "finish") /\ UNCHANGED <<syncLock, admitted>>
      /\ watermark' \in [last : 0 .. LastEvent, pending : BOOLEAN] /\ watermark'.pending
      /\ event' \in [Events -> EventStates]
  BY HolderType DEF EventTimesOut, AfterFailure, SyncInv, SyncTypeOK, PendingDuringBatch
<1>2. "retry" \in Outcomes BY DEF Outcomes
<1>3. answered' \in [Events -> Outcomes] BY <1>2, AnswersType DEF EventTimesOut
<1> QED BY <1>1, <1>3, MovesOn

LEMMA LateAnswerSy == ASSUME SyncInv, NEW e \in Events, LateAnswer(e) PROVE SyncInv'
<1>1. /\ event' \in [Events -> EventStates] /\ \A f \in Events : event[f] = "applied" => event'[f] = "applied"
      /\ UNCHANGED <<syncLock, watermark, sync, answered, admitted>>
  BY DEF LateAnswer, SyncInv, SyncTypeOK, EventStates
<1>2. SyncTypeOK' /\ BatchHasLock' /\ PendingDuringBatch'
  BY <1>1 DEF SyncInv, SyncTypeOK, BatchHasLock, PendingDuringBatch
<1>3. PrefixApplied'
  <2>1. \A s \in Syncs : sync[s].batch \in SUBSET Events BY HolderType
  <2> QED BY <1>1, <2>1 DEF SyncInv, PrefixApplied
<1> QED BY <1>2, <1>3 DEF SyncInv

\* The end of a batch, in order or not.
LEMMA BatchEndsSy ==
  ASSUME SyncInv, NEW s \in Syncs, AllSent(s) \/ FinishBatch(s) \/ SyncFails(s)
  PROVE  SyncInv'
<1>1. /\ sync[s].at # "idle" /\ syncLock = s /\ UNCHANGED <<syncLock, event, answered, admitted>>
      /\ event' \in [Events -> EventStates] /\ answered' \in [Events -> Outcomes]
      /\ watermark' \in [last : 0 .. LastEvent, pending : BOOLEAN]
  BY HolderType DEF AllSent, FinishBatch, SyncFails, SyncInv, SyncTypeOK
<1>2. CASE AllSent(s)
  BY <1>1, <1>2, MovesOn DEF AllSent, SyncInv, PendingDuringBatch
<1>3. CASE FinishBatch(s) BY <1>1, <1>3, MovesOn DEF FinishBatch
<1>4. CASE SyncFails(s) BY <1>1, <1>4, MovesOn DEF SyncFails
<1> QED BY <1>2, <1>3, <1>4

\* A batch that is over, with the lock deleted or not.
LEMMA BatchGoneSy ==
  ASSUME SyncInv, NEW s \in Syncs, ReleaseLock(s) \/ SyncCrash(s)
  PROVE  SyncInv'
<1>1. NoSync \in Sync /\ NoSync.at = "idle" BY SyncAssumption DEF NoSync, Sync
<1>2. /\ syncLock = s /\ sync' = [sync EXCEPT ![s] = NoSync] /\ UNCHANGED <<watermark, event, answered, admitted>>
      /\ syncLock' \in Syncs \cup {NoHolder}
  BY HolderType DEF ReleaseLock, SyncCrash, SyncInv, SyncTypeOK
<1>3. /\ admitted' \in 0 .. MaxSyncs /\ watermark' \in [last : 0 .. LastEvent, pending : BOOLEAN]
      /\ event' \in [Events -> EventStates] /\ answered' \in [Events -> Outcomes]
  BY <1>2 DEF SyncInv, SyncTypeOK
<1> QED BY <1>1, <1>2, <1>3, BatchStep

LEMMA LapsesSy == ASSUME SyncInv, LockLapses \/ PendingLapses PROVE SyncInv'
<1>1. CASE LockLapses
  BY <1>1 DEF LockLapses, SyncInv, SyncTypeOK, BatchHasLock, PrefixApplied, PendingDuringBatch
<1>2. CASE PendingLapses
  BY <1>2 DEF PendingLapses, SyncInv, SyncTypeOK, BatchHasLock, PrefixApplied, PendingDuringBatch
<1> QED BY <1>1, <1>2

LEMMA SyncPreserves == ASSUME SyncInv, [SyncNext]_syncVars PROVE SyncInv'
<1>1. CASE UNCHANGED syncVars
  BY <1>1 DEF syncVars, SyncInv, SyncTypeOK, BatchHasLock, PrefixApplied, PendingDuringBatch
<1>2. ASSUME NEW s \in Syncs, EventRefused(s) PROVE SyncInv'
  BY <1>2, StopSy DEF EventRefused, Outcomes, EventStates
<1>3. ASSUME NEW s \in Syncs, EventFails(s) PROVE SyncInv'
  BY <1>3, StopSy DEF EventFails, Outcomes, EventStates
<1>4. CASE SyncNext
  BY <1>2, <1>3, <1>4, TakeLockSy, ReadWatermarkSy, MarkPendingSy, SendEventSy, EventAppliedSy,
     EventTimesOutSy, LateAnswerSy, BatchEndsSy, BatchGoneSy, LapsesSy DEF SyncNext
<1> QED BY <1>1, <1>4

\* Offline events take effect in their order and the detectors of late and absent
\* employees are held off as long as a batch is under way, for any number of
\* events and overlapping requests, although events time out, are answered late,
\* and locks outlive their holders (POST /attendance/sync).
THEOREM SyncHolds == SyncSpec => []SyncSafe
<1>1. SyncInv /\ [SyncNext]_syncVars => SyncInv' BY SyncPreserves
<1> QED BY SyncStarts, <1>1, SyncInvImplies, PTL DEF SyncSpec

-----------------------------------------------------------------------------
(* Attendance devices *)

DevicesSpec == DevicesInit /\ [][DevicesNext]_devicesVars

\* Enrolment numbers in a row are those of its latest enrolment.
LatestEnrolment == \A f \in Phones :
  /\ device[f].open # 0 => device[f].open = device[f].issued
  /\ device[f].proof # 0 => device[f].proof = device[f].issued
  /\ device[f].status = "approved" => device[f].proof # 0

\* A request knows its device, the enrolment it answers or the challenge it proves.
RequestsNumbered == \A p \in DeviceRequests :
  /\ asking[p].at # "idle" => asking[p].phone \in Phones
  /\ asking[p].at = "prove" => asking[p].number \in 1 .. MaxEnrolments
  /\ asking[p].at \in {"look", "consume"} => asking[p].number \in 1 .. issuedIds

\* An id names one challenge, and one that is not consumed was not accepted.
ChallengesDistinct ==
  /\ \A c \in challenges : c.id <= issuedIds /\ (~c.consumed => accepted[c.id] = 0)
  /\ \A c, d \in challenges : c.id = d.id => c = d
  /\ \A n \in 1 .. MaxChallenges : n > issuedIds => accepted[n] = 0

\* Requests that have counted the challenges of f and not inserted theirs.
Issuers(f) == {p \in DeviceRequests : asking[p].at = "issue" /\ asking[p].phone = f}

\* A request about to insert counts as much as what it will insert.
ChallengeRoom == \A f \in Phones :
  /\ IsFiniteSet(OpenOf(f))
  /\ Cardinality(OpenOf(f)) + Cardinality(Issuers(f)) <= ChallengeLimit + Cardinality(DeviceRequests) - 1

DevicesInv ==
  /\ DevicesTypeOK /\ LatestEnrolment /\ RequestsNumbered /\ ChallengesDistinct
  /\ ProofAcceptedOnce /\ ChallengeRoom

LEMMA IssuersFinite ==
  ASSUME NEW f \in Phones
  PROVE  IsFiniteSet(Issuers(f)) /\ Cardinality(Issuers(f)) \in Nat
         /\ Cardinality(Issuers(f)) <= Cardinality(DeviceRequests) /\ Cardinality(DeviceRequests) \in Nat
<1>1. Issuers(f) \subseteq DeviceRequests BY DEF Issuers
<1>2. IsFiniteSet(DeviceRequests) BY DevicesAssumption
<1> QED BY <1>1, <1>2, FS_Subset, FS_CardinalityType

LEMMA DevicesInvImplies == DevicesInv => DevicesSafe
<1> SUFFICES ASSUME DevicesInv PROVE DevicesSafe OBVIOUS
<1>1. ApprovedHasProvedItsKey BY DEF DevicesInv, LatestEnrolment, ApprovedHasProvedItsKey
<1>2. ASSUME NEW f \in Phones
      PROVE  Cardinality(OpenOf(f)) <= ChallengeLimit + Cardinality(DeviceRequests) - 1
  <2>1. Cardinality(OpenOf(f)) \in Nat BY FS_CardinalityType DEF DevicesInv, ChallengeRoom
  <2> QED BY <2>1, IssuersFinite, DevicesAssumption DEF DevicesInv, ChallengeRoom
<1> QED BY <1>1, <1>2 DEF DevicesInv, DevicesSafe, ChallengesBounded

LEMMA DevicesStart == DevicesInit => DevicesInv
<1> SUFFICES ASSUME DevicesInit PROVE DevicesInv OBVIOUS
<1>0. NoDevice \in Device /\ NotAsking \in Asking
  BY DevicesAssumption DEF NoDevice, NotAsking, Device, Asking
<1>1. DevicesTypeOK BY <1>0, DevicesAssumption DEF DevicesInit, DevicesTypeOK
<1>2. LatestEnrolment BY DEF DevicesInit, LatestEnrolment, NoDevice
<1>3. RequestsNumbered BY DEF DevicesInit, RequestsNumbered, NotAsking
<1>4. ChallengesDistinct /\ ProofAcceptedOnce BY DEF DevicesInit, ChallengesDistinct, ProofAcceptedOnce
<1>5. ChallengeRoom
  <2> SUFFICES ASSUME NEW f \in Phones
               PROVE  /\ IsFiniteSet(OpenOf(f))
                      /\ Cardinality(OpenOf(f)) + Cardinality(Issuers(f))
                           <= ChallengeLimit + Cardinality(DeviceRequests) - 1
    BY DEF ChallengeRoom
  <2>1. OpenOf(f) = {} /\ Issuers(f) = {} BY DEF DevicesInit, OpenOf, Issuers, NotAsking
  <2> QED BY <2>1, FS_EmptySet, IssuersFinite, DevicesAssumption
<1> QED BY <1>1, <1>2, <1>3, <1>4, <1>5 DEF DevicesInv

-----------------------------------------------------------------------------
(* Parts of a step *)

\* Request p goes on, or ends, or starts.
LEMMA RequestGoesOn ==
  ASSUME DevicesInv, NEW p \in DeviceRequests, NEW r \in Asking, asking' = [asking EXCEPT ![p] = r],
         issuedIds' \in 0 .. MaxChallenges, issuedIds <= issuedIds',
         r.at # "idle" => r.phone \in Phones,
         r.at = "prove" => r.number \in 1 .. MaxEnrolments,
         r.at \in {"look", "consume"} => r.number \in 1 .. issuedIds
  PROVE  asking' \in [DeviceRequests -> Asking] /\ RequestsNumbered'
<1>1. asking'[p] = r /\ (\A q \in DeviceRequests \ {p} : asking'[q] = asking[q])
      /\ asking' \in [DeviceRequests -> Asking] /\ issuedIds \in Nat /\ issuedIds' \in Nat
  BY DEF DevicesInv, DevicesTypeOK
<1>2. ASSUME NEW q \in DeviceRequests
      PROVE  /\ asking'[q].at # "idle" => asking'[q].phone \in Phones
             /\ asking'[q].at = "prove" => asking'[q].number \in 1 .. MaxEnrolments
             /\ asking'[q].at \in {"look", "consume"} => asking'[q].number \in 1 .. issuedIds'
  <2>1. CASE q = p BY <1>1, <2>1
  <2>2. CASE q # p
    <3>1. asking'[q] = asking[q] BY <1>1, <2>2
    <3> QED BY <1>1, <3>1 DEF DevicesInv, RequestsNumbered
  <2> QED BY <2>1, <2>2
<1> QED BY <1>1, <1>2 DEF RequestsNumbered

\* Without a new challenge and without a request that has just counted them, the
\* room left does not shrink.
LEMMA RoomKept ==
  ASSUME DevicesInv, \A f \in Phones : OpenOf(f)' \subseteq OpenOf(f),
         \A f \in Phones : Issuers(f)' \subseteq Issuers(f)
  PROVE  ChallengeRoom'
<1> SUFFICES ASSUME NEW f \in Phones
             PROVE  /\ IsFiniteSet(OpenOf(f)')
                    /\ Cardinality(OpenOf(f)') + Cardinality(Issuers(f)')
                         <= ChallengeLimit + Cardinality(DeviceRequests) - 1
  BY DEF ChallengeRoom
<1>1. PICK O : O = OpenOf(f)' OBVIOUS
<1>2. PICK I : I = Issuers(f)' OBVIOUS
<1>3. IsFiniteSet(O) /\ Cardinality(O) <= Cardinality(OpenOf(f)) /\ Cardinality(O) \in Nat /\ Cardinality(OpenOf(f)) \in Nat
  BY <1>1, FS_Subset, FS_CardinalityType DEF DevicesInv, ChallengeRoom
<1>4. Cardinality(I) <= Cardinality(Issuers(f)) /\ Cardinality(I) \in Nat
  BY <1>2, IssuersFinite, FS_Subset, FS_CardinalityType
<1> QED BY <1>1, <1>2, <1>3, <1>4, IssuersFinite, DevicesAssumption DEF DevicesInv, ChallengeRoom

\* A request that does not get to insert a challenge.
LEMMA IssuersKept ==
  ASSUME DevicesInv, NEW p \in DeviceRequests, NEW r \in Asking, asking' = [asking EXCEPT ![p] = r], r.at # "issue"
  PROVE  \A f \in Phones : Issuers(f)' \subseteq Issuers(f)
<1>1. asking'[p] = r /\ (\A q \in DeviceRequests \ {p} : asking'[q] = asking[q])
  BY DEF DevicesInv, DevicesTypeOK
<1> QED BY <1>1 DEF Issuers

\* Rows may go, nothing else happens to the challenges.
LEMMA ChallengesGo ==
  ASSUME DevicesInv, challenges' \subseteq challenges, UNCHANGED <<issuedIds, accepted>>
  PROVE  /\ challenges' \subseteq Challenge /\ ChallengesDistinct' /\ ProofAcceptedOnce'
         /\ issuedIds' \in 0 .. MaxChallenges /\ accepted' \in [1 .. MaxChallenges -> Nat]
         /\ \A f \in Phones : OpenOf(f)' \subseteq OpenOf(f)
  BY DEF DevicesInv, DevicesTypeOK, ChallengesDistinct, ProofAcceptedOnce, OpenOf

\* A request that only reads, or removes challenges.
LEMMA RequestStep ==
  ASSUME DevicesInv, NEW p \in DeviceRequests, NEW r \in Asking, asking' = [asking EXCEPT ![p] = r],
         challenges' \subseteq challenges, UNCHANGED <<issuedIds, accepted>>, r.at # "issue",
         r.at # "idle" => r.phone \in Phones,
         r.at = "prove" => r.number \in 1 .. MaxEnrolments,
         r.at \in {"look", "consume"} => r.number \in 1 .. issuedIds,
         device' \in [Phones -> Device], enrolments' \in 0 .. MaxEnrolments, LatestEnrolment'
  PROVE  DevicesInv'
<1>1. issuedIds' \in 0 .. MaxChallenges /\ issuedIds <= issuedIds'
  BY DevicesAssumption DEF DevicesInv, DevicesTypeOK
<1>2. asking' \in [DeviceRequests -> Asking] /\ RequestsNumbered' BY <1>1, RequestGoesOn
<1>3. ChallengeRoom' BY IssuersKept, ChallengesGo, RoomKept
<1>4. DevicesTypeOK' BY <1>2, ChallengesGo DEF DevicesTypeOK
<1> QED BY <1>2, <1>3, <1>4, ChallengesGo DEF DevicesInv

\* What a request carries on.
LEMMA AskingParts ==
  ASSUME DevicesInv, NEW p \in DeviceRequests
  PROVE  /\ asking[p] \in Asking /\ asking[p].phone \in Phones \cup {NoPhone}
         /\ (asking[p].at # "idle" => asking[p].phone \in Phones)
         /\ NotAsking \in Asking /\ NotAsking.at = "idle"
  BY DevicesAssumption DEF DevicesInv, DevicesTypeOK, RequestsNumbered, Asking, NotAsking

LEMMA DeviceParts ==
  ASSUME DevicesInv
  PROVE  device \in [Phones -> Device] /\ enrolments \in 0 .. MaxEnrolments /\ LatestEnrolment
  BY DEF DevicesInv, DevicesTypeOK

LEMMA EnrolmentBounds == 0 \in 0 .. MaxEnrolments /\ 1 .. MaxEnrolments \subseteq 0 .. MaxEnrolments
  BY DevicesAssumption

\* The beginnings of the requests.
LEMMA BeginsDv ==
  ASSUME DevicesInv, NEW p \in DeviceRequests, NEW f \in Phones,
         NEW at \in {"enrol", "prove", "approve", "wipe", "sweep", "look"},
         NEW n \in 0 .. MaxEnrolments + MaxChallenges, Begin(p, at, f, n),
         UNCHANGED <<device, enrolments, challenges, issuedIds, accepted>>,
         at = "prove" => n \in 1 .. MaxEnrolments, at = "look" => n \in 1 .. issuedIds
  PROVE  DevicesInv'
<1>1. PICK r : r = [at |-> at, phone |-> f, number |-> n] OBVIOUS
<1>2. r \in Asking /\ r.at = at /\ r.phone = f /\ r.number = n BY <1>1 DEF Asking
<1>3. asking' = [asking EXCEPT ![p] = r] BY <1>1 DEF Begin
<1>4. device' \in [Phones -> Device] /\ enrolments' \in 0 .. MaxEnrolments /\ LatestEnrolment'
  BY DeviceParts DEF LatestEnrolment
<1> QED BY <1>2, <1>3, <1>4, RequestStep

LEMMA ReadsDv ==
  ASSUME DevicesInv, NEW p \in DeviceRequests, NEW f \in Phones,
         EnrolRead(p, f) \/ ConfirmRead(p, f) \/ ApproveRead(p, f) \/ RevokeRead(p, f) \/ ChallengeRead(p, f)
  PROVE  DevicesInv'
<1>1. 0 \in 0 .. MaxEnrolments + MaxChallenges BY DevicesAssumption
<1>2. CASE ConfirmRead(p, f)
  <2>1. device[f].open \in 1 .. MaxEnrolments /\ device[f].open \in 0 .. MaxEnrolments + MaxChallenges
    BY <1>2, DeviceParts, DevicesAssumption DEF ConfirmRead, Device
  <2>2. PICK n : n = device[f].open OBVIOUS
  <2>3. Begin(p, "prove", f, n) /\ UNCHANGED <<device, enrolments, challenges, issuedIds, accepted>>
    BY <1>2, <2>2 DEF ConfirmRead
  <2> QED BY <2>1, <2>2, <2>3, BeginsDv
<1>3. CASE EnrolRead(p, f) BY <1>1, <1>3, BeginsDv DEF EnrolRead
<1>4. CASE ApproveRead(p, f) BY <1>1, <1>4, BeginsDv DEF ApproveRead
<1>5. CASE RevokeRead(p, f) BY <1>1, <1>5, BeginsDv DEF RevokeRead
<1>6. CASE ChallengeRead(p, f) BY <1>1, <1>6, BeginsDv DEF ChallengeRead
<1> QED BY <1>2, <1>3, <1>4, <1>5, <1>6

LEMMA ProofReadDv ==
  ASSUME DevicesInv, NEW p \in DeviceRequests, NEW f \in Phones, NEW n \in 1 .. issuedIds, ProofRead(p, f, n)
  PROVE  DevicesInv'
<1>1. n \in 0 .. MaxEnrolments + MaxChallenges BY DevicesAssumption DEF DevicesInv, DevicesTypeOK
<1> QED BY <1>1, BeginsDv DEF ProofRead

\* A request moves on with the device and the number it has.
LEMMA GoesOnDv ==
  ASSUME DevicesInv, NEW p \in DeviceRequests, asking[p].at # "idle",
         NEW at \in {"clear", "revoke", "count", "consume"}, GoOn(p, at),
         at = "consume" => asking[p].at = "look",
         challenges' \subseteq challenges, UNCHANGED <<issuedIds, accepted>>,
         device' \in [Phones -> Device], enrolments' \in 0 .. MaxEnrolments, LatestEnrolment'
  PROVE  DevicesInv'
<1>0. asking[p] \in Asking /\ asking[p].phone \in Phones BY AskingParts
<1>1. PICK r : r = [asking[p] EXCEPT !.at = at] OBVIOUS
<1>2. r \in Asking /\ r.at = at /\ r.phone = asking[p].phone /\ r.number = asking[p].number
  BY <1>0, <1>1 DEF Asking
<1>3. asking' = [asking EXCEPT ![p] = r] BY <1>1 DEF GoOn, DevicesInv, DevicesTypeOK
<1>4. r.at \in {"look", "consume"} => r.number \in 1 .. issuedIds
  BY <1>2 DEF DevicesInv, RequestsNumbered
<1> QED BY <1>0, <1>2, <1>3, <1>4, RequestStep

\* A request ends.
LEMMA DoneDv ==
  ASSUME DevicesInv, NEW p \in DeviceRequests, Done(p),
         challenges' \subseteq challenges, UNCHANGED <<issuedIds, accepted>>,
         device' \in [Phones -> Device], enrolments' \in 0 .. MaxEnrolments, LatestEnrolment'
  PROVE  DevicesInv'
<1>1. asking' = [asking EXCEPT ![p] = NotAsking] BY DEF Done
<1> QED BY <1>1, AskingParts, RequestStep

\* A write to one device.
LEMMA DeviceWritten ==
  ASSUME DevicesInv, NEW f \in Phones, NEW dev \in Device, device' = [device EXCEPT ![f] = dev],
         dev.open # 0 => dev.open = dev.issued,
         dev.proof # 0 => dev.proof = dev.issued,
         dev.status = "approved" => dev.proof # 0
  PROVE  device' \in [Phones -> Device] /\ LatestEnrolment'
<1>1. device'[f] = dev /\ (\A g \in Phones \ {f} : device'[g] = device[g]) /\ device' \in [Phones -> Device]
  BY DeviceParts
<1> QED BY <1>1, DeviceParts DEF LatestEnrolment

LEMMA EnrolWriteDv == ASSUME DevicesInv, NEW p \in DeviceRequests, EnrolWrite(p) PROVE DevicesInv'
<1>0. asking[p].at # "idle" /\ PhoneOf(p) \in Phones BY AskingParts DEF EnrolWrite, PhoneOf
<1>1. enrolments' \in 1 .. MaxEnrolments /\ enrolments' = enrolments + 1
  BY DeviceParts, DevicesAssumption DEF EnrolWrite
<1>2. PICK dev : dev = [status |-> "pending", open |-> enrolments + 1, proof |-> 0, issued |-> enrolments + 1] OBVIOUS
<1>3. dev \in Device /\ dev.status = "pending" /\ dev.open = dev.issued /\ dev.proof = 0
  BY <1>1, <1>2, DevicesAssumption DEF Device
<1>4. device' = [device EXCEPT ![PhoneOf(p)] = dev] BY <1>2 DEF EnrolWrite
<1>5. device' \in [Phones -> Device] /\ LatestEnrolment' BY <1>0, <1>3, <1>4, DeviceWritten
<1>6. GoOn(p, "clear") /\ UNCHANGED <<challenges, issuedIds, accepted>> /\ enrolments' \in 0 .. MaxEnrolments
  BY <1>1 DEF EnrolWrite
<1> QED BY <1>0, <1>5, <1>6, GoesOnDv

LEMMA ConfirmWriteDv == ASSUME DevicesInv, NEW p \in DeviceRequests, ConfirmWrite(p) PROVE DevicesInv'
<1>0. PhoneOf(p) \in Phones /\ asking[p].number \in 1 .. MaxEnrolments
  BY AskingParts DEF ConfirmWrite, PhoneOf, DevicesInv, RequestsNumbered
<1>1. device' \in [Phones -> Device] /\ LatestEnrolment'
  <2>1. CASE Provable(p)
    <3>1. PICK f \in Phones : f = PhoneOf(p) BY <1>0
    <3>2. PICK dev : dev = [device[f] EXCEPT !.open = 0, !.proof = asking[p].number] OBVIOUS
    <3>3. device[f] \in Device BY DeviceParts
    <3>4. /\ dev \in Device /\ dev.open = 0 /\ dev.proof = asking[p].number /\ dev.issued = device[f].issued
          /\ dev.status = device[f].status
      BY <1>0, <3>2, <3>3, EnrolmentBounds DEF Device
    <3>5. device[f].issued = asking[p].number /\ asking[p].number # 0
      BY <1>0, <2>1, <3>1, DeviceParts DEF Provable, LatestEnrolment
    <3>6. device' = [device EXCEPT ![f] = dev] BY <2>1, <3>1, <3>2, DeviceParts DEF ConfirmWrite
    <3> QED BY <3>4, <3>5, <3>6, DeviceWritten
  <2>2. CASE ~Provable(p)
    BY <2>2, DeviceParts DEF ConfirmWrite, LatestEnrolment
  <2> QED BY <2>1, <2>2
<1>2. Done(p) /\ UNCHANGED <<challenges, issuedIds, accepted>> /\ enrolments' \in 0 .. MaxEnrolments
  BY DeviceParts DEF ConfirmWrite
<1> QED BY <1>1, <1>2, DoneDv

LEMMA ApproveWriteDv == ASSUME DevicesInv, NEW p \in DeviceRequests, ApproveWrite(p) PROVE DevicesInv'
<1>0. PhoneOf(p) \in Phones BY AskingParts DEF ApproveWrite, PhoneOf
<1>1. device' \in [Phones -> Device] /\ LatestEnrolment'
  <2>1. CASE StillVerified(p)
    <3>1. PICK f \in Phones : f = PhoneOf(p) BY <1>0
    <3>2. PICK dev : dev = [device[f] EXCEPT !.status = "approved"] OBVIOUS
    <3>3. device[f] \in Device BY DeviceParts
    <3>4. dev \in Device /\ dev.open = device[f].open /\ dev.proof = device[f].proof /\ dev.issued = device[f].issued
      BY <3>2, <3>3 DEF Device
    <3>5. device[f].proof # 0 BY <2>1, <3>1 DEF StillVerified, Verified
    <3>6. device' = [device EXCEPT ![f] = dev] BY <2>1, <3>1, <3>2, DeviceParts DEF ApproveWrite
    <3> QED BY <3>4, <3>5, <3>6, DeviceParts, DeviceWritten DEF LatestEnrolment
  <2>2. CASE ~StillVerified(p)
    BY <2>2, DeviceParts DEF ApproveWrite, LatestEnrolment
  <2> QED BY <2>1, <2>2
<1>2. Done(p) /\ UNCHANGED <<challenges, issuedIds, accepted>> /\ enrolments' \in 0 .. MaxEnrolments
  BY DeviceParts DEF ApproveWrite
<1> QED BY <1>1, <1>2, DoneDv

LEMMA RevokeWriteDv == ASSUME DevicesInv, NEW p \in DeviceRequests, RevokeWrite(p) PROVE DevicesInv'
<1>0. PhoneOf(p) \in Phones BY AskingParts DEF RevokeWrite, PhoneOf
<1>1. PICK f \in Phones : f = PhoneOf(p) BY <1>0
<1>2. PICK dev : dev = [device[f] EXCEPT !.status = "revoked", !.open = 0] OBVIOUS
<1>3. device[f] \in Device BY DeviceParts
<1>4. dev \in Device /\ dev.status = "revoked" /\ dev.open = 0 /\ dev.proof = device[f].proof /\ dev.issued = device[f].issued
  BY <1>2, <1>3, EnrolmentBounds DEF Device
<1>5. device' = [device EXCEPT ![f] = dev] BY <1>1, <1>2, DeviceParts DEF RevokeWrite
<1>6. dev.proof # 0 => dev.proof = dev.issued BY <1>4, DeviceParts DEF LatestEnrolment
<1>7. device' \in [Phones -> Device] /\ LatestEnrolment' BY <1>4, <1>5, <1>6, DeviceWritten
<1>8. Done(p) /\ UNCHANGED <<challenges, issuedIds, accepted>> /\ enrolments' \in 0 .. MaxEnrolments
  BY DeviceParts DEF RevokeWrite
<1> QED BY <1>7, <1>8, DoneDv

\* Statements of a request that leave the devices alone and add no challenge.
LEMMA SweepsDv ==
  ASSUME DevicesInv, NEW p \in DeviceRequests,
         EnrolClear(p) \/ RevokeWipe(p) \/ ChallengeSweep(p) \/ ProofLook(p) \/ DeviceCrash(p)
  PROVE  DevicesInv'
<1>1. /\ asking[p].at # "idle" /\ challenges' \subseteq challenges
      /\ UNCHANGED <<device, enrolments, issuedIds, accepted>>
  BY DEF EnrolClear, RevokeWipe, ChallengeSweep, ProofLook, DeviceCrash, Without
<1>2. device' \in [Phones -> Device] /\ enrolments' \in 0 .. MaxEnrolments /\ LatestEnrolment'
  BY <1>1, DeviceParts DEF LatestEnrolment
<1>3. CASE Done(p) BY <1>1, <1>2, <1>3, DoneDv
<1>4. CASE RevokeWipe(p) BY <1>1, <1>2, <1>4, GoesOnDv DEF RevokeWipe
<1>5. CASE ChallengeSweep(p) BY <1>1, <1>2, <1>5, GoesOnDv DEF ChallengeSweep
<1>6. CASE asking[p].at = "look" /\ GoOn(p, "consume") BY <1>1, <1>2, <1>6, GoesOnDv
<1> QED BY <1>3, <1>4, <1>5, <1>6 DEF EnrolClear, ProofLook, DeviceCrash

LEMMA EnrolmentExpiresDv == ASSUME DevicesInv, NEW f \in Phones, EnrolmentExpires(f) PROVE DevicesInv'
<1>1. PICK dev : dev = [device[f] EXCEPT !.open = 0] OBVIOUS
<1>2. device[f] \in Device BY DeviceParts
<1>3. /\ dev \in Device /\ dev.open = 0 /\ dev.proof = device[f].proof /\ dev.issued = device[f].issued
      /\ dev.status = device[f].status
  BY <1>1, <1>2, EnrolmentBounds DEF Device
<1>4. device' = [device EXCEPT ![f] = dev] BY <1>1, DeviceParts DEF EnrolmentExpires
<1>5. (dev.proof # 0 => dev.proof = dev.issued) /\ (dev.status = "approved" => dev.proof # 0)
  BY <1>3, DeviceParts DEF LatestEnrolment
<1>6. device' \in [Phones -> Device] /\ LatestEnrolment' BY <1>3, <1>4, <1>5, DeviceWritten
<1>7. UNCHANGED <<enrolments, challenges, issuedIds, asking, accepted>> BY DEF EnrolmentExpires
<1>8. (\A g \in Phones : Issuers(g)' \subseteq Issuers(g)) /\ RequestsNumbered'
  BY <1>7 DEF Issuers, RequestsNumbered, DevicesInv
<1>9. ChallengeRoom' BY <1>7, <1>8, ChallengesGo, RoomKept
<1>10. DevicesTypeOK' BY <1>6, <1>7 DEF DevicesInv, DevicesTypeOK
<1> QED BY <1>6, <1>7, <1>8, <1>9, <1>10, ChallengesGo DEF DevicesInv

\* The count admits one more: what is open and all requests but none fit.
LEMMA ChallengeCountDv == ASSUME DevicesInv, NEW p \in DeviceRequests, ChallengeCount(p) PROVE DevicesInv'
<1>1. asking[p].at = "count" /\ UNCHANGED <<device, enrolments, challenges, issuedIds, accepted>>
  BY DEF ChallengeCount
<1>2. device' \in [Phones -> Device] /\ enrolments' \in 0 .. MaxEnrolments /\ LatestEnrolment'
  BY <1>1, DeviceParts DEF LatestEnrolment
<1>3. CASE Done(p) BY <1>1, <1>2, <1>3, DoneDv
<1>4. CASE RoomLeft(PhoneOf(p)) /\ GoOn(p, "issue")
  <2>0. asking[p] \in Asking /\ asking[p].phone \in Phones BY <1>1, AskingParts
  <2>1. PICK r : r = [asking[p] EXCEPT !.at = "issue"] OBVIOUS
  <2>2. r \in Asking /\ r.at = "issue" /\ r.phone = asking[p].phone BY <2>0, <2>1 DEF Asking
  <2>3. asking' = [asking EXCEPT ![p] = r] BY <1>4, <2>1 DEF GoOn, DevicesInv, DevicesTypeOK
  <2>4. issuedIds' \in 0 .. MaxChallenges /\ issuedIds <= issuedIds'
    BY <1>1, DevicesAssumption DEF DevicesInv, DevicesTypeOK
  <2>5. asking' \in [DeviceRequests -> Asking] /\ RequestsNumbered'
    BY <2>0, <2>2, <2>3, <2>4, RequestGoesOn
  <2>6. asking'[p] = r /\ \A q \in DeviceRequests \ {p} : asking'[q] = asking[q]
    BY <2>3 DEF DevicesInv, DevicesTypeOK
  <2>7. ASSUME NEW f \in Phones
        PROVE  /\ IsFiniteSet(OpenOf(f)')
               /\ Cardinality(OpenOf(f)') + Cardinality(Issuers(f)')
                    <= ChallengeLimit + Cardinality(DeviceRequests) - 1
    <3>1. OpenOf(f)' = OpenOf(f) BY <1>1 DEF OpenOf
    <3>2. IsFiniteSet(OpenOf(f)) /\ Cardinality(OpenOf(f)) \in Nat
      BY FS_CardinalityType DEF DevicesInv, ChallengeRoom
    <3>3. CASE f = asking[p].phone
      <4>1. Cardinality(OpenOf(f)) < ChallengeLimit BY <1>4, <3>3 DEF RoomLeft, PhoneOf
      <4>2. PICK I : I = Issuers(f)' OBVIOUS
      <4>3. I \subseteq DeviceRequests BY <4>2 DEF Issuers
      <4>4. Cardinality(I) <= Cardinality(DeviceRequests) /\ Cardinality(I) \in Nat /\ Cardinality(DeviceRequests) \in Nat
        BY <4>3, FS_Subset, FS_CardinalityType, DevicesAssumption
      <4> QED BY <3>1, <3>2, <4>1, <4>2, <4>4, DevicesAssumption
    <3>4. CASE f # asking[p].phone
      <4>1. Issuers(f)' = Issuers(f) BY <1>1, <2>2, <2>6, <3>4 DEF Issuers
      <4> QED BY <3>1, <4>1 DEF DevicesInv, ChallengeRoom
    <3> QED BY <3>3, <3>4
  <2>8. ChallengeRoom' BY <2>7 DEF ChallengeRoom
  <2>9. DevicesTypeOK' BY <1>1, <1>2, <2>5 DEF DevicesInv, DevicesTypeOK
  <2> QED BY <1>1, <1>2, <2>5, <2>8, <2>9, ChallengesGo DEF DevicesInv
<1> QED BY <1>3, <1>4 DEF ChallengeCount

\* One more open challenge, one request less that is about to insert one.
LEMMA ChallengeIssueDv == ASSUME DevicesInv, NEW p \in DeviceRequests, ChallengeIssue(p) PROVE DevicesInv'
<1>0. asking[p] \in Asking /\ asking[p].phone \in Phones /\ asking[p].at = "issue"
  BY AskingParts DEF ChallengeIssue
<1>1. PICK c : c = [id |-> issuedIds + 1, phone |-> asking[p].phone, consumed |-> FALSE, expired |-> FALSE] OBVIOUS
<1>2. /\ issuedIds \in Nat /\ issuedIds + 1 \in 1 .. MaxChallenges /\ issuedIds' = issuedIds + 1
      /\ issuedIds' \in 0 .. MaxChallenges /\ issuedIds <= issuedIds'
  BY DevicesAssumption DEF ChallengeIssue, DevicesInv, DevicesTypeOK
<1>3. /\ c \in Challenge /\ c.id = issuedIds + 1 /\ c.phone = asking[p].phone /\ ~c.consumed /\ ~c.expired
  BY <1>0, <1>1, <1>2 DEF Challenge
<1>4. challenges' = challenges \cup {c} /\ Done(p) /\ UNCHANGED <<device, enrolments, accepted>>
  BY <1>1 DEF ChallengeIssue, PhoneOf
<1>5. asking' = [asking EXCEPT ![p] = NotAsking] BY <1>4 DEF Done
<1>6. asking' \in [DeviceRequests -> Asking] /\ RequestsNumbered'
  BY <1>2, <1>5, AskingParts, RequestGoesOn
<1>7. asking'[p] = NotAsking /\ NotAsking.at = "idle" /\ \A q \in DeviceRequests \ {p} : asking'[q] = asking[q]
  BY <1>5, AskingParts DEF DevicesInv, DevicesTypeOK
<1>8. ChallengesDistinct'
  <2>1. \A d \in challenges : d.id \in Nat /\ d.id <= issuedIds /\ d.id < c.id /\ d.id < issuedIds'
    BY <1>2, <1>3 DEF DevicesInv, DevicesTypeOK, ChallengesDistinct, Challenge
  <2>2. accepted[issuedIds + 1] = 0
    BY <1>2 DEF DevicesInv, ChallengesDistinct
  <2>3. \A d \in challenges' : d.id <= issuedIds' /\ (~d.consumed => accepted'[d.id] = 0)
    BY <1>2, <1>3, <1>4, <2>1, <2>2 DEF DevicesInv, ChallengesDistinct
  <2>4. \A d, e \in challenges' : d.id = e.id => d = e
    BY <1>4, <2>1 DEF DevicesInv, ChallengesDistinct
  <2>5. \A n \in 1 .. MaxChallenges : n > issuedIds' => accepted'[n] = 0
    BY <1>2, <1>4 DEF DevicesInv, ChallengesDistinct
  <2> QED BY <2>3, <2>4, <2>5 DEF ChallengesDistinct
<1>9. ASSUME NEW f \in Phones
      PROVE  /\ IsFiniteSet(OpenOf(f)')
             /\ Cardinality(OpenOf(f)') + Cardinality(Issuers(f)')
                  <= ChallengeLimit + Cardinality(DeviceRequests) - 1
  <2>2. IsFiniteSet(OpenOf(f)) /\ Cardinality(OpenOf(f)) \in Nat
    BY FS_CardinalityType DEF DevicesInv, ChallengeRoom
  <2>3. IsFiniteSet(Issuers(f)) /\ Cardinality(Issuers(f)) \in Nat /\ Cardinality(DeviceRequests) \in Nat
    BY IssuersFinite
  <2>4. CASE f = asking[p].phone
    <3>1. OpenOf(f)' = OpenOf(f) \cup {c} BY <1>3, <1>4, <2>4 DEF OpenOf
    <3>2. Cardinality(OpenOf(f) \cup {c}) <= Cardinality(OpenOf(f)) + 1 /\ IsFiniteSet(OpenOf(f) \cup {c})
          /\ Cardinality(OpenOf(f) \cup {c}) \in Nat
      <4>1. /\ IsFiniteSet(OpenOf(f) \cup {c})
            /\ Cardinality(OpenOf(f) \cup {c}) = Cardinality(OpenOf(f))
                 \/ Cardinality(OpenOf(f) \cup {c}) = Cardinality(OpenOf(f)) + 1
        BY <2>2, FS_AddElement
      <4> QED BY <2>2, <4>1
    <3>3. Issuers(f)' = Issuers(f) \ {p} /\ p \in Issuers(f) BY <1>0, <1>7, <2>4 DEF Issuers
    <3>4. Cardinality(Issuers(f) \ {p}) = Cardinality(Issuers(f)) - 1
      BY <2>3, <3>3, FS_RemoveElement
    <3> QED BY <2>2, <2>3, <3>1, <3>2, <3>3, <3>4, DevicesAssumption DEF DevicesInv, ChallengeRoom
  <2>5. CASE f # asking[p].phone
    <3>1. OpenOf(f)' = OpenOf(f) BY <1>3, <1>4, <2>5 DEF OpenOf
    <3>2. Issuers(f)' = Issuers(f) BY <1>0, <1>7, <2>5 DEF Issuers
    <3> QED BY <3>1, <3>2 DEF DevicesInv, ChallengeRoom
  <2> QED BY <2>4, <2>5
<1>10. ChallengeRoom' BY <1>9 DEF ChallengeRoom
<1>11. DevicesTypeOK' BY <1>2, <1>3, <1>4, <1>6 DEF DevicesInv, DevicesTypeOK
<1>12. LatestEnrolment' /\ ProofAcceptedOnce'
  BY <1>4 DEF DevicesInv, LatestEnrolment, ProofAcceptedOnce
<1> QED BY <1>6, <1>8, <1>10, <1>11, <1>12 DEF DevicesInv

\* Challenge c becomes unusable and keeps its id.
LEMMA ChallengeExpiresDv == ASSUME DevicesInv, NEW c \in challenges, ChallengeExpires(c) PROVE DevicesInv'
<1>0. c \in Challenge BY DEF DevicesInv, DevicesTypeOK
<1>1. PICK d : d = [c EXCEPT !.expired = TRUE] OBVIOUS
<1>2. d \in Challenge /\ d.id = c.id /\ d.phone = c.phone /\ d.consumed = c.consumed /\ d.expired
  BY <1>0, <1>1 DEF Challenge
<1>3. /\ challenges' = (challenges \ {c}) \cup {d} /\ UNCHANGED <<device, enrolments, issuedIds, asking, accepted>>
  BY <1>1 DEF ChallengeExpires
<1>4. DevicesTypeOK' BY <1>2, <1>3 DEF DevicesInv, DevicesTypeOK
<1>5. ChallengesDistinct' /\ ProofAcceptedOnce'
  BY <1>2, <1>3 DEF DevicesInv, ChallengesDistinct, ProofAcceptedOnce
<1>6. \A f \in Phones : OpenOf(f)' \subseteq OpenOf(f) /\ Issuers(f)' \subseteq Issuers(f)
  BY <1>2, <1>3 DEF OpenOf, Issuers
<1>7. ChallengeRoom' BY <1>6, RoomKept
<1>8. LatestEnrolment' /\ RequestsNumbered' BY <1>3 DEF DevicesInv, LatestEnrolment, RequestsNumbered
<1> QED BY <1>4, <1>5, <1>7, <1>8 DEF DevicesInv

\* The statement that consumes a challenge finds it at most once.
LEMMA ProofConsumeDv == ASSUME DevicesInv, NEW p \in DeviceRequests, ProofConsume(p) PROVE DevicesInv'
<1>0. PICK n : n = asking[p].number OBVIOUS
<1>1. n \in 1 .. issuedIds /\ n \in 1 .. MaxChallenges /\ issuedIds \in Nat
  BY <1>0, DevicesAssumption DEF ProofConsume, DevicesInv, DevicesTypeOK, RequestsNumbered
<1>2. Done(p) /\ UNCHANGED <<device, enrolments, issuedIds>> BY DEF ProofConsume
<1>3. device' \in [Phones -> Device] /\ enrolments' \in 0 .. MaxEnrolments /\ LatestEnrolment'
  BY <1>2, DeviceParts DEF LatestEnrolment
<1>4. CASE ConsumableProof(p) = {}
  <2>1. challenges' = challenges /\ accepted' = accepted BY <1>4 DEF ProofConsume
  <2> QED BY <1>2, <1>3, <2>1, DoneDv
<1>5. CASE ConsumableProof(p) # {}
  <2>1. PICK c \in challenges : c.id = n /\ ~c.consumed BY <1>0, <1>5 DEF ConsumableProof
  <2>2. ConsumableProof(p) = {c}
    BY <1>0, <2>1 DEF ConsumableProof, DevicesInv, ChallengesDistinct
  <2>3. c \in Challenge BY DEF DevicesInv, DevicesTypeOK
  <2>4. PICK d : d = [c EXCEPT !.consumed = TRUE] OBVIOUS
  <2>5. d \in Challenge /\ d.id = n /\ d.phone = c.phone /\ d.consumed
    BY <2>1, <2>3, <2>4 DEF Challenge
  <2>6. challenges' = (challenges \ {c}) \cup {d} /\ accepted' = [accepted EXCEPT ![n] = @ + 1]
    BY <1>0, <1>5, <2>2, <2>4 DEF ProofConsume
  <2>7. accepted[n] = 0 BY <2>1 DEF DevicesInv, ChallengesDistinct
  <2>8. /\ accepted' \in [1 .. MaxChallenges -> Nat] /\ accepted'[n] = 1
        /\ \A m \in 1 .. MaxChallenges : m # n => accepted'[m] = accepted[m]
    BY <1>1, <2>6, <2>7 DEF DevicesInv, DevicesTypeOK
  <2>9. ProofAcceptedOnce' BY <2>8 DEF DevicesInv, ProofAcceptedOnce
  <2>10. ChallengesDistinct'
    <3>1. \A e \in challenges \ {c} : e.id # n /\ e.id \in 1 .. MaxChallenges
      BY <2>1 DEF DevicesInv, DevicesTypeOK, Challenge, ChallengesDistinct
    <3>2. \A e \in challenges' : e.id <= issuedIds' /\ (~e.consumed => accepted'[e.id] = 0)
      BY <1>1, <1>2, <2>5, <2>6, <2>8, <3>1 DEF DevicesInv, ChallengesDistinct
    <3>3. \A e, g \in challenges' : e.id = g.id => e = g
      BY <2>5, <2>6, <3>1 DEF DevicesInv, ChallengesDistinct
    <3>4. \A m \in 1 .. MaxChallenges : m > issuedIds' => accepted'[m] = 0
      BY <1>1, <1>2, <2>8 DEF DevicesInv, ChallengesDistinct
    <3> QED BY <3>2, <3>3, <3>4 DEF ChallengesDistinct
  <2>11. asking' = [asking EXCEPT ![p] = NotAsking] BY <1>2 DEF Done
  <2>12. issuedIds' \in 0 .. MaxChallenges /\ issuedIds <= issuedIds'
    BY <1>1, <1>2 DEF DevicesInv, DevicesTypeOK
  <2>13. asking' \in [DeviceRequests -> Asking] /\ RequestsNumbered'
    BY <2>11, <2>12, AskingParts, RequestGoesOn
  <2>14. \A f \in Phones : OpenOf(f)' \subseteq OpenOf(f) BY <2>5, <2>6 DEF OpenOf
  <2>15. ChallengeRoom' BY <2>11, <2>14, AskingParts, IssuersKept, RoomKept
  <2>16. DevicesTypeOK' BY <1>3, <2>5, <2>6, <2>8, <2>12, <2>13 DEF DevicesInv, DevicesTypeOK
  <2> QED BY <1>3, <2>9, <2>10, <2>13, <2>15, <2>16 DEF DevicesInv
<1> QED BY <1>4, <1>5

LEMMA DevicesPreserve == ASSUME DevicesInv, [DevicesNext]_devicesVars PROVE DevicesInv'
<1>1. CASE UNCHANGED devicesVars
  <2>1. \A f \in Phones : OpenOf(f)' \subseteq OpenOf(f) /\ Issuers(f)' \subseteq Issuers(f)
    BY <1>1 DEF devicesVars, OpenOf, Issuers
  <2>2. ChallengeRoom' BY <2>1, RoomKept
  <2> QED BY <1>1, <2>2 DEF devicesVars, DevicesInv, DevicesTypeOK, LatestEnrolment, RequestsNumbered,
             ChallengesDistinct, ProofAcceptedOnce
<1>2. CASE DevicesNext
  BY <1>2, ReadsDv, ProofReadDv, EnrolWriteDv, ConfirmWriteDv, ApproveWriteDv, RevokeWriteDv, SweepsDv,
     EnrolmentExpiresDv, ChallengeCountDv, ChallengeIssueDv, ChallengeExpiresDv, ProofConsumeDv DEF DevicesNext
<1> QED BY <1>1, <1>2

\* A device is trusted for the key it proved in its latest enrolment, a challenge
\* vouches for one check-in, and open challenges exceed the limit by no more than
\* the requests that counted together, for any number of devices, requests and
\* challenges (routes/attendance-devices.ts, POST /attendance/checkin).
THEOREM DevicesHold == DevicesSpec => []DevicesSafe
<1>1. DevicesInv /\ [DevicesNext]_devicesVars => DevicesInv' BY DevicesPreserve
<1> QED BY DevicesStart, <1>1, DevicesInvImplies, PTL DEF DevicesSpec

-----------------------------------------------------------------------------
(* The assistant *)

AssistantSpec == AssistantInit /\ [][AssistantNext]_assistantVars

\* A request that decides about a message has seen a change that the message
\* proposed, and one that applies it has cleared the message and is alone.
DecidersKnown == \A c \in Chats :
  /\ chat[c].at = "recheck" => chat[c].seen \in Changes
  /\ chat[c].at \in {"claim", "execute"} =>
       /\ chat[c].last \in 1 .. Len(log) /\ chat[c].read = chat[c].seen
       /\ chat[c].seen \in Changes /\ proposed[chat[c].last] = chat[c].seen
  /\ chat[c].at = "execute" =>
       /\ log[chat[c].last] = NoChange
       /\ applied[chat[c].last] = <<>> /\ chat[c].last \notin cancelled
       /\ \A d \in Chats \ {c} : chat[d].at = "execute" => chat[d].last # chat[c].last

\* A change that awaits confirmation is the one proposed and was not decided.
PendingUndecided == \A m \in 1 .. Len(log) :
  log[m] # NoChange => log[m] = proposed[m] /\ applied[m] = <<>> /\ m \notin cancelled

\* What is decided was proposed; a cancelled change was not applied.
DecisionsKnown == \A m \in 1 .. MaxMessages :
  /\ m > Len(log) => applied[m] = <<>> /\ m \notin cancelled
  /\ m \in cancelled => applied[m] = <<>>
  /\ applied[m] = <<>> \/ (m <= Len(log) /\ applied[m] = <<proposed[m]>>)

\* A request was admitted under a limit that there has been.
LimitsGranted ==
  /\ policy.limit <= granted
  /\ \A c \in Chats : chat[c].limit <= granted

AssistantInv ==
  /\ AssistantTypeOK /\ DecidersKnown /\ PendingUndecided /\ DecisionsKnown /\ LimitsGranted /\ QuotaHeld

LEMMA AssistantInvImplies == AssistantInv => AssistantSafe
<1> SUFFICES ASSUME AssistantInv PROVE AssistantSafe OBVIOUS
<1>1. ASSUME NEW m \in 1 .. MaxMessages
      PROVE  /\ Len(applied[m]) + (IF m \in cancelled THEN 1 ELSE 0) <= 1
             /\ \A i \in 1 .. Len(applied[m]) : m <= Len(proposed) /\ applied[m][i] = proposed[m]
  <2>1. CASE applied[m] = <<>> BY <2>1
  <2>2. CASE applied[m] # <<>>
    <3>1. m <= Len(proposed) /\ applied[m] = <<proposed[m]>> /\ m \notin cancelled
      BY <2>2 DEF AssistantInv, AssistantTypeOK, DecisionsKnown
    <3> QED BY <3>1
  <2> QED BY <2>1, <2>2
<1> QED BY <1>1 DEF AssistantInv, AssistantSafe, ChangeDecidedOnce, AppliesWhatWasProposed

LEMMA NoChatType == NoChat \in Chat /\ NoChat.at = "idle" /\ NoChat.limit = 0 /\ NoChat.reply = NoChange
  BY AssistantAssumption DEF NoChat, Chat, Steps, Messages, MessageIds, Pending

LEMMA AssistantStarts == AssistantInit => AssistantInv
<1> SUFFICES ASSUME AssistantInit PROVE AssistantInv OBVIOUS
<1>1. /\ policy \in [enabled : BOOLEAN, limit : Limits] /\ policy.limit \in Nat /\ policy.limit \in Limits
  BY AssistantAssumption DEF AssistantInit
<1>2. AssistantTypeOK
  BY <1>1, NoChatType, AssistantAssumption DEF AssistantInit, AssistantTypeOK
<1>3. DecidersKnown BY NoChatType DEF AssistantInit, DecidersKnown
<1>4. PendingUndecided /\ DecisionsKnown BY DEF AssistantInit, PendingUndecided, DecisionsKnown
<1>5. LimitsGranted /\ QuotaHeld
  BY <1>1, NoChatType DEF AssistantInit, LimitsGranted, QuotaHeld
<1> QED BY <1>2, <1>3, <1>4, <1>5 DEF AssistantInv

-----------------------------------------------------------------------------
(* Parts of a step *)

LEMMA ChatParts ==
  ASSUME AssistantInv, NEW c \in Chats
  PROVE  /\ chat[c] \in Chat /\ chat[c].limit \in Nat /\ chat[c].reply \in Pending
         /\ chat[c].rounds \in 0 .. MaxRounds /\ chat[c].says \in Messages
         /\ chat \in [Chats -> Chat] /\ granted \in Nat /\ policy.limit \in Nat /\ used \in Nat
         /\ policy.limit \in Limits /\ Len(log) \in Nat
<1>1. chat[c] \in Chat /\ chat \in [Chats -> Chat] /\ Len(log) \in Nat BY DEF AssistantInv, AssistantTypeOK
<1>2. chat[c].limit \in Limits \cup {0} /\ chat[c].reply \in Pending /\ chat[c].rounds \in 0 .. MaxRounds
      /\ chat[c].says \in Messages
  BY <1>1 DEF Chat
<1>3. granted \in Limits /\ policy.limit \in Limits /\ used \in Nat BY DEF AssistantInv, AssistantTypeOK
<1>4. Limits \subseteq Nat BY AssistantAssumption
<1>5. Limits \cup {0} \subseteq Nat BY <1>4
<1>6. chat[c].limit \in Nat BY <1>2, <1>5
<1>7. granted \in Nat /\ policy.limit \in Nat BY <1>3, <1>4
<1> QED BY <1>1, <1>2, <1>3, <1>6, <1>7

\* Request c goes on without having to do with a change; the conversation stays.
LEMMA ChatGoesOn ==
  ASSUME AssistantInv, NEW c \in Chats, NEW r \in Chat, Step(c, r), UNCHANGED_conversation,
         r.at \notin {"recheck", "claim", "execute"}
  PROVE  /\ chat' \in [Chats -> Chat] /\ DecidersKnown' /\ PendingUndecided' /\ DecisionsKnown'
         /\ log' \in Seq(Pending) /\ Len(log') <= MaxMessages /\ proposed' \in Seq(Pending)
         /\ Len(proposed') = Len(log') /\ applied' \in [1 .. MaxMessages -> Seq(Changes)]
         /\ cancelled' \subseteq 1 .. MaxMessages
<1>1. chat'[c] = r /\ (\A d \in Chats \ {c} : chat'[d] = chat[d]) /\ chat' \in [Chats -> Chat]
  BY DEF Step, AssistantInv, AssistantTypeOK
<1>2. UNCHANGED <<log, proposed, applied, cancelled>> BY DEF UNCHANGED_conversation
<1>3. DecidersKnown' BY <1>1, <1>2 DEF AssistantInv, DecidersKnown
<1>4. PendingUndecided' /\ DecisionsKnown' BY <1>2 DEF AssistantInv, PendingUndecided, DecisionsKnown
<1> QED BY <1>1, <1>2, <1>3, <1>4 DEF AssistantInv, AssistantTypeOK

\* The quota is left alone and c keeps its limit or gives it up.
LEMMA QuotaKept ==
  ASSUME AssistantInv, NEW c \in Chats, NEW r \in Chat, Step(c, r), UNCHANGED_quota, r.limit <= granted
  PROVE  /\ policy' \in [enabled : BOOLEAN, limit : Limits] /\ policies' \in 0 .. MaxPolicies
         /\ granted' \in Limits /\ used' \in Nat /\ LimitsGranted' /\ QuotaHeld'
<1>1. chat'[c] = r /\ (\A d \in Chats \ {c} : chat'[d] = chat[d])
  BY DEF Step, AssistantInv, AssistantTypeOK
<1> QED BY <1>1 DEF UNCHANGED_quota, AssistantInv, AssistantTypeOK, LimitsGranted, QuotaHeld

\* A step of c that only moves c on.
LEMMA QuietStep ==
  ASSUME AssistantInv, NEW c \in Chats, NEW r \in Chat, Step(c, r), UNCHANGED_conversation, UNCHANGED_quota,
         r.at \notin {"recheck", "claim", "execute"}, r.limit <= granted
  PROVE  AssistantInv'
  BY ChatGoesOn, QuotaKept DEF AssistantInv, AssistantTypeOK

LEMMA EndsAs ==
  ASSUME AssistantInv, NEW c \in Chats, EndChat(c), UNCHANGED_conversation, UNCHANGED_quota
  PROVE  AssistantInv'
<1>1. Step(c, NoChat) BY DEF EndChat
<1>2. NoChat.limit <= granted BY NoChatType, ChatParts
<1> QED BY <1>1, <1>2, NoChatType, QuietStep

\* Where a request may go with nothing but its step or its turns changed.
LEMMA MovedChat ==
  ASSUME AssistantInv, NEW c \in Chats, NEW at \in Steps, NEW n \in 0 .. MaxRounds
  PROVE  /\ [chat[c] EXCEPT !.at = at] \in Chat /\ [chat[c] EXCEPT !.at = at].at = at
         /\ [chat[c] EXCEPT !.at = at].limit = chat[c].limit
         /\ [chat[c] EXCEPT !.rounds = n] \in Chat /\ [chat[c] EXCEPT !.rounds = n].at = chat[c].at
         /\ [chat[c] EXCEPT !.rounds = n].limit = chat[c].limit
<1>1. chat[c] \in Chat BY ChatParts
<1> QED BY <1>1 DEF Chat

LEMMA MovesAs ==
  ASSUME AssistantInv, NEW c \in Chats, NEW at \in {"load", "model", "persist"},
         Step(c, [chat[c] EXCEPT !.at = at]), UNCHANGED_conversation, UNCHANGED_quota
  PROVE  AssistantInv'
<1>0. at \in Steps /\ 0 \in 0 .. MaxRounds BY AssistantAssumption DEF Steps
<1>1. PICK r : r = [chat[c] EXCEPT !.at = at] OBVIOUS
<1>2. r \in Chat /\ r.at = at /\ r.limit = chat[c].limit BY <1>0, <1>1, MovedChat
<1>3. Step(c, r) BY <1>1
<1>4. r.limit <= granted BY <1>2 DEF AssistantInv, LimitsGranted
<1> QED BY <1>2, <1>3, <1>4, QuietStep

LEMMA SetPolicyAs ==
  ASSUME AssistantInv, NEW on \in BOOLEAN, NEW l \in Limits, SetPolicy(on, l)
  PROVE  AssistantInv'
<1>1. l \in Nat /\ granted \in Nat /\ granted \in Limits /\ used \in Nat
  BY AssistantAssumption DEF AssistantInv, AssistantTypeOK
<1>2. policy' = [enabled |-> on, limit |-> l] /\ granted' \in {l, granted} /\ granted' >= l /\ granted' >= granted
      /\ policies' \in 0 .. MaxPolicies
      /\ UNCHANGED <<used, chat, log, proposed, applied, cancelled>>
  BY <1>1, AssistantAssumption DEF SetPolicy, UNCHANGED_conversation, AssistantInv, AssistantTypeOK
<1>3. policy' \in [enabled : BOOLEAN, limit : Limits] /\ policy'.limit = l BY <1>2
<1>4. AssistantTypeOK' BY <1>1, <1>2, <1>3 DEF AssistantInv, AssistantTypeOK
<1>5. LimitsGranted'
  <2>1. \A c \in Chats : chat[c].limit \in Nat /\ chat[c].limit <= granted
    BY ChatParts DEF AssistantInv, LimitsGranted
  <2> QED BY <1>1, <1>2, <1>3, <2>1 DEF LimitsGranted
<1>6. QuotaHeld' BY <1>1, <1>2 DEF AssistantInv, QuotaHeld
<1>7. DecidersKnown' /\ PendingUndecided' /\ DecisionsKnown'
  BY <1>2 DEF AssistantInv, DecidersKnown, PendingUndecided, DecisionsKnown
<1> QED BY <1>4, <1>5, <1>6, <1>7 DEF AssistantInv

LEMMA SendAs == ASSUME AssistantInv, NEW c \in Chats, NEW says \in Messages, Send(c, says) PROVE AssistantInv'
<1>1. PICK r : r = [NoChat EXCEPT !.at = "reserve", !.says = says, !.limit = policy.limit] OBVIOUS
<1>2. r \in Chat /\ r.at = "reserve" /\ r.limit = policy.limit
  BY <1>1, NoChatType, ChatParts DEF Chat, Steps
<1>3. Step(c, r) /\ UNCHANGED_quota /\ UNCHANGED_conversation BY <1>1 DEF Send
<1>4. r.limit <= granted BY <1>2 DEF AssistantInv, LimitsGranted
<1> QED BY <1>2, <1>3, <1>4, QuietStep

\* The statement that counts compares with a limit that was granted.
LEMMA ReserveAs == ASSUME AssistantInv, NEW c \in Chats, Reserve(c) PROVE AssistantInv'
<1>1. CASE ~Reservable(c)
  BY <1>1, EndsAs DEF Reserve, UNCHANGED_quota
<1>2. CASE Reservable(c)
  <2>0. "load" \in Steps /\ 0 \in 0 .. MaxRounds BY AssistantAssumption DEF Steps
  <2>1. PICK r : r = [chat[c] EXCEPT !.at = "load"] OBVIOUS
  <2>2. r \in Chat /\ r.at = "load" /\ r.limit = chat[c].limit BY <2>0, <2>1, MovedChat
  <2>3. Step(c, r) /\ used' = used + 1 /\ UNCHANGED <<policy, policies, granted>> /\ UNCHANGED_conversation
    BY <1>2, <2>1 DEF Reserve
  <2>4. used' \in Nat /\ used' <= granted
    BY <1>2, <2>3, ChatParts DEF Reservable, AssistantInv, LimitsGranted
  <2>5. chat'[c] = r /\ (\A d \in Chats \ {c} : chat'[d] = chat[d])
    BY <2>3 DEF Step, AssistantInv, AssistantTypeOK
  <2>6. LimitsGranted' /\ QuotaHeld' BY <2>2, <2>3, <2>4, <2>5 DEF AssistantInv, LimitsGranted, QuotaHeld
  <2>7. AssistantTypeOK' BY <2>2, <2>3, <2>4, ChatGoesOn DEF AssistantInv, AssistantTypeOK
  <2> QED BY <2>2, <2>3, <2>6, <2>7, ChatGoesOn DEF AssistantInv
<1> QED BY <1>1, <1>2

\* What awaits confirmation, if anything, is proposed by the last message.
LEMMA LastPendingKnown ==
  ASSUME AssistantInv
  PROVE  /\ LastPending \in Pending
         /\ LastPending # NoChange => /\ Len(log) \in 1 .. Len(log) /\ log[Len(log)] = LastPending
                                      /\ LastPending \in Changes /\ proposed[Len(log)] = LastPending
<1>1. log \in Seq(Pending) BY DEF AssistantInv, AssistantTypeOK
<1>2. CASE log = <<>> BY <1>2 DEF LastPending, Pending
<1>3. CASE log # <<>>
  <2>1. Len(log) \in 1 .. Len(log) /\ log[Len(log)] \in Pending /\ LastPending = log[Len(log)]
    BY <1>1, <1>3, EmptySeq, LenProperties DEF LastPending
  <2> QED BY <2>1 DEF AssistantInv, PendingUndecided, Pending
<1> QED BY <1>2, <1>3

\* A request that becomes one of those that decide; it does not apply anything yet.
LEMMA DeciderStep ==
  ASSUME AssistantInv, NEW c \in Chats, NEW r \in Chat, Step(c, r), UNCHANGED_conversation, UNCHANGED_quota,
         r.at \in {"recheck", "claim"}, r.limit = chat[c].limit, r.seen \in Changes,
         r.at = "claim" => r.last \in 1 .. Len(log) /\ r.read = r.seen /\ proposed[r.last] = r.seen
  PROVE  AssistantInv'
<1>1. chat'[c] = r /\ (\A d \in Chats \ {c} : chat'[d] = chat[d]) /\ chat' \in [Chats -> Chat]
  BY DEF Step, AssistantInv, AssistantTypeOK
<1>2. UNCHANGED <<log, proposed, applied, cancelled>> BY DEF UNCHANGED_conversation
<1>3. DecidersKnown' BY <1>1, <1>2 DEF AssistantInv, DecidersKnown
<1>4. PendingUndecided' /\ DecisionsKnown' BY <1>2 DEF AssistantInv, PendingUndecided, DecisionsKnown
<1>5. r.limit <= granted BY DEF AssistantInv, LimitsGranted
<1>6. LimitsGranted' /\ QuotaHeld' BY <1>5, QuotaKept
<1>7. AssistantTypeOK' BY <1>1, <1>2, <1>5, QuotaKept DEF AssistantInv, AssistantTypeOK
<1> QED BY <1>3, <1>4, <1>6, <1>7 DEF AssistantInv

LEMMA LoadConversationAs == ASSUME AssistantInv, NEW c \in Chats, LoadConversation(c) PROVE AssistantInv'
<1>0. UNCHANGED_quota /\ UNCHANGED_conversation BY DEF LoadConversation
<1>1. CASE LastPending # NoChange /\ Step(c, [chat[c] EXCEPT !.at = "recheck", !.seen = LastPending])
  <2>0. chat[c] \in Chat /\ LastPending \in Pending /\ "recheck" \in Steps BY ChatParts, LastPendingKnown DEF Steps
  <2>1. PICK r : r = [chat[c] EXCEPT !.at = "recheck", !.seen = LastPending] OBVIOUS
  <2>2. r \in Chat /\ r.at = "recheck" /\ r.limit = chat[c].limit /\ r.seen = LastPending
    BY <2>0, <2>1 DEF Chat
  <2>3. Step(c, r) BY <1>1, <2>1
  <2> QED BY <1>0, <1>1, <2>2, <2>3, LastPendingKnown, DeciderStep
<1>2. CASE EndChat(c) BY <1>0, <1>2, EndsAs
<1>3. CASE \E at \in {"model", "persist"} : Step(c, [chat[c] EXCEPT !.at = at])
  BY <1>0, <1>3, MovesAs
<1> QED BY <1>1, <1>2, <1>3 DEF LoadConversation

LEMMA RecheckAs == ASSUME AssistantInv, NEW c \in Chats, Recheck(c) PROVE AssistantInv'
<1>0. UNCHANGED_quota /\ UNCHANGED_conversation BY DEF Recheck
<1>1. CASE ~StillProposed(c) BY <1>0, <1>1, EndsAs DEF Recheck
<1>2. CASE StillProposed(c)
  <2>0. chat[c] \in Chat /\ LastPending \in Pending /\ Len(log) \in MessageIds
    BY ChatParts, LastPendingKnown DEF AssistantInv, AssistantTypeOK, MessageIds
  <2>1. PICK r : r = [chat[c] EXCEPT !.at = "claim", !.last = Len(log), !.read = LastPending] OBVIOUS
  <2>2. /\ r \in Chat /\ r.at = "claim" /\ r.limit = chat[c].limit /\ r.seen = chat[c].seen
        /\ r.last = Len(log) /\ r.read = LastPending
    BY <2>0, <2>1 DEF Chat, Steps
  <2>3. Step(c, r) BY <1>2, <2>1 DEF Recheck
  <2>4. LastPending # NoChange /\ chat[c].seen = LastPending BY <1>2 DEF StillProposed
  <2>5. r.seen \in Changes /\ r.last \in 1 .. Len(log) /\ r.read = r.seen /\ proposed[r.last] = r.seen
    BY <2>2, <2>4, LastPendingKnown
  <2> QED BY <1>0, <2>2, <2>3, <2>5, DeciderStep
<1> QED BY <1>1, <1>2

LEMMA TurnAs == ASSUME AssistantInv, NEW c \in Chats, Turn(c) \/ TurnsEnd(c) PROVE AssistantInv'
<1>0. UNCHANGED_quota /\ UNCHANGED_conversation /\ chat[c].at = "model" BY DEF Turn, TurnsEnd
<1>a. "persist" \in Steps /\ "model" \in Steps BY DEF Steps
<1>1. CASE Step(c, [chat[c] EXCEPT !.at = "persist"]) BY <1>0, <1>1, MovesAs
<1>2. CASE chat[c].rounds < MaxRounds /\ Step(c, [chat[c] EXCEPT !.rounds = @ + 1])
  <2>1. PICK n : n = chat[c].rounds + 1 OBVIOUS
  <2>2. n \in 0 .. MaxRounds BY <1>2, <2>1, ChatParts, AssistantAssumption
  <2>3. PICK r : r = [chat[c] EXCEPT !.rounds = n] OBVIOUS
  <2>4. r \in Chat /\ r.at = "model" /\ r.limit = chat[c].limit BY <1>0, <1>a, <2>2, <2>3, MovedChat
  <2>5. Step(c, r) BY <1>2, <2>1, <2>3
  <2>6. r.limit <= granted BY <2>4 DEF AssistantInv, LimitsGranted
  <2> QED BY <1>0, <2>4, <2>5, <2>6, QuietStep
<1>3. ASSUME NEW d \in Changes, Step(c, [chat[c] EXCEPT !.at = "persist", !.reply = d]) PROVE AssistantInv'
  <2>1. PICK r : r = [chat[c] EXCEPT !.at = "persist", !.reply = d] OBVIOUS
  <2>2. d \in Pending BY DEF Pending
  <2>3. r \in Chat /\ r.at = "persist" /\ r.limit = chat[c].limit
    <3>1. chat[c] \in Chat BY ChatParts
    <3> QED BY <1>a, <2>1, <2>2, <3>1 DEF Chat
  <2>4. Step(c, r) BY <1>3, <2>1
  <2>5. r.limit <= granted BY <2>3 DEF AssistantInv, LimitsGranted
  <2> QED BY <1>0, <2>3, <2>4, <2>5, QuietStep
<1>4. CASE EndChat(c) BY <1>0, <1>4, EndsAs
<1> QED BY <1>1, <1>2, <1>3, <1>4 DEF Turn, TurnsEnd

LEMMA ChatCrashAs == ASSUME AssistantInv, NEW c \in Chats, ChatCrash(c) PROVE AssistantInv'
  BY EndsAs DEF ChatCrash

LEMMA MessagesBounded ==
  ASSUME AssistantInv
  PROVE  Len(log) \in Nat /\ \A k \in 1 .. Len(log) : k \in 1 .. MaxMessages
  BY AssistantAssumption DEF AssistantInv, AssistantTypeOK

\* The conditional update: the message is cleared for one request, which applies or
\* drops a change that nobody decided before.
LEMMA ClaimChangeAs == ASSUME AssistantInv, NEW c \in Chats, ClaimChange(c) PROVE AssistantInv'
<1>1. CASE ~ClaimableChange(c)
  BY <1>1, EndsAs DEF ClaimChange, UNCHANGED_conversation
<1>2. CASE ClaimableChange(c)
  <2>1. PICK m : m = chat[c].last OBVIOUS
  <2>2. /\ m \in 1 .. Len(log) /\ chat[c].seen \in Changes /\ chat[c].read = chat[c].seen
        /\ proposed[m] = chat[c].seen /\ log[m] = chat[c].read /\ m \in 1 .. MaxMessages /\ Len(log) \in Nat
    <3>1. /\ m \in 1 .. Len(log) /\ chat[c].seen \in Changes /\ chat[c].read = chat[c].seen
          /\ proposed[m] = chat[c].seen /\ log[m] = chat[c].read
      BY <1>2, <2>1 DEF ClaimChange, ClaimableChange, AssistantInv, DecidersKnown
    <3> QED BY <3>1, MessagesBounded
  <2>3. log[m] # NoChange BY <2>2, AssistantAssumption
  <2>4. applied[m] = <<>> /\ m \notin cancelled BY <2>2, <2>3 DEF AssistantInv, PendingUndecided
  <2>5. \A d \in Chats : chat[d].at = "execute" => chat[d].last # m
    BY <2>3 DEF AssistantInv, DecidersKnown
  <2>6. log' = [log EXCEPT ![m] = NoChange] /\ UNCHANGED <<proposed, applied>> /\ UNCHANGED_quota
    BY <1>2, <2>1 DEF ClaimChange
  <2>7. /\ log' \in Seq(Pending) /\ Len(log') = Len(log) /\ log'[m] = NoChange
        /\ \A k \in 1 .. Len(log) : k # m => log'[k] = log[k]
    BY <2>2, <2>6, ExceptSeq DEF AssistantInv, AssistantTypeOK, Pending
  <2>8. PICK r : r = [chat[c] EXCEPT !.at = IF chat[c].says = "cancel" THEN "persist" ELSE "execute"] OBVIOUS
  <2>9. chat[c] \in Chat BY ChatParts
  <2>10. /\ r \in Chat /\ r.last = m /\ r.read = chat[c].read /\ r.seen = chat[c].seen /\ r.limit = chat[c].limit
         /\ r.at = IF chat[c].says = "cancel" THEN "persist" ELSE "execute"
    BY <2>1, <2>8, <2>9 DEF Chat, Steps
  <2>11. Step(c, r) /\ cancelled' = IF chat[c].says = "cancel" THEN cancelled \cup {m} ELSE cancelled
    BY <1>2, <2>1, <2>8 DEF ClaimChange
  <2>12. chat'[c] = r /\ (\A d \in Chats \ {c} : chat'[d] = chat[d]) /\ chat' \in [Chats -> Chat]
    BY <2>10, <2>11 DEF Step, AssistantInv, AssistantTypeOK
  <2>13. PendingUndecided'
    <3> SUFFICES ASSUME NEW k \in 1 .. Len(log'), log'[k] # NoChange
                 PROVE  log'[k] = proposed'[k] /\ applied'[k] = <<>> /\ k \notin cancelled'
      BY DEF PendingUndecided
    <3>1. k # m /\ k \in 1 .. Len(log) /\ log'[k] = log[k] BY <2>7
    <3> QED BY <2>6, <2>11, <3>1 DEF AssistantInv, PendingUndecided
  <2>14. DecisionsKnown'
    BY <2>2, <2>4, <2>6, <2>7, <2>11 DEF AssistantInv, DecisionsKnown
  <2>15. DecidersKnown'
    <3>1. ASSUME NEW d \in Chats
          PROVE  /\ chat'[d].at = "recheck" => chat'[d].seen \in Changes
                 /\ chat'[d].at \in {"claim", "execute"} =>
                      /\ chat'[d].last \in 1 .. Len(log') /\ chat'[d].read = chat'[d].seen
                      /\ chat'[d].seen \in Changes /\ proposed'[chat'[d].last] = chat'[d].seen
      <4>1. CASE d = c BY <2>2, <2>6, <2>7, <2>10, <2>12, <4>1
      <4>2. CASE d # c
        <5>1. chat'[d] = chat[d] BY <2>12, <4>2
        <5> QED BY <2>6, <2>7, <5>1 DEF AssistantInv, DecidersKnown
      <4> QED BY <4>1, <4>2
    <3>2. ASSUME NEW d \in Chats, chat'[d].at = "execute"
          PROVE  /\ log'[chat'[d].last] = NoChange
                 /\ applied'[chat'[d].last] = <<>> /\ chat'[d].last \notin cancelled'
                 /\ \A e \in Chats \ {d} : chat'[e].at = "execute" => chat'[e].last # chat'[d].last
      <4>1. CASE d = c
        <5>1. chat'[d].last = m /\ chat[c].says # "cancel" BY <2>10, <2>12, <3>2, <4>1
        <5>2. \A e \in Chats \ {d} : chat'[e] = chat[e] BY <2>12, <4>1
        <5> QED BY <2>4, <2>5, <2>6, <2>7, <2>11, <5>1, <5>2
      <4>2. CASE d # c
        <5>1. chat'[d] = chat[d] /\ chat[d].at = "execute" BY <2>12, <3>2, <4>2
        <5>2. chat[d].last # m /\ chat[d].last \in 1 .. Len(log) BY <2>5, <5>1 DEF AssistantInv, DecidersKnown
        <5>3. log'[chat[d].last] = NoChange /\ applied'[chat[d].last] = <<>> /\ chat[d].last \notin cancelled'
          BY <2>6, <2>7, <2>11, <5>1, <5>2 DEF AssistantInv, DecidersKnown
        <5>4. ASSUME NEW e \in Chats \ {d}, chat'[e].at = "execute" PROVE chat'[e].last # chat[d].last
          <6>1. CASE e = c BY <2>10, <2>12, <5>2, <6>1
          <6>2. CASE e # c BY <2>12, <5>1, <5>4, <6>2 DEF AssistantInv, DecidersKnown
          <6> QED BY <6>1, <6>2
        <5> QED BY <5>1, <5>3, <5>4
      <4> QED BY <4>1, <4>2
    <3> QED BY <3>1, <3>2 DEF DecidersKnown
  <2>16. r.limit <= granted BY <2>10 DEF AssistantInv, LimitsGranted
  <2>17. cancelled' \subseteq 1 .. MaxMessages BY <2>2, <2>11 DEF AssistantInv, AssistantTypeOK
  <2>18. AssistantTypeOK'
    BY <2>6, <2>7, <2>10, <2>11, <2>12, <2>16, <2>17, QuotaKept DEF AssistantInv, AssistantTypeOK
  <2> QED BY <2>6, <2>10, <2>11, <2>13, <2>14, <2>15, <2>16, <2>18, QuotaKept DEF AssistantInv
<1> QED BY <1>1, <1>2

\* The change of a cleared message is made, once, by the request that cleared it.
LEMMA ExecuteChangeAs == ASSUME AssistantInv, NEW c \in Chats, ExecuteChange(c) PROVE AssistantInv'
<1>0. Step(c, [chat[c] EXCEPT !.at = "persist"]) /\ UNCHANGED_quota /\ UNCHANGED <<log, proposed, cancelled>>
  BY DEF ExecuteChange
<1>1. CASE UNCHANGED applied BY <1>0, <1>1, MovesAs DEF UNCHANGED_conversation
<1>2. CASE applied' = [applied EXCEPT ![chat[c].last] = Append(@, chat[c].seen)]
  <2>1. PICK m : m = chat[c].last OBVIOUS
  <2>2. /\ m \in 1 .. Len(log) /\ m \in 1 .. MaxMessages /\ Len(log) \in Nat /\ chat[c].seen \in Changes
        /\ proposed[m] = chat[c].seen /\ log[m] = NoChange /\ applied[m] = <<>> /\ m \notin cancelled
        /\ \A d \in Chats \ {c} : chat[d].at = "execute" => chat[d].last # m
    <3>1. /\ m \in 1 .. Len(log) /\ chat[c].seen \in Changes
          /\ proposed[m] = chat[c].seen /\ log[m] = NoChange /\ applied[m] = <<>> /\ m \notin cancelled
          /\ \A d \in Chats \ {c} : chat[d].at = "execute" => chat[d].last # m
      BY <2>1 DEF ExecuteChange, AssistantInv, DecidersKnown
    <3> QED BY <3>1, MessagesBounded
  <2>3. Append(<<>>, chat[c].seen) = <<proposed[m]>> /\ <<proposed[m]>> \in Seq(Changes)
    BY <2>2
  <2>4. applied' = [applied EXCEPT ![m] = <<proposed[m]>>] BY <1>2, <2>1, <2>2, <2>3 DEF AssistantInv, AssistantTypeOK
  <2>5. /\ applied' \in [1 .. MaxMessages -> Seq(Changes)] /\ applied'[m] = <<proposed[m]>>
        /\ \A k \in 1 .. MaxMessages : k # m => applied'[k] = applied[k]
    BY <2>2, <2>3, <2>4 DEF AssistantInv, AssistantTypeOK
  <2>6. PICK r : r = [chat[c] EXCEPT !.at = "persist"] OBVIOUS
  <2>7. r \in Chat /\ r.at = "persist" /\ r.limit = chat[c].limit /\ Step(c, r)
    <3>1. chat[c] \in Chat BY ChatParts
    <3> QED BY <1>0, <2>6, <3>1 DEF Chat, Steps
  <2>8. chat'[c] = r /\ (\A d \in Chats \ {c} : chat'[d] = chat[d]) /\ chat' \in [Chats -> Chat]
    BY <2>7 DEF Step, AssistantInv, AssistantTypeOK
  <2>9. PendingUndecided'
    <3>1. \A k \in 1 .. Len(log) : k \in 1 .. MaxMessages BY MessagesBounded
    <3> QED BY <1>0, <2>2, <2>5, <3>1 DEF AssistantInv, PendingUndecided
  <2>10. DecisionsKnown' BY <1>0, <2>2, <2>5 DEF AssistantInv, DecisionsKnown
  <2>11. DecidersKnown'
    <3> SUFFICES ASSUME NEW d \in Chats
                 PROVE  /\ chat'[d].at = "recheck" => chat'[d].seen \in Changes
                        /\ chat'[d].at \in {"claim", "execute"} =>
                             /\ chat'[d].last \in 1 .. Len(log) /\ chat'[d].read = chat'[d].seen
                             /\ chat'[d].seen \in Changes /\ proposed[chat'[d].last] = chat'[d].seen
                        /\ chat'[d].at = "execute" =>
                             /\ log[chat'[d].last] = NoChange
                             /\ applied'[chat'[d].last] = <<>> /\ chat'[d].last \notin cancelled
                             /\ \A e \in Chats \ {d} : chat'[e].at = "execute" => chat'[e].last # chat'[d].last
      BY <1>0 DEF DecidersKnown
    <3>1. CASE d = c BY <2>7, <2>8, <3>1
    <3>2. CASE d # c
      <4>1. chat'[d] = chat[d] BY <2>8, <3>2
      <4>2. chat[d].at = "execute" => applied'[chat[d].last] = <<>>
        <5>1. ASSUME chat[d].at = "execute" PROVE chat[d].last \in 1 .. MaxMessages /\ chat[d].last # m
          <6>1. chat[d].last \in 1 .. Len(log) BY <5>1 DEF AssistantInv, DecidersKnown
          <6> QED BY <2>2, <3>2, <5>1, <6>1, MessagesBounded
        <5> QED BY <2>5, <5>1 DEF AssistantInv, DecidersKnown
      <4>3. \A e \in Chats \ {d} : chat'[e].at = "execute" => chat'[e] = chat[e]
        BY <2>7, <2>8
      <4> QED BY <4>1, <4>2, <4>3 DEF AssistantInv, DecidersKnown
    <3> QED BY <3>1, <3>2
  <2>12. r.limit <= granted BY <2>7 DEF AssistantInv, LimitsGranted
  <2>13. AssistantTypeOK'
    BY <1>0, <2>5, <2>7, <2>8, <2>12, QuotaKept DEF AssistantInv, AssistantTypeOK
  <2> QED BY <1>0, <2>7, <2>9, <2>10, <2>11, <2>12, <2>13, QuotaKept DEF AssistantInv
<1> QED BY <1>1, <1>2 DEF ExecuteChange

\* A new message: nothing was decided about it, and nobody is about to.
LEMMA PersistAs == ASSUME AssistantInv, NEW c \in Chats, PersistConversation(c) PROVE AssistantInv'
<1>1. PICK x \in Pending : x = chat[c].reply BY ChatParts
<1>2. /\ log \in Seq(Pending) /\ proposed \in Seq(Pending) /\ Len(proposed) = Len(log) /\ Len(log) \in Nat
      /\ Len(log) < MaxMessages
  BY DEF AssistantInv, AssistantTypeOK, PersistConversation
<1>3. /\ log' = Append(log, x) /\ proposed' = Append(proposed, x) /\ EndChat(c) /\ UNCHANGED_quota
      /\ UNCHANGED <<applied, cancelled>>
  BY <1>1 DEF PersistConversation
<1>4. /\ log' \in Seq(Pending) /\ Len(log') = Len(log) + 1 /\ log'[Len(log) + 1] = x
      /\ \A k \in 1 .. Len(log) : log'[k] = log[k]
  BY <1>2, <1>3, AppendProperties
<1>5. /\ proposed' \in Seq(Pending) /\ Len(proposed') = Len(log) + 1 /\ proposed'[Len(log) + 1] = x
      /\ \A k \in 1 .. Len(log) : proposed'[k] = proposed[k]
  BY <1>2, <1>3, AppendProperties
<1>6. Step(c, NoChat) /\ NoChat.limit <= granted BY <1>3, NoChatType, ChatParts DEF EndChat
<1>7. chat'[c] = NoChat /\ (\A d \in Chats \ {c} : chat'[d] = chat[d]) /\ chat' \in [Chats -> Chat]
  BY <1>6, NoChatType DEF Step, AssistantInv, AssistantTypeOK
<1>8. PendingUndecided'
  <2> SUFFICES ASSUME NEW k \in 1 .. Len(log) + 1, log'[k] # NoChange
               PROVE  log'[k] = proposed'[k] /\ applied[k] = <<>> /\ k \notin cancelled
    BY <1>3, <1>4 DEF PendingUndecided
  <2>1. CASE k = Len(log) + 1
    <3>1. k \in 1 .. MaxMessages /\ k > Len(log) BY <1>2, <2>1, AssistantAssumption
    <3> QED BY <1>4, <1>5, <2>1, <3>1 DEF AssistantInv, DecisionsKnown
  <2>2. CASE k # Len(log) + 1
    <3>1. k \in 1 .. Len(log) BY <1>2, <2>2
    <3> QED BY <1>4, <1>5, <3>1 DEF AssistantInv, PendingUndecided
  <2> QED BY <2>1, <2>2
<1>9. DecisionsKnown'
  <2> SUFFICES ASSUME NEW m \in 1 .. MaxMessages
               PROVE  /\ m > Len(log) + 1 => applied[m] = <<>> /\ m \notin cancelled
                      /\ m \in cancelled => applied[m] = <<>>
                      /\ applied[m] = <<>> \/ (m <= Len(log) + 1 /\ applied[m] = <<proposed'[m]>>)
    BY <1>3, <1>4 DEF DecisionsKnown
  <2>1. m > Len(log) => applied[m] = <<>> /\ m \notin cancelled BY DEF AssistantInv, DecisionsKnown
  <2>2. CASE m <= Len(log)
    <3>1. proposed'[m] = proposed[m] BY <1>2, <1>5, <2>2
    <3> QED BY <1>2, <2>2, <3>1 DEF AssistantInv, DecisionsKnown
  <2>3. CASE m > Len(log) BY <2>1, <2>3
  <2> QED BY <1>2, <2>2, <2>3
<1>10. DecidersKnown'
  <2> SUFFICES ASSUME NEW d \in Chats
               PROVE  /\ chat'[d].at = "recheck" => chat'[d].seen \in Changes
                      /\ chat'[d].at \in {"claim", "execute"} =>
                           /\ chat'[d].last \in 1 .. Len(log') /\ chat'[d].read = chat'[d].seen
                           /\ chat'[d].seen \in Changes /\ proposed'[chat'[d].last] = chat'[d].seen
                      /\ chat'[d].at = "execute" =>
                           /\ log'[chat'[d].last] = NoChange
                           /\ applied[chat'[d].last] = <<>> /\ chat'[d].last \notin cancelled
                           /\ \A e \in Chats \ {d} : chat'[e].at = "execute" => chat'[e].last # chat'[d].last
    BY <1>3 DEF DecidersKnown
  <2>1. CASE d = c BY <1>7, <2>1, NoChatType
  <2>2. CASE d # c
    <3>1. chat'[d] = chat[d] BY <1>7, <2>2
    <3>2. \A e \in Chats : chat'[e].at = "execute" => chat'[e] = chat[e] BY <1>7, NoChatType
    <3>3. chat[d].at \in {"claim", "execute"} =>
            /\ chat[d].last \in 1 .. Len(log) /\ chat[d].last \in 1 .. Len(log')
            /\ log'[chat[d].last] = log[chat[d].last] /\ proposed'[chat[d].last] = proposed[chat[d].last]
      BY <1>2, <1>4, <1>5 DEF AssistantInv, DecidersKnown
    <3> QED BY <3>1, <3>2, <3>3 DEF AssistantInv, DecidersKnown
  <2> QED BY <2>1, <2>2
<1>11. AssistantTypeOK'
  <2>1. Len(log') <= MaxMessages BY <1>2, <1>4, AssistantAssumption
  <2> QED BY <1>3, <1>4, <1>5, <1>6, <1>7, <2>1, NoChatType, QuotaKept DEF AssistantInv, AssistantTypeOK
<1> QED BY <1>3, <1>6, <1>8, <1>9, <1>10, <1>11, NoChatType, QuotaKept DEF AssistantInv

LEMMA AssistantPreserves == ASSUME AssistantInv, [AssistantNext]_assistantVars PROVE AssistantInv'
<1>1. CASE UNCHANGED assistantVars
  BY <1>1 DEF assistantVars, AssistantInv, AssistantTypeOK, DecidersKnown, PendingUndecided, DecisionsKnown,
     LimitsGranted, QuotaHeld
<1>2. CASE AssistantNext
  BY <1>2, SetPolicyAs, SendAs, ReserveAs, LoadConversationAs, RecheckAs, ClaimChangeAs, ExecuteChangeAs, TurnAs,
     PersistAs, ChatCrashAs DEF AssistantNext
<1> QED BY <1>1, <1>2

\* However many requests of a conversation overlap, confirm and cancel: a proposed
\* change is applied or cancelled once, only as it was proposed, and the month's
\* requests stay within the highest limit granted, for any number of messages,
\* limits and turns of the model (POST /ai/chat).
THEOREM AssistantHolds == AssistantSpec => []AssistantSafe
<1>1. AssistantInv /\ [AssistantNext]_assistantVars => AssistantInv' BY AssistantPreserves
<1> QED BY AssistantStarts, <1>1, AssistantInvImplies, PTL DEF AssistantSpec

=============================================================================
