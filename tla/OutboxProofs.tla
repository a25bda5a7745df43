---------------------------- MODULE OutboxProofs ----------------------------
(***************************************************************************)
(* Proofs about Outbox: its type invariant, DeadIsExhausted, QueuedOnce and *)
(* that it implements OutboxContract, for any number of rows, publishers,   *)
(* administrators and attempts.                                             *)
(*                                                                         *)
(* DeadIsExhausted is not inductive: a release decides on event.attempts as *)
(* the claim returned it, so the proof has to know that a batch whose token *)
(* is still on a row has seen the row's last attempt.                       *)
(***************************************************************************)
EXTENDS Outbox, TLAPS

\* A row that carries the token of a batch was claimed by that batch last.
TokenKnowsAttempts == \A w \in Workers, e \in Events :
  row[e].token = w => tries[w][e] = row[e].attempts

\* No row carries the token of a batch that does not run.
IdleHasNoToken == \A w \in Workers, e \in Events :
  pc[w] = "idle" => row[e].token # w

\* A row that is settled is not claimed.
SettledIsFree == \A e \in Events :
  /\ row[e].dead => row[e].token = None /\ ~row[e].published
  /\ row[e].published => row[e].token = None

\* A dead letter has used up its attempts.
DeadHasAttempts == \A e \in Events : row[e].dead => row[e].attempts = MaxAttempts

IInv ==
  /\ TypeOK
  /\ TokenKnowsAttempts
  /\ IdleHasNoToken
  /\ SettledIsFree
  /\ DeadHasAttempts

-----------------------------------------------------------------------------
(* What the updates of a row return *)

LEMMA NoRowType == NoRow \in Row
  BY OutboxAssumption DEF NoRow, Row, Tokens

LEMMA AttemptsType == \A r \in Row : r.attempts \in 0 .. MaxAttempts /\ r.attempts \in Int
  BY OutboxAssumption DEF Row

LEMMA ClaimedRow ==
  ASSUME NEW r \in Row, NEW w \in Workers, r.attempts < MaxAttempts
  PROVE  /\ Claimed(r, w) \in Row
         /\ Claimed(r, w).token = w /\ Claimed(r, w).attempts = r.attempts + 1
         /\ Claimed(r, w).dead = r.dead /\ Claimed(r, w).published = r.published
<1>1. r.attempts + 1 \in 0 .. MaxAttempts
  BY OutboxAssumption, AttemptsType
<1>2. w \in Tokens BY DEF Tokens
<1> QED BY <1>1, <1>2 DEF Claimed, Row

LEMMA PublishedRow ==
  ASSUME NEW r \in Row
  PROVE  /\ Published(r) \in Row
         /\ Published(r).token = None /\ Published(r).attempts = r.attempts
         /\ Published(r).dead = r.dead /\ Published(r).published = TRUE
  BY DEF Published, Row, Tokens

LEMMA ReleasedRow ==
  ASSUME NEW r \in Row, NEW last \in BOOLEAN
  PROVE  /\ Released(r, last) \in Row
         /\ Released(r, last).token = None /\ Released(r, last).attempts = r.attempts
         /\ Released(r, last).dead = (r.dead \/ last) /\ Released(r, last).published = r.published
  BY DEF Released, Row, Tokens

LEMMA OrphanedRow ==
  ASSUME NEW r \in Row
  PROVE  /\ [r EXCEPT !.token = Gone] \in Row
         /\ [r EXCEPT !.token = Gone].token = Gone
         /\ [r EXCEPT !.token = Gone].attempts = r.attempts
         /\ [r EXCEPT !.token = Gone].dead = r.dead
         /\ [r EXCEPT !.token = Gone].published = r.published
  BY DEF Row, Tokens

LEMMA RequeuedRow ==
  ASSUME NEW r \in Row
  PROVE  /\ Requeued(r) \in Row
         /\ Requeued(r).token = None /\ Requeued(r).attempts = 0
         /\ ~Requeued(r).dead /\ Requeued(r).published = r.published
<1>1. 0 \in 0 .. MaxAttempts /\ None \in Tokens BY OutboxAssumption DEF Tokens
<1> QED BY <1>1 DEF Requeued, Row

\* The flags that the invariant does not speak of.
Alike(s, r) ==
  s.token = r.token /\ s.attempts = r.attempts /\ s.dead = r.dead /\ s.published = r.published
LEMMA FlaggedRow ==
  ASSUME NEW r \in Row
  PROVE  /\ [r EXCEPT !.exists = TRUE] \in Row /\ Alike([r EXCEPT !.exists = TRUE], r)
         /\ [r EXCEPT !.stale = TRUE] \in Row /\ Alike([r EXCEPT !.stale = TRUE], r)
         /\ [r EXCEPT !.due = TRUE] \in Row /\ Alike([r EXCEPT !.due = TRUE], r)
<1>1. [r EXCEPT !.exists = TRUE] \in Row /\ Alike([r EXCEPT !.exists = TRUE], r) BY DEF Row, Alike
<1>2. [r EXCEPT !.stale = TRUE] \in Row /\ Alike([r EXCEPT !.stale = TRUE], r) BY DEF Row, Alike
<1>3. [r EXCEPT !.due = TRUE] \in Row /\ Alike([r EXCEPT !.due = TRUE], r) BY DEF Row, Alike
<1> QED BY <1>1, <1>2, <1>3

-----------------------------------------------------------------------------
RowInv == TokenKnowsAttempts /\ IdleHasNoToken /\ SettledIsFree /\ DeadHasAttempts

\* The parts on rows hold again when every row kept what they speak of, lost its
\* token, or was given a token that belongs to no batch.
LEMMA RowStep ==
  ASSUME IInv, tries' = tries, \A v \in Workers : pc'[v] = "idle" => pc[v] = "idle",
         \A e \in Events :
           \/ /\ row'[e].token = row[e].token \/ row'[e].token \notin Workers
              /\ row'[e].attempts = row[e].attempts
              /\ row'[e].dead = row[e].dead /\ row'[e].published = row[e].published
              /\ row[e].dead \/ row[e].published => row'[e].token = row[e].token
           \/ /\ row'[e].token = None
              /\ row'[e].dead => row'[e].attempts = MaxAttempts /\ ~row'[e].published
  PROVE  RowInv'
<1>0. None \notin Workers BY OutboxAssumption
<1>1. TokenKnowsAttempts' BY <1>0 DEF IInv, TokenKnowsAttempts
<1>2. IdleHasNoToken' BY <1>0 DEF IInv, IdleHasNoToken
<1>3. SettledIsFree' BY DEF IInv, SettledIsFree
<1>4. DeadHasAttempts' BY DEF IInv, DeadHasAttempts
<1> QED BY <1>1, <1>2, <1>3, <1>4 DEF RowInv

\* The initial state has no rows and no batches.
LEMMA InitIInv == Init => IInv
<1> SUFFICES ASSUME Init PROVE IInv OBVIOUS
<1>1. TypeOK
  BY OutboxAssumption, NoRowType DEF Init, TypeOK
<1>2. TokenKnowsAttempts /\ IdleHasNoToken /\ SettledIsFree /\ DeadHasAttempts
  BY OutboxAssumption DEF Init, NoRow, TokenKnowsAttempts, IdleHasNoToken, SettledIsFree, DeadHasAttempts
<1> QED BY <1>1, <1>2 DEF IInv

-----------------------------------------------------------------------------
(* The actions *)

LEMMA ClaimIInv == ASSUME IInv, NEW w \in Workers, Claim(w) PROVE IInv'
<1>0. row \in [Events -> Row] /\ tries \in [Workers -> [Events -> 0 .. MaxAttempts]] /\ pc[w] = "idle"
  BY DEF IInv, TypeOK, Claim
<1>1. Picked \in SUBSET Events /\ \A e \in Picked : Claimable(e) BY DEF Picked
<1>2. \A e \in Events : row'[e] = IF e \in Picked THEN Claimed(row[e], w) ELSE row[e]
  BY DEF Claim, Claimed
<1>3. ASSUME NEW e \in Picked
      PROVE  /\ row'[e] \in Row /\ row'[e].token = w /\ row'[e].attempts = row[e].attempts + 1
             /\ ~row'[e].dead /\ ~row'[e].published /\ row[e].attempts + 1 \in 0 .. MaxAttempts
  <2>1. e \in Events /\ row[e] \in Row /\ row[e].attempts < MaxAttempts /\ ~row[e].dead /\ ~row[e].published
    BY <1>0, <1>1, <1>3 DEF Claimable
  <2>2. row'[e] = Claimed(row[e], w) BY <1>2, <1>3, <2>1
  <2> QED BY <2>1, <2>2, ClaimedRow, AttemptsType
<1>4. row' \in [Events -> Row]
  <2>1. \A e \in Events : row'[e] \in Row BY <1>0, <1>2, <1>3
  <2> QED BY <2>1 DEF Claim
<1>5. tries' = [tries EXCEPT ![w] = [e \in Events |-> IF e \in Picked THEN row[e].attempts + 1 ELSE 0]]
  BY DEF Claim
<1>6. tries' \in [Workers -> [Events -> 0 .. MaxAttempts]]
  <2>1. [e \in Events |-> IF e \in Picked THEN row[e].attempts + 1 ELSE 0] \in [Events -> 0 .. MaxAttempts]
    BY <1>3, OutboxAssumption
  <2> QED BY <1>0, <1>5, <2>1
<1>7. TypeOK' BY <1>1, <1>4, <1>6 DEF IInv, Claim, TypeOK, effects
<1>8. TokenKnowsAttempts'
  <2> SUFFICES ASSUME NEW v \in Workers, NEW e \in Events, row'[e].token = v
               PROVE tries'[v][e] = row'[e].attempts
    BY DEF TokenKnowsAttempts
  <2>1. CASE e \in Picked
    BY <1>0, <1>3, <1>5, <2>1
  <2>2. CASE e \notin Picked
    <3>1. row'[e] = row[e] /\ v # w BY <1>0, <1>2, <2>2 DEF IInv, IdleHasNoToken
    <3> QED BY <1>0, <1>5, <3>1 DEF IInv, TokenKnowsAttempts
  <2> QED BY <2>1, <2>2
<1>9. IdleHasNoToken'
  <2> SUFFICES ASSUME NEW v \in Workers, NEW e \in Events, pc'[v] = "idle"
               PROVE row'[e].token # v
    BY DEF IdleHasNoToken
  <2>1. v # w /\ pc[v] = "idle" BY DEF Claim, IInv, TypeOK
  <2>2. CASE e \in Picked BY <1>3, <2>1, <2>2
  <2>3. CASE e \notin Picked BY <1>2, <2>1, <2>3 DEF IInv, IdleHasNoToken
  <2> QED BY <2>2, <2>3
<1>10. SettledIsFree'
  BY <1>2, <1>3 DEF IInv, SettledIsFree
<1>11. DeadHasAttempts'
  BY <1>2, <1>3 DEF IInv, DeadHasAttempts
<1> QED BY <1>7, <1>8, <1>9, <1>10, <1>11 DEF IInv

\* The worker's bookkeeping keeps its type.
LEMMA GotoType ==
  ASSUME IInv, NEW w \in Workers, NEW e \in Events,
         NEW label \in {"dispatch", "mark", "release"}, Goto(w, e, label)
  PROVE  /\ pc' \in [Workers -> {"idle", "loop", "dispatch", "mark", "release"}]
         /\ batch' \in [Workers -> SUBSET Events] /\ cur' \in [Workers -> Events \cup {None}]
         /\ tries' = tries
         /\ \A v \in Workers : pc'[v] \in {"dispatch", "mark", "release"} => cur'[v] \in Events
         /\ \A v \in Workers : pc'[v] = "idle" => pc[v] = "idle"
  BY DEF IInv, TypeOK, Goto

LEMMA HandledType ==
  ASSUME IInv, NEW w \in Workers, Handled(w)
  PROVE  /\ pc' \in [Workers -> {"idle", "loop", "dispatch", "mark", "release"}]
         /\ batch' \in [Workers -> SUBSET Events] /\ cur' \in [Workers -> Events \cup {None}]
         /\ tries' = tries
         /\ \A v \in Workers : pc'[v] \in {"dispatch", "mark", "release"} => cur'[v] \in Events
         /\ \A v \in Workers : pc'[v] = "idle" => pc[v] = "idle"
  BY DEF IInv, TypeOK, Handled

WorkersOK ==
  /\ pc \in [Workers -> {"idle", "loop", "dispatch", "mark", "release"}]
  /\ batch \in [Workers -> SUBSET Events]
  /\ cur \in [Workers -> Events \cup {None}]
  /\ \A w \in Workers : pc[w] \in {"dispatch", "mark", "release"} => cur[w] \in Events
  /\ tries \in [Workers -> [Events -> 0 .. MaxAttempts]]

EffectsOK ==
  /\ inApp \in [Events -> 0 .. 1]
  /\ channel \in [Events -> Nat]
  /\ hook \in [Events -> 0 .. 1]
  /\ sse \in [Events -> BOOLEAN]

AdminsOK ==
  /\ seen \in [Admins -> Events \cup {None}]
  /\ replays \in 0 .. MaxReplays

LEMMA Parts == IInv <=> row \in [Events -> Row] /\ WorkersOK /\ EffectsOK /\ AdminsOK /\ RowInv
  BY DEF IInv, TypeOK, WorkersOK, EffectsOK, AdminsOK, RowInv

LEMMA PartsNext ==
  ASSUME row' \in [Events -> Row], WorkersOK', EffectsOK', AdminsOK', RowInv'
  PROVE  IInv'
  BY DEF IInv, TypeOK, WorkersOK, EffectsOK, AdminsOK, RowInv

\* An effect of a batch: rows and claims stay as they are.
LEMMA EffectIInv ==
  ASSUME IInv, NEW w \in Workers,
         \E e \in Events : Notify(w, e) \/ Publish(w, e) \/ Unsupported(w, e) \/ (Dispatch(w) /\ e = cur[w])
  PROVE  IInv'
<1>1. PICK e \in Events : Notify(w, e) \/ Publish(w, e) \/ Unsupported(w, e) \/ (Dispatch(w) /\ e = cur[w])
  OBVIOUS
<1>2. \E label \in {"dispatch", "mark", "release"} : Goto(w, e, label)
  BY <1>1 DEF Notify, Publish, Unsupported, Dispatch
<1>3. WorkersOK' /\ tries' = tries /\ \A v \in Workers : pc'[v] = "idle" => pc[v] = "idle"
  BY <1>2, GotoType, Parts DEF WorkersOK
<1>4. UNCHANGED <<row, seen, replays>>
  BY <1>1 DEF Notify, Publish, Unsupported, Dispatch
<1>5. EffectsOK'
  <2>0. EffectsOK BY Parts
  <2>1. CASE Notify(w, e)
    <3>1. UNCHANGED <<hook, sse>> BY <2>1 DEF Notify
    <3>2. inApp' \in [Events -> 0 .. 1] BY <2>0, <2>1 DEF Notify, EffectsOK
    <3>3. channel' \in [Events -> Nat] BY <2>0, <2>1 DEF Notify, EffectsOK
    <3> QED BY <2>0, <3>1, <3>2, <3>3 DEF EffectsOK
  <2>2. CASE Publish(w, e)
    BY <2>0, <2>2 DEF Publish, EffectsOK
  <2>3. CASE Unsupported(w, e)
    BY <2>0, <2>3 DEF Unsupported, EffectsOK, effects
  <2>4. CASE Dispatch(w) /\ e = cur[w]
    BY <2>0, <2>4 DEF Dispatch, EffectsOK
  <2> QED BY <1>1, <2>1, <2>2, <2>3, <2>4
<1>6. RowInv'
  BY <1>3, <1>4, RowStep
<1> QED BY <1>3, <1>4, <1>5, <1>6, Parts, PartsNext DEF AdminsOK

\* The conditional updates at the end of an event.
LEMMA SettleIInv ==
  ASSUME IInv, NEW w \in Workers, MarkPublished(w) \/ Release(w) PROVE IInv'
<1> DEFINE e == cur[w]
<1>0. WorkersOK /\ EffectsOK /\ AdminsOK /\ row \in [Events -> Row] BY Parts
<1>1. e \in Events /\ row[e] \in Row
  BY <1>0 DEF WorkersOK, MarkPublished, Release
<1>2. Handled(w) \/ Goto(w, e, "release")
  BY DEF MarkPublished, Release
<1>3. WorkersOK' /\ tries' = tries /\ \A v \in Workers : pc'[v] = "idle" => pc[v] = "idle"
  <2>1. CASE Handled(w) BY <1>0, <2>1, HandledType DEF WorkersOK
  <2>2. CASE Goto(w, e, "release") BY <1>0, <1>1, <2>2, GotoType DEF WorkersOK
  <2> QED BY <1>2, <2>1, <2>2
<1>4. UNCHANGED <<seen, replays, effects>> BY DEF MarkPublished, Release
<1> DEFINE last == Exhausted(w)
<1>5. last \in BOOLEAN BY DEF Exhausted
<1>6. \/ row' = row
      \/ Owns(w, e) /\ row' = [row EXCEPT ![e] = Published(@)]
      \/ Owns(w, e) /\ row' = [row EXCEPT ![e] = Released(@, last)]
  <2>1. CASE MarkPublished(w)
    <3>1. CASE Owns(w, e) BY <2>1, <3>1 DEF MarkPublished, Published
    <3>2. CASE ~Owns(w, e) BY <2>1, <3>2 DEF MarkPublished
    <3> QED BY <3>1, <3>2
  <2>2. CASE Release(w)
    <3>1. CASE Owns(w, e) BY <2>2, <3>1 DEF Release, Released
    <3>2. CASE ~Owns(w, e) BY <2>2, <3>2 DEF Release
    <3> QED BY <3>1, <3>2
  <2> QED BY <2>1, <2>2
<1>7. CASE row' = row
  <2>1. RowInv' BY <1>3, <1>7, RowStep
  <2> QED BY <1>0, <1>3, <1>4, <1>7, <2>1, PartsNext DEF AdminsOK, EffectsOK, effects
<1>8. CASE Owns(w, e) /\ row' = [row EXCEPT ![e] = Published(@)]
  <2>1. row' \in [Events -> Row] /\ row'[e] = Published(row[e]) /\ \A f \in Events \ {e} : row'[f] = row[f]
    BY <1>0, <1>1, <1>8, PublishedRow
  <2>2. ~row[e].dead BY <1>1, <1>8, OutboxAssumption DEF Owns, IInv, SettledIsFree
  <2>3. row'[e].token = None /\ ~row'[e].dead BY <1>1, <2>1, <2>2, PublishedRow
  <2>4. RowInv' BY <1>3, <2>1, <2>3, RowStep
  <2> QED BY <1>0, <1>3, <1>4, <2>1, <2>4, PartsNext DEF AdminsOK, EffectsOK, effects
<1>9. CASE Owns(w, e) /\ row' = [row EXCEPT ![e] = Released(@, last)]
  <2>1. row' \in [Events -> Row] /\ row'[e] = Released(row[e], last) /\ \A f \in Events \ {e} : row'[f] = row[f]
    BY <1>0, <1>1, <1>5, <1>9, ReleasedRow
  <2>2. ~row[e].dead /\ ~row[e].published /\ tries[w][e] = row[e].attempts
    BY <1>1, <1>9, OutboxAssumption DEF Owns, IInv, SettledIsFree, TokenKnowsAttempts
  <2>3. row'[e].token = None /\ row'[e].dead = last /\ ~row'[e].published /\ row'[e].attempts = row[e].attempts
    BY <1>1, <1>5, <2>1, <2>2, ReleasedRow
  <2>4. last => row[e].attempts = MaxAttempts
    BY <1>1, <2>2, AttemptsType, OutboxAssumption DEF Exhausted
  <2>5. RowInv' BY <1>3, <2>1, <2>3, <2>4, RowStep
  <2> QED BY <1>0, <1>3, <1>4, <2>1, <2>5, PartsNext DEF AdminsOK, EffectsOK, effects
<1> QED BY <1>6, <1>7, <1>8, <1>9

\* A batch ends or dies: its token is never used again.
LEMMA ResetIInv == ASSUME IInv, NEW w \in Workers, Reset(w) PROVE IInv'
<1>0. WorkersOK /\ EffectsOK /\ AdminsOK /\ row \in [Events -> Row] BY Parts
<1>1. WorkersOK' BY <1>0, OutboxAssumption DEF WorkersOK, Reset
<1>2. \A e \in Events : row'[e] = IF row[e].token = w THEN [row[e] EXCEPT !.token = Gone] ELSE row[e]
  BY DEF Reset, Orphaned
<1>3. row' \in [Events -> Row]
  <2>1. \A e \in Events : row'[e] \in Row BY <1>0, <1>2, OrphanedRow
  <2> QED BY <2>1 DEF Reset, Orphaned
<1>4. \A e \in Events : /\ row'[e].attempts = row[e].attempts
                        /\ row'[e].dead = row[e].dead /\ row'[e].published = row[e].published
                        /\ row'[e].token = IF row[e].token = w THEN Gone ELSE row[e].token
  <2> SUFFICES ASSUME NEW e \in Events
               PROVE  /\ row'[e].attempts = row[e].attempts
                      /\ row'[e].dead = row[e].dead /\ row'[e].published = row[e].published
                      /\ row'[e].token = IF row[e].token = w THEN Gone ELSE row[e].token
    OBVIOUS
  <2>1. row[e] \in Row BY <1>0
  <2>2. CASE row[e].token = w
    <3>1. row'[e] = [row[e] EXCEPT !.token = Gone] BY <1>2, <2>2
    <3> QED BY <2>1, <2>2, <3>1, OrphanedRow
  <2>3. CASE row[e].token # w BY <1>2, <2>3
  <2> QED BY <2>2, <2>3
<1>5. \A v \in Workers \ {w} : tries'[v] = tries[v] /\ pc'[v] = pc[v]
  BY <1>0 DEF Reset, WorkersOK
<1>6. TokenKnowsAttempts' /\ IdleHasNoToken'
  BY <1>4, <1>5, OutboxAssumption DEF IInv, TokenKnowsAttempts, IdleHasNoToken
<1>7. SettledIsFree'
  BY <1>4, OutboxAssumption DEF IInv, SettledIsFree
<1>8. DeadHasAttempts'
  BY <1>4 DEF IInv, DeadHasAttempts
<1> QED BY <1>0, <1>1, <1>3, <1>6, <1>7, <1>8, PartsNext DEF RowInv, Reset, effects, EffectsOK, AdminsOK

\* Emission and the passing of time change flags only.
LEMMA FlagIInv ==
  ASSUME IInv, NEW e \in Events, Emit(e) \/ ClaimAges(e) \/ BackoffElapses(e) PROVE IInv'
<1>0. WorkersOK /\ EffectsOK /\ AdminsOK /\ row \in [Events -> Row] BY Parts
<1>1. UNCHANGED <<workers, seen, replays, effects>> BY DEF Emit, ClaimAges, BackoffElapses
<1>2. \/ row' = [row EXCEPT ![e] = [@ EXCEPT !.exists = TRUE]]
      \/ row' = [row EXCEPT ![e] = [@ EXCEPT !.stale = TRUE]]
      \/ row' = [row EXCEPT ![e] = [@ EXCEPT !.due = TRUE]]
  BY DEF Emit, ClaimAges, BackoffElapses
<1>3. row' \in [Events -> Row] /\ \A f \in Events : Alike(row'[f], row[f])
  <2>0. row[e] \in Row BY <1>0
  <2>1. PICK s \in Row : Alike(s, row[e]) /\ row' = [row EXCEPT ![e] = s]
    <3>1. CASE row' = [row EXCEPT ![e] = [@ EXCEPT !.exists = TRUE]]
      BY <2>0, <3>1, FlaggedRow
    <3>2. CASE row' = [row EXCEPT ![e] = [@ EXCEPT !.stale = TRUE]]
      BY <2>0, <3>2, FlaggedRow
    <3>3. CASE row' = [row EXCEPT ![e] = [@ EXCEPT !.due = TRUE]]
      BY <2>0, <3>3, FlaggedRow
    <3> QED BY <1>2, <3>1, <3>2, <3>3
  <2>2. row' \in [Events -> Row] BY <1>0, <2>1
  <2>3. ASSUME NEW f \in Events PROVE Alike(row'[f], row[f])
    <3>1. CASE f = e BY <1>0, <2>1, <3>1
    <3>2. CASE f # e
      <4>1. row'[f] = row[f] BY <1>0, <2>1, <3>2
      <4> QED BY <4>1 DEF Alike
    <3> QED BY <3>1, <3>2
  <2> QED BY <2>2, <2>3
<1>4. RowInv'
  BY <1>1, <1>3, RowStep DEF workers, Alike
<1> QED BY <1>0, <1>1, <1>3, <1>4, PartsNext DEF workers, effects, WorkersOK, EffectsOK, AdminsOK

\* A replay reads a dead letter; later it requeues whatever has become of it.
LEMMA ReplayIInv ==
  ASSUME IInv, NEW a \in Admins, ReplayWrite(a) \/ \E e \in Events : ReplayRead(a, e) PROVE IInv'
<1>0. WorkersOK /\ EffectsOK /\ AdminsOK /\ row \in [Events -> Row] BY Parts
<1>1. CASE ReplayWrite(a)
  <2>1. seen[a] \in Events BY <1>0, <1>1 DEF AdminsOK, ReplayWrite
  <2>2. row' = [row EXCEPT ![seen[a]] = Requeued(@)] BY <1>1 DEF ReplayWrite
  <2>3. row' \in [Events -> Row] /\ row'[seen[a]] = Requeued(row[seen[a]])
        /\ \A f \in Events \ {seen[a]} : row'[f] = row[f]
    BY <1>0, <2>1, <2>2, RequeuedRow
  <2>4. row'[seen[a]].token = None /\ ~row'[seen[a]].dead
    BY <1>0, <2>1, <2>3, RequeuedRow
  <2>5. RowInv' BY <1>1, <2>3, <2>4, RowStep DEF ReplayWrite, workers
  <2>6. AdminsOK' BY <1>0, <1>1 DEF AdminsOK, ReplayWrite
  <2> QED BY <1>0, <1>1, <2>3, <2>5, <2>6, PartsNext DEF ReplayWrite, workers, effects, WorkersOK, EffectsOK
<1>2. ASSUME NEW e \in Events, ReplayRead(a, e) PROVE IInv'
  <2>1. AdminsOK' BY <1>0, <1>2, OutboxAssumption DEF AdminsOK, ReplayRead
  <2>2. RowInv' BY <1>2, RowStep DEF ReplayRead, workers
  <2> QED BY <1>0, <1>2, <2>1, <2>2, PartsNext DEF ReplayRead, workers, effects, WorkersOK, EffectsOK
<1> QED BY <1>1, <1>2

LEMMA NextIInv == IInv /\ [Next]_vars => IInv'
<1> SUFFICES ASSUME IInv, [Next]_vars PROVE IInv' OBVIOUS
<1>1. ASSUME NEW w \in Workers, Claim(w) \/ Work(w) \/ Crash(w) PROVE IInv'
  <2>1. CASE Claim(w) BY <2>1, ClaimIInv
  <2>2. ASSUME NEW e \in Events, Notify(w, e) \/ Publish(w, e) \/ Unsupported(w, e) PROVE IInv'
    BY <2>2, EffectIInv
  <2>3. CASE Dispatch(w)
    <3>1. cur[w] \in Events BY <2>3 DEF Dispatch, IInv, TypeOK
    <3> QED BY <2>3, <3>1, EffectIInv
  <2>4. CASE MarkPublished(w) \/ Release(w) BY <2>4, SettleIInv
  <2>5. CASE BatchEnd(w) \/ Crash(w) BY <2>5, ResetIInv DEF BatchEnd, Crash
  <2> QED BY <1>1, <2>1, <2>2, <2>3, <2>4, <2>5 DEF Work
<1>2. ASSUME NEW e \in Events, Emit(e) \/ ClaimAges(e) \/ BackoffElapses(e) PROVE IInv'
  BY <1>2, FlagIInv
<1>3. ASSUME NEW a \in Admins, ReplayWrite(a) \/ \E e \in Events : ReplayRead(a, e) PROVE IInv'
  BY <1>3, ReplayIInv
<1>4. CASE UNCHANGED vars
  <2>1. RowInv' BY <1>4, RowStep DEF vars, workers
  <2> QED BY <1>4, <2>1, Parts, PartsNext DEF vars, workers, effects, WorkersOK, EffectsOK, AdminsOK
<1> QED BY <1>1, <1>2, <1>3, <1>4 DEF Next

-----------------------------------------------------------------------------
\* The state of the outbox and of its publishers is always well formed: no row
\* is attempted more than MaxAttempts times between two replays, and one in-app
\* row and one webhook delivery are queued for it.
THEOREM OutboxTypeOK == Spec => []TypeOK
<1>1. Init => IInv BY InitIInv
<1>2. IInv /\ [Next]_vars => IInv' BY NextIInv
<1>3. IInv => TypeOK BY DEF IInv
<1> QED BY <1>1, <1>2, <1>3, PTL DEF Spec

\* A row becomes a dead letter only after its last attempt and never when it was
\* published, whatever the publishers and administrators of
\* publishOutboxBatch and of the replay endpoint do at the same time.
THEOREM OutboxDeadIsExhausted == Spec => []DeadIsExhausted
<1>1. Init => IInv BY InitIInv
<1>2. IInv /\ [Next]_vars => IInv' BY NextIInv
<1>3. IInv => DeadIsExhausted BY DEF IInv, DeadIsExhausted, DeadHasAttempts, SettledIsFree
<1> QED BY <1>1, <1>2, <1>3, PTL DEF Spec
-----------------------------------------------------------------------------
(* The outbox implements OutboxContract. Beyond IInv the proof has to know what *)
(* a batch has already done when it marks a row: the effects are queued by      *)
(* earlier steps of the same batch, and nothing takes them back.                *)

\* A batch works on rows it has claimed, and claimed rows exist.
WorksOnRows == \A w \in Workers :
  /\ pc[w] \in {"dispatch", "mark", "release"} => cur[w] \in batch[w]
  /\ \A e \in batch[w] : row[e].exists

\* What a batch has done before it dispatches, and before it marks.
EffectsFirst == \A w \in Workers :
  /\ pc[w] = "dispatch" => Kind[cur[w]] = "org" /\ sse[cur[w]]
  /\ pc[w] = "mark" /\ Kind[cur[w]] = "org" => sse[cur[w]] /\ hook[cur[w]] = 1

\* Channels with a deterministic event id are queued once.
ChannelOnce == \A e \in Events : e \notin LongKey => channel[e] \in 0 .. 1

\* Nothing has become of a row that was not committed.
NoOutcomeBefore == \A e \in Events : ~row[e].exists => ~row[e].published /\ ~row[e].dead

CInv == IInv /\ WorksOnRows /\ EffectsFirst /\ ChannelOnce /\ NoOutcomeBefore

\* A step of the outbox seen by the contract of one event.
CStep(e) == UNCHANGED <<Outcome(e), Made(e)>> \/ Contract(e)!Next

-----------------------------------------------------------------------------
(* What the contract sees of a row *)

SameRow(s, r) == s.exists = r.exists /\ s.published = r.published /\ s.dead = r.dead

LEMMA SameOutcome ==
  ASSUME NEW e \in Events, SameRow(row'[e], row[e]) PROVE Outcome(e)' = Outcome(e)
  BY DEF SameRow, Outcome

LEMMA SameMade ==
  ASSUME NEW e \in Events, inApp'[e] = inApp[e], channel'[e] = channel[e], hook'[e] = hook[e], sse'[e] = sse[e]
  PROVE  Made(e)' = Made(e)
  BY DEF Made

LEMMA Stutters ==
  ASSUME NEW e \in Events, SameRow(row'[e], row[e]), UNCHANGED effects PROVE CStep(e)
  BY SameOutcome, SameMade DEF CStep, effects

LEMMA ClaimedSame == \A r \in Row, w \in Workers : SameRow(Claimed(r, w), r)
  BY DEF Claimed, Row, SameRow

LEMMA PublishedExists == \A r \in Row : Published(r).exists = r.exists
  BY DEF Published, Row

LEMMA ReleasedExists == \A r \in Row : \A last \in BOOLEAN : Released(r, last).exists = r.exists
  BY DEF Released, Row

LEMMA RequeuedExists == \A r \in Row : Requeued(r).exists = r.exists /\ Requeued(r).published = r.published
  BY DEF Requeued, Row

-----------------------------------------------------------------------------
LEMMA InitCInv == Init => CInv
<1> SUFFICES ASSUME Init PROVE CInv OBVIOUS
<1>1. WorksOnRows /\ EffectsFirst /\ ChannelOnce /\ NoOutcomeBefore
  BY DEF Init, NoRow, WorksOnRows, EffectsFirst, ChannelOnce, NoOutcomeBefore
<1> QED BY <1>1, InitIInv DEF CInv

LEMMA InitContract == ASSUME Init, NEW e \in Events PROVE Contract(e)!Init
  BY DEF Init, NoRow, Contract!Init, Outcome, Made, EffectParts

LEMMA ClaimContract ==
  ASSUME CInv, NEW w \in Workers, Claim(w)
  PROVE  WorksOnRows' /\ EffectsFirst' /\ ChannelOnce' /\ NoOutcomeBefore' /\ \A e \in Events : CStep(e)
<1>1. row \in [Events -> Row] /\ Picked \in SUBSET Events BY DEF CInv, IInv, TypeOK, Picked
<1>2. \A e \in Events : row'[e] = IF e \in Picked THEN Claimed(row[e], w) ELSE row[e]
  BY DEF Claim, Claimed
<1>3. \A e \in Events : SameRow(row'[e], row[e])
  BY <1>1, <1>2, ClaimedSame DEF SameRow
<1>4. \A e \in Picked : row[e].exists BY DEF Picked, Claimable
<1>5. /\ \A v \in Workers \ {w} : batch'[v] = batch[v] /\ pc'[v] = pc[v]
      /\ pc'[w] = "loop" /\ batch'[w] = Picked /\ UNCHANGED <<cur, effects>>
      /\ batch \in [Workers -> SUBSET Events]
  BY DEF CInv, IInv, TypeOK, Claim
<1>6. WorksOnRows'
  BY <1>1, <1>3, <1>4, <1>5 DEF CInv, WorksOnRows, SameRow
<1>7. EffectsFirst' BY <1>5 DEF CInv, EffectsFirst, effects
<1>8. ChannelOnce' /\ NoOutcomeBefore' BY <1>3, <1>5 DEF CInv, ChannelOnce, NoOutcomeBefore, SameRow, effects
<1> QED BY <1>3, <1>5, <1>6, <1>7, <1>8, Stutters

\* One effect was queued that had not been, for a row that exists.
LEMMA MakeStep ==
  ASSUME NEW e \in Events, NEW x \in EffectParts, row' = row, row[e].exists,
         Made(e)[x] = 0, Made(e)' = [Made(e) EXCEPT ![x] = 1]
  PROVE  CStep(e)
<1>1. Outcome(e)' = Outcome(e) /\ Outcome(e) # "none" BY DEF Outcome
<1>2. Contract(e)!Make(x) BY <1>1 DEF Contract!Make
<1> QED BY <1>2 DEF CStep, Contract!Next

\* A batch moves on to another step of the row it handles; no row and no effect is
\* taken back.
LEMMA GotoParts ==
  ASSUME CInv, NEW w \in Workers, NEW e \in batch[w], NEW label \in {"dispatch", "mark", "release"},
         Goto(w, e, label), row' = row,
         \A f \in Events : sse[f] => sse'[f],
         \A f \in Events : hook[f] = 1 => hook'[f] = 1,
         label = "dispatch" => Kind[e] = "org" /\ sse'[e],
         label = "mark" /\ Kind[e] = "org" => sse'[e] /\ hook'[e] = 1
  PROVE  WorksOnRows' /\ EffectsFirst' /\ NoOutcomeBefore'
<1>1. /\ pc \in [Workers -> {"idle", "loop", "dispatch", "mark", "release"}]
      /\ cur \in [Workers -> Events \cup {None}] /\ batch \in [Workers -> SUBSET Events]
      /\ \A v \in Workers : pc[v] \in {"dispatch", "mark", "release"} => cur[v] \in Events
  BY DEF CInv, IInv, TypeOK
<1>2. /\ pc'[w] = label /\ cur'[w] = e /\ batch' = batch
      /\ \A v \in Workers \ {w} : pc'[v] = pc[v] /\ cur'[v] = cur[v]
  BY <1>1 DEF Goto
<1>3. WorksOnRows' BY <1>1, <1>2 DEF CInv, WorksOnRows
<1>4. EffectsFirst' BY <1>1, <1>2 DEF CInv, EffectsFirst
<1> QED BY <1>3, <1>4 DEF CInv, NoOutcomeBefore

LEMMA NotifyContract ==
  ASSUME CInv, NEW w \in Workers, NEW e \in Events, Notify(w, e)
  PROVE  WorksOnRows' /\ EffectsFirst' /\ ChannelOnce' /\ NoOutcomeBefore' /\ \A f \in Events : CStep(f)
<1>1. /\ e \in batch[w] /\ Kind[e] = "notification" /\ row' = row /\ UNCHANGED <<hook, sse>>
      /\ inApp \in [Events -> 0 .. 1] /\ channel \in [Events -> Nat]
  BY DEF Notify, CInv, IInv, TypeOK
<1>2. \E label \in {"mark", "release"} : Goto(w, e, label) BY DEF Notify
<1>3. WorksOnRows' /\ EffectsFirst' /\ NoOutcomeBefore' BY <1>1, <1>2, GotoParts
<1>4. CASE UNCHANGED <<inApp, channel>>
  BY <1>1, <1>3, <1>4, Stutters DEF CInv, ChannelOnce, SameRow, effects
<1>5. CASE /\ inApp' = [inApp EXCEPT ![e] = 1]
           /\ channel' = [channel EXCEPT ![e] = IF e \in LongKey THEN @ + 1 ELSE 1]
  <2>1. ChannelOnce' BY <1>1, <1>5 DEF CInv, ChannelOnce
  <2>2. ASSUME NEW f \in Events, f # e PROVE CStep(f)
    <3>1. inApp'[f] = inApp[f] /\ channel'[f] = channel[f] BY <1>1, <1>5, <2>2
    <3>2. Outcome(f)' = Outcome(f) BY <1>1, SameOutcome DEF SameRow
    <3>3. Made(f)' = Made(f) BY <1>1, <3>1, SameMade
    <3> QED BY <3>2, <3>3 DEF CStep
  <2>3. CStep(e)
    <3>1. row[e].exists BY <1>1 DEF CInv, WorksOnRows
    <3>2. Made(e).notice \in {0, 1} /\ Made(e)'.notice = 1
      <4>1. CASE e \in LongKey
        BY <1>1, <1>5, <4>1 DEF Made
      <4>2. CASE e \notin LongKey
        BY <1>1, <1>5, <4>2 DEF Made, CInv, ChannelOnce
      <4> QED BY <4>1, <4>2
    <3>3. Made(e)' = [Made(e) EXCEPT !.notice = 1]
      BY <1>1, <3>2 DEF Made
    <3>4. CASE Made(e).notice = 0
      BY <1>1, <3>1, <3>3, <3>4, MakeStep DEF EffectParts
    <3>5. CASE Made(e).notice = 1
      <4>1. Made(e)' = Made(e) BY <3>3, <3>5 DEF Made
      <4>2. Outcome(e)' = Outcome(e) BY <1>1, SameOutcome DEF SameRow
      <4> QED BY <4>1, <4>2 DEF CStep
    <3> QED BY <3>2, <3>4, <3>5
  <2> QED BY <1>3, <2>1, <2>2, <2>3
<1> QED BY <1>4, <1>5 DEF Notify

LEMMA PublishContract ==
  ASSUME CInv, NEW w \in Workers, NEW e \in Events, Publish(w, e)
  PROVE  WorksOnRows' /\ EffectsFirst' /\ ChannelOnce' /\ NoOutcomeBefore' /\ \A f \in Events : CStep(f)
<1>1. /\ e \in batch[w] /\ Kind[e] = "org" /\ row' = row /\ UNCHANGED <<inApp, channel, hook>>
      /\ sse \in [Events -> BOOLEAN]
  BY DEF Publish, CInv, IInv, TypeOK
<1>2. ChannelOnce' BY <1>1 DEF CInv, ChannelOnce
<1>3. CASE UNCHANGED sse /\ Goto(w, e, "release")
  <2>1. WorksOnRows' /\ EffectsFirst' /\ NoOutcomeBefore' BY <1>1, <1>3, GotoParts
  <2> QED BY <1>1, <1>2, <1>3, <2>1, Stutters DEF SameRow, effects
<1>4. CASE sse' = [sse EXCEPT ![e] = TRUE] /\ Goto(w, e, "dispatch")
  <2>1. sse'[e] /\ \A f \in Events \ {e} : sse'[f] = sse[f] BY <1>1, <1>4
  <2>2. WorksOnRows' /\ EffectsFirst' /\ NoOutcomeBefore' BY <1>1, <1>4, <2>1, GotoParts
  <2>3. ASSUME NEW f \in Events, SameRow(row'[f], row[f]), sse'[f] = sse[f] PROVE CStep(f)
    BY <1>1, <2>3, SameOutcome, SameMade DEF CStep
  <2>4. CStep(e)
    <3>1. CASE sse[e] BY <1>1, <2>1, <2>3, <3>1 DEF SameRow
    <3>2. CASE ~sse[e]
      <4>1. row[e].exists BY <1>1 DEF CInv, WorksOnRows
      <4>2. Made(e).announcement = 0 /\ Made(e)' = [Made(e) EXCEPT !.announcement = 1]
        BY <1>1, <2>1, <3>2 DEF Made
      <4> QED BY <1>1, <4>1, <4>2, MakeStep DEF EffectParts
    <3> QED BY <3>1, <3>2
  <2>5. ASSUME NEW f \in Events PROVE CStep(f)
    BY <1>1, <2>1, <2>3, <2>4 DEF SameRow
  <2> QED BY <1>2, <2>2, <2>5
<1> QED BY <1>3, <1>4 DEF Publish

LEMMA DispatchContract ==
  ASSUME CInv, NEW w \in Workers, Dispatch(w)
  PROVE  WorksOnRows' /\ EffectsFirst' /\ ChannelOnce' /\ NoOutcomeBefore' /\ \A f \in Events : CStep(f)
<1>0. PICK e \in Events : e = cur[w] BY DEF Dispatch, CInv, IInv, TypeOK
<1>1. /\ e \in Events /\ e \in batch[w] /\ Kind[e] = "org" /\ sse[e] /\ row' = row
      /\ UNCHANGED <<inApp, channel, sse>> /\ hook \in [Events -> 0 .. 1]
  BY <1>0 DEF Dispatch, CInv, IInv, TypeOK, WorksOnRows, EffectsFirst
<1>2. ChannelOnce' BY <1>1 DEF CInv, ChannelOnce
<1>3. CASE UNCHANGED hook /\ Goto(w, e, "release")
  <2>1. WorksOnRows' /\ EffectsFirst' /\ NoOutcomeBefore' BY <1>1, <1>3, GotoParts
  <2> QED BY <1>1, <1>2, <1>3, <2>1, Stutters DEF SameRow, effects
<1>4. CASE hook' = [hook EXCEPT ![e] = 1] /\ (Goto(w, e, "mark") \/ Goto(w, e, "release"))
  <2>1. hook'[e] = 1 /\ \A f \in Events \ {e} : hook'[f] = hook[f] BY <1>1, <1>4
  <2>2. WorksOnRows' /\ EffectsFirst' /\ NoOutcomeBefore' BY <1>1, <1>4, <2>1, GotoParts
  <2>3. ASSUME NEW f \in Events, SameRow(row'[f], row[f]), hook'[f] = hook[f] PROVE CStep(f)
    BY <1>1, <2>3, SameOutcome, SameMade DEF CStep
  <2>4. CStep(e)
    <3>1. CASE hook[e] = 1 BY <1>1, <2>1, <2>3, <3>1 DEF SameRow
    <3>2. CASE hook[e] # 1
      <4>1. row[e].exists BY <1>1 DEF CInv, WorksOnRows
      <4>2. Made(e).webhooks = 0 /\ Made(e)' = [Made(e) EXCEPT !.webhooks = 1]
        BY <1>1, <2>1, <3>2 DEF Made
      <4> QED BY <1>1, <4>1, <4>2, MakeStep DEF EffectParts
    <3> QED BY <3>1, <3>2
  <2>5. ASSUME NEW f \in Events PROVE CStep(f)
    BY <1>1, <2>1, <2>3, <2>4 DEF SameRow
  <2> QED BY <1>2, <2>2, <2>5
<1> QED BY <1>0, <1>3, <1>4 DEF Dispatch

\* An error before any effect.
LEMMA UnsupportedContract ==
  ASSUME CInv, NEW w \in Workers, NEW e \in Events, Unsupported(w, e)
  PROVE  WorksOnRows' /\ EffectsFirst' /\ ChannelOnce' /\ NoOutcomeBefore' /\ \A f \in Events : CStep(f)
<1>1. e \in batch[w] /\ Goto(w, e, "release") /\ row' = row /\ UNCHANGED effects BY DEF Unsupported
<1>2. WorksOnRows' /\ EffectsFirst' /\ NoOutcomeBefore' BY <1>1, GotoParts DEF effects
<1> QED BY <1>1, <1>2, Stutters DEF CInv, ChannelOnce, SameRow, effects

\* A batch is done with a row, or goes from the failed update to the catch block.
LEMMA SettleParts ==
  ASSUME CInv, NEW w \in Workers, Handled(w) \/ Goto(w, cur[w], "release"), pc[w] \in {"mark", "release"},
         UNCHANGED effects, \A e \in Events : row'[e].exists = row[e].exists
  PROVE  WorksOnRows' /\ EffectsFirst'
<1>1. /\ pc \in [Workers -> {"idle", "loop", "dispatch", "mark", "release"}]
      /\ cur \in [Workers -> Events \cup {None}] /\ batch \in [Workers -> SUBSET Events]
  BY DEF CInv, IInv, TypeOK
<1>2. CASE Handled(w)
  <2>1. /\ pc'[w] = "loop" /\ batch'[w] \subseteq batch[w]
        /\ \A v \in Workers \ {w} : pc'[v] = pc[v] /\ cur'[v] = cur[v] /\ batch'[v] = batch[v]
    BY <1>1, <1>2 DEF Handled
  <2>2. WorksOnRows' BY <1>1, <2>1 DEF CInv, WorksOnRows
  <2> QED BY <2>1, <2>2 DEF CInv, EffectsFirst, effects
<1>3. CASE Goto(w, cur[w], "release")
  <2>1. /\ pc'[w] = "release" /\ batch' = batch /\ cur' = cur
        /\ \A v \in Workers \ {w} : pc'[v] = pc[v]
    BY <1>1, <1>3 DEF Goto
  <2>2. WorksOnRows' BY <1>1, <2>1 DEF CInv, WorksOnRows
  <2> QED BY <2>1, <2>2 DEF CInv, EffectsFirst, effects
<1> QED BY <1>2, <1>3

LEMMA MarkContract ==
  ASSUME CInv, NEW w \in Workers, MarkPublished(w)
  PROVE  WorksOnRows' /\ EffectsFirst' /\ ChannelOnce' /\ NoOutcomeBefore' /\ \A f \in Events : CStep(f)
<1>0. PICK e \in Events : e = cur[w] BY DEF MarkPublished, CInv, IInv, TypeOK
<1>1. /\ pc[w] = "mark" /\ row[e].exists /\ UNCHANGED effects /\ row \in [Events -> Row]
      /\ Handled(w) \/ Goto(w, cur[w], "release")
  BY <1>0 DEF MarkPublished, CInv, IInv, TypeOK, WorksOnRows
<1>2. ChannelOnce' BY <1>1 DEF CInv, ChannelOnce, effects
<1>3. CASE row' = row
  <2>1. WorksOnRows' /\ EffectsFirst' BY <1>1, <1>3, SettleParts
  <2> QED BY <1>1, <1>2, <1>3, <2>1, Stutters DEF CInv, NoOutcomeBefore, SameRow
<1>4. CASE Owns(w, e) /\ row' = [row EXCEPT ![e] = Published(row[e])]
  <2>1. row'[e] = Published(row[e]) /\ \A f \in Events \ {e} : row'[f] = row[f] BY <1>1, <1>4
  <2>2. row'[e].exists = row[e].exists /\ row'[e].published /\ row'[e].dead = row[e].dead
    BY <1>1, <2>1, PublishedExists, PublishedRow
  <2>3. WorksOnRows' /\ EffectsFirst'
    <3>1. \A f \in Events : row'[f].exists = row[f].exists BY <2>1, <2>2
    <3> QED BY <1>1, <3>1, SettleParts
  <2>4. NoOutcomeBefore' BY <1>1, <2>1, <2>2 DEF CInv, NoOutcomeBefore
  <2>5. ~row[e].published /\ ~row[e].dead
    BY <1>4, OutboxAssumption DEF Owns, CInv, IInv, SettledIsFree
  <2>6. Contract(e)!Complete
    <3>1. Outcome(e) = "owed" /\ Outcome(e)' = "published" BY <1>1, <2>2, <2>5 DEF Outcome
    <3>2. Made(e)' = Made(e) BY <1>1, SameMade DEF effects
    <3>3. \A x \in Duties(e) : Made(e)[x] = 1
      BY <1>0, <1>1 DEF Duties, Made, CInv, EffectsFirst
    <3> QED BY <3>1, <3>2, <3>3 DEF Contract!Complete, Contract!Becomes
  <2>7. CStep(e) BY <2>6 DEF CStep, Contract!Next
  <2>8. ASSUME NEW f \in Events PROVE CStep(f)
    <3>1. CASE f = e BY <2>7, <3>1
    <3>2. CASE f # e BY <1>1, <2>1, <3>2, Stutters DEF SameRow
    <3> QED BY <3>1, <3>2
  <2> QED BY <1>2, <2>3, <2>4, <2>8
<1>5. row' = row \/ (Owns(w, e) /\ row' = [row EXCEPT ![e] = Published(row[e])])
  <2>1. CASE Owns(w, e) BY <1>0, <2>1 DEF MarkPublished
  <2>2. CASE ~Owns(w, e) BY <1>0, <2>2 DEF MarkPublished
  <2> QED BY <2>1, <2>2
<1> QED BY <1>3, <1>4, <1>5

LEMMA ReleaseContract ==
  ASSUME CInv, NEW w \in Workers, Release(w)
  PROVE  WorksOnRows' /\ EffectsFirst' /\ ChannelOnce' /\ NoOutcomeBefore' /\ \A f \in Events : CStep(f)
<1>0. PICK e \in Events : e = cur[w] BY DEF Release, CInv, IInv, TypeOK
<1>1. /\ pc[w] = "release" /\ row[e].exists /\ UNCHANGED effects /\ row \in [Events -> Row]
      /\ Handled(w)
  BY <1>0 DEF Release, CInv, IInv, TypeOK, WorksOnRows
<1>2. ChannelOnce' BY <1>1 DEF CInv, ChannelOnce, effects
<1>3. CASE row' = row
  <2>1. WorksOnRows' /\ EffectsFirst' BY <1>1, <1>3, SettleParts
  <2> QED BY <1>1, <1>2, <1>3, <2>1, Stutters DEF CInv, NoOutcomeBefore, SameRow
<1>4. ASSUME Owns(w, e), NEW last \in BOOLEAN, row' = [row EXCEPT ![e] = Released(row[e], last)]
      PROVE  WorksOnRows' /\ EffectsFirst' /\ NoOutcomeBefore' /\ \A f \in Events : CStep(f)
  <2>1. row'[e] = Released(row[e], last) /\ \A f \in Events \ {e} : row'[f] = row[f] BY <1>1, <1>4
  <2>2. row'[e].exists = row[e].exists /\ row'[e].published = row[e].published /\ row'[e].dead = (row[e].dead \/ last)
    <3>1. row[e] \in Row BY <1>1
    <3>2. row'[e].exists = row[e].exists BY <1>4, <2>1, <3>1, ReleasedExists
    <3> QED BY <1>4, <2>1, <3>1, <3>2, ReleasedRow
  <2>3. WorksOnRows' /\ EffectsFirst'
    <3>1. \A f \in Events : row'[f].exists = row[f].exists BY <2>1, <2>2
    <3> QED BY <1>1, <3>1, SettleParts
  <2>4. NoOutcomeBefore' BY <1>1, <2>1, <2>2 DEF CInv, NoOutcomeBefore
  <2>5. ~row[e].published /\ ~row[e].dead
    BY <1>4, OutboxAssumption DEF Owns, CInv, IInv, SettledIsFree
  <2>6. Made(e)' = Made(e) BY <1>1, SameMade DEF effects
  <2>7. CASE last
    <3>1. Outcome(e) = "owed" /\ Outcome(e)' = "dead" BY <1>1, <2>2, <2>5, <2>7 DEF Outcome
    <3>2. Contract(e)!GiveUp BY <2>6, <3>1 DEF Contract!GiveUp, Contract!Becomes
    <3> QED BY <1>1, <2>1, <2>3, <2>4, <3>2, Stutters DEF CStep, Contract!Next, SameRow
  <2>8. CASE ~last
    <3>0. row[e].dead \in BOOLEAN BY <1>1 DEF Row
    <3>1. SameRow(row'[e], row[e]) BY <2>2, <2>5, <2>8, <3>0 DEF SameRow
    <3> QED BY <1>1, <2>1, <2>3, <2>4, <3>1, Stutters DEF SameRow
  <2> QED BY <2>7, <2>8
<1>5. \/ row' = row
      \/ Owns(w, e) /\ row' = [row EXCEPT ![e] = Released(row[e], Exhausted(w))]
  <2>1. CASE Owns(w, e) BY <1>0, <2>1 DEF Release
  <2>2. CASE ~Owns(w, e) BY <1>0, <2>2 DEF Release
  <2> QED BY <2>1, <2>2
<1>6. Exhausted(w) \in BOOLEAN BY DEF Exhausted
<1> QED BY <1>2, <1>3, <1>4, <1>5, <1>6

\* A batch ends or dies; what it has done stays.
LEMMA ResetContract ==
  ASSUME CInv, NEW w \in Workers, Reset(w)
  PROVE  WorksOnRows' /\ EffectsFirst' /\ ChannelOnce' /\ NoOutcomeBefore' /\ \A f \in Events : CStep(f)
<1>1. /\ pc \in [Workers -> {"idle", "loop", "dispatch", "mark", "release"}] /\ row \in [Events -> Row]
      /\ cur \in [Workers -> Events \cup {None}] /\ batch \in [Workers -> SUBSET Events]
  BY DEF CInv, IInv, TypeOK
<1>2. /\ pc'[w] = "idle" /\ batch'[w] = {} /\ UNCHANGED effects
      /\ \A v \in Workers \ {w} : pc'[v] = pc[v] /\ cur'[v] = cur[v] /\ batch'[v] = batch[v]
  BY <1>1 DEF Reset
<1>3. \A e \in Events : SameRow(row'[e], row[e])
  <2> SUFFICES ASSUME NEW e \in Events PROVE SameRow(row'[e], row[e]) OBVIOUS
  <2>1. row'[e] = (IF row[e].token = w THEN [row[e] EXCEPT !.token = Gone] ELSE row[e])
    BY DEF Reset, Orphaned
  <2>2. row[e] \in Row BY <1>1
  <2> QED BY <2>1, <2>2 DEF Row, SameRow
<1>4. WorksOnRows' BY <1>1, <1>2, <1>3 DEF CInv, WorksOnRows, SameRow
<1>5. EffectsFirst' BY <1>2 DEF CInv, EffectsFirst, effects
<1>6. ChannelOnce' /\ NoOutcomeBefore' BY <1>2, <1>3 DEF CInv, ChannelOnce, NoOutcomeBefore, SameRow, effects
<1> QED BY <1>2, <1>3, <1>4, <1>5, <1>6, Stutters

\* Steps that leave the workers and the effects alone and no row uncommitted.
LEMMA RowsOnly ==
  ASSUME CInv, UNCHANGED <<workers, effects>>, \A e \in Events : row[e].exists => row'[e].exists
  PROVE  WorksOnRows' /\ EffectsFirst' /\ ChannelOnce'
<1>1. batch \in [Workers -> SUBSET Events] BY DEF CInv, IInv, TypeOK
<1> QED BY <1>1 DEF CInv, WorksOnRows, EffectsFirst, ChannelOnce, workers, effects

LEMMA FlagContract ==
  ASSUME CInv, NEW e \in Events, Emit(e) \/ ClaimAges(e) \/ BackoffElapses(e)
  PROVE  WorksOnRows' /\ EffectsFirst' /\ ChannelOnce' /\ NoOutcomeBefore' /\ \A f \in Events : CStep(f)
<1>1. row \in [Events -> Row] /\ row[e] \in Row /\ UNCHANGED <<workers, effects>>
  BY DEF CInv, IInv, TypeOK, Emit, ClaimAges, BackoffElapses
<1>2. CASE Emit(e)
  <2>1. /\ row'[e] = [row[e] EXCEPT !.exists = TRUE] /\ ~row[e].exists
        /\ \A f \in Events \ {e} : row'[f] = row[f]
    BY <1>1, <1>2 DEF Emit
  <2>2. row'[e].exists /\ row'[e].published = row[e].published /\ row'[e].dead = row[e].dead
    BY <1>1, <2>1 DEF Row
  <2>3. WorksOnRows' /\ EffectsFirst' /\ ChannelOnce' BY <1>1, <2>1, <2>2, RowsOnly
  <2>4. NoOutcomeBefore' BY <2>1, <2>2 DEF CInv, NoOutcomeBefore
  <2>5. CStep(e)
    <3>1. Outcome(e) = "none" /\ Outcome(e)' = "owed"
      BY <2>1, <2>2 DEF Outcome, CInv, NoOutcomeBefore
    <3>2. Made(e)' = Made(e) BY <1>1, SameMade DEF effects
    <3>3. Contract(e)!Accept BY <3>1, <3>2 DEF Contract!Accept, Contract!Becomes
    <3> QED BY <3>3 DEF CStep, Contract!Next
  <2> QED BY <1>1, <2>1, <2>3, <2>4, <2>5, Stutters DEF SameRow
<1>3. CASE ClaimAges(e) \/ BackoffElapses(e)
  <2>1. /\ row'[e] = [row[e] EXCEPT !.stale = TRUE] \/ row'[e] = [row[e] EXCEPT !.due = TRUE]
        /\ \A f \in Events \ {e} : row'[f] = row[f]
    BY <1>1, <1>3 DEF ClaimAges, BackoffElapses
  <2>2. \A f \in Events : SameRow(row'[f], row[f])
    <3>1. SameRow(row'[e], row[e]) BY <1>1, <2>1 DEF Row, SameRow
    <3> QED BY <2>1, <3>1 DEF SameRow
  <2>3. WorksOnRows' /\ EffectsFirst' /\ ChannelOnce' BY <1>1, <2>2, RowsOnly DEF SameRow
  <2>4. NoOutcomeBefore' BY <2>2 DEF CInv, NoOutcomeBefore, SameRow
  <2> QED BY <1>1, <2>2, <2>3, <2>4, Stutters
<1> QED BY <1>2, <1>3

LEMMA ReplayContract ==
  ASSUME CInv, NEW a \in Admins, ReplayWrite(a) \/ \E e \in Events : ReplayRead(a, e)
  PROVE  WorksOnRows' /\ EffectsFirst' /\ ChannelOnce' /\ NoOutcomeBefore' /\ \A f \in Events : CStep(f)
<1>1. row \in [Events -> Row] /\ UNCHANGED <<workers, effects>>
  BY DEF CInv, IInv, TypeOK, ReplayWrite, ReplayRead
<1>2. CASE ReplayWrite(a)
  <2>0. PICK e \in Events : e = seen[a] BY <1>2 DEF ReplayWrite, CInv, IInv, TypeOK
  <2>1. row'[e] = Requeued(row[e]) /\ \A f \in Events \ {e} : row'[f] = row[f]
    BY <1>1, <1>2, <2>0 DEF ReplayWrite
  <2>2. /\ row'[e].exists = row[e].exists /\ row'[e].published = row[e].published /\ ~row'[e].dead
    BY <1>1, <2>1, RequeuedExists, RequeuedRow
  <2>3. WorksOnRows' /\ EffectsFirst' /\ ChannelOnce' BY <1>1, <2>1, <2>2, RowsOnly
  <2>4. NoOutcomeBefore' BY <2>1, <2>2 DEF CInv, NoOutcomeBefore
  <2>5. CStep(e)
    <3>1. Made(e)' = Made(e) BY <1>1, SameMade DEF effects
    <3>2. CASE Outcome(e) = "dead"
      <4>1. Outcome(e)' = "owed" BY <2>2, <3>2 DEF Outcome
      <4>2. Contract(e)!PutBack BY <3>1, <3>2, <4>1 DEF Contract!PutBack, Contract!Becomes
      <4> QED BY <4>2 DEF CStep, Contract!Next
    <3>3. CASE Outcome(e) # "dead"
      <4>1. Outcome(e)' = Outcome(e) BY <2>2, <3>3 DEF Outcome
      <4> QED BY <3>1, <4>1 DEF CStep
    <3> QED BY <3>2, <3>3
  <2> QED BY <1>1, <2>1, <2>3, <2>4, <2>5, Stutters DEF SameRow
<1>3. CASE \E e \in Events : ReplayRead(a, e)
  <2>1. row' = row BY <1>3 DEF ReplayRead
  <2>2. WorksOnRows' /\ EffectsFirst' /\ ChannelOnce' BY <1>1, <2>1, RowsOnly
  <2> QED BY <1>1, <2>1, <2>2, Stutters DEF CInv, NoOutcomeBefore, SameRow
<1> QED BY <1>2, <1>3

-----------------------------------------------------------------------------
\* What the lemmas about single actions establish, together.
Preserved ==
  /\ WorksOnRows' /\ EffectsFirst' /\ ChannelOnce' /\ NoOutcomeBefore'
  /\ \A e \in Events : CStep(e)

LEMMA NextContract == CInv /\ [Next]_vars => CInv' /\ \A e \in Events : CStep(e)
<1> SUFFICES ASSUME CInv, [Next]_vars PROVE CInv' /\ \A e \in Events : CStep(e) OBVIOUS
<1>1. ASSUME NEW w \in Workers, Claim(w) \/ Work(w) \/ Crash(w) PROVE Preserved
  <2>1. CASE Claim(w) BY <2>1, ClaimContract DEF Preserved
  <2>2. ASSUME NEW e \in Events, Notify(w, e) \/ Publish(w, e) \/ Unsupported(w, e) PROVE Preserved
    BY <2>2, NotifyContract, PublishContract, UnsupportedContract DEF Preserved
  <2>3. CASE Dispatch(w) BY <2>3, DispatchContract DEF Preserved
  <2>4. CASE MarkPublished(w) BY <2>4, MarkContract DEF Preserved
  <2>5. CASE Release(w) BY <2>5, ReleaseContract DEF Preserved
  <2>6. CASE BatchEnd(w) \/ Crash(w) BY <2>6, ResetContract DEF BatchEnd, Crash, Preserved
  <2> QED BY <1>1, <2>1, <2>2, <2>3, <2>4, <2>5, <2>6 DEF Work
<1>2. ASSUME NEW e \in Events, Emit(e) \/ ClaimAges(e) \/ BackoffElapses(e) PROVE Preserved
  BY <1>2, FlagContract DEF Preserved
<1>3. ASSUME NEW a \in Admins, ReplayWrite(a) \/ \E e \in Events : ReplayRead(a, e) PROVE Preserved
  BY <1>3, ReplayContract DEF Preserved
<1>4. ASSUME UNCHANGED vars PROVE Preserved
  <2>1. row' = row /\ UNCHANGED <<workers, effects>> BY <1>4 DEF vars
  <2>2. WorksOnRows' /\ EffectsFirst' /\ ChannelOnce' BY <2>1, RowsOnly
  <2>3. NoOutcomeBefore' BY <2>1 DEF CInv, NoOutcomeBefore
  <2>4. \A e \in Events : CStep(e) BY <2>1, Stutters DEF SameRow
  <2> QED BY <2>2, <2>3, <2>4 DEF Preserved
<1>5. Preserved BY <1>1, <1>2, <1>3, <1>4 DEF Next
<1>6. IInv' BY NextIInv DEF CInv
<1> QED BY <1>5, <1>6 DEF CInv, Preserved

\* The publisher of outbox_events, with its crashes, failures, overlapping batches
\* and replays, implements the contract of every event: each effect is queued at
\* most once and only for a committed row, a row is published after its effects
\* and for ever, and only a dead letter is put back.
THEOREM OutboxImplementsContract == Spec => ImplementsContract
<1>1. Init => CInv /\ \A e \in Events : Contract(e)!Init BY InitCInv, InitContract
<1>2. CInv /\ [Next]_vars => CInv' BY NextContract
<1>3. CInv /\ [Next]_vars
        => [\A e \in Events : UNCHANGED <<Outcome(e), Made(e)>> \/ Contract(e)!Next]_vars
  BY NextContract DEF CStep
<1> QED BY <1>1, <1>2, <1>3, PTL DEF Spec, ImplementsContract

\* However often a row is attempted, one in-app row and one delivery per channel or
\* endpoint are queued for it by createNotification and dispatchOrgWebhooks.
THEOREM OutboxQueuedOnce == Spec => []QueuedOnce
<1>1. Init => CInv BY InitCInv
<1>2. CInv /\ [Next]_vars => CInv' BY NextContract
<1>3. CInv => QueuedOnce BY DEF CInv, IInv, TypeOK, ChannelOnce, QueuedOnce
<1> QED BY <1>1, <1>2, <1>3, PTL DEF Spec
=============================================================================
