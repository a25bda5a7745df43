---------------------------- MODULE PeopleProofs ----------------------------
(***************************************************************************)
(* Proofs about the people of a company: leaving it (Offboarding), the       *)
(* templates and tasks of joining it (Onboarding), the hiring and the roles  *)
(* with their permission caches (Staffing), and one account with its         *)
(* sessions and credentials (Accounts).                                      *)
(***************************************************************************)
EXTENDS Staffing, Onboarding, Offboarding, Accounts, FiniteSetTheorems, TLAPS

-----------------------------------------------------------------------------
(* Offboarding *)

OffboardingNext ==
  \/ CasesNext(Hands, Hands) \/ SessionsNext \/ ChecklistNext \/ RevokerNext
  \/ \E h \in Hands, with \in SUBSET {"task", "asset"} : CreateWrite(h, with)
OffboardingSpec == OffboardingInit /\ [][OffboardingNext]_offboardingVars

\* A request that creates a case has an id of its own, which nobody knows yet.
CreatesFresh ==
  \A h \in Hands :
    /\ hand[h].op = "create" => hand[h].on \in Cases /\ ocase[hand[h].on].status = "none"
    /\ hand[h].op = "create" => \A g \in Hands \ {h} : hand[g].on # hand[h].on
    /\ hand[h].op \notin {"none", "create"} => hand[h].on \in Cases /\ ocase[hand[h].on].status # "none"
    /\ hand[h].op = "none" => hand[h].on = NoCase

\* What a request read of its case is still so, unless the case was raced.
ReadStill(h) ==
  hand[h].op \notin {"none", "create"} /\ hand[h].on \notin trail.raced =>
    Admits(hand[h].op, hand[h].on) /\ (hand[h].had <=> ocase[hand[h].on].settlement.status # "none")
AdmittedStill == \A h \in Hands : ReadStill(h)

\* A request that creates a case found none open.
CreatesAlone ==
  ~trail.creates /\ trail.raced = {} =>
    \A h \in Hands : hand[h].op = "create" => OpenCases = {} /\ \A g \in Hands \ {h} : hand[g].op # "create"
OpenUnique == ~trail.creates /\ trail.raced = {} => \A x, y \in OpenCases : x = y

\* The account is closed before the sessions are revoked, and these before that is recorded.
ShutOut ==
  ~trail.returned =>
    /\ revoker.step \in {"revoke", "stamp"} => ~employee.active
    /\ revoker.step = "stamp" /\ ~trail.slipped => ~employee.session
    /\ \A x \in Cases : ocase[x].revokedAt => ~employee.active /\ (~trail.slipped => ~employee.session)
RevokerKnows == revoker.step \in {"revoke", "stamp"} => revoker.on \in Cases

OffboardingInv ==
  /\ OffboardingTypeOK /\ CreatesFresh /\ AdmittedStill /\ CreatesAlone /\ OpenUnique
  /\ SubmittedTotalStands /\ CompletedIsSettled /\ ShutOut /\ RevokerKnows

LEMMA AnAmountIn == AnAmount \in Amounts /\ AnHr \in Hr
  BY OffboardingAssumption DEF AnAmount, AnHr

LEMMA NoCaseIsNone == NoCase \notin Cases
  BY OffboardingAssumption

LEMMA EmptyCaseType ==
  /\ EmptyCase \in Case /\ EmptyCase.status = "none" /\ ~EmptyCase.revokedAt /\ EmptyCase.settlement.status = "none"
  BY AnAmountIn DEF EmptyCase, Case, Settlement

LEMMA IdleType ==
  /\ Idle \in [op : Ops \cup {"none"}, on : Cases \cup {NoCase}, had : BOOLEAN]
  /\ Idle.op = "none" /\ Idle.on = NoCase
  BY DEF Idle

LEMMA SleepingType ==
  /\ Sleeping \in [step : {"read", "claim", "revoke", "stamp"}, todo : SUBSET Cases, on : Cases \cup {NoCase}]
  /\ Sleeping.step = "read"
  BY DEF Sleeping

LEMMA CaseFields ==
  ASSUME OffboardingTypeOK, NEW x \in Cases
  PROVE  /\ ocase[x] \in Case /\ ocase[x].settlement \in Settlement
         /\ ocase[x].status \in {"none", "in_progress", "access_revoked", "completed", "cancelled"}
         /\ ocase[x].due \in BOOLEAN /\ ocase[x].revokedAt \in BOOLEAN
         /\ ocase[x].task \in {"none", "pending", "done"} /\ ocase[x].asset \in {"none", "outstanding", "resolved"}
         /\ ocase[x].settlement.status \in {"none", "draft", "submitted", "approved", "locked", "waived"}
         /\ ocase[x].settlement.total \in Amounts /\ ocase[x].settlement.by \in Hr
<1>1. ocase[x] \in Case BY DEF OffboardingTypeOK
<1>2. ocase[x].settlement \in Settlement BY <1>1 DEF Case
<1> QED BY <1>1, <1>2 DEF Case, Settlement

LEMMA HandFields ==
  ASSUME OffboardingTypeOK, NEW h \in Hands
  PROVE  hand[h].op \in Ops \cup {"none"} /\ hand[h].on \in Cases \cup {NoCase} /\ hand[h].had \in BOOLEAN
<1>1. hand[h] \in [op : Ops \cup {"none"}, on : Cases \cup {NoCase}, had : BOOLEAN] BY DEF OffboardingTypeOK
<1> QED BY <1>1

LEMMA TrailFields ==
  ASSUME OffboardingTypeOK
  PROVE  /\ trail.creates \in BOOLEAN /\ trail.raced \subseteq Cases /\ trail.agreed \in [Cases -> Amounts]
         /\ trail.returned \in BOOLEAN /\ trail.slipped \in BOOLEAN /\ trail.crashes \in 0 .. MaxOffCrashes
         /\ employee.active \in BOOLEAN /\ employee.session \in BOOLEAN /\ employee.entering \in BOOLEAN
         /\ revoker.step \in {"read", "claim", "revoke", "stamp"} /\ revoker.todo \subseteq Cases
         /\ revoker.on \in Cases \cup {NoCase}
  BY DEF OffboardingTypeOK

LEMMA OffboardingInvInit == OffboardingInit => OffboardingInv
<1> SUFFICES ASSUME OffboardingInit PROVE OffboardingInv OBVIOUS
<1>1. /\ ocase = [x \in Cases |-> EmptyCase] /\ employee = [active |-> TRUE, session |-> TRUE, entering |-> FALSE] /\ revoker = Sleeping
      /\ hand = [h \in Hands |-> Idle]
      /\ trail = [creates |-> FALSE, raced |-> {}, agreed |-> [x \in Cases |-> AnAmount], returned |-> FALSE, slipped |-> FALSE, crashes |-> 0]
  BY DEF OffboardingInit, OffboardingFrom
<1>2. OffboardingTypeOK
  <2>1. 0 \in 0 .. MaxOffCrashes BY OffboardingAssumption
  <2> QED BY <1>1, <2>1, EmptyCaseType, IdleType, SleepingType, AnAmountIn DEF OffboardingTypeOK
<1>3. \A h \in Hands : hand[h].op = "none" /\ hand[h].on = NoCase BY <1>1, IdleType
<1>4. \A x \in Cases : ocase[x] = EmptyCase /\ ocase[x].status = "none" BY <1>1, EmptyCaseType
<1>5. CreatesFresh /\ AdmittedStill /\ CreatesAlone BY <1>3 DEF CreatesFresh, AdmittedStill, ReadStill, CreatesAlone
<1>6. OpenUnique BY <1>4 DEF OpenUnique, OpenCases
<1>7. SubmittedTotalStands /\ CompletedIsSettled BY <1>4, EmptyCaseType DEF SubmittedTotalStands, CompletedIsSettled
<1>8. ShutOut /\ RevokerKnows BY <1>1, <1>4, EmptyCaseType, SleepingType DEF ShutOut, RevokerKnows
<1> QED BY <1>2, <1>5, <1>6, <1>7, <1>8 DEF OffboardingInv

LEMMA OffboardingInvImplies == OffboardingInv => OffboardingSafe
<1> SUFFICES ASSUME OffboardingInv PROVE OffboardingSafe OBVIOUS
<1>1. OneOpenCase
  <2> SUFFICES ASSUME ~trail.creates, trail.raced = {} PROVE Cardinality(OpenCases) <= 1 BY DEF OneOpenCase
  <2>1. CASE OpenCases = {} BY <2>1, FS_EmptySet
  <2>2. CASE OpenCases # {}
    <3>1. PICK x \in OpenCases : TRUE BY <2>2
    <3>2. OpenCases = {x} BY <3>1 DEF OffboardingInv, OpenUnique
    <3> QED BY <3>2, FS_Singleton
  <2> QED BY <2>1, <2>2
<1>2. RevokedIsLoggedOut BY DEF OffboardingInv, ShutOut, RevokedIsLoggedOut
<1> QED BY <1>1, <1>2 DEF OffboardingInv, OffboardingSafe

LEMMA SameOpen ==
  ASSUME \A x \in Cases : ocase'[x].status \in {"in_progress", "access_revoked"} =>
                            ocase[x].status \in {"in_progress", "access_revoked"}
  PROVE  OpenCases' \subseteq OpenCases
  BY DEF OpenCases

\* A request h that leaves: the others keep what they know, if the cases they
\* work on are as before or raced.
LEMMA HandLeaves ==
  ASSUME OffboardingInv, OffboardingTypeOK', NEW h \in Hands, hand' = [hand EXCEPT ![h] = Idle],
         trail.raced \subseteq trail'.raced,
         \A g \in Hands \ {h} : hand[g].op # "none" =>
           \/ ocase'[hand[g].on] = ocase[hand[g].on]
           \/ hand[g].on \in trail'.raced /\ hand[g].op # "create" /\ ocase'[hand[g].on].status # "none"
  PROVE  CreatesFresh' /\ AdmittedStill'
<1> USE DEF OffboardingInv
<1>1. hand'[h] = Idle /\ \A g \in Hands \ {h} : hand'[g] = hand[g] BY DEF OffboardingTypeOK
<1>2. CreatesFresh'
  <2> SUFFICES ASSUME NEW g \in Hands
               PROVE  /\ hand'[g].op = "create" => hand'[g].on \in Cases /\ ocase'[hand'[g].on].status = "none"
                      /\ hand'[g].op = "create" => \A f \in Hands \ {g} : hand'[f].on # hand'[g].on
                      /\ hand'[g].op \notin {"none", "create"} => hand'[g].on \in Cases /\ ocase'[hand'[g].on].status # "none"
                      /\ hand'[g].op = "none" => hand'[g].on = NoCase
    BY DEF CreatesFresh
  <2>1. CASE g = h BY <2>1, <1>1, IdleType
  <2>2. CASE g # h
    <3>1. hand'[g] = hand[g] BY <2>2, <1>1
    <3>2. hand[g].op = "create" => hand[g].on \in Cases /\ ocase'[hand[g].on].status = "none" BY <2>2 DEF CreatesFresh
    <3>3. hand[g].op \notin {"none", "create"} => hand[g].on \in Cases /\ ocase'[hand[g].on].status # "none"
      BY <2>2 DEF CreatesFresh
    <3>4. hand[g].op = "create" => \A f \in Hands \ {g} : hand'[f].on # hand[g].on
      BY <1>1, IdleType, NoCaseIsNone DEF CreatesFresh
    <3> QED BY <3>1, <3>2, <3>3, <3>4 DEF CreatesFresh
  <2> QED BY <2>1, <2>2
<1>3. AdmittedStill'
  <2> SUFFICES ASSUME NEW g \in Hands PROVE ReadStill(g)' BY DEF AdmittedStill
  <2>1. CASE hand'[g].op \in {"none", "create"} \/ hand'[g].on \in trail'.raced BY <2>1 DEF ReadStill
  <2>2. CASE hand'[g].op \notin {"none", "create"} /\ hand'[g].on \notin trail'.raced
    <3>1. g # h /\ hand'[g] = hand[g] BY <2>2, <1>1, IdleType
    <3>2. hand[g].on \in Cases /\ ocase'[hand[g].on] = ocase[hand[g].on] BY <2>2, <3>1 DEF CreatesFresh
    <3>3. ReadStill(g) BY DEF AdmittedStill
    <3>4. hand[g].on \notin trail.raced BY <2>2, <3>1
    <3>5. PICK op, x : op = hand[g].op /\ x = hand[g].on OBVIOUS
    <3>6. Admits(op, x) /\ (hand[g].had <=> ocase[x].settlement.status # "none") BY <2>2, <3>1, <3>3, <3>4, <3>5 DEF ReadStill
    <3>7. op \in Ops \ {"create"} /\ x \in Cases /\ ocase'[x] = ocase[x] BY <2>2, <3>1, <3>2, <3>5, HandFields
    <3>8. Admits(op, x)' BY <3>6, <3>7 DEF Admits, Ops, OpenCases, MayChange, MayComplete
    <3>9. op = hand'[g].op /\ x = hand'[g].on /\ hand'[g].had = hand[g].had BY <3>1, <3>5
    <3> QED BY <3>6, <3>7, <3>8, <3>9 DEF ReadStill
  <2> QED BY <2>1, <2>2
<1> QED BY <1>2, <1>3

\* The write of a request.
LEMMA PutsOffInv ==
  ASSUME OffboardingInv, NEW h \in Hands, NEW op \in Ops \ {"create"}, NEW row \in Case, Puts(h, op, row),
         row.status # "none", row.revokedAt = Of(h).revokedAt,
         hand[h].on \notin trail.raced =>
           /\ row.status \in {"in_progress", "access_revoked"} => Of(h).status \in {"in_progress", "access_revoked"}
           /\ row.settlement.status \in {"submitted", "approved", "locked"} => row.settlement.total = trail.agreed[hand[h].on]
           /\ row.status = "completed" => /\ row.task # "pending" /\ row.asset # "outstanding"
                                          /\ row.settlement.status \in {"locked", "waived"}
  PROVE  OffboardingInv'
<1> USE DEF OffboardingInv
<1> DEFINE x == hand[h].on
<1>1. /\ hand[h].op = op /\ ocase' = [ocase EXCEPT ![x] = row] /\ trail' = [trail EXCEPT !.raced = Racing(x, h)]
      /\ hand' = [hand EXCEPT ![h] = Idle] /\ UNCHANGED <<employee, revoker>>
  BY DEF Puts
<1>2. x \in Cases /\ ocase[x].status # "none" BY <1>1 DEF CreatesFresh, Ops
<1>3. ocase'[x] = row /\ \A y \in Cases \ {x} : ocase'[y] = ocase[y] BY <1>1, <1>2 DEF OffboardingTypeOK
<1>4. /\ trail.raced \subseteq Racing(x, h) /\ Racing(x, h) \subseteq Cases
      /\ \A g \in Hands \ {h} : hand[g].on = x => x \in Racing(x, h)
      /\ \A y \in Cases \ {x} : y \in Racing(x, h) <=> y \in trail.raced
  BY <1>2, TrailFields DEF Racing, Handling
<1>5. /\ trail'.raced = Racing(x, h) /\ trail'.creates = trail.creates /\ trail'.agreed = trail.agreed
      /\ trail'.returned = trail.returned
  BY <1>1 DEF OffboardingTypeOK
<1>6. OffboardingTypeOK' BY <1>1, <1>4, IdleType DEF OffboardingTypeOK
<1>7. Of(h) = ocase[x] BY DEF Of
<1>8. hand'[h] = Idle /\ \A g \in Hands \ {h} : hand'[g] = hand[g] BY <1>1 DEF OffboardingTypeOK
<1> HIDE DEF x
<1>9. CreatesFresh' /\ AdmittedStill'
  <2>1. ASSUME NEW g \in Hands \ {h}, hand[g].op # "none"
        PROVE  \/ ocase'[hand[g].on] = ocase[hand[g].on]
               \/ hand[g].on \in trail'.raced /\ hand[g].op # "create" /\ ocase'[hand[g].on].status # "none"
    <3>1. hand[g].on \in Cases BY <2>1, HandFields DEF CreatesFresh
    <3>2. CASE hand[g].on = x
      <4>1. hand[g].op # "create" BY <3>2, <1>2 DEF CreatesFresh
      <4> QED BY <3>2, <4>1, <1>3, <1>4, <1>5
    <3> QED BY <3>1, <3>2, <1>3
  <2> QED BY <2>1, <1>1, <1>4, <1>5, <1>6, HandLeaves
<1>10. ASSUME trail'.raced = {}
       PROVE  trail.raced = {} /\ x \notin trail.raced /\ OpenCases' \subseteq OpenCases
  <2>1. trail.raced = {} BY <1>10, <1>4, <1>5
  <2>2. x \notin trail.raced BY <2>1
  <2>3. \A y \in Cases : ocase'[y].status \in {"in_progress", "access_revoked"} =>
                           ocase[y].status \in {"in_progress", "access_revoked"} BY <2>2, <1>3, <1>7 DEF x
  <2> QED BY <2>1, <2>2, <2>3, SameOpen
<1>11. OpenUnique' BY <1>5, <1>10 DEF OpenUnique
<1>12. CreatesAlone'
  <2> SUFFICES ASSUME ~trail.creates, trail'.raced = {}, NEW g \in Hands, hand'[g].op = "create"
               PROVE  OpenCases' = {} /\ \A f \in Hands \ {g} : hand'[f].op # "create"
    BY <1>5 DEF CreatesAlone
  <2>1. g # h /\ hand[g].op = "create" BY <1>8, IdleType
  <2>2. OpenCases = {} /\ \A f \in Hands \ {g} : hand[f].op # "create" BY <2>1, <1>10 DEF CreatesAlone
  <2>3. OpenCases' = {} BY <1>10, <2>2
  <2> QED BY <2>1, <2>2, <2>3, <1>8, IdleType
<1>13. SubmittedTotalStands'
  <2> SUFFICES ASSUME NEW y \in Cases, y \notin trail'.raced, ocase'[y].settlement.status \in {"submitted", "approved", "locked"}
               PROVE  ocase'[y].settlement.total = trail.agreed[y]
    BY <1>5 DEF SubmittedTotalStands
  <2>1. y \notin trail.raced BY <1>4, <1>5
  <2> QED BY <2>1, <1>3 DEF SubmittedTotalStands, x
<1>14. CompletedIsSettled'
  <2> SUFFICES ASSUME NEW y \in Cases, y \notin trail'.raced, ocase'[y].status = "completed"
               PROVE  /\ ocase'[y].task # "pending" /\ ocase'[y].asset # "outstanding"
                      /\ ocase'[y].settlement.status \in {"locked", "waived"}
    BY DEF CompletedIsSettled
  <2>1. y \notin trail.raced BY <1>4, <1>5
  <2> QED BY <2>1, <1>3 DEF CompletedIsSettled, x
<1>15. ShutOut' BY <1>1, <1>3, <1>5, <1>7 DEF ShutOut
<1>16. RevokerKnows' BY <1>1 DEF RevokerKnows
<1> QED BY <1>6, <1>9, <1>11, <1>12, <1>13, <1>14, <1>15, <1>16

\* What a writing request still knows of its case.
LEMMA KnownOfCase ==
  ASSUME OffboardingInv, NEW h \in Hands, hand[h].op \notin {"none", "create"}
  PROVE  /\ hand[h].on \in Cases /\ Of(h) = ocase[hand[h].on] /\ Of(h) \in Case /\ Of(h).status # "none"
         /\ Of(h).settlement \in Settlement
         /\ hand[h].on \notin trail.raced =>
              /\ Admits(hand[h].op, hand[h].on) /\ (hand[h].had <=> Of(h).settlement.status # "none")
              /\ Of(h).settlement.status \in {"submitted", "approved", "locked"} => Of(h).settlement.total = trail.agreed[hand[h].on]
<1>1. hand[h].on \in Cases /\ Of(h) = ocase[hand[h].on] /\ Of(h).status # "none" BY DEF OffboardingInv, CreatesFresh, Of
<1>2. Of(h) \in Case /\ Of(h).settlement \in Settlement BY <1>1, CaseFields DEF OffboardingInv
<1> QED BY <1>1, <1>2 DEF OffboardingInv, AdmittedStill, ReadStill, SubmittedTotalStands

LEMMA EditOff == ASSUME OffboardingInv, NEW h \in Hands, Edit(h) PROVE OffboardingInv'
<1>1. hand[h].op = "edit" BY DEF Edit, Puts
<1>2. hand[h].on \notin trail.raced => Of(h).status = "in_progress" BY <1>1, KnownOfCase DEF Admits
<1>3. ASSUME NEW due \in BOOLEAN, Puts(h, "edit", [Of(h) EXCEPT !.due = due]) PROVE OffboardingInv'
  <2> DEFINE row == [Of(h) EXCEPT !.due = due]
  <2>1. /\ row \in Case /\ row.status = Of(h).status /\ row.revokedAt = Of(h).revokedAt
        /\ row.settlement = Of(h).settlement
    BY <1>1, KnownOfCase DEF Case
  <2>2. Puts(h, "edit", row) BY <1>3
  <2> HIDE DEF row
  <2> QED BY <1>1, <1>2, <2>1, <2>2, KnownOfCase, PutsOffInv DEF Ops
<1>4. ASSUME NEW status \in {"in_progress", "cancelled"}, Puts(h, "edit", [Of(h) EXCEPT !.status = status]) PROVE OffboardingInv'
  <2> DEFINE row == [Of(h) EXCEPT !.status = status]
  <2>1. /\ row \in Case /\ row.status = status /\ row.revokedAt = Of(h).revokedAt
        /\ row.settlement = Of(h).settlement
    BY <1>1, KnownOfCase DEF Case
  <2>2. Puts(h, "edit", row) BY <1>4
  <2> HIDE DEF row
  <2> QED BY <1>1, <1>2, <2>1, <2>2, KnownOfCase, PutsOffInv DEF Ops
<1> QED BY <1>3, <1>4 DEF Edit

LEMMA SetTaskOff == ASSUME OffboardingInv, NEW h \in Hands, SetTask(h) PROVE OffboardingInv'
<1>1. PICK now \in {"pending", "done"} : Puts(h, "task", [Of(h) EXCEPT !.task = now]) BY DEF SetTask
<1>2. hand[h].op = "task" BY <1>1 DEF Puts
<1>3. hand[h].on \notin trail.raced => Of(h).status = "in_progress" BY <1>2, KnownOfCase DEF Admits
<1> DEFINE row == [Of(h) EXCEPT !.task = now]
<1>4. /\ row \in Case /\ row.status = Of(h).status /\ row.revokedAt = Of(h).revokedAt /\ row.settlement = Of(h).settlement
  BY <1>2, KnownOfCase DEF Case
<1>5. Puts(h, "task", row) BY <1>1
<1> HIDE DEF row
<1> QED BY <1>2, <1>3, <1>4, <1>5, KnownOfCase, PutsOffInv DEF Ops

LEMMA SetAssetOff == ASSUME OffboardingInv, NEW h \in Hands, SetAsset(h) PROVE OffboardingInv'
<1>1. PICK asset \in {"outstanding", "resolved"} : Puts(h, "asset", [Of(h) EXCEPT !.asset = asset]) BY DEF SetAsset
<1>2. hand[h].op = "asset" BY <1>1 DEF Puts
<1>3. hand[h].on \notin trail.raced => Of(h).status \in {"in_progress", "access_revoked"}
  BY <1>2, KnownOfCase DEF Admits, OpenCases
<1> DEFINE row == [Of(h) EXCEPT !.asset = asset]
<1>4. /\ row \in Case /\ row.status = Of(h).status /\ row.revokedAt = Of(h).revokedAt /\ row.settlement = Of(h).settlement
  BY <1>2, KnownOfCase DEF Case
<1>5. Puts(h, "asset", row) BY <1>1
<1> HIDE DEF row
<1> QED BY <1>2, <1>3, <1>4, <1>5, KnownOfCase, PutsOffInv DEF Ops

LEMMA CompleteCaseOff == ASSUME OffboardingInv, NEW h \in Hands, CompleteCase(h) PROVE OffboardingInv'
<1>1. hand[h].op = "complete" BY DEF CompleteCase, Puts
<1>2. hand[h].on \notin trail.raced => /\ Of(h).task # "pending" /\ Of(h).asset # "outstanding"
                                       /\ Of(h).settlement.status \in {"locked", "waived"}
  BY <1>1, KnownOfCase DEF Admits, MayComplete
<1> DEFINE row == [Of(h) EXCEPT !.status = "completed"]
<1>3. /\ row \in Case /\ row.status = "completed" /\ row.revokedAt = Of(h).revokedAt
      /\ row.settlement = Of(h).settlement /\ row.task = Of(h).task /\ row.asset = Of(h).asset
  BY <1>1, KnownOfCase DEF Case
<1>4. Puts(h, "complete", row) BY DEF CompleteCase
<1> HIDE DEF row
<1> QED BY <1>1, <1>2, <1>3, <1>4, KnownOfCase, PutsOffInv DEF Ops

LEMMA StoresOff ==
  ASSUME OffboardingInv, NEW h \in Hands, NEW op \in {"save", "waive"}, NEW status, status = (IF op = "save" THEN "draft" ELSE "waived"),
         NEW total \in Amounts, NEW by \in Hr, Stores(h, op, status, total, by)
  PROVE  OffboardingInv'
<1> DEFINE old == Of(h).settlement
           new == IF hand[h].had THEN [old EXCEPT !.status = IF op = "waive" THEN status ELSE @,
                                                  !.total = IF op = "save" THEN total ELSE @]
                  ELSE IF old.status = "none" THEN [status |-> status, total |-> total, by |-> by] ELSE old
           row == [Of(h) EXCEPT !.settlement = new]
<1>1. Puts(h, op, row) BY DEF Stores
<1>2. hand[h].op = op BY <1>1 DEF Puts
<1>3. new \in Settlement BY <1>2, KnownOfCase DEF Settlement
<1>4. ASSUME hand[h].on \notin trail.raced
      PROVE  /\ Of(h).status \in {"in_progress", "access_revoked"}
             /\ new.status \notin {"submitted", "approved", "locked"}
  <2>1. /\ Of(h).status \in {"in_progress", "access_revoked"} /\ old.status \in {"none", "draft"}
        /\ hand[h].had <=> old.status # "none"
    BY <1>2, <1>4, KnownOfCase DEF Admits, OpenCases, MayChange
  <2>2. old \in Settlement BY <1>2, KnownOfCase
  <2> QED BY <2>1, <2>2 DEF Settlement
<1> HIDE DEF new
<1>5. /\ row \in Case /\ row.status = Of(h).status /\ row.revokedAt = Of(h).revokedAt /\ row.settlement = new
  BY <1>2, <1>3, KnownOfCase DEF Case
<1> HIDE DEF row
<1> QED BY <1>1, <1>2, <1>4, <1>5, KnownOfCase, PutsOffInv DEF Ops

LEMMA SaveSettlementOff == ASSUME OffboardingInv, NEW h \in Hands, SaveSettlement(h) PROVE OffboardingInv'
<1>1. PICK total \in Amounts, by \in Hr : Stores(h, "save", "draft", total, by) BY DEF SaveSettlement
<1> QED BY <1>1, StoresOff

LEMMA WaiveSettlementOff == ASSUME OffboardingInv, NEW h \in Hands, WaiveSettlement(h) PROVE OffboardingInv'
  BY StoresOff, AnAmountIn DEF WaiveSettlement

\* The hands stay as they are, and so do the cases they work on unless raced.
LEMMA HandsStay ==
  ASSUME OffboardingInv, UNCHANGED hand, trail.raced \subseteq trail'.raced,
         NEW x \in Cases, ocase[x].status # "none", ocase'[x].status # "none",
         \A y \in Cases \ {x} : ocase'[y] = ocase[y],
         \A h \in Hands : hand[h].on = x /\ x \notin trail'.raced => ReadStill(h)'
  PROVE  CreatesFresh' /\ AdmittedStill'
<1> USE DEF OffboardingInv
<1>1. CreatesFresh' BY DEF CreatesFresh
<1>2. AdmittedStill'
  <2> SUFFICES ASSUME NEW g \in Hands, hand[g].op \notin {"none", "create"}, hand[g].on \notin trail'.raced, hand[g].on # x
               PROVE  ReadStill(g)'
    BY DEF AdmittedStill, ReadStill
  <2>1. PICK op, y : op = hand[g].op /\ y = hand[g].on OBVIOUS
  <2>2. Admits(op, y) /\ (hand[g].had <=> ocase[y].settlement.status # "none") BY <2>1 DEF AdmittedStill, ReadStill
  <2>3. op \in Ops \ {"create"} /\ y \in Cases /\ ocase'[y] = ocase[y] BY <2>1, HandFields DEF CreatesFresh
  <2>4. Admits(op, y)' BY <2>2, <2>3 DEF Admits, Ops, OpenCases, MayChange, MayComplete
  <2> QED BY <2>1, <2>2, <2>3, <2>4 DEF ReadStill
<1> QED BY <1>1, <1>2

LEMMA MovesEffect ==
  ASSUME OffboardingInv, NEW x \in Cases,
         NEW from \in {"draft", "submitted", "approved"}, NEW to \in {"submitted", "approved", "locked"}, Moves(x, from, to)
  PROVE  /\ ocase' \in [Cases -> Case] /\ UNCHANGED <<employee, revoker, hand>>
         /\ \A y \in Cases \ {x} : ocase'[y] = ocase[y]
         /\ ocase[x].settlement.status = from /\ ocase'[x].settlement.status = to
         /\ ocase'[x].settlement.total = ocase[x].settlement.total
         /\ ocase'[x].status = ocase[x].status /\ ocase'[x].revokedAt = ocase[x].revokedAt
         /\ ocase'[x].task = ocase[x].task /\ ocase'[x].asset = ocase[x].asset
         /\ OpenCases' = OpenCases
         /\ ocase[x].status # "completed" \/ x \in trail.raced
<1> DEFINE s == [ocase[x].settlement EXCEPT !.status = to]
           row == [ocase[x] EXCEPT !.settlement = s]
<1>0. OffboardingTypeOK BY DEF OffboardingInv
<1>1. ocase' = [ocase EXCEPT ![x] = row] /\ ocase[x].settlement.status = from /\ UNCHANGED <<employee, revoker, hand>>
  BY DEF Moves
<1>2. s \in Settlement /\ s.status = to /\ s.total = ocase[x].settlement.total BY <1>0, CaseFields DEF Settlement
<1> HIDE DEF s
<1>3. row \in Case /\ row.settlement = s /\ row.status = ocase[x].status /\ row.revokedAt = ocase[x].revokedAt
      /\ row.task = ocase[x].task /\ row.asset = ocase[x].asset
  BY <1>0, <1>2, CaseFields DEF Case
<1> HIDE DEF row
<1>4. ocase' \in [Cases -> Case] /\ ocase'[x] = row /\ \A y \in Cases \ {x} : ocase'[y] = ocase[y]
  BY <1>0, <1>1, <1>3 DEF OffboardingTypeOK
<1>5. OpenCases' = OpenCases BY <1>3, <1>4 DEF OpenCases
<1>6. ocase[x].status # "completed" \/ x \in trail.raced BY <1>1 DEF OffboardingInv, CompletedIsSettled
<1> QED BY <1>1, <1>2, <1>3, <1>4, <1>5, <1>6

\* The rest of the invariant after a move of the settlement of x.
LEMMA MovesKeep ==
  ASSUME OffboardingInv, NEW x \in Cases,
         NEW from \in {"draft", "submitted", "approved"}, NEW to \in {"submitted", "approved", "locked"}, Moves(x, from, to),
         trail' \in [creates : BOOLEAN, raced : SUBSET Cases, agreed : [Cases -> Amounts],
                     returned : BOOLEAN, slipped : BOOLEAN, crashes : 0 .. MaxOffCrashes],
         trail'.creates = trail.creates, trail'.returned = trail.returned, trail'.slipped = trail.slipped, trail.raced \subseteq trail'.raced,
         \A y \in Cases \ {x} : trail'.agreed[y] = trail.agreed[y],
         trail'.agreed[x] = ocase[x].settlement.total \/ (from # "draft" /\ trail'.agreed[x] = trail.agreed[x]),
         from = "draft" => Handling(x) = {} \/ x \in trail'.raced
  PROVE  OffboardingInv'
<1> USE DEF OffboardingInv
<1>1. OffboardingTypeOK' BY MovesEffect DEF OffboardingTypeOK
<1>2. CASE ocase[x].status = "none"
  <2>1. \A h \in Hands : hand[h].op \notin {"none", "create"} => hand[h].on # x BY <1>2 DEF CreatesFresh
  <2>2. CreatesFresh' BY <1>2, MovesEffect DEF CreatesFresh
  <2>3. AdmittedStill'
    <3> SUFFICES ASSUME NEW g \in Hands, hand[g].op \notin {"none", "create"}, hand[g].on \notin trail'.raced PROVE ReadStill(g)'
      BY MovesEffect DEF AdmittedStill, ReadStill
    <3>1. PICK op, y : op = hand[g].op /\ y = hand[g].on OBVIOUS
    <3>2. Admits(op, y) /\ (hand[g].had <=> ocase[y].settlement.status # "none") BY <3>1 DEF AdmittedStill, ReadStill
    <3>3. op \in Ops \ {"create"} /\ y \in Cases /\ ocase'[y] = ocase[y] BY <2>1, <3>1, HandFields, MovesEffect DEF CreatesFresh
    <3>4. Admits(op, y)' BY <3>2, <3>3 DEF Admits, Ops, OpenCases, MayChange, MayComplete
    <3> QED BY <3>1, <3>2, <3>3, <3>4, MovesEffect DEF ReadStill
  <2> QED BY <2>2, <2>3, <1>1, MovesEffect DEF CreatesAlone, OpenUnique, SubmittedTotalStands, CompletedIsSettled, ShutOut, RevokerKnows
<1>3. CASE ocase[x].status # "none"
  <2>1. ASSUME NEW h \in Hands, hand[h].on = x, x \notin trail'.raced PROVE ReadStill(h)'
    <3>1. CASE hand[h].op \in {"none", "create"} BY <3>1, MovesEffect DEF ReadStill
    <3>2. CASE hand[h].op \notin {"none", "create"}
      <4>1. PICK op : op = hand[h].op OBVIOUS
      <4>2. Admits(op, x) /\ (hand[h].had <=> ocase[x].settlement.status # "none") BY <2>1, <3>2, <4>1 DEF AdmittedStill, ReadStill
      <4>3. from # "draft" /\ op \in Ops \ {"create"} BY <2>1, <3>2, <4>1, HandFields DEF Handling
      <4>a. ocase[x].settlement.status \in {"submitted", "approved"} BY <4>3, MovesEffect
      <4>b. ocase'[x].status = ocase[x].status /\ (x \in OpenCases' <=> x \in OpenCases) BY MovesEffect
      <4>4. op \in {"edit", "task", "asset"} BY <4>2, <4>3, <4>a DEF Admits, Ops, MayChange, MayComplete
      <4>5. ASSUME op = "asset" PROVE Admits(op, x)' BY <4>2, <4>5, <4>b DEF Admits
      <4>6. ASSUME op \in {"edit", "task"} PROVE Admits(op, x)' BY <4>2, <4>6, <4>b DEF Admits
      <4>7. Admits(op, x)' BY <4>4, <4>5, <4>6
      <4> QED BY <2>1, <4>1, <4>2, <4>3, <4>7, MovesEffect DEF ReadStill
    <3> QED BY <3>1, <3>2
  <2>2. CreatesFresh' /\ AdmittedStill' BY <1>3, <2>1, MovesEffect, HandsStay
  <2> QED BY <2>2, <1>1, MovesEffect DEF CreatesAlone, OpenUnique, SubmittedTotalStands, CompletedIsSettled, ShutOut, RevokerKnows
<1> QED BY <1>2, <1>3

LEMMA SubmitOff == ASSUME OffboardingInv, NEW x \in Cases, Submit(x) PROVE OffboardingInv'
<1> DEFINE raced == IF Handling(x) = {} THEN trail.raced ELSE trail.raced \cup {x}
           total == ocase[x].settlement.total
<1>0. OffboardingTypeOK BY DEF OffboardingInv
<1>1. Moves(x, "draft", "submitted") BY DEF Submit
<1>2. raced \subseteq Cases /\ trail.raced \subseteq raced /\ (Handling(x) = {} \/ x \in raced) /\ total \in Amounts
  BY <1>0, TrailFields, CaseFields
<1>3. trail' = [trail EXCEPT !.agreed[x] = total, !.raced = raced] BY <1>0 DEF Submit, OffboardingTypeOK
<1> HIDE DEF raced, total
<1>4. /\ trail' \in [creates : BOOLEAN, raced : SUBSET Cases, agreed : [Cases -> Amounts],
                     returned : BOOLEAN, slipped : BOOLEAN, crashes : 0 .. MaxOffCrashes]
      /\ trail'.creates = trail.creates /\ trail'.returned = trail.returned /\ trail'.slipped = trail.slipped
      /\ trail'.raced = raced
      /\ trail'.agreed = [trail.agreed EXCEPT ![x] = total]
  BY <1>0, <1>2, <1>3 DEF OffboardingTypeOK
<1>5. trail'.agreed[x] = total /\ \A y \in Cases \ {x} : trail'.agreed[y] = trail.agreed[y]
  BY <1>0, <1>4, TrailFields
<1> QED BY <1>1, <1>2, <1>4, <1>5, MovesKeep DEF total

LEMMA ApproveOff == ASSUME OffboardingInv, NEW x \in Cases, NEW by \in Hr, Approve(x, by) PROVE OffboardingInv'
<1>1. Moves(x, "submitted", "approved") /\ UNCHANGED trail BY DEF Approve
<1>2. /\ trail' \in [creates : BOOLEAN, raced : SUBSET Cases, agreed : [Cases -> Amounts],
                     returned : BOOLEAN, slipped : BOOLEAN, crashes : 0 .. MaxOffCrashes]
      /\ trail' = trail
  BY <1>1 DEF OffboardingInv, OffboardingTypeOK
<1> QED BY <1>1, <1>2, MovesKeep

LEMMA LockOff == ASSUME OffboardingInv, NEW x \in Cases, Lock(x) PROVE OffboardingInv'
<1>1. Moves(x, "approved", "locked") /\ UNCHANGED trail BY DEF Lock
<1>2. /\ trail' \in [creates : BOOLEAN, raced : SUBSET Cases, agreed : [Cases -> Amounts],
                     returned : BOOLEAN, slipped : BOOLEAN, crashes : 0 .. MaxOffCrashes]
      /\ trail' = trail
  BY <1>1 DEF OffboardingInv, OffboardingTypeOK
<1> QED BY <1>1, <1>2, MovesKeep

\* A request begins: the others are as they were.
LEMMA HandBegins ==
  ASSUME OffboardingInv, UNCHANGED <<ocase, employee, revoker>>, NEW h \in Hands, hand[h] = Idle,
         NEW r \in [op : Ops, on : Cases, had : BOOLEAN], hand' = [hand EXCEPT ![h] = r],
         trail' \in [creates : BOOLEAN, raced : SUBSET Cases, agreed : [Cases -> Amounts],
                     returned : BOOLEAN, slipped : BOOLEAN, crashes : 0 .. MaxOffCrashes],
         trail'.raced = trail.raced, trail'.agreed = trail.agreed, trail'.returned = trail.returned,
         trail'.slipped = trail.slipped, trail.creates => trail'.creates
  PROVE  /\ OffboardingTypeOK' /\ OpenUnique' /\ SubmittedTotalStands' /\ CompletedIsSettled' /\ ShutOut' /\ RevokerKnows'
         /\ hand'[h] = r /\ (\A g \in Hands \ {h} : hand'[g] = hand[g]) /\ OpenCases' = OpenCases
         /\ \A g \in Hands \ {h} : ReadStill(g)'
<1> USE DEF OffboardingInv
<1>1. hand'[h] = r /\ (\A g \in Hands \ {h} : hand'[g] = hand[g]) BY DEF OffboardingTypeOK
<1>2. OffboardingTypeOK' BY DEF OffboardingTypeOK
<1>3. OpenCases' = OpenCases BY DEF OpenCases
<1>4. OpenUnique' /\ SubmittedTotalStands' /\ CompletedIsSettled' /\ ShutOut' /\ RevokerKnows'
  BY <1>3 DEF OpenUnique, SubmittedTotalStands, CompletedIsSettled, ShutOut, RevokerKnows
<1>5. ASSUME NEW g \in Hands \ {h} PROVE ReadStill(g)'
  <2>1. hand'[g] = hand[g] BY <1>1
  <2>2. PICK op, y : op = hand[g].op /\ y = hand[g].on OBVIOUS
  <2>3. op \notin {"none", "create"} /\ y \notin trail.raced =>
          Admits(op, y) /\ (hand[g].had <=> ocase[y].settlement.status # "none") BY <2>2 DEF AdmittedStill, ReadStill
  <2>4. Admits(op, y)' <=> Admits(op, y) BY <1>3 DEF Admits, MayChange, MayComplete
  <2> QED BY <2>1, <2>2, <2>3, <2>4 DEF ReadStill
<1> QED BY <1>1, <1>2, <1>3, <1>4, <1>5

LEMMA CreateReadOff == ASSUME OffboardingInv, NEW h \in Hands, CreateRead(h) PROVE OffboardingInv'
<1> DEFINE x == CHOOSE y \in FreeCases : TRUE
           r == [Idle EXCEPT !.op = "create", !.on = x]
<1>0. OffboardingTypeOK BY DEF OffboardingInv
<1>1. /\ hand[h] = Idle /\ OpenCases = {} /\ UNCHANGED <<ocase, employee, revoker>> /\ hand' = [hand EXCEPT ![h] = r]
      /\ trail' = [trail EXCEPT !.creates = @ \/ \E g \in Hands : hand[g].op = "create"]
  BY DEF CreateRead, NoneOpen
<1>2. x \in Cases /\ ocase[x].status = "none" /\ \A g \in Hands : hand[g].on # x
  <2>1. x \in FreeCases BY DEF CreateRead
  <2> QED BY <2>1 DEF FreeCases, Handling
<1> HIDE DEF x
<1>3. r \in [op : Ops, on : Cases, had : BOOLEAN] /\ r.op = "create" /\ r.on = x BY <1>2 DEF Idle, Ops
<1> HIDE DEF r
<1>4. /\ trail' \in [creates : BOOLEAN, raced : SUBSET Cases, agreed : [Cases -> Amounts],
                     returned : BOOLEAN, slipped : BOOLEAN, crashes : 0 .. MaxOffCrashes]
      /\ trail'.raced = trail.raced /\ trail'.agreed = trail.agreed /\ trail'.returned = trail.returned
      /\ trail'.slipped = trail.slipped /\ trail'.creates = (trail.creates \/ \E g \in Hands : hand[g].op = "create")
  BY <1>0, <1>1 DEF OffboardingTypeOK
<1>5. /\ OffboardingTypeOK' /\ OpenUnique' /\ SubmittedTotalStands' /\ CompletedIsSettled' /\ ShutOut' /\ RevokerKnows'
      /\ hand'[h] = r /\ (\A g \in Hands \ {h} : hand'[g] = hand[g]) /\ OpenCases' = OpenCases
      /\ \A g \in Hands \ {h} : ReadStill(g)'
  BY <1>1, <1>3, <1>4, HandBegins
<1>6. CreatesFresh' BY <1>1, <1>2, <1>3, <1>5 DEF OffboardingInv, CreatesFresh
<1>7. AdmittedStill'
  <2>1. ReadStill(h)' BY <1>3, <1>5 DEF ReadStill
  <2> QED BY <2>1, <1>5 DEF AdmittedStill
<1>8. CreatesAlone' BY <1>1, <1>3, <1>4, <1>5 DEF CreatesAlone
<1> QED BY <1>5, <1>6, <1>7, <1>8 DEF OffboardingInv

LEMMA HandReadOff ==
  ASSUME OffboardingInv, NEW h \in Hands, NEW op \in Ops, NEW x \in Cases, HandRead(h, op, x) PROVE OffboardingInv'
<1> DEFINE r == [op |-> op, on |-> x, had |-> ocase[x].settlement.status # "none"]
<1>0. OffboardingTypeOK BY DEF OffboardingInv
<1>1. /\ hand[h] = Idle /\ ocase[x].status # "none" /\ op # "create" /\ Admits(op, x)
      /\ UNCHANGED <<ocase, employee, revoker, trail>> /\ hand' = [hand EXCEPT ![h] = r]
  BY DEF HandRead
<1>2. /\ r \in [op : Ops, on : Cases, had : BOOLEAN] /\ r.op = op /\ r.on = x
      /\ r.had <=> ocase[x].settlement.status # "none" OBVIOUS
<1> HIDE DEF r
<1>3. trail' \in [creates : BOOLEAN, raced : SUBSET Cases, agreed : [Cases -> Amounts],
                  returned : BOOLEAN, slipped : BOOLEAN, crashes : 0 .. MaxOffCrashes]
      /\ trail' = trail
  BY <1>0, <1>1 DEF OffboardingTypeOK
<1>4. /\ OffboardingTypeOK' /\ OpenUnique' /\ SubmittedTotalStands' /\ CompletedIsSettled' /\ ShutOut' /\ RevokerKnows'
      /\ hand'[h] = r /\ (\A g \in Hands \ {h} : hand'[g] = hand[g]) /\ OpenCases' = OpenCases
      /\ \A g \in Hands \ {h} : ReadStill(g)'
  BY <1>1, <1>2, <1>3, HandBegins
<1>5. CreatesFresh'
  <2>1. \A g \in Hands \ {h} : hand[g].op = "create" => hand[g].on # x BY <1>1 DEF OffboardingInv, CreatesFresh
  <2> QED BY <1>1, <1>2, <1>4, <2>1 DEF OffboardingInv, CreatesFresh, Ops
<1>6. AdmittedStill'
  <2>1. Admits(op, x)' BY <1>1, <1>4 DEF Admits, MayChange, MayComplete
  <2>2. ReadStill(h)' BY <1>1, <1>2, <1>4, <2>1 DEF ReadStill
  <2> QED BY <2>2, <1>4 DEF AdmittedStill
<1>7. CreatesAlone'
  <2>1. \A g \in Hands : hand'[g].op = "create" => g # h /\ hand[g].op = "create" BY <1>1, <1>2, <1>4
  <2> QED BY <1>1, <1>4, <2>1 DEF OffboardingInv, CreatesAlone
<1> QED BY <1>4, <1>5, <1>6, <1>7 DEF OffboardingInv

LEMMA CreateWriteOff ==
  ASSUME OffboardingInv, NEW h \in Hands, NEW with, CreateWrite(h, with) PROVE OffboardingInv'
<1> USE DEF OffboardingInv
<1> DEFINE x == hand[h].on
<1>1. PICK due \in BOOLEAN : ocase' = [ocase EXCEPT ![x] = NewCase(due, with)] BY DEF CreateWrite
<1>2. hand[h].op = "create" /\ hand' = [hand EXCEPT ![h] = Idle] /\ UNCHANGED <<employee, revoker, trail>> BY DEF CreateWrite
<1>3. x \in Cases /\ ocase[x].status = "none" /\ \A g \in Hands \ {h} : hand[g].on # x BY <1>2 DEF CreatesFresh
<1>4. PICK row : row = NewCase(due, with) OBVIOUS
<1>5. /\ row \in Case /\ row.status = "in_progress" /\ ~row.revokedAt /\ row.settlement.status = "none"
  BY <1>4, AnAmountIn DEF NewCase, EmptyCase, Case, Settlement
<1>6. ocase'[x] = row /\ (\A y \in Cases \ {x} : ocase'[y] = ocase[y]) /\ ocase' \in [Cases -> Case]
  BY <1>1, <1>3, <1>4, <1>5 DEF OffboardingTypeOK
<1>7. OffboardingTypeOK' BY <1>2, <1>6, IdleType DEF OffboardingTypeOK
<1>8. hand'[h] = Idle /\ \A g \in Hands \ {h} : hand'[g] = hand[g] BY <1>2 DEF OffboardingTypeOK
<1> HIDE DEF x
<1>9. CreatesFresh' /\ AdmittedStill'
  <2>1. ASSUME NEW g \in Hands \ {h}, hand[g].op # "none" PROVE ocase'[hand[g].on] = ocase[hand[g].on]
    BY <2>1, <1>3, <1>6, HandFields DEF CreatesFresh
  <2> QED BY <1>2, <1>7, <2>1, HandLeaves
<1>10. OpenCases' = OpenCases \cup {x} BY <1>3, <1>5, <1>6 DEF OpenCases
<1>11. ASSUME ~trail.creates, trail.raced = {} PROVE OpenCases = {} /\ \A g \in Hands \ {h} : hand[g].op # "create"
  BY <1>2, <1>11 DEF CreatesAlone
<1>12. OpenUnique' BY <1>2, <1>10, <1>11 DEF OpenUnique
<1>13. CreatesAlone' BY <1>2, <1>8, <1>11, IdleType DEF CreatesAlone
<1>14. SubmittedTotalStands' BY <1>2, <1>5, <1>6 DEF SubmittedTotalStands
<1>15. CompletedIsSettled' BY <1>2, <1>5, <1>6 DEF CompletedIsSettled
<1>16. ShutOut' /\ RevokerKnows' BY <1>2, <1>5, <1>6 DEF ShutOut, RevokerKnows
<1> QED BY <1>7, <1>9, <1>12, <1>13, <1>14, <1>15, <1>16

\* Steps of the employee and of the job that leave cases and requests alone.
LEMMA OthersStay ==
  ASSUME OffboardingInv, UNCHANGED <<ocase, hand>>, trail'.raced = trail.raced, trail'.creates = trail.creates,
         trail'.agreed = trail.agreed
  PROVE  CreatesFresh' /\ AdmittedStill' /\ CreatesAlone' /\ OpenUnique' /\ SubmittedTotalStands' /\ CompletedIsSettled'
<1> USE DEF OffboardingInv
<1>1. OpenCases' = OpenCases BY DEF OpenCases
<1>2. CreatesFresh' /\ CreatesAlone' /\ OpenUnique' /\ SubmittedTotalStands' /\ CompletedIsSettled'
  BY <1>1 DEF CreatesFresh, CreatesAlone, OpenUnique, SubmittedTotalStands, CompletedIsSettled
<1>3. AdmittedStill' BY <1>1 DEF AdmittedStill, ReadStill, Admits, MayChange, MayComplete
<1> QED BY <1>2, <1>3

LEMMA LoginBeginsOff == ASSUME OffboardingInv, LoginBegins PROVE OffboardingInv'
<1> USE DEF OffboardingInv
<1>1. /\ employee' = [employee EXCEPT !.entering = TRUE] /\ UNCHANGED <<ocase, revoker, hand, trail>>
      /\ employee'.active = employee.active /\ employee'.session = employee.session
  BY DEF LoginBegins, OffboardingTypeOK
<1>2. OffboardingTypeOK' BY <1>1 DEF OffboardingTypeOK
<1>3. ShutOut' /\ RevokerKnows' BY <1>1 DEF ShutOut, RevokerKnows
<1> QED BY <1>1, <1>2, <1>3, OthersStay

\* A session that opens while the account is closed is noted.
LEMMA SessionOpens ==
  ASSUME OffboardingInv, NEW b \in BOOLEAN, employee' = [employee EXCEPT !.session = TRUE, !.entering = b],
         trail' = [trail EXCEPT !.slipped = @ \/ ~employee.active], UNCHANGED <<ocase, revoker, hand>>
  PROVE  OffboardingInv'
<1> USE DEF OffboardingInv
<1>1. PICK c \in BOOLEAN : c = (trail.slipped \/ ~employee.active) BY TrailFields
<1>2. trail' = [trail EXCEPT !.slipped = c] BY <1>1
<1>3. /\ trail'.raced = trail.raced /\ trail'.creates = trail.creates /\ trail'.agreed = trail.agreed
      /\ trail'.returned = trail.returned /\ trail'.slipped = c /\ employee'.active = employee.active
      /\ OffboardingTypeOK'
  BY <1>2 DEF OffboardingTypeOK
<1>4. ShutOut' /\ RevokerKnows'
  <2>1. CASE employee.active BY <1>3, <2>1 DEF ShutOut, RevokerKnows
  <2>2. CASE ~employee.active BY <1>1, <1>3, <2>2 DEF ShutOut, RevokerKnows
  <2> QED BY <2>1, <2>2
<1> HIDE DEF OffboardingInv
<1>5. CreatesFresh' /\ AdmittedStill' /\ CreatesAlone' /\ OpenUnique' /\ SubmittedTotalStands' /\ CompletedIsSettled'
  BY <1>3, OthersStay
<1> QED BY <1>3, <1>4, <1>5 DEF OffboardingInv

LEMMA LoginOpensOff == ASSUME OffboardingInv, LoginOpens PROVE OffboardingInv'
  BY SessionOpens DEF LoginOpens

LEMMA SetupAccountOff == ASSUME OffboardingInv, SetupAccount PROVE OffboardingInv'
<1>1. PICK b \in BOOLEAN : b = employee.entering BY TrailFields DEF OffboardingInv
<1>2. employee' = [employee EXCEPT !.session = TRUE, !.entering = b] BY <1>1 DEF SetupAccount, OffboardingInv, OffboardingTypeOK
<1> QED BY <1>2, SessionOpens DEF SetupAccount

LEMMA ReactivateOff == ASSUME OffboardingInv, Reactivate PROVE OffboardingInv'
<1> USE DEF OffboardingInv
<1>1. /\ employee' = [employee EXCEPT !.active = TRUE] /\ UNCHANGED <<ocase, revoker, hand>>
      /\ trail' = [trail EXCEPT !.returned = TRUE]
  BY DEF Reactivate
<1>2. /\ trail'.returned /\ trail'.raced = trail.raced /\ trail'.creates = trail.creates /\ trail'.agreed = trail.agreed
      /\ OffboardingTypeOK'
  BY <1>1 DEF OffboardingTypeOK
<1>3. ShutOut' /\ RevokerKnows' BY <1>1, <1>2 DEF ShutOut, RevokerKnows
<1> QED BY <1>1, <1>2, <1>3, OthersStay

LEMMA RevokerReadOff == ASSUME OffboardingInv, RevokerRead PROVE OffboardingInv'
<1> USE DEF OffboardingInv
<1>1. /\ revoker' = [revoker EXCEPT !.todo = DueCases, !.step = "claim"] /\ UNCHANGED <<ocase, employee, hand, trail>>
  BY DEF RevokerRead
<1>2. DueCases \subseteq Cases BY DEF DueCases, OpenCases
<1>3. OffboardingTypeOK' /\ revoker'.step = "claim" BY <1>1, <1>2 DEF OffboardingTypeOK
<1>4. ShutOut' /\ RevokerKnows' BY <1>1, <1>3 DEF ShutOut, RevokerKnows
<1> QED BY <1>1, <1>3, <1>4, OthersStay

LEMMA RevokerClaimOff == ASSUME OffboardingInv, NEW x \in Cases, RevokerClaim(x) PROVE OffboardingInv'
<1> USE DEF OffboardingInv
<1>1. CASE x \in OpenCases /\ ~ocase[x].revokedAt
  <2> DEFINE row == [ocase[x] EXCEPT !.status = "access_revoked"]
             raced == IF Handling(x) = {} THEN trail.raced ELSE trail.raced \cup {x}
  <2>1. /\ ocase' = [ocase EXCEPT ![x] = row] /\ employee' = [employee EXCEPT !.active = FALSE]
        /\ revoker' = [revoker EXCEPT !.on = x, !.step = "revoke"] /\ UNCHANGED hand
        /\ trail' = [trail EXCEPT !.raced = raced]
    BY <1>1 DEF RevokerClaim, Deactivated, OffboardingTypeOK
  <2>2. /\ row \in Case /\ row.status = "access_revoked" /\ row.revokedAt = ocase[x].revokedAt /\ row.settlement = ocase[x].settlement
    BY CaseFields DEF Case
  <2> HIDE DEF row
  <2>3. raced \subseteq Cases /\ trail.raced \subseteq raced /\ (Handling(x) = {} \/ x \in raced) BY TrailFields
  <2> HIDE DEF raced
  <2>4. ocase'[x] = row /\ (\A y \in Cases \ {x} : ocase'[y] = ocase[y]) BY <2>1, <2>2 DEF OffboardingTypeOK
  <2>5. OffboardingTypeOK' BY <2>1, <2>2, <2>3 DEF OffboardingTypeOK
  <2>6. /\ trail'.raced = raced /\ trail'.creates = trail.creates /\ trail'.agreed = trail.agreed
        /\ trail'.returned = trail.returned /\ trail'.slipped = trail.slipped
        /\ ~employee'.active /\ employee'.session = employee.session
        /\ revoker'.step = "revoke" /\ revoker'.on = x
    BY <2>1 DEF OffboardingTypeOK
  <2>7. OpenCases' = OpenCases BY <1>1, <2>2, <2>4 DEF OpenCases
  <2>8. CreatesFresh' /\ AdmittedStill'
    <3>1. \A h \in Hands : hand[h].on = x => x \in trail'.raced BY <2>3, <2>6 DEF Handling
    <3>2. ocase[x].status # "none" /\ ocase'[x].status # "none" BY <1>1, <2>2, <2>4 DEF OpenCases
    <3> QED BY <3>1, <3>2, <2>1, <2>3, <2>4, <2>6, HandsStay
  <2>9. CreatesAlone' /\ OpenUnique'
    <3>1. trail'.raced = {} => trail.raced = {} BY <2>3, <2>6
    <3> QED BY <3>1, <2>1, <2>6, <2>7 DEF CreatesAlone, OpenUnique
  <2>10. SubmittedTotalStands' BY <2>2, <2>3, <2>4, <2>6 DEF SubmittedTotalStands
  <2>11. CompletedIsSettled' BY <2>2, <2>3, <2>4, <2>6 DEF CompletedIsSettled
  <2>12. ShutOut' BY <1>1, <2>2, <2>4, <2>6 DEF ShutOut
  <2>13. RevokerKnows' BY <2>6 DEF RevokerKnows
  <2> QED BY <2>5, <2>8, <2>9, <2>10, <2>11, <2>12, <2>13
<1>2. CASE ~(x \in OpenCases /\ ~ocase[x].revokedAt)
  <2>1. /\ UNCHANGED <<ocase, employee, trail, hand>> /\ revoker.step = "claim"
        /\ revoker' \in {Sleeping, [revoker EXCEPT !.todo = @ \ {x}]}
    BY <1>2 DEF RevokerClaim
  <2>2. revoker'.step \in {"read", "claim"} BY <2>1, SleepingType DEF OffboardingTypeOK
  <2>3. OffboardingTypeOK' BY <2>1, SleepingType DEF OffboardingTypeOK
  <2>4. ShutOut' /\ RevokerKnows' BY <2>1, <2>2 DEF ShutOut, RevokerKnows
  <2> QED BY <2>1, <2>3, <2>4, OthersStay
<1> QED BY <1>1, <1>2

LEMMA RevokerRevokeOff == ASSUME OffboardingInv, RevokerRevoke PROVE OffboardingInv'
<1> USE DEF OffboardingInv
<1>1. /\ revoker.step = "revoke" /\ employee' = [employee EXCEPT !.session = FALSE]
      /\ revoker' = [revoker EXCEPT !.step = "stamp"] /\ UNCHANGED <<ocase, hand>>
      /\ trail' = [trail EXCEPT !.slipped = FALSE]
  BY DEF RevokerRevoke
<1>2. /\ trail'.raced = trail.raced /\ trail'.creates = trail.creates /\ trail'.agreed = trail.agreed
      /\ trail'.returned = trail.returned
      /\ employee'.active = employee.active /\ ~employee'.session /\ revoker'.step = "stamp" /\ revoker'.on = revoker.on
      /\ OffboardingTypeOK'
  BY <1>1 DEF OffboardingTypeOK
<1>3. ShutOut' /\ RevokerKnows' BY <1>1, <1>2 DEF ShutOut, RevokerKnows
<1> QED BY <1>1, <1>2, <1>3, OthersStay

LEMMA RevokerStampOff == ASSUME OffboardingInv, RevokerStamp PROVE OffboardingInv'
<1> USE DEF OffboardingInv
<1>1. PICK x : x = revoker.on OBVIOUS
<1> DEFINE row == [ocase[x] EXCEPT !.revokedAt = @ \/ ocase[x].status = "access_revoked"]
<1>2. /\ revoker.step = "stamp" /\ ocase' = [ocase EXCEPT ![x] = row] /\ UNCHANGED <<employee, hand, trail>>
      /\ revoker' \in {Sleeping, [revoker EXCEPT !.todo = @ \ {x}, !.on = NoCase, !.step = "claim"]}
  BY <1>1 DEF RevokerStamp, OffboardingTypeOK
<1>3. x \in Cases BY <1>1, <1>2 DEF RevokerKnows
<1>4. /\ row \in Case /\ row.status = ocase[x].status /\ row.settlement = ocase[x].settlement
      /\ row.task = ocase[x].task /\ row.asset = ocase[x].asset
  BY <1>3, CaseFields DEF Case
<1> HIDE DEF row
<1>5. ocase'[x] = row /\ \A y \in Cases \ {x} : ocase'[y] = ocase[y] BY <1>2, <1>3 DEF OffboardingTypeOK
<1>6. OffboardingTypeOK' /\ revoker'.step \in {"read", "claim"}
  <2>1. /\ revoker' \in [step : {"read", "claim", "revoke", "stamp"}, todo : SUBSET Cases, on : Cases \cup {NoCase}]
        /\ revoker'.step \in {"read", "claim"}
    <3>1. CASE revoker' = Sleeping BY <3>1, SleepingType
    <3>2. CASE revoker' # Sleeping
      <4> DEFINE r == [revoker EXCEPT !.todo = @ \ {x}, !.on = NoCase, !.step = "claim"]
      <4>1. revoker.todo \ {x} \subseteq Cases BY TrailFields
      <4>2. r \in [step : {"read", "claim", "revoke", "stamp"}, todo : SUBSET Cases, on : Cases \cup {NoCase}] /\ r.step = "claim"
        BY <4>1 DEF OffboardingTypeOK
      <4>3. revoker' = r BY <1>2, <3>2
      <4> HIDE DEF r
      <4> QED BY <4>2, <4>3
    <3> QED BY <3>1, <3>2
  <2> QED BY <1>2, <1>4, <2>1 DEF OffboardingTypeOK
<1>7. /\ OpenCases' = OpenCases
      /\ \A y \in Cases : /\ ocase'[y].status = ocase[y].status /\ ocase'[y].settlement = ocase[y].settlement
                          /\ ocase'[y].task = ocase[y].task /\ ocase'[y].asset = ocase[y].asset
  BY <1>4, <1>5 DEF OpenCases
<1>8. CreatesFresh' BY <1>2, <1>7 DEF CreatesFresh
<1>9. AdmittedStill'
  <2> SUFFICES ASSUME NEW g \in Hands, hand[g].op \notin {"none", "create"}, hand[g].on \notin trail.raced PROVE ReadStill(g)'
    BY <1>2 DEF AdmittedStill, ReadStill
  <2>1. PICK op, y : op = hand[g].op /\ y = hand[g].on OBVIOUS
  <2>2. Admits(op, y) /\ (hand[g].had <=> ocase[y].settlement.status # "none") BY <2>1 DEF AdmittedStill, ReadStill
  <2>3. op \in Ops \ {"create"} /\ y \in Cases BY <2>1, HandFields DEF CreatesFresh
  <2>4. Admits(op, y)' BY <1>7, <2>2, <2>3 DEF Admits, Ops, MayChange, MayComplete
  <2> QED BY <1>2, <1>7, <2>1, <2>2, <2>3, <2>4 DEF ReadStill
<1>10. CreatesAlone' /\ OpenUnique' /\ SubmittedTotalStands' /\ CompletedIsSettled'
  BY <1>2, <1>7 DEF CreatesAlone, OpenUnique, SubmittedTotalStands, CompletedIsSettled
<1>11. ShutOut' BY <1>2, <1>5, <1>6 DEF ShutOut
<1>12. RevokerKnows' BY <1>6 DEF RevokerKnows
<1> QED BY <1>6, <1>8, <1>9, <1>10, <1>11, <1>12

LEMMA OffCrashOff == ASSUME OffboardingInv, OffCrash PROVE OffboardingInv'
<1> USE DEF OffboardingInv
<1>1. /\ trail.crashes < MaxOffCrashes /\ trail' = [trail EXCEPT !.crashes = @ + 1]
      /\ revoker' = Sleeping /\ hand' = [h \in Hands |-> Idle] /\ UNCHANGED ocase
      /\ employee' = [employee EXCEPT !.entering = FALSE]
  BY DEF OffCrash
<1>2. /\ trail'.raced = trail.raced /\ trail'.creates = trail.creates /\ trail'.agreed = trail.agreed
      /\ trail'.returned = trail.returned /\ trail'.slipped = trail.slipped
      /\ employee'.active = employee.active /\ employee'.session = employee.session
  BY <1>1 DEF OffboardingTypeOK
<1>3. OffboardingTypeOK'
  <2>1. trail.crashes + 1 \in 0 .. MaxOffCrashes BY <1>1, TrailFields, OffboardingAssumption
  <2> QED BY <1>1, <2>1, IdleType, SleepingType DEF OffboardingTypeOK
<1>4. \A h \in Hands : hand'[h].op = "none" /\ hand'[h].on = NoCase BY <1>1, IdleType
<1>5. CreatesFresh' /\ AdmittedStill' /\ CreatesAlone' BY <1>4 DEF CreatesFresh, AdmittedStill, ReadStill, CreatesAlone
<1>6. OpenUnique' /\ SubmittedTotalStands' /\ CompletedIsSettled'
  BY <1>1, <1>2 DEF OpenUnique, OpenCases, SubmittedTotalStands, CompletedIsSettled
<1>7. ShutOut' /\ RevokerKnows' BY <1>1, <1>2, SleepingType DEF ShutOut, RevokerKnows
<1> QED BY <1>3, <1>5, <1>6, <1>7

LEMMA OffboardingNextInv == OffboardingInv /\ [OffboardingNext]_offboardingVars => OffboardingInv'
<1> SUFFICES ASSUME OffboardingInv, [OffboardingNext]_offboardingVars PROVE OffboardingInv' OBVIOUS
<1>1. CASE UNCHANGED offboardingVars
  <2>1. UNCHANGED <<ocase, employee, revoker, hand, trail>> BY <1>1 DEF offboardingVars
  <2>2. OffboardingTypeOK' /\ ShutOut' /\ RevokerKnows' BY <2>1 DEF OffboardingInv, OffboardingTypeOK, ShutOut, RevokerKnows
  <2> QED BY <2>1, <2>2, OthersStay DEF OffboardingInv
<1>2. ASSUME CasesNext(Hands, Hands) PROVE OffboardingInv'
  BY <1>2, CreateReadOff, CreateWriteOff, EditOff, HandReadOff, ReactivateOff, OffCrashOff DEF CasesNext, Ops
<1>5. ASSUME SessionsNext PROVE OffboardingInv'
  BY <1>5, LoginBeginsOff, LoginOpensOff, SetupAccountOff DEF SessionsNext
<1>3. ASSUME ChecklistNext PROVE OffboardingInv'
  BY <1>3, HandReadOff, SetTaskOff, SetAssetOff, SaveSettlementOff, WaiveSettlementOff, CompleteCaseOff,
     SubmitOff, ApproveOff, LockOff DEF ChecklistNext
<1>4. ASSUME RevokerNext PROVE OffboardingInv'
  BY <1>4, RevokerReadOff, RevokerClaimOff, RevokerRevokeOff, RevokerStampOff DEF RevokerNext
<1> QED BY <1>1, <1>2, <1>3, <1>4, <1>5, CreateWriteOff DEF OffboardingNext

\* However requests of HR, the job that revokes access, sign-ins and crashes
\* interleave, for any number of cases and requests: a settlement keeps the
\* total it was submitted with, a completed case is settled, an employee whose
\* access is recorded as revoked has no session but one that a log-in from before
\* or an invitation opened since, and no second case is open, each but for the
\* overlaps of reads and writes by id that it names
\* (routes/offboarding.ts, services/offboarding.ts).
THEOREM OffboardingHolds == OffboardingSpec => []OffboardingSafe
<1>1. OffboardingInit => OffboardingInv BY OffboardingInvInit
<1>2. OffboardingInv /\ [OffboardingNext]_offboardingVars => OffboardingInv' BY OffboardingNextInv
<1>3. OffboardingInv => OffboardingSafe BY OffboardingInvImplies
<1> QED BY <1>1, <1>2, <1>3, PTL DEF OffboardingSpec
-----------------------------------------------------------------------------
(* Onboarding *)

OnboardingSpec == OnboardingInit /\ [][OnboardingNext]_onboardingVars

\* Saves that do not overlap: each clears the defaults that are there when it
\* commits.
DefaultUnique == ~known.saves => \A t, u \in LiveDefaults : t = u
SavesAlone ==
  ~known.saves => \A k, j \in Clerks : clerk[k].op = "save" /\ clerk[j].op = "save" => k = j
SavesSeeDefaults ==
  ~known.saves => \A k \in Clerks : clerk[k].op = "save" /\ clerk[k].default => LiveDefaults \ {clerk[k].on} \subseteq clerk[k].saw

\* A template with tasks is not assigned again, and while somebody assigns one
\* alone it has none.
MadeHasTask == \A t \in Templates : known.made[t] # 0 => AlreadyMade(t)
AssignsAlone ==
  \A t \in Templates \ known.assigns : \A k, j \in Clerks :
    /\ k \in Doing("assign", t) /\ j \in Doing("assign", t) => k = j
    /\ k \in Doing("assign", t) => known.made[t] = 0
AssignsTemplate == \A k \in Clerks : clerk[k].op \in {"assign", "default", "save"} => clerk[k].on \in Templates

OnboardingInv ==
  /\ OnboardingTypeOK /\ DefaultUnique /\ SavesAlone /\ SavesSeeDefaults /\ MadeHasTask /\ AssignsAlone /\ AssignsTemplate
  /\ AssignedOnce /\ CompletionAnnounced

LEMMA ClerkFields ==
  ASSUME OnboardingTypeOK, NEW k \in Clerks
  PROVE  /\ clerk[k] \in Clerk /\ clerk[k].op \in {"none", "save", "delete", "default", "assign", "close"}
         /\ clerk[k].on \in Templates \cup {NoTemplate} /\ clerk[k].default \in BOOLEAN /\ clerk[k].saw \in SUBSET Templates
         /\ clerk[k].task \in SUBSET Tasks /\ clerk[k].pending \in SUBSET Tasks /\ clerk[k].closed \in BOOLEAN
<1>1. clerk[k] \in Clerk BY DEF OnboardingTypeOK
<1> QED BY <1>1 DEF Clerk

LEMMA TemplateFields ==
  ASSUME OnboardingTypeOK, NEW t \in Templates
  PROVE  template[t] \in Template /\ template[t].status \in {"none", "live", "deleted"} /\ template[t].default \in BOOLEAN
<1>1. template[t] \in Template BY DEF OnboardingTypeOK
<1> QED BY <1>1 DEF Template

LEMMA TaskFields ==
  ASSUME OnboardingTypeOK, NEW x \in Tasks
  PROVE  task[x] \in Task /\ task[x].status \in {"none", "pending", "closed"} /\ task[x].of \in Templates \cup {NoTemplate}
<1>1. task[x] \in Task BY DEF OnboardingTypeOK
<1> QED BY <1>1 DEF Task

LEMMA KnownFields ==
  ASSUME OnboardingTypeOK
  PROVE  /\ known.saves \in BOOLEAN /\ known.assigns \in SUBSET Templates /\ known.told \in BOOLEAN /\ known.lost \in BOOLEAN
         /\ known.made \in [Templates -> 0 .. MaxAssigned] /\ MaxAssigned \in Nat \ {0}
  BY OnboardingAssumption DEF OnboardingTypeOK

LEMMA NoClerkType ==
  /\ NoClerk \in Clerk /\ NoClerk.op = "none" /\ NoClerk.on = NoTemplate
  BY DEF NoClerk, Clerk

LEMMA OnboardingInvInit == OnboardingInit => OnboardingInv
<1> SUFFICES ASSUME NEW live \in SUBSET Templates, NEW default \in {{}} \cup {{t} : t \in live}, OnboardingFrom(live, default)
             PROVE  OnboardingInv
  BY DEF OnboardingInit
<1>1. /\ template = [t \in Templates |-> [status |-> IF t \in live THEN "live" ELSE "none", default |-> t \in default]]
      /\ task = [x \in Tasks |-> NoTask] /\ clerk = [k \in Clerks |-> NoClerk]
      /\ known = [saves |-> FALSE, assigns |-> {}, made |-> [t \in Templates |-> 0], told |-> FALSE, lost |-> FALSE]
  BY DEF OnboardingFrom
<1>2. \A k \in Clerks : clerk[k] = NoClerk /\ clerk[k].op = "none" BY <1>1, NoClerkType
<1>3. OnboardingTypeOK
  <2>1. template \in [Templates -> Template] BY <1>1 DEF Template
  <2>2. task \in [Tasks -> Task] BY <1>1 DEF Task, NoTask
  <2>3. clerk \in [Clerks -> Clerk] BY <1>1, NoClerkType
  <2>4. 0 \in 0 .. MaxAssigned BY OnboardingAssumption
  <2>5. [t \in Templates |-> 0] \in [Templates -> 0 .. MaxAssigned] BY <2>4
  <2>6. known \in [saves : BOOLEAN, assigns : SUBSET Templates, made : [Templates -> 0 .. MaxAssigned], told : BOOLEAN, lost : BOOLEAN]
    BY <1>1, <2>5
  <2> QED BY <2>1, <2>2, <2>3, <2>6 DEF OnboardingTypeOK
<1>4. DefaultUnique
  <2>1. \A t \in LiveDefaults : t \in default BY <1>1 DEF LiveDefaults, Live
  <2>2. \A t, u \in default : t = u OBVIOUS
  <2> QED BY <2>1, <2>2 DEF DefaultUnique
<1>5. SavesAlone /\ SavesSeeDefaults /\ AssignsTemplate BY <1>2 DEF SavesAlone, SavesSeeDefaults, AssignsTemplate
<1>6. \A t \in Templates : known.made[t] = 0 BY <1>1
<1>7. MadeHasTask /\ AssignsAlone /\ AssignedOnce BY <1>2, <1>6 DEF MadeHasTask, AssignsAlone, Doing, AssignedOnce
<1>8. Made = {} BY <1>1 DEF Made, NoTask
<1>9. CompletionAnnounced BY <1>8 DEF CompletionAnnounced
<1> QED BY <1>3, <1>4, <1>5, <1>7, <1>9 DEF OnboardingInv

LEMMA OnboardingInvImplies == OnboardingInv => OnboardingSafe
<1> SUFFICES ASSUME OnboardingInv PROVE OnboardingSafe OBVIOUS
<1>1. OneDefault
  <2> SUFFICES ASSUME ~known.saves PROVE Cardinality(LiveDefaults) <= 1 BY DEF OneDefault
  <2>1. CASE LiveDefaults = {} BY <2>1, FS_EmptySet
  <2>2. CASE LiveDefaults # {}
    <3>1. PICK t \in LiveDefaults : TRUE BY <2>2
    <3>2. LiveDefaults = {t} BY <3>1 DEF OnboardingInv, DefaultUnique
    <3>3. Cardinality({t}) = 1 BY FS_Singleton
    <3> QED BY <3>2, <3>3
  <2> QED BY <2>1, <2>2
<1> QED BY <1>1 DEF OnboardingInv, OnboardingSafe

-----------------------------------------------------------------------------
\* Templates.
LEMMA OnboardingSaveRead ==
  ASSUME OnboardingInv, NEW k \in Clerks, NEW t \in Templates, NEW default \in BOOLEAN, SaveRead(k, t, default)
  PROVE  OnboardingInv'
<1> USE DEF OnboardingInv
<1>1. PICK saw \in SUBSET Templates : saw = (IF default THEN OtherDefaults(t) ELSE {}) BY DEF OtherDefaults, LiveDefaults, Live
<1>2. PICK c : c = [NoClerk EXCEPT !.op = "save", !.on = t, !.default = default, !.saw = saw] OBVIOUS
<1>3. c \in Clerk /\ c.op = "save" /\ c.on = t /\ c.default = default /\ c.saw = saw BY <1>2 DEF NoClerk, Clerk
<1>4. clerk[k] = NoClerk /\ clerk' = [clerk EXCEPT ![k] = c] /\ UNCHANGED <<template, task>>
  BY <1>1, <1>2 DEF SaveRead, Starts
<1>5. clerk[k].op = "none" /\ clerk'[k] = c /\ \A j \in Clerks \ {k} : clerk'[j] = clerk[j]
  BY <1>4, NoClerkType DEF OnboardingTypeOK
<1>6. PICK b \in BOOLEAN : b = (known.saves \/ \E u \in Templates : Doing("save", u) # {}) BY KnownFields
<1>7. known' = [known EXCEPT !.saves = b] BY <1>6 DEF SaveRead
<1>8. /\ known'.saves = b /\ known'.assigns = known.assigns /\ known'.made = known.made /\ known'.told = known.told
      /\ known'.lost = known.lost
      /\ known' \in [saves : BOOLEAN, assigns : SUBSET Templates, made : [Templates -> 0 .. MaxAssigned], told : BOOLEAN, lost : BOOLEAN]
  BY <1>7 DEF OnboardingTypeOK
<1>9. OnboardingTypeOK' BY <1>3, <1>4, <1>8 DEF OnboardingTypeOK
<1>10. LiveDefaults' = LiveDefaults /\ Made' = Made /\ Pending' = Pending BY <1>4 DEF LiveDefaults, Live, Made, Pending
<1>11. b \/ (~known.saves /\ \A j \in Clerks : clerk[j].op # "save")
  BY <1>6 DEF AssignsTemplate, Doing
<1>12. DefaultUnique' BY <1>8, <1>10, <1>11 DEF DefaultUnique
<1>13. SavesAlone' BY <1>5, <1>8, <1>11 DEF SavesAlone
<1>14. SavesSeeDefaults' BY <1>1, <1>3, <1>5, <1>8, <1>10, <1>11 DEF SavesSeeDefaults, OtherDefaults
<1>15. MadeHasTask' BY <1>4, <1>8, <1>10 DEF MadeHasTask, AlreadyMade
<1>16. \A u \in Templates : Doing("assign", u)' = Doing("assign", u) BY <1>3, <1>5 DEF Doing
<1>17. AssignsAlone' BY <1>8, <1>16 DEF AssignsAlone
<1>18. AssignsTemplate' BY <1>3, <1>5 DEF AssignsTemplate
<1>19. AssignedOnce' BY <1>8 DEF AssignedOnce
<1>20. CompletionAnnounced' BY <1>5, <1>8, <1>10 DEF CompletionAnnounced
<1> QED BY <1>9, <1>12, <1>13, <1>14, <1>15, <1>17, <1>18, <1>19, <1>20

\* A clerk that is done, and was not closing a task.
LEMMA ClerkStops ==
  ASSUME OnboardingInv, NEW k \in Clerks, Stops(k)
  PROVE  /\ clerk' \in [Clerks -> Clerk] /\ clerk'[k] = NoClerk /\ clerk'[k].op = "none"
         /\ \A j \in Clerks \ {k} : clerk'[j] = clerk[j]
         /\ \A u \in Templates : Doing("assign", u)' = Doing("assign", u) \ {k}
         /\ AssignsTemplate'
<1>1. /\ clerk' \in [Clerks -> Clerk] /\ clerk'[k] = NoClerk /\ clerk'[k].op = "none"
      /\ \A j \in Clerks \ {k} : clerk'[j] = clerk[j]
  BY NoClerkType DEF OnboardingInv, OnboardingTypeOK, Stops
<1>2. \A u \in Templates : Doing("assign", u)' = Doing("assign", u) \ {k} BY <1>1 DEF Doing
<1>3. AssignsTemplate' BY <1>1 DEF OnboardingInv, AssignsTemplate
<1> QED BY <1>1, <1>2, <1>3

LEMMA OnboardingSaveWrite == ASSUME OnboardingInv, NEW k \in Clerks, SaveWrite(k) PROVE OnboardingInv'
<1>1. /\ clerk' \in [Clerks -> Clerk] /\ clerk'[k] = NoClerk /\ clerk'[k].op = "none"
      /\ \A j \in Clerks \ {k} : clerk'[j] = clerk[j]
      /\ \A u \in Templates : Doing("assign", u)' = Doing("assign", u) \ {k}
      /\ AssignsTemplate'
  BY ClerkStops DEF SaveWrite
<1> USE DEF OnboardingInv
<1>2. clerk[k].op = "save" /\ UNCHANGED <<task, known>> BY DEF SaveWrite
<1>3. PICK s \in Templates : s = clerk[k].on BY <1>2 DEF AssignsTemplate
<1>4. clerk[k].default \in BOOLEAN /\ clerk[k].saw \in SUBSET Templates BY ClerkFields
<1>5. ASSUME NEW t \in Templates
      PROVE  /\ template'[t] \in Template
             /\ t = s => template'[t].default = clerk[k].default
             /\ t # s /\ t \in clerk[k].saw => template'[t].default = FALSE
             /\ t # s /\ t \notin clerk[k].saw => template'[t] = template[t]
             /\ t # s => template'[t].status = template[t].status
  <2>1. template[t] \in Template BY TemplateFields
  <2>2. template'[t] = IF t = clerk[k].on THEN [status |-> IF template[t].status = "none" THEN "live" ELSE template[t].status,
                                default |-> clerk[k].default]
       ELSE IF t \in clerk[k].saw THEN [template[t] EXCEPT !.default = FALSE] ELSE template[t]
    BY DEF SaveWrite
  <2>3. CASE t = s
    <3>1. PICK st \in {"none", "live", "deleted"} : st = (IF template[t].status = "none" THEN "live" ELSE template[t].status)
      BY TemplateFields
    <3>2. template'[t] = [status |-> st, default |-> clerk[k].default] BY <1>3, <2>2, <2>3, <3>1
    <3> QED BY <1>4, <2>3, <3>2 DEF Template
  <2>4. CASE t # s /\ t \in clerk[k].saw
    <3>1. template'[t] = [template[t] EXCEPT !.default = FALSE] BY <1>3, <2>2, <2>4
    <3> QED BY <2>1, <2>4, <3>1 DEF Template
  <2>5. CASE t # s /\ t \notin clerk[k].saw
    <3>1. template'[t] = template[t] BY <1>3, <2>2, <2>5
    <3> QED BY <2>1, <2>5, <3>1
  <2> QED BY <2>3, <2>4, <2>5
<1>6. OnboardingTypeOK'
  <2>1. template' \in [Templates -> Template] BY <1>5 DEF SaveWrite
  <2> QED BY <1>1, <1>2, <2>1 DEF OnboardingTypeOK
<1>7. \A t \in LiveDefaults' : t \in Templates /\ (t # s => t \in LiveDefaults /\ t \notin clerk[k].saw)
  BY <1>5, TemplateFields DEF LiveDefaults, Live
<1>8. s \in LiveDefaults' => clerk[k].default BY <1>5 DEF LiveDefaults
<1>9. DefaultUnique'
  <2> SUFFICES ASSUME ~known.saves, NEW t \in LiveDefaults', NEW u \in LiveDefaults' PROVE t = u BY <1>2 DEF DefaultUnique
  <2>1. CASE clerk[k].default
    <3>1. LiveDefaults \ {s} \subseteq clerk[k].saw BY <1>2, <1>3, <2>1 DEF SavesSeeDefaults
    <3> QED BY <1>7, <3>1
  <2>2. CASE ~clerk[k].default BY <1>7, <1>8, <2>2 DEF DefaultUnique
  <2> QED BY <2>1, <2>2
<1>10. SavesAlone' BY <1>1, <1>2 DEF SavesAlone
<1>11. SavesSeeDefaults' BY <1>1, <1>2 DEF SavesSeeDefaults, SavesAlone
<1>12. Made' = Made /\ Pending' = Pending BY <1>2 DEF Made, Pending
<1>13. MadeHasTask' BY <1>2, <1>12 DEF MadeHasTask, AlreadyMade
<1>14. AssignsAlone' BY <1>1, <1>2 DEF AssignsAlone
<1>15. AssignedOnce' BY <1>2 DEF AssignedOnce
<1>16. CompletionAnnounced' BY <1>1, <1>2, <1>12 DEF CompletionAnnounced
<1> QED BY <1>1, <1>6, <1>9, <1>10, <1>11, <1>13, <1>14, <1>15, <1>16

LEMMA OnboardingDeleteTemplate == ASSUME OnboardingInv, NEW t \in Templates, DeleteTemplate(t) PROVE OnboardingInv'
<1> USE DEF OnboardingInv
<1>1. UNCHANGED <<task, clerk, known>> BY DEF DeleteTemplate
<1>2. template[t] \in Template /\ template' = [template EXCEPT ![t] = [template[t] EXCEPT !.status = "deleted"]]
  BY TemplateFields DEF DeleteTemplate
<1>3. [template[t] EXCEPT !.status = "deleted"] \in Template /\ [template[t] EXCEPT !.status = "deleted"].status = "deleted"
  BY <1>2 DEF Template
<1>4. OnboardingTypeOK' BY <1>1, <1>2, <1>3 DEF OnboardingTypeOK
<1>5. LiveDefaults' \subseteq LiveDefaults BY <1>2, <1>3 DEF LiveDefaults, Live, OnboardingTypeOK
<1>6. DefaultUnique' BY <1>1, <1>5 DEF DefaultUnique
<1>7. SavesAlone' /\ SavesSeeDefaults' BY <1>1, <1>5 DEF SavesAlone, SavesSeeDefaults
<1>8. MadeHasTask' /\ AssignsAlone' /\ AssignsTemplate' /\ AssignedOnce' /\ CompletionAnnounced'
  BY <1>1 DEF MadeHasTask, AlreadyMade, Made, AssignsAlone, Doing, AssignsTemplate, AssignedOnce, CompletionAnnounced, Pending
<1> QED BY <1>4, <1>6, <1>7, <1>8

-----------------------------------------------------------------------------
\* Tasks.

\* Steps that leave the templates and the saves as they are.
LEMMA TemplatesStay ==
  ASSUME OnboardingInv, UNCHANGED template, known'.saves = known.saves,
         \A k \in Clerks : clerk'[k].op = "save" => clerk'[k] = clerk[k]
  PROVE  DefaultUnique' /\ SavesAlone' /\ SavesSeeDefaults'
<1> USE DEF OnboardingInv
<1>1. LiveDefaults' = LiveDefaults BY DEF LiveDefaults, Live
<1>2. DefaultUnique' BY <1>1 DEF DefaultUnique
<1>3. SavesAlone' BY DEF SavesAlone
<1>4. SavesSeeDefaults' BY <1>1 DEF SavesSeeDefaults
<1> QED BY <1>2, <1>3, <1>4

LEMMA OnboardingAutoRead == ASSUME OnboardingInv, NEW k \in Clerks, AutoRead(k) PROVE OnboardingInv'
<1> USE DEF OnboardingInv
<1>1. PICK t \in LiveDefaults : Starts(k, [NoClerk EXCEPT !.op = "default", !.on = t]) BY DEF AutoRead
<1>2. PICK c : c = [NoClerk EXCEPT !.op = "default", !.on = t] OBVIOUS
<1>3. t \in Templates BY DEF LiveDefaults, Live
<1>4. c \in Clerk /\ c.op = "default" /\ c.on = t BY <1>2, <1>3 DEF NoClerk, Clerk
<1>5. UNCHANGED <<template, task, known>> /\ clerk[k] = NoClerk /\ clerk' = [clerk EXCEPT ![k] = c]
  BY <1>1, <1>2 DEF AutoRead, Starts
<1>6. clerk[k].op = "none" /\ clerk'[k] = c /\ \A j \in Clerks \ {k} : clerk'[j] = clerk[j]
  BY <1>5, NoClerkType DEF OnboardingTypeOK
<1>7. OnboardingTypeOK' BY <1>4, <1>5 DEF OnboardingTypeOK
<1>8. DefaultUnique' /\ SavesAlone' /\ SavesSeeDefaults'
  <2>1. \A j \in Clerks : clerk'[j].op = "save" => clerk'[j] = clerk[j] BY <1>4, <1>6
  <2>2. known'.saves = known.saves BY <1>5
  <2> HIDE DEF OnboardingInv
  <2> QED BY <1>5, <2>1, <2>2, TemplatesStay
<1>9. Made' = Made /\ Pending' = Pending BY <1>5 DEF Made, Pending
<1>10. MadeHasTask' BY <1>5, <1>9 DEF MadeHasTask, AlreadyMade
<1>11. \A u \in Templates : Doing("assign", u)' = Doing("assign", u) BY <1>4, <1>6 DEF Doing
<1>12. AssignsAlone' BY <1>5, <1>11 DEF AssignsAlone
<1>13. AssignsTemplate' BY <1>3, <1>4, <1>6 DEF AssignsTemplate
<1>14. AssignedOnce' BY <1>5 DEF AssignedOnce
<1>15. CompletionAnnounced' BY <1>5, <1>6, <1>9 DEF CompletionAnnounced
<1> QED BY <1>7, <1>8, <1>10, <1>12, <1>13, <1>14, <1>15

LEMMA OnboardingAssignRead ==
  ASSUME OnboardingInv, NEW k \in Clerks, NEW t \in Templates, AssignRead(k, t)
  PROVE  OnboardingInv'
<1> USE DEF OnboardingInv
<1>1. clerk[k].op \in {"none", "default"} BY NoClerkType DEF AssignRead
<1>2. PICK c : c = IF t \in Live /\ ~AlreadyMade(t) THEN [NoClerk EXCEPT !.op = "assign", !.on = t] ELSE NoClerk OBVIOUS
<1>3. c \in Clerk /\ c.op \in {"none", "assign"} /\ (c.op = "assign" => c.on = t /\ ~AlreadyMade(t))
  <2>1. CASE t \in Live /\ ~AlreadyMade(t) BY <1>2, <2>1 DEF NoClerk, Clerk
  <2>2. CASE ~(t \in Live /\ ~AlreadyMade(t)) BY <1>2, <2>2, NoClerkType
  <2> QED BY <2>1, <2>2
<1>4. clerk' = [clerk EXCEPT ![k] = c] /\ UNCHANGED <<template, task>> BY <1>2 DEF AssignRead
<1>5. clerk'[k] = c /\ \A j \in Clerks \ {k} : clerk'[j] = clerk[j] BY <1>4 DEF OnboardingTypeOK
<1>6. PICK A \in SUBSET Templates : A = (IF Doing("assign", t) = {} THEN known.assigns ELSE known.assigns \cup {t})
  BY KnownFields
<1>7. known' = [known EXCEPT !.assigns = A] BY <1>6 DEF AssignRead, OnboardingTypeOK
<1>8. /\ known'.saves = known.saves /\ known'.assigns = A /\ known'.made = known.made /\ known'.told = known.told
      /\ known'.lost = known.lost
      /\ known' \in [saves : BOOLEAN, assigns : SUBSET Templates, made : [Templates -> 0 .. MaxAssigned], told : BOOLEAN, lost : BOOLEAN]
  BY <1>7 DEF OnboardingTypeOK
<1>9. known.assigns \subseteq A /\ (t \notin A => Doing("assign", t) = {}) BY <1>6
<1>10. OnboardingTypeOK' BY <1>3, <1>4, <1>8 DEF OnboardingTypeOK
<1>11. DefaultUnique' /\ SavesAlone' /\ SavesSeeDefaults'
  <2>1. \A j \in Clerks : clerk'[j].op = "save" => clerk'[j] = clerk[j] BY <1>3, <1>5
  <2> HIDE DEF OnboardingInv
  <2> QED BY <1>4, <1>8, <2>1, TemplatesStay
<1>12. Made' = Made /\ Pending' = Pending BY <1>4 DEF Made, Pending
<1>13. MadeHasTask' BY <1>4, <1>8, <1>12 DEF MadeHasTask, AlreadyMade
<1>14. \A u \in Templates : Doing("assign", u)' = Doing("assign", u) \cup (IF u = t /\ c.op = "assign" THEN {k} ELSE {})
  BY <1>1, <1>3, <1>5 DEF Doing
<1>15. c.op = "assign" => known.made[t] = 0 BY <1>3 DEF MadeHasTask
<1>16. AssignsAlone'
  <2> SUFFICES ASSUME NEW u \in Templates \ A, NEW i \in Clerks, NEW j \in Clerks
               PROVE  /\ i \in Doing("assign", u)' /\ j \in Doing("assign", u)' => i = j
                      /\ i \in Doing("assign", u)' => known.made[u] = 0
    BY <1>8 DEF AssignsAlone
  <2>1. CASE u = t BY <1>9, <1>14, <1>15, <2>1
  <2>2. CASE u # t BY <1>9, <1>14, <2>2 DEF AssignsAlone
  <2> QED BY <2>1, <2>2
<1>17. AssignsTemplate' BY <1>3, <1>5 DEF AssignsTemplate
<1>18. AssignedOnce' BY <1>8, <1>9 DEF AssignedOnce
<1>19. CompletionAnnounced' BY <1>1, <1>5, <1>8, <1>12 DEF CompletionAnnounced
<1> QED BY <1>10, <1>11, <1>13, <1>16, <1>17, <1>18, <1>19

LEMMA OnboardingAssignWrite == ASSUME OnboardingInv, NEW k \in Clerks, AssignWrite(k) PROVE OnboardingInv'
<1>1. /\ clerk' \in [Clerks -> Clerk] /\ clerk'[k] = NoClerk /\ clerk'[k].op = "none"
      /\ \A j \in Clerks \ {k} : clerk'[j] = clerk[j]
      /\ \A u \in Templates : Doing("assign", u)' = Doing("assign", u) \ {k}
      /\ AssignsTemplate'
  BY ClerkStops DEF AssignWrite
<1>2. PICK t : t = clerk[k].on OBVIOUS
<1>3. t \in Templates BY <1>2 DEF AssignWrite, OnboardingInv, AssignsTemplate
<1>4. clerk[k].op = "assign" /\ known.made[t] < MaxAssigned /\ UNCHANGED template BY <1>2 DEF AssignWrite
<1>5. PICK rows \in SUBSET (Tasks \ Made) :
        /\ task' = [x \in Tasks |-> IF x \in rows THEN [status |-> "pending", of |-> t] ELSE task[x]]
        /\ known' = IF rows = {} THEN known ELSE [known EXCEPT !.made[t] = @ + 1, !.told = FALSE, !.lost = FALSE]
  BY <1>2 DEF AssignWrite
<1>6. k \in Doing("assign", t) BY <1>2, <1>4 DEF Doing
<1> USE DEF OnboardingInv
<1>7. known.made[t] \in Nat /\ known.made[t] + 1 \in 0 .. MaxAssigned BY <1>3, <1>4, KnownFields
<1>8. /\ known' \in [saves : BOOLEAN, assigns : SUBSET Templates, made : [Templates -> 0 .. MaxAssigned], told : BOOLEAN, lost : BOOLEAN]
      /\ known'.saves = known.saves /\ known'.assigns = known.assigns
      /\ rows = {} => known' = known
      /\ rows # {} => known'.made[t] = known.made[t] + 1
      /\ \A u \in Templates \ {t} : known'.made[u] = known.made[u]
  <2>1. CASE rows = {} BY <1>5, <2>1 DEF OnboardingTypeOK
  <2>2. CASE rows # {}
    <3>1. PICK m : m = [known.made EXCEPT ![t] = known.made[t] + 1] OBVIOUS
    <3>2. m \in [Templates -> 0 .. MaxAssigned] /\ m[t] = known.made[t] + 1 /\ \A u \in Templates \ {t} : m[u] = known.made[u]
      BY <1>3, <1>7, <3>1, KnownFields
    <3>3. known' = [known EXCEPT !.made = m, !.told = FALSE, !.lost = FALSE] BY <1>5, <2>2, <3>1 DEF OnboardingTypeOK
    <3> QED BY <2>2, <3>2, <3>3 DEF OnboardingTypeOK
  <2> QED BY <2>1, <2>2
<1>9. \A x \in Tasks : task'[x] = IF x \in rows THEN [status |-> "pending", of |-> t] ELSE task[x] BY <1>5
<1>10. OnboardingTypeOK'
  <2>1. [status |-> "pending", of |-> t] \in Task BY <1>3 DEF Task
  <2>2. task' \in [Tasks -> Task] BY <1>5, <2>1 DEF OnboardingTypeOK
  <2> QED BY <1>1, <1>4, <1>8, <2>2 DEF OnboardingTypeOK
<1>11. DefaultUnique' /\ SavesAlone' /\ SavesSeeDefaults'
  <2>1. \A j \in Clerks : clerk'[j].op = "save" => clerk'[j] = clerk[j] BY <1>1
  <2> HIDE DEF OnboardingInv
  <2> QED BY <1>4, <1>8, <2>1, TemplatesStay
<1>12. Made' = Made \cup rows
  <2>1. \A x \in Tasks : task'[x].status # "none" <=> x \in rows \/ task[x].status # "none" BY <1>9
  <2> QED BY <1>5, <2>1 DEF Made
<1>13. Pending' = Pending \cup rows
  <2>1. \A x \in Tasks : task'[x].status = "pending" <=> x \in rows \/ (x \notin rows /\ task[x].status = "pending") BY <1>9
  <2> QED BY <1>5, <2>1 DEF Pending
<1>14. MadeHasTask'
  <2> SUFFICES ASSUME NEW u \in Templates, known'.made[u] # 0 PROVE \E x \in Made' : task'[x].of = u
    BY DEF MadeHasTask, AlreadyMade
  <2>1. CASE u = t /\ rows # {}
    <3>1. PICK x \in rows : TRUE BY <2>1
    <3>2. x \in Made' /\ task'[x].of = u BY <1>5, <1>9, <1>12, <2>1
    <3> QED BY <3>2
  <2>2. CASE ~(u = t /\ rows # {})
    <3>1. known.made[u] # 0 BY <1>8, <2>2
    <3>2. PICK x \in Made : task[x].of = u BY <3>1 DEF MadeHasTask, AlreadyMade
    <3>3. x \in Tasks /\ x \notin rows BY <1>5 DEF Made
    <3> QED BY <1>9, <1>12, <3>2, <3>3
  <2> QED BY <2>1, <2>2
<1>15. AssignsAlone'
  <2> SUFFICES ASSUME NEW u \in Templates \ known.assigns, NEW i \in Clerks, NEW j \in Clerks
               PROVE  /\ i \in Doing("assign", u)' /\ j \in Doing("assign", u)' => i = j
                      /\ i \in Doing("assign", u)' => known'.made[u] = 0
    BY <1>8 DEF AssignsAlone
  <2>1. CASE u = t BY <1>1, <1>6, <2>1 DEF AssignsAlone
  <2>2. CASE u # t BY <1>1, <1>8, <2>2 DEF AssignsAlone
  <2> QED BY <2>1, <2>2
<1>16. AssignedOnce'
  <2> SUFFICES ASSUME NEW u \in Templates \ known.assigns PROVE known'.made[u] <= 1 BY <1>8 DEF AssignedOnce
  <2>1. CASE u = t /\ rows # {}
    <3>1. known.made[t] = 0 BY <1>6, <2>1 DEF AssignsAlone
    <3> QED BY <1>8, <2>1, <3>1
  <2>2. CASE ~(u = t /\ rows # {}) BY <1>8, <2>2 DEF AssignedOnce
  <2> QED BY <2>1, <2>2
<1>17. CompletionAnnounced'
  <2>1. CASE rows = {}
    <3>1. known'.told = known.told /\ known'.lost = known.lost BY <1>8, <2>1
    <3> QED BY <1>1, <1>4, <1>12, <1>13, <2>1, <3>1 DEF CompletionAnnounced
  <2>2. CASE rows # {} BY <1>13, <2>2 DEF CompletionAnnounced
  <2> QED BY <2>1, <2>2
<1> QED BY <1>1, <1>10, <1>11, <1>14, <1>15, <1>16, <1>17

LEMMA OnboardingCloseRead == ASSUME OnboardingInv, NEW k \in Clerks, NEW x \in Tasks, CloseRead(k, x) PROVE OnboardingInv'
<1> USE DEF OnboardingInv
<1>1. Pending \in SUBSET Tasks BY DEF Pending
<1>2. PICK c : c = [NoClerk EXCEPT !.op = "close", !.task = {x}, !.pending = Pending] OBVIOUS
<1>3. c \in Clerk /\ c.op = "close" BY <1>1, <1>2 DEF NoClerk, Clerk
<1>4. UNCHANGED <<template, task, known>> /\ clerk[k] = NoClerk /\ clerk' = [clerk EXCEPT ![k] = c]
  BY <1>2 DEF CloseRead, Starts
<1>5. clerk[k].op = "none" /\ clerk'[k] = c /\ \A j \in Clerks \ {k} : clerk'[j] = clerk[j]
  BY <1>4, NoClerkType DEF OnboardingTypeOK
<1>6. OnboardingTypeOK' BY <1>3, <1>4 DEF OnboardingTypeOK
<1>7. DefaultUnique' /\ SavesAlone' /\ SavesSeeDefaults'
  <2>1. \A j \in Clerks : clerk'[j].op = "save" => clerk'[j] = clerk[j] BY <1>3, <1>5
  <2>2. known'.saves = known.saves BY <1>4
  <2> HIDE DEF OnboardingInv
  <2> QED BY <1>4, <2>1, <2>2, TemplatesStay
<1>8. Made' = Made BY <1>4 DEF Made
<1>9. MadeHasTask' BY <1>4, <1>8 DEF MadeHasTask, AlreadyMade
<1>10. \A u \in Templates : Doing("assign", u)' = Doing("assign", u) BY <1>3, <1>5 DEF Doing
<1>11. AssignsAlone' BY <1>4, <1>10 DEF AssignsAlone
<1>12. AssignsTemplate' BY <1>3, <1>5 DEF AssignsTemplate
<1>13. AssignedOnce' BY <1>4 DEF AssignedOnce
<1>14. CompletionAnnounced' BY <1>4 DEF CompletionAnnounced, CloseRead, Pending
<1> QED BY <1>6, <1>7, <1>9, <1>11, <1>12, <1>13, <1>14

LEMMA OnboardingCloseWrite == ASSUME OnboardingInv, NEW k \in Clerks, CloseWrite(k) PROVE OnboardingInv'
<1> USE DEF OnboardingInv
<1>1. UNCHANGED <<template, known>> /\ clerk[k].op = "close" BY DEF CloseWrite
<1>2. clerk[k] \in Clerk BY ClerkFields
<1>3. PICK c : c = [clerk[k] EXCEPT !.closed = TRUE] OBVIOUS
<1>4. c \in Clerk /\ c.op = "close" /\ c.closed BY <1>1, <1>2, <1>3 DEF Clerk
<1>5. clerk' = [clerk EXCEPT ![k] = c] BY <1>3 DEF CloseWrite
<1>6. clerk'[k] = c /\ \A j \in Clerks \ {k} : clerk'[j] = clerk[j] BY <1>5 DEF OnboardingTypeOK
<1>7. ASSUME NEW x \in Tasks
      PROVE  task'[x] \in Task /\ task'[x].of = task[x].of /\ (task[x].status # "none" => task'[x].status # "none")
  <2>1. task[x] \in Task BY TaskFields
  <2>2. task'[x] = IF x \in clerk[k].task THEN [task[x] EXCEPT !.status = "closed"] ELSE task[x] BY DEF CloseWrite
  <2>3. CASE x \in clerk[k].task
    <3>1. task'[x] = [task[x] EXCEPT !.status = "closed"] BY <2>2, <2>3
    <3> QED BY <2>1, <3>1 DEF Task
  <2>4. CASE x \notin clerk[k].task BY <2>1, <2>2, <2>4
  <2> QED BY <2>3, <2>4
<1>8. OnboardingTypeOK'
  <2>1. task' \in [Tasks -> Task] BY <1>7 DEF CloseWrite
  <2> QED BY <1>1, <1>4, <1>5, <2>1 DEF OnboardingTypeOK
<1>9. DefaultUnique' /\ SavesAlone' /\ SavesSeeDefaults'
  <2>1. \A j \in Clerks : clerk'[j].op = "save" => clerk'[j] = clerk[j] BY <1>4, <1>6
  <2>2. known'.saves = known.saves BY <1>1
  <2> HIDE DEF OnboardingInv
  <2> QED BY <1>1, <2>1, <2>2, TemplatesStay
<1>10. MadeHasTask'
  <2> SUFFICES ASSUME NEW u \in Templates, known.made[u] # 0 PROVE \E x \in Made' : task'[x].of = u
    BY <1>1 DEF MadeHasTask, AlreadyMade
  <2>1. PICK x \in Made : task[x].of = u BY DEF MadeHasTask, AlreadyMade
  <2>2. x \in Tasks /\ task[x].status # "none" BY <2>1 DEF Made
  <2>3. x \in Made' /\ task'[x].of = u BY <1>7, <2>1, <2>2 DEF Made
  <2> QED BY <2>3
<1>11. \A u \in Templates : Doing("assign", u)' = Doing("assign", u) BY <1>1, <1>4, <1>6 DEF Doing
<1>12. AssignsAlone' BY <1>1, <1>11 DEF AssignsAlone
<1>13. AssignsTemplate' BY <1>4, <1>6 DEF AssignsTemplate
<1>14. AssignedOnce' BY <1>1 DEF AssignedOnce
<1>15. CompletionAnnounced' BY <1>4, <1>6 DEF CompletionAnnounced
<1> QED BY <1>8, <1>9, <1>10, <1>12, <1>13, <1>14, <1>15

\* A request that has closed its task, and tells, fails or dies.
LEMMA OnboardingCloseEnds ==
  ASSUME OnboardingInv, NEW k \in Clerks, clerk[k].op = "close", Stops(k), UNCHANGED <<template, task>>,
         NEW b \in BOOLEAN, NEW c \in BOOLEAN, known' = [known EXCEPT !.told = b, !.lost = c],
         known.told => b, known.lost => c, clerk[k].closed /\ IsOnboardingComplete(k) => b \/ c
  PROVE OnboardingInv'
<1>1. /\ clerk' \in [Clerks -> Clerk] /\ clerk'[k] = NoClerk /\ clerk'[k].op = "none"
      /\ \A j \in Clerks \ {k} : clerk'[j] = clerk[j]
      /\ \A u \in Templates : Doing("assign", u)' = Doing("assign", u) \ {k}
      /\ AssignsTemplate'
  BY ClerkStops
<1> USE DEF OnboardingInv
<1>2. UNCHANGED <<template, task>> OBVIOUS
<1>5. /\ known'.saves = known.saves /\ known'.assigns = known.assigns /\ known'.made = known.made /\ known'.told = b /\ known'.lost = c
      /\ known' \in [saves : BOOLEAN, assigns : SUBSET Templates, made : [Templates -> 0 .. MaxAssigned], told : BOOLEAN, lost : BOOLEAN]
  BY DEF OnboardingTypeOK
<1>6. OnboardingTypeOK' BY <1>1, <1>2, <1>5 DEF OnboardingTypeOK
<1>7. DefaultUnique' /\ SavesAlone' /\ SavesSeeDefaults'
  <2>1. \A j \in Clerks : clerk'[j].op = "save" => clerk'[j] = clerk[j] BY <1>1
  <2> HIDE DEF OnboardingInv
  <2> QED BY <1>2, <1>5, <2>1, TemplatesStay
<1>8. Made' = Made /\ Pending' = Pending BY <1>2 DEF Made, Pending
<1>9. MadeHasTask' BY <1>2, <1>5, <1>8 DEF MadeHasTask, AlreadyMade
<1>10. AssignsAlone' BY <1>1, <1>5 DEF AssignsAlone
<1>11. AssignedOnce' BY <1>5 DEF AssignedOnce
<1>12. CompletionAnnounced'
  <2>1. CASE clerk[k].closed BY <1>5, <1>8, <2>1 DEF CompletionAnnounced, IsOnboardingComplete
  <2>2. CASE ~clerk[k].closed BY <1>1, <1>5, <1>8, <2>2 DEF CompletionAnnounced
  <2> QED BY <2>1, <2>2
<1> QED BY <1>1, <1>6, <1>7, <1>9, <1>10, <1>11, <1>12

LEMMA OnboardingCloseTell == ASSUME OnboardingInv, NEW k \in Clerks, CloseTell(k) PROVE OnboardingInv'
<1>1. PICK b \in BOOLEAN : b = (known.told \/ IsOnboardingComplete(k)) BY KnownFields DEF IsOnboardingComplete, OnboardingInv
<1>2. PICK c \in BOOLEAN : c = known.lost BY KnownFields DEF OnboardingInv
<1>3. known' = [known EXCEPT !.told = b, !.lost = c] BY <1>1, <1>2 DEF CloseTell, OnboardingInv, OnboardingTypeOK
<1>4. known.told => b BY <1>1
<1>5. known.lost => c BY <1>2
<1>6. clerk[k].closed /\ IsOnboardingComplete(k) => b \/ c BY <1>1
<1>7. clerk[k].op = "close" /\ Stops(k) /\ UNCHANGED <<template, task>> BY DEF CloseTell
<1> QED BY <1>3, <1>4, <1>5, <1>6, <1>7, OnboardingCloseEnds

LEMMA OnboardingCloseFails == ASSUME OnboardingInv, NEW k \in Clerks, CloseFails(k) PROVE OnboardingInv'
<1>1. PICK b \in BOOLEAN : b = known.told BY KnownFields DEF OnboardingInv
<1>2. PICK c \in BOOLEAN : c = (known.lost \/ (clerk[k].closed /\ IsOnboardingComplete(k)))
  BY KnownFields DEF IsOnboardingComplete, OnboardingInv
<1>3. known' = [known EXCEPT !.told = b, !.lost = c] BY <1>1, <1>2 DEF CloseFails, OnboardingInv, OnboardingTypeOK
<1>4. known.told => b BY <1>1
<1>5. known.lost => c BY <1>2
<1>6. clerk[k].closed /\ IsOnboardingComplete(k) => b \/ c BY <1>2
<1>7. clerk[k].op = "close" /\ Stops(k) /\ UNCHANGED <<template, task>> BY DEF CloseFails
<1> QED BY <1>3, <1>4, <1>5, <1>6, <1>7, OnboardingCloseEnds

LEMMA OnboardingNextInv == OnboardingInv /\ [OnboardingNext]_onboardingVars => OnboardingInv'
<1> SUFFICES ASSUME OnboardingInv, [OnboardingNext]_onboardingVars PROVE OnboardingInv' OBVIOUS
<1>1. CASE TemplatesNext
  <2>1. ASSUME NEW k \in Clerks, SaveWrite(k) PROVE OnboardingInv' BY <2>1, OnboardingSaveWrite
  <2>2. ASSUME NEW k \in Clerks, NEW t \in Templates, NEW default \in BOOLEAN, SaveRead(k, t, default) PROVE OnboardingInv'
    BY <2>2, OnboardingSaveRead
  <2>3. ASSUME NEW t \in Templates, DeleteTemplate(t) PROVE OnboardingInv' BY <2>3, OnboardingDeleteTemplate
  <2> QED BY <1>1, <2>1, <2>2, <2>3 DEF TemplatesNext
<1>2. CASE TasksNext
  <2> PICK k \in Clerks : \/ AutoRead(k) \/ AssignWrite(k) \/ CloseWrite(k) \/ CloseTell(k) \/ CloseFails(k)
                          \/ \E t \in Templates : AssignRead(k, t)
                          \/ \E x \in Tasks : CloseRead(k, x)
    BY <1>2 DEF TasksNext
  <2>1. CASE AutoRead(k) BY <2>1, OnboardingAutoRead
  <2>2. CASE AssignWrite(k) BY <2>2, OnboardingAssignWrite
  <2>3. CASE CloseWrite(k) BY <2>3, OnboardingCloseWrite
  <2>4. CASE CloseTell(k) BY <2>4, OnboardingCloseTell
  <2>7. CASE CloseFails(k) BY <2>7, OnboardingCloseFails
  <2>5. ASSUME NEW t \in Templates, AssignRead(k, t) PROVE OnboardingInv' BY <2>5, OnboardingAssignRead
  <2>6. ASSUME NEW x \in Tasks, CloseRead(k, x) PROVE OnboardingInv' BY <2>6, OnboardingCloseRead
  <2> QED BY <2>1, <2>2, <2>3, <2>4, <2>5, <2>6, <2>7
<1>3. CASE UNCHANGED onboardingVars
  BY <1>3 DEF onboardingVars, OnboardingInv, OnboardingTypeOK, DefaultUnique, SavesAlone, SavesSeeDefaults, LiveDefaults,
     Live, MadeHasTask, AlreadyMade, Made, AssignsAlone, Doing, AssignsTemplate, AssignedOnce, CompletionAnnounced, Pending
<1> QED BY <1>1, <1>2, <1>3 DEF OnboardingNext

\* However many requests save templates, assign them and close tasks at once: one
\* default unless two saves overlapped, the tasks of a template once unless two
\* assignments of it overlapped, and completion is announced by whoever closes
\* the last task, also when several are closed at the same time, unless a request
\* fails that had closed one.
THEOREM OnboardingHolds == OnboardingSpec => []OnboardingSafe
<1>1. OnboardingSpec => []OnboardingInv
  BY OnboardingInvInit, OnboardingNextInv, PTL DEF OnboardingSpec
<1> QED BY <1>1, OnboardingInvImplies, PTL
-----------------------------------------------------------------------------
(* People and roles *)

StaffSpec == StaffInit /\ [][StaffNext]_staffVars

\* What a request in progress works on.
WorkShape(w) ==
  /\ w.op = "none" => w = NoWork
  /\ w.op = "found" => w.step \in {"member", "seed", "fill", "assign"} /\ w.what = AdminRole
  /\ w.op \in {"create", "import"} => w.step \in {"rows", "assign", "balances"} /\ w.what \in SystemRoles
  /\ w.op = "update" => w.step \in {"mirror", "assign"} /\ w.what \in SystemRoles
  /\ w.op = "rewrite" => w.step = "mirror" /\ w.what \in SystemRoles
  /\ w.op = "assign" => w.step \in {"mirror", "assign"} /\ w.what \in AllRoles
  /\ w.op = "delete" => w.step = "drop" /\ w.what \in CustomRoles
  /\ w.step \in {"idle", "member", "rows", "drop"} => w.who = {}
  /\ w.who \subseteq Members
StepsKnown == \A a \in Admins : WorkShape(work[a])

\* Nobody works in an organisation before its administrator has a role, and then
\* the system roles are there.
Seeded == \A r \in SystemRoles : role[r] # "none"
NeedsSeed(w) == w.op \in {"create", "import", "update", "rewrite", "assign", "delete"}
SeededFirst ==
  /\ \A p \in People : person[p].assigned # NoRole => Seeded
  /\ \A a \in Admins :
       /\ NeedsSeed(work[a]) => Seeded /\ Members # {}
       /\ work[a].op = "found" /\ work[a].step = "assign" => Seeded
FoundsMember(w) == w.op = "found" /\ w.step = "member"
FoundedOnce ==
  /\ org # "active" => Members = {} /\ \A a \in Admins : work[a].op # "found"
  /\ \A a, b \in Admins : work[a].op = "found" /\ work[b].op = "found" => a = b
  /\ \A a \in Admins : FoundsMember(work[a]) => Members = {}

\* Whoever adds people alone knows how many there are.
CountsKnown ==
  ~was.seatRace /\ ~was.reactivated =>
    /\ Cardinality(Active) <= Seats
    /\ \A a, b \in Adding : a = b
    /\ \A a \in Adding : Cardinality(Active) <= work[a].n

\* Somebody without a role is about to get one.
Coming(w) ==
  /\ w.op \in {"found", "create", "import"}
  /\ w.step \in {"seed", "fill", "assign"} \/ (w.op = "import" /\ w.step = "balances")
RoleComing == \A p \in Members : person[p].assigned = NoRole /\ p \notin was.loose => \E a \in Placing(p) : Coming(work[a])
DeletesLoose ==
  \A a \in Admins : work[a].op = "delete" => \A p \in Members : person[p].assigned = work[a].what => p \in was.loose

\* How far the one request that writes a role came.
Synced(p) == person[p].assigned \in SystemRoles => person[p].mirror = person[p].assigned
MirrorAt(w, p) ==
  /\ w.step = "assign" /\ w.op # "assign" => person[p].mirror = w.what
  /\ w.step \in {"seed", "fill"} \/ (w.op = "import" /\ w.step = "balances") => person[p].mirror = w.what
  /\ (w.op = "create" /\ w.step = "balances") \/ (w.op = "assign" /\ w.step = "assign") => Synced(p)
  /\ w.op = "rewrite" => person[p].mirror = w.what /\ Synced(p)
  /\ w.op = "assign" /\ w.step = "mirror" => IF w.what \in SystemRoles THEN person[p].assigned = w.what ELSE Synced(p)
MirrorKnown ==
  /\ \A p \in Members : person[p].mirror \in SystemRoles
  /\ \A p \in Members \ was.unsynced :
       /\ Placing(p) = {} => Synced(p)
       /\ \A a, b \in Placing(p) : a = b
       /\ \A a \in Placing(p) : MirrorAt(work[a], p)

StaffInv ==
  /\ StaffTypeOK /\ StepsKnown /\ SeededFirst /\ FoundedOnce /\ CountsKnown /\ RoleComing /\ DeletesLoose /\ MirrorKnown

LEMMA WorkFields ==
  ASSUME StaffTypeOK, NEW a \in Admins
  PROVE  /\ work[a] \in Work
         /\ work[a].op \in {"none", "found", "create", "import", "update", "rewrite", "assign", "delete"}
         /\ work[a].step \in {"idle", "member", "seed", "fill", "assign", "balances", "mirror", "drop", "rows"}
         /\ work[a].who \in SUBSET People /\ work[a].what \in AllRoles \cup {NoRole} /\ work[a].n \in Nat
<1>1. work[a] \in Work BY DEF StaffTypeOK
<1> QED BY <1>1 DEF Work

LEMMA PersonFields ==
  ASSUME StaffTypeOK, NEW p \in People
  PROVE  /\ person[p] \in Person /\ person[p].status \in {"none", "active", "inactive"}
         /\ person[p].mirror \in AllRoles \cup {NoRole} /\ person[p].assigned \in AllRoles \cup {NoRole}
         /\ person[p].balances \in BOOLEAN
<1>1. person[p] \in Person BY DEF StaffTypeOK
<1> QED BY <1>1 DEF Person

LEMMA WasFields ==
  ASSUME StaffTypeOK
  PROVE  /\ was.seatRace \in BOOLEAN /\ was.reactivated \in BOOLEAN /\ was.aborts \in 0 .. MaxAborts
         /\ was.loose \in SUBSET People /\ was.unsynced \in SUBSET People
  BY DEF StaffTypeOK

LEMMA NoWorkType ==
  /\ NoWork \in Work /\ NoWork.op = "none" /\ NoWork.step = "idle" /\ NoWork.who = {} /\ NoWork.n = 0
  BY DEF NoWork, Work

LEMMA RolesApart ==
  /\ NoRole \notin SystemRoles /\ NoRole \notin CustomRoles /\ NoRole \notin AllRoles /\ AdminRole \in SystemRoles
  /\ \A r \in SystemRoles : r \notin CustomRoles /\ r \in AllRoles
  /\ \A r \in CustomRoles : r \notin SystemRoles /\ r \in AllRoles
  /\ Seats \in Nat \ {0} /\ MaxAborts \in Nat
  BY StaffingAssumption DEF AllRoles

LEMMA ActiveFinite ==
  /\ IsFiniteSet(Active) /\ Cardinality(Active) \in Nat
  /\ IsFiniteSet(Active') /\ Cardinality(Active') \in Nat
<1>1. Active \subseteq People /\ Active' \subseteq People BY DEF Active
<1>2. IsFiniteSet(Active) /\ IsFiniteSet(Active') BY <1>1, StaffingAssumption, FS_Subset
<1> QED BY <1>2, FS_CardinalityType

LEMMA StaffInvInit == StaffInit => StaffInv
<1> SUFFICES ASSUME StaffInit PROVE StaffInv OBVIOUS
<1>1. \A a \in Admins : /\ work[a] = NoWork /\ work[a].op = "none" /\ work[a].step = "idle" /\ work[a].who = {}
  BY NoWorkType DEF StaffInit, NothingDone
<1>2. \A p \in People : person[p].status = "none" /\ person[p].assigned = NoRole BY DEF StaffInit, Nobody
<1>3. Members = {} /\ Active = {} BY <1>2 DEF Members, Active
<1>4. StaffTypeOK
  <2>1. 0 \in 0 .. MaxAborts BY RolesApart
  <2>2. was \in [seatRace : BOOLEAN, reactivated : BOOLEAN, aborts : 0 .. MaxAborts, loose : SUBSET People, unsynced : SUBSET People]
    BY <2>1 DEF StaffInit, NothingDone
  <2>3. person \in [People -> Person] BY DEF StaffInit, Nobody, Person
  <2>4. work \in [Admins -> Work] BY NoWorkType DEF StaffInit, NothingDone
  <2>5. role \in [AllRoles -> {"none", "bare", "full"}] /\ org \in {"none", "pending", "active", "rejected"} BY DEF StaffInit
  <2> QED BY <2>2, <2>3, <2>4, <2>5 DEF StaffTypeOK
<1>5. StepsKnown BY <1>1 DEF StepsKnown, WorkShape
<1>6. SeededFirst /\ FoundedOnce BY <1>1, <1>2, <1>3 DEF SeededFirst, FoundedOnce, FoundsMember, NeedsSeed
<1>7. Adding = {} BY <1>1 DEF Adding
<1>8. CountsKnown
  <2>1. Cardinality(Active) = 0 BY <1>3, FS_EmptySet
  <2> QED BY <1>7, <2>1, RolesApart DEF CountsKnown
<1>9. RoleComing /\ DeletesLoose /\ MirrorKnown BY <1>1, <1>3 DEF RoleComing, DeletesLoose, MirrorKnown
<1> QED BY <1>4, <1>5, <1>6, <1>8, <1>9 DEF StaffInv

LEMMA StaffInvImplies == StaffInv => StaffSafe
<1> SUFFICES ASSUME StaffInv PROVE StaffSafe OBVIOUS
<1>1. SeatsHold BY DEF StaffInv, CountsKnown, SeatsHold
<1>2. EveryoneHasRole BY DEF StaffInv, RoleComing, EveryoneHasRole
<1>3. MirrorAgrees BY DEF StaffInv, MirrorKnown, MirrorAgrees, Synced
<1> QED BY <1>1, <1>2, <1>3 DEF StaffInv, StaffSafe

-----------------------------------------------------------------------------
\* One request takes a step: what each part of the invariant needs of it.
Steps(a, w) == a \in Admins /\ w \in Work /\ work' = [work EXCEPT ![a] = w]
\* Nobody joins, the assignments stay, and so do their mirrors.
SameMembership ==
  person' \in [People -> Person] /\ \A p \in People : person'[p].status = "none" <=> person[p].status = "none"
SameAssigned == SameMembership /\ \A p \in People : person'[p].assigned = person[p].assigned
SamePeople == SameAssigned /\ \A p \in People : person'[p].mirror = person[p].mirror

LEMMA OneSteps ==
  ASSUME StaffInv, NEW a, NEW w, Steps(a, w)
  PROVE  /\ a \in Admins /\ w \in Work /\ work'[a] = w /\ \A b \in Admins \ {a} : work'[b] = work[b]
         /\ work' \in [Admins -> Work]
         /\ \A p : Placing(p)' = (Placing(p) \ {a}) \cup (IF p \in w.who THEN {a} ELSE {})
<1>1. /\ a \in Admins /\ w \in Work /\ work'[a] = w /\ \A b \in Admins \ {a} : work'[b] = work[b]
      /\ work' \in [Admins -> Work]
  BY DEF StaffInv, StaffTypeOK, Steps
<1> QED BY <1>1 DEF Placing

LEMMA SameMembers == ASSUME SameMembership PROVE Members' = Members
  BY DEF SameMembership, Members

LEMMA ShapesStay ==
  ASSUME StaffInv, NEW a, NEW w, Steps(a, w), Members \subseteq Members', WorkShape(w)'
  PROVE  StepsKnown'
<1>1. \A b \in Admins : b # a => work'[b] = work[b] BY OneSteps
<1>2. work'[a] = w BY OneSteps
<1>3. ASSUME NEW b \in Admins PROVE WorkShape(work[b])' 
  <2>1. CASE b = a BY <1>2, <2>1 DEF WorkShape
  <2>2. CASE b # a
    <3>1. WorkShape(work[b]) BY DEF StaffInv, StepsKnown
    <3> QED BY <1>1, <2>2, <3>1 DEF WorkShape
  <2> QED BY <2>1, <2>2
<1> QED BY <1>3 DEF StepsKnown

LEMMA SeedsStay ==
  ASSUME StaffInv, NEW a, NEW w, Steps(a, w), Members \subseteq Members', Seeded => Seeded',
         \A p \in People : person'[p].assigned # NoRole => person[p].assigned # NoRole \/ Seeded',
         NeedsSeed(w) => Seeded' /\ Members' # {}, w.op = "found" /\ w.step = "assign" => Seeded'
  PROVE  SeededFirst'
<1>1. work'[a] = w /\ \A b \in Admins \ {a} : work'[b] = work[b] BY OneSteps
<1>2. \A p \in People : person'[p].assigned # NoRole => Seeded' BY DEF StaffInv, SeededFirst
<1>3. ASSUME NEW b \in Admins
      PROVE  /\ NeedsSeed(work[b])' => Seeded' /\ Members' # {}
             /\ work'[b].op = "found" /\ work'[b].step = "assign" => Seeded'
  <2>1. CASE b = a BY <1>1, <2>1 DEF NeedsSeed
  <2>2. CASE b # a BY <1>1, <2>2 DEF NeedsSeed, StaffInv, SeededFirst
  <2> QED BY <2>1, <2>2
<1> QED BY <1>2, <1>3 DEF SeededFirst

LEMMA FoundsStay ==
  ASSUME StaffInv, NEW a, NEW w, Steps(a, w), org' = org, w.op = "found" => work[a].op = "found",
         FoundsMember(w) => FoundsMember(work[a]),
         Members' = Members \/ (org = "active" /\ ~FoundsMember(w) /\ \A b \in Admins \ {a} : ~FoundsMember(work[b]))
  PROVE  FoundedOnce'
<1>1. a \in Admins /\ work'[a] = w /\ \A b \in Admins \ {a} : work'[b] = work[b] BY OneSteps
<1>2. \A b \in Admins : work'[b].op = "found" => work[b].op = "found" BY <1>1
<1>3. \A b \in Admins : FoundsMember(work[b])' => FoundsMember(work[b]) BY <1>1 DEF FoundsMember
<1>4. org' # "active" => Members' = {} BY DEF StaffInv, FoundedOnce
<1>5. \A b \in Admins : FoundsMember(work[b])' => Members' = {}
  <2>1. CASE Members' = Members BY <1>3, <2>1 DEF StaffInv, FoundedOnce
  <2>2. CASE ~FoundsMember(w) /\ \A b \in Admins \ {a} : ~FoundsMember(work[b])
    BY <1>1, <2>2 DEF FoundsMember
  <2> QED BY <2>1, <2>2
<1> QED BY <1>2, <1>4, <1>5 DEF StaffInv, FoundedOnce

LEMMA CountsStay ==
  ASSUME StaffInv, NEW a, NEW w, Steps(a, w), Active' \subseteq Active,
         was.seatRace => was'.seatRace, was.reactivated => was'.reactivated,
         w.op \in {"create", "import"} =>
           (work[a].op \in {"create", "import"} /\ w.n = work[a].n) \/ was'.seatRace \/ (Adding = {} /\ w.n = Cardinality(Active))
  PROVE  CountsKnown'
<1> SUFFICES ASSUME ~was'.seatRace, ~was'.reactivated
             PROVE  /\ Cardinality(Active)' <= Seats
                    /\ \A b, c \in Adding' : b = c
                    /\ \A b \in Adding' : Cardinality(Active)' <= work'[b].n
  BY DEF CountsKnown
<1>1. a \in Admins /\ work'[a] = w /\ \A b \in Admins \ {a} : work'[b] = work[b] BY OneSteps
<1>2. /\ Cardinality(Active) <= Seats /\ \A b, c \in Adding : b = c
      /\ \A b \in Adding : Cardinality(Active) <= work[b].n
  BY DEF StaffInv, CountsKnown
<1>3. Cardinality(Active)' <= Cardinality(Active)
  <2>1. Cardinality(Active') <= Cardinality(Active) BY ActiveFinite, FS_Subset
  <2> QED BY <2>1
<1>4. Cardinality(Active)' \in Nat /\ Cardinality(Active) \in Nat /\ Seats \in Nat BY ActiveFinite, RolesApart
<1>5. \A b \in Adding' : b \in Admins /\ (b \in Adding \/ (b = a /\ Adding = {} /\ w.n = Cardinality(Active))) /\ work'[b].n \in Nat
  <2>1. \A b \in Admins : work'[b].n \in Nat BY OneSteps DEF Work
  <2> QED BY <1>1, <2>1 DEF Adding
<1>6. \A b \in Adding' : b \in Adding => work'[b].n = work[b].n BY <1>1, <1>5 DEF Adding
<1>7. \A b, c \in Adding' : b = c BY <1>2, <1>5
<1>8. ASSUME NEW b \in Adding' PROVE Cardinality(Active)' <= work'[b].n
  <2>1. CASE b \in Adding BY <1>2, <1>3, <1>4, <1>5, <1>6, <2>1
  <2>2. CASE b = a /\ w.n = Cardinality(Active) BY <1>1, <1>3, <2>2
  <2> QED BY <1>5, <2>1, <2>2
<1> QED BY <1>2, <1>3, <1>4, <1>7, <1>8

LEMMA ComingStays ==
  ASSUME StaffInv, NEW a, NEW w, Steps(a, w), SameAssigned, was.loose \subseteq was'.loose,
         \A p \in work[a].who : Coming(work[a]) => p \in was'.loose \/ (p \in w.who /\ Coming(w))
  PROVE  RoleComing'
<1>1. Members' = Members BY SameMembers DEF SameAssigned
<1>2. a \in Admins /\ work'[a] = w /\ (\A b \in Admins \ {a} : work'[b] = work[b])
      /\ \A p : Placing(p)' = (Placing(p) \ {a}) \cup (IF p \in w.who THEN {a} ELSE {})
  BY OneSteps
<1> SUFFICES ASSUME NEW p \in Members, person'[p].assigned = NoRole, p \notin was'.loose
             PROVE  \E b \in Placing(p)' : Coming(work'[b])
  BY <1>1 DEF RoleComing, Coming
<1>3. p \in People /\ person[p].assigned = NoRole /\ p \notin was.loose BY DEF Members, SameAssigned
<1>4. PICK b \in Placing(p) : Coming(work[b]) BY <1>3 DEF StaffInv, RoleComing
<1>5. b \in Admins /\ p \in work[b].who BY DEF Placing
<1>6. CASE b = a
  <2>1. p \in w.who /\ Coming(w) BY <1>4, <1>5, <1>6
  <2> QED BY <1>2, <2>1
<1>7. CASE b # a
  <2>1. b \in Placing(p)' /\ work'[b] = work[b] BY <1>2, <1>5, <1>7
  <2> QED BY <1>4, <2>1
<1> QED BY <1>6, <1>7

LEMMA DeletesStay ==
  ASSUME StaffInv, NEW a, NEW w, Steps(a, w), SameAssigned, was.loose \subseteq was'.loose,
         w.op = "delete" => (work[a].op = "delete" /\ w.what = work[a].what) \/ Unassigned(w.what)
  PROVE  DeletesLoose'
<1>1. Members' = Members BY SameMembers DEF SameAssigned
<1>2. a \in Admins /\ work'[a] = w /\ \A b \in Admins \ {a} : work'[b] = work[b] BY OneSteps
<1>3. \A p \in Members : person'[p].assigned = person[p].assigned BY DEF SameAssigned, Members
<1> QED BY <1>1, <1>2, <1>3 DEF StaffInv, DeletesLoose, Unassigned

LEMMA MirrorStays ==
  ASSUME StaffInv, NEW a, NEW w, Steps(a, w), SamePeople, was.unsynced \subseteq was'.unsynced,
         \A p \in Members \ was'.unsynced :
           /\ p \in w.who => MirrorAt(w, p) /\ (p \in work[a].who \/ Placing(p) = {})
           /\ p \in work[a].who /\ p \notin w.who => Synced(p)
  PROVE  MirrorKnown'
<1>1. Members' = Members BY SameMembers DEF SamePeople, SameAssigned
<1>2. a \in Admins /\ work'[a] = w /\ (\A b \in Admins \ {a} : work'[b] = work[b])
      /\ \A p : Placing(p)' = (Placing(p) \ {a}) \cup (IF p \in w.who THEN {a} ELSE {})
  BY OneSteps
<1>3. \A p \in Members : p \in People /\ person'[p].assigned = person[p].assigned /\ person'[p].mirror = person[p].mirror
  BY DEF SamePeople, SameAssigned, Members
<1>4. \A p \in Members : person'[p].mirror \in SystemRoles BY <1>3 DEF StaffInv, MirrorKnown
<1>5. ASSUME NEW p \in Members \ was'.unsynced
      PROVE  /\ Placing(p)' = {} => Synced(p)'
             /\ \A b, c \in Placing(p)' : b = c
             /\ \A b \in Placing(p)' : MirrorAt(work[b], p)'
  <2>1. /\ Placing(p) = {} => Synced(p)
        /\ \A b, c \in Placing(p) : b = c
        /\ \A b \in Placing(p) : MirrorAt(work[b], p)
    BY DEF StaffInv, MirrorKnown
  <2>2. Synced(p)' <=> Synced(p) BY <1>3 DEF Synced
  <2>3. a \in Placing(p) <=> p \in work[a].who BY <1>2 DEF Placing
  <2>4. Placing(p)' = {} => Synced(p)
    <3>1. CASE p \in work[a].who BY <1>2, <3>1
    <3>2. CASE p \notin work[a].who BY <1>2, <2>1, <2>3, <3>2
    <3> QED BY <3>1, <3>2
  <2>5. \A b, c \in Placing(p)' : b = c
    <3>1. CASE p \in w.who BY <1>2, <2>1, <2>3, <3>1
    <3>2. CASE p \notin w.who BY <1>2, <2>1, <3>2
    <3> QED BY <3>1, <3>2
  <2>6. ASSUME NEW b \in Placing(p)' PROVE MirrorAt(work[b], p)'
    <3>1. CASE b = a
      <4>1. p \in w.who /\ work'[b] = w BY <1>2, <3>1
      <4>2. MirrorAt(w, p) BY <4>1
      <4> QED BY <1>3, <2>2, <4>1, <4>2 DEF MirrorAt
    <3>2. CASE b # a
      <4>1. b \in Placing(p) /\ work'[b] = work[b] BY <1>2, <3>2 DEF Placing
      <4>2. MirrorAt(work[b], p) BY <2>1, <4>1
      <4> QED BY <1>3, <2>2, <4>1, <4>2 DEF MirrorAt
    <3> QED BY <3>1, <3>2
  <2> QED BY <2>2, <2>4, <2>5, <2>6
<1> QED BY <1>1, <1>4, <1>5 DEF MirrorKnown

-----------------------------------------------------------------------------
\* Requests that begin, end or go on while the people stay as they are.
LEMMA PeopleStay == ASSUME StaffInv, UNCHANGED person PROVE SamePeople /\ SameAssigned /\ Active' = Active /\ Members' = Members
  BY DEF StaffInv, StaffTypeOK, SamePeople, SameAssigned, SameMembership, Active, Members

LEMMA RequestSteps ==
  ASSUME StaffInv, NEW a, NEW w, Steps(a, w), UNCHANGED person, org' = org,
         role' \in [AllRoles -> {"none", "bare", "full"}], Seeded => Seeded',
         was' \in [seatRace : BOOLEAN, reactivated : BOOLEAN, aborts : 0 .. MaxAborts, loose : SUBSET People, unsynced : SUBSET People],
         was.loose \subseteq was'.loose, was.unsynced \subseteq was'.unsynced,
         was.seatRace => was'.seatRace, was.reactivated => was'.reactivated,
         WorkShape(w),
         NeedsSeed(w) => Seeded' /\ Members # {}, w.op = "found" /\ w.step = "assign" => Seeded',
         w.op = "found" => work[a].op = "found", FoundsMember(w) => FoundsMember(work[a]),
         w.op \in {"create", "import"} =>
           (work[a].op \in {"create", "import"} /\ w.n = work[a].n) \/ was'.seatRace \/ (Adding = {} /\ w.n = Cardinality(Active)),
         \A p \in work[a].who : Coming(work[a]) => p \in was'.loose \/ (p \in w.who /\ Coming(w)),
         w.op = "delete" => (work[a].op = "delete" /\ w.what = work[a].what) \/ Unassigned(w.what),
         \A p \in Members \ was'.unsynced :
           /\ p \in w.who => MirrorAt(w, p) /\ (p \in work[a].who \/ Placing(p) = {})
           /\ p \in work[a].who /\ p \notin w.who => Synced(p)
  PROVE  StaffInv'
<1>1. SamePeople /\ SameAssigned /\ Active' = Active /\ Members' = Members BY PeopleStay
<1>2. StaffTypeOK' BY OneSteps DEF StaffInv, StaffTypeOK
<1>3. StepsKnown'
  <2>1. WorkShape(w)' BY <1>1 DEF WorkShape
  <2> QED BY <1>1, <2>1, ShapesStay
<1>4. SeededFirst'
  <2>1. \A p \in People : person'[p].assigned # NoRole => person[p].assigned # NoRole \/ Seeded' OBVIOUS
  <2> QED BY <1>1, <2>1, SeedsStay
<1>5. FoundedOnce' BY <1>1, FoundsStay
<1>6. CountsKnown' BY <1>1, CountsStay
<1>7. RoleComing' BY <1>1, ComingStays
<1>8. DeletesLoose' BY <1>1, DeletesStay
<1>9. MirrorKnown' BY <1>1, MirrorStays
<1> QED BY <1>2, <1>3, <1>4, <1>5, <1>6, <1>7, <1>8, <1>9 DEF StaffInv

LEMMA ManagedIsSeeded == ASSUME StaffInv, SomeoneManages PROVE Seeded /\ Members # {}
<1>1. PICK p \in Active : person[p].assigned \in {AdminRole} \cup CustomRoles BY DEF SomeoneManages
<1>2. p \in People /\ p \in Members BY DEF Active, Members
<1>3. person[p].assigned # NoRole BY <1>1, RolesApart
<1> QED BY <1>2, <1>3 DEF StaffInv, SeededFirst

\* What a request that leaves the history alone keeps of it.
LEMMA WasStays ==
  ASSUME StaffInv, was' = was
  PROVE  /\ was' \in [seatRace : BOOLEAN, reactivated : BOOLEAN, aborts : 0 .. MaxAborts, loose : SUBSET People, unsynced : SUBSET People]
         /\ was.loose \subseteq was'.loose /\ was.unsynced \subseteq was'.unsynced
         /\ was.seatRace => was'.seatRace
         /\ was.reactivated => was'.reactivated
  BY DEF StaffInv, StaffTypeOK

LEMMA RoleStays ==
  ASSUME StaffInv, role' = role
  PROVE  role' \in [AllRoles -> {"none", "bare", "full"}] /\ (Seeded' <=> Seeded)
  BY DEF StaffInv, StaffTypeOK, Seeded

LEMMA StaffFound == ASSUME StaffInv, NEW a \in Admins, Found(a) PROVE StaffInv'
<1>1. PICK w : w = [NoWork EXCEPT !.op = "found", !.step = "member", !.what = AdminRole] OBVIOUS
<1>2. w \in Work /\ w.op = "found" /\ w.step = "member" /\ w.what = AdminRole /\ w.who = {}
  BY <1>1, RolesApart DEF NoWork, Work, AllRoles
<1>3. work[a] = NoWork /\ org # "active" /\ org' = "active" /\ UNCHANGED <<person, role, was>> BY DEF Found
<1>4. Steps(a, w) BY <1>1, <1>2 DEF Found, Steps
<1>5. SamePeople /\ SameAssigned /\ Active' = Active /\ Members' = Members BY <1>3, PeopleStay
<1>6. work[a].who = {} /\ work[a].op = "none" BY <1>3, NoWorkType
<1>7. Members = {} /\ \A b \in Admins : work[b].op # "found" BY <1>3 DEF StaffInv, FoundedOnce
<1>8. StaffTypeOK' BY <1>3, <1>4, OneSteps DEF StaffInv, StaffTypeOK
<1>9. StepsKnown'
  <2>1. WorkShape(w)' BY <1>2, <1>5 DEF WorkShape
  <2> QED BY <1>4, <1>5, <2>1, ShapesStay
<1>10. Seeded' <=> Seeded BY <1>3, RoleStays
<1>11. SeededFirst'
  <2>1. \A p \in People : person'[p].assigned # NoRole => person[p].assigned # NoRole \/ Seeded' BY <1>3
  <2>2. ~NeedsSeed(w) BY <1>2 DEF NeedsSeed
  <2> QED BY <1>2, <1>4, <1>5, <1>10, <2>1, <2>2, SeedsStay
<1>12. FoundedOnce'
  <2>1. work'[a] = w /\ \A b \in Admins \ {a} : work'[b] = work[b] BY <1>4, OneSteps
  <2> QED BY <1>3, <1>5, <1>7, <2>1 DEF FoundedOnce
<1>13. CountsKnown' BY <1>2, <1>3, <1>4, <1>5, CountsStay
<1>14. RoleComing' BY <1>3, <1>4, <1>5, <1>6, ComingStays
<1>15. DeletesLoose' BY <1>2, <1>3, <1>4, <1>5, DeletesStay
<1>16. MirrorKnown' BY <1>2, <1>3, <1>4, <1>5, <1>6, MirrorStays
<1> QED BY <1>8, <1>9, <1>11, <1>12, <1>13, <1>14, <1>15, <1>16 DEF StaffInv

\* A system role gets its row or its permissions.
LEMMA SeedingSteps ==
  ASSUME StaffInv, NEW a \in Admins, NEW w \in Work, Steps(a, w), UNCHANGED <<org, person, was>>,
         work[a].step \in {"seed", "fill"}, w.op = work[a].op, w.who = work[a].who, w.what = work[a].what,
         w.step \in {"seed", "fill", "assign"}, role' \in [AllRoles -> {"none", "bare", "full"}], Seeded => Seeded',
         w.step = "assign" => Seeded'
  PROVE  StaffInv'
<1>1. WorkShape(work[a]) /\ work[a].op \in {"none", "found", "create", "import", "update", "rewrite", "assign", "delete"}
  BY WorkFields DEF StaffInv, StepsKnown
<1>2. work[a].op = "found" /\ work[a].what = AdminRole /\ work[a].who \subseteq Members BY <1>1, NoWorkType DEF WorkShape
<1>3. WorkShape(w) BY <1>2 DEF WorkShape
<1>4. ~NeedsSeed(w) /\ ~FoundsMember(w) BY <1>2 DEF NeedsSeed, FoundsMember
<1>5. Coming(w) BY <1>2 DEF Coming
<1>6. UNCHANGED person /\ org' = org /\ was' = was OBVIOUS
<1>7. ASSUME NEW p \in Members \ was'.unsynced
      PROVE  /\ p \in w.who => MirrorAt(w, p) /\ (p \in work[a].who \/ Placing(p) = {})
             /\ p \in work[a].who /\ p \notin w.who => Synced(p)
  <2> SUFFICES ASSUME p \in w.who PROVE MirrorAt(w, p) OBVIOUS
  <2>1. a \in Placing(p) BY DEF Placing
  <2>2. MirrorAt(work[a], p) BY <1>6, <2>1 DEF StaffInv, MirrorKnown
  <2>3. person[p].mirror = w.what BY <2>2 DEF MirrorAt
  <2> QED BY <1>2, <2>3 DEF MirrorAt
<1>8. \A p \in work[a].who : Coming(work[a]) => p \in was'.loose \/ (p \in w.who /\ Coming(w)) BY <1>5
<1>9. w.op = "found" /\ w.op \notin {"create", "import"} /\ w.op # "delete" BY <1>2
<1> QED BY <1>2, <1>3, <1>4, <1>6, <1>7, <1>8, <1>9, WasStays, RequestSteps

LEMMA StaffSeed == ASSUME StaffInv, NEW a \in Admins, Seed(a) PROVE StaffInv'
<1>1. work[a] \in Work /\ work[a].step = "seed" /\ UNCHANGED <<org, person, was>> BY WorkFields DEF StaffInv, Seed
<1>2. CASE (\A r \in SystemRoles : role[r] # "none") /\ Goes(a, "assign") /\ UNCHANGED role
  <2>1. PICK w : w = [work[a] EXCEPT !.step = "assign"] OBVIOUS
  <2>2. w \in Work /\ w.op = work[a].op /\ w.who = work[a].who /\ w.what = work[a].what /\ w.step = "assign"
    BY <1>1, <2>1 DEF Work
  <2>3. Steps(a, w) BY <1>2, <2>1, <2>2 DEF Goes, Steps
  <2>4. Seeded' /\ role' \in [AllRoles -> {"none", "bare", "full"}] BY <1>2, RoleStays DEF Seeded
  <2> QED BY <1>1, <2>2, <2>3, <2>4, SeedingSteps
<1>3. ASSUME NEW r \in SystemRoles, role[r] = "none", role' = [role EXCEPT ![r] = "bare"],
             work' = [work EXCEPT ![a].step = "fill", ![a].n = IF r = work[a].what THEN 1 ELSE 0]
      PROVE  StaffInv'
  <2>1. PICK n \in Nat : n = IF r = work[a].what THEN 1 ELSE 0 OBVIOUS
  <2>2. PICK w : w = [work[a] EXCEPT !.step = "fill", !.n = n] OBVIOUS
  <2>3. w \in Work /\ w.op = work[a].op /\ w.who = work[a].who /\ w.what = work[a].what /\ w.step = "fill"
    BY <1>1, <2>1, <2>2 DEF Work
  <2>4. Steps(a, w) BY <1>3, <2>1, <2>2, <2>3 DEF Steps, StaffInv, StaffTypeOK
  <2>5. role' \in [AllRoles -> {"none", "bare", "full"}] BY <1>3 DEF StaffInv, StaffTypeOK
  <2>6. Seeded => Seeded' BY <1>3 DEF Seeded
  <2> QED BY <1>1, <2>3, <2>4, <2>5, <2>6, SeedingSteps
<1> QED BY <1>2, <1>3 DEF Seed

LEMMA StaffFill == ASSUME StaffInv, NEW a \in Admins, Fill(a) PROVE StaffInv'
<1>1. work[a] \in Work /\ work[a].step = "fill" /\ UNCHANGED <<org, person, was>> BY WorkFields DEF StaffInv, Fill
<1>2. PICK r \in SystemRoles : role' = [role EXCEPT ![r] = "full"] BY DEF Fill
<1>3. PICK w : w = [work[a] EXCEPT !.step = "seed"] OBVIOUS
<1>4. w \in Work /\ w.op = work[a].op /\ w.who = work[a].who /\ w.what = work[a].what /\ w.step = "seed"
  BY <1>1, <1>3 DEF Work
<1>5. Steps(a, w) BY <1>3, <1>4 DEF Fill, Goes, Steps
<1>6. role' \in [AllRoles -> {"none", "bare", "full"}] BY <1>2 DEF StaffInv, StaffTypeOK
<1>7. Seeded => Seeded' BY <1>2, RolesApart DEF Seeded, StaffInv, StaffTypeOK
<1> QED BY <1>1, <1>4, <1>5, <1>6, <1>7, SeedingSteps

\* A request that begins, with nobody or with somebody whose role it will write.
LEMMA RequestBegins ==
  ASSUME StaffInv, NEW a \in Admins, NEW w \in Work, Steps(a, w), work[a] = NoWork, UNCHANGED <<org, person, role>>, SomeoneManages,
         WorkShape(w), w.op # "found",
         was' \in [seatRace : BOOLEAN, reactivated : BOOLEAN, aborts : 0 .. MaxAborts, loose : SUBSET People, unsynced : SUBSET People],
         was.loose \subseteq was'.loose, was.unsynced \subseteq was'.unsynced,
         was.seatRace => was'.seatRace, was.reactivated => was'.reactivated,
         w.op \in {"create", "import"} => was'.seatRace \/ (Adding = {} /\ w.n = Cardinality(Active)),
         w.op = "delete" => Unassigned(w.what),
         \A p \in Members \ was'.unsynced : p \in w.who => MirrorAt(w, p) /\ Placing(p) = {}
  PROVE  StaffInv'
<1>1. Seeded /\ Members # {} BY ManagedIsSeeded
<1>2. work[a].who = {} BY NoWorkType
<1>3. UNCHANGED person /\ org' = org /\ role' = role OBVIOUS
<1>4. ~FoundsMember(w) BY DEF FoundsMember
<1>5. \A p \in Members \ was'.unsynced :
           /\ p \in w.who => MirrorAt(w, p) /\ (p \in work[a].who \/ Placing(p) = {})
           /\ p \in work[a].who /\ p \notin w.who => Synced(p)
  BY <1>2
<1>6. \A p \in work[a].who : Coming(work[a]) => p \in was'.loose \/ (p \in w.who /\ Coming(w)) BY <1>2
<1> QED BY <1>1, <1>3, <1>4, <1>5, <1>6, RoleStays, RequestSteps

LEMMA StaffRecruit ==
  ASSUME StaffInv, NEW a \in Admins, NEW op \in {"create", "import"}, NEW r \in SystemRoles, Recruit(a, op, r)
  PROVE  StaffInv'
<1>1. Cardinality(Active) \in Nat BY ActiveFinite
<1>2. PICK w : w = [op |-> op, step |-> "rows", who |-> {}, what |-> r, n |-> Cardinality(Active)] OBVIOUS
<1>3. w \in Work /\ w.op = op /\ w.step = "rows" /\ w.who = {} /\ w.what = r /\ w.n = Cardinality(Active)
  BY <1>1, <1>2 DEF Work, AllRoles
<1>4. Steps(a, w) BY <1>2, <1>3 DEF Recruit, Steps
<1>5. PICK b \in BOOLEAN : b = (was.seatRace \/ Adding # {}) BY WasFields DEF StaffInv
<1>6. was' = [was EXCEPT !.seatRace = b] BY <1>5 DEF Recruit
<1>7. /\ was' \in [seatRace : BOOLEAN, reactivated : BOOLEAN, aborts : 0 .. MaxAborts, loose : SUBSET People, unsynced : SUBSET People]
      /\ was'.seatRace = b /\ was'.reactivated = was.reactivated /\ was'.loose = was.loose /\ was'.unsynced = was.unsynced
  BY <1>6 DEF StaffInv, StaffTypeOK
<1>8. WorkShape(w) BY <1>3 DEF WorkShape
<1>9. work[a] = NoWork /\ UNCHANGED <<org, person, role>> /\ SomeoneManages BY DEF Recruit
<1> QED BY <1>3, <1>4, <1>5, <1>7, <1>8, <1>9, RequestBegins

\* The history of a change of somebody's role.
LEMMA PlacesOne ==
  ASSUME StaffInv, NEW p, p \in Members, was' = [was EXCEPT !.unsynced = IF Placing(p) = {} THEN @ ELSE @ \cup {p}]
  PROVE  /\ was' \in [seatRace : BOOLEAN, reactivated : BOOLEAN, aborts : 0 .. MaxAborts, loose : SUBSET People, unsynced : SUBSET People]
         /\ was'.seatRace = was.seatRace /\ was'.reactivated = was.reactivated /\ was'.loose = was.loose
         /\ was.unsynced \subseteq was'.unsynced /\ (p \notin was'.unsynced => Placing(p) = {} /\ Synced(p))
<1>1. p \in People BY DEF Members
<1>2. PICK U \in SUBSET People : U = IF Placing(p) = {} THEN was.unsynced ELSE was.unsynced \cup {p}
  BY <1>1, WasFields DEF StaffInv
<1>3. was' = [was EXCEPT !.unsynced = U] BY <1>2
<1>4. /\ was' \in [seatRace : BOOLEAN, reactivated : BOOLEAN, aborts : 0 .. MaxAborts, loose : SUBSET People, unsynced : SUBSET People]
      /\ was'.seatRace = was.seatRace /\ was'.reactivated = was.reactivated /\ was'.loose = was.loose /\ was'.unsynced = U
  BY <1>3 DEF StaffInv, StaffTypeOK
<1> QED BY <1>2, <1>4 DEF StaffInv, MirrorKnown

LEMMA StaffUpdateRole ==
  ASSUME StaffInv, NEW a \in Admins, NEW p \in People, NEW r \in AllRoles, UpdateRole(a, p, r)
  PROVE  StaffInv'
<1>1. r \in SystemRoles /\ p \in Members /\ work[a] = NoWork /\ UNCHANGED <<org, person, role>> /\ SomeoneManages BY DEF UpdateRole
<1>8. PICK o \in {"update", "rewrite"} : o = (IF r = person[p].mirror THEN "rewrite" ELSE "update") OBVIOUS
<1>2. PICK w : w = [op |-> o, step |-> "mirror", who |-> {p}, what |-> r, n |-> 0] OBVIOUS
<1>3. w \in Work /\ w.op = o /\ w.step = "mirror" /\ w.who = {p} /\ w.what = r BY <1>2 DEF Work
<1>4. Steps(a, w) BY <1>2, <1>3, <1>8 DEF UpdateRole, Steps
<1>5. was' = [was EXCEPT !.unsynced = IF Placing(p) = {} THEN @ ELSE @ \cup {p}] BY DEF UpdateRole
<1>6. WorkShape(w) BY <1>1, <1>3 DEF WorkShape
<1>7. Synced(p) => MirrorAt(w, p) BY <1>3, <1>8 DEF MirrorAt
<1> QED BY <1>1, <1>3, <1>4, <1>5, <1>6, <1>7, PlacesOne, RequestBegins

LEMMA StaffAssignRole ==
  ASSUME StaffInv, NEW a \in Admins, NEW p \in People, NEW r \in AllRoles, AssignRole(a, p, r)
  PROVE  StaffInv'
<1>1. p \in Members /\ work[a] = NoWork /\ UNCHANGED <<org, person, role>> /\ SomeoneManages BY DEF AssignRole
<1>2. PICK w : w = [op |-> "assign", step |-> "assign", who |-> {p}, what |-> r, n |-> 0] OBVIOUS
<1>3. w \in Work /\ w.op = "assign" /\ w.step = "assign" /\ w.who = {p} /\ w.what = r BY <1>2 DEF Work
<1>4. Steps(a, w) BY <1>2, <1>3 DEF AssignRole, Steps
<1>5. was' = [was EXCEPT !.unsynced = IF Placing(p) = {} THEN @ ELSE @ \cup {p}] BY DEF AssignRole
<1>6. WorkShape(w) BY <1>1, <1>3 DEF WorkShape
<1>7. Synced(p) => MirrorAt(w, p) BY <1>3 DEF MirrorAt
<1> QED BY <1>1, <1>3, <1>4, <1>5, <1>6, <1>7, PlacesOne, RequestBegins

LEMMA StaffDeleteRead ==
  ASSUME StaffInv, NEW a \in Admins, NEW r \in AllRoles, DeleteRead(a, r)
  PROVE  StaffInv'
<1>1. PICK w : w = [NoWork EXCEPT !.op = "delete", !.step = "drop", !.what = r] OBVIOUS
<1>2. w \in Work /\ w.op = "delete" /\ w.step = "drop" /\ w.what = r /\ w.who = {} BY <1>1 DEF NoWork, Work
<1>3. Steps(a, w) BY <1>1, <1>2 DEF DeleteRead, Steps
<1>4. r \in CustomRoles /\ work[a] = NoWork /\ UNCHANGED <<org, person, role>> /\ SomeoneManages /\ Unassigned(r) /\ was' = was
  BY DEF DeleteRead
<1>5. WorkShape(w) BY <1>2, <1>4 DEF WorkShape
<1> QED BY <1>2, <1>3, <1>4, <1>5, WasStays, RequestBegins

\* A request that ends.
LEMMA Stopping ==
  ASSUME StaffInv, NEW a \in Admins, Ends(a)
  PROVE  /\ Steps(a, NoWork) /\ WorkShape(NoWork) /\ ~NeedsSeed(NoWork) /\ ~FoundsMember(NoWork) /\ ~Coming(NoWork)
         /\ NoWork \in Work /\ NoWork.op = "none" /\ NoWork.who = {}
  BY NoWorkType DEF Ends, Steps, WorkShape, NeedsSeed, FoundsMember, Coming

LEMMA StaffImportEnds == ASSUME StaffInv, NEW a \in Admins, ImportEnds(a) PROVE StaffInv'
<1>1. Ends(a) /\ UNCHANGED <<org, person, role, was>> /\ work[a].op = "import" /\ work[a].step = "rows" BY DEF ImportEnds, Busy
<1>2. work[a].who = {} BY <1>1 DEF StaffInv, StepsKnown, WorkShape
<1>3. PICK w : w = NoWork OBVIOUS
<1>4. /\ Steps(a, w) /\ WorkShape(w) /\ ~NeedsSeed(w) /\ ~FoundsMember(w)
      /\ w.op = "none" /\ w.who = {}
  BY <1>1, <1>3, Stopping
<1>5. UNCHANGED person /\ org' = org /\ was' = was /\ role' = role BY <1>1
<1>6. w.op # "found" /\ w.op \notin {"create", "import"} /\ w.op # "delete" BY <1>4
<1> QED BY <1>2, <1>4, <1>5, <1>6, WasStays, RoleStays, RequestSteps

LEMMA StaffStaffAbort == ASSUME StaffInv, NEW a \in Admins, StaffAbort(a) PROVE StaffInv'
<1>1. Ends(a) /\ UNCHANGED <<org, person, role>> /\ was.aborts < MaxAborts BY DEF StaffAbort
<1>2. PICK w : w = NoWork OBVIOUS
<1>3. /\ Steps(a, w) /\ WorkShape(w) /\ ~NeedsSeed(w) /\ ~FoundsMember(w)
      /\ w.op = "none" /\ w.who = {}
  BY <1>1, <1>2, Stopping
<1>4. UNCHANGED person /\ org' = org /\ role' = role BY <1>1
<1>5. w.op # "found" /\ w.op \notin {"create", "import"} /\ w.op # "delete" BY <1>3
<1>6. PICK n \in 0 .. MaxAborts : n = was.aborts + 1 BY <1>1, WasFields, RolesApart DEF StaffInv
<1>7. PICK L \in SUBSET People : L = was.loose \cup work[a].who BY WasFields, WorkFields DEF StaffInv
<1>8. PICK U \in SUBSET People : U = was.unsynced \cup work[a].who BY WasFields, WorkFields DEF StaffInv
<1>9. was' = [was EXCEPT !.aborts = n, !.loose = L, !.unsynced = U] BY <1>6, <1>7, <1>8 DEF StaffAbort
<1>10. /\ was' \in [seatRace : BOOLEAN, reactivated : BOOLEAN, aborts : 0 .. MaxAborts, loose : SUBSET People, unsynced : SUBSET People]
       /\ was'.seatRace = was.seatRace /\ was'.reactivated = was.reactivated /\ was'.loose = L /\ was'.unsynced = U
  BY <1>9 DEF StaffInv, StaffTypeOK
<1>11. \A p \in work[a].who : p \in was'.loose /\ p \in was'.unsynced BY <1>7, <1>8, <1>10
<1>12. was.loose \subseteq was'.loose /\ was.unsynced \subseteq was'.unsynced BY <1>7, <1>8, <1>10
<1> QED BY <1>3, <1>4, <1>5, <1>10, <1>11, <1>12, RoleStays, RequestSteps

LEMMA StaffOptOut == ASSUME StaffInv, NEW a \in Admins, OptOut(a) PROVE StaffInv'
<1>1. Ends(a) /\ UNCHANGED <<org, person, role>> /\ work[a].op = "assign" BY DEF OptOut, Busy
<1>2. PICK w : w = NoWork OBVIOUS
<1>3. /\ Steps(a, w) /\ WorkShape(w) /\ ~NeedsSeed(w) /\ ~FoundsMember(w)
      /\ w.op = "none" /\ w.who = {}
  BY <1>1, <1>2, Stopping
<1>4. UNCHANGED person /\ org' = org /\ role' = role BY <1>1
<1>5. w.op # "found" /\ w.op \notin {"create", "import"} /\ w.op # "delete" BY <1>3
<1>6. ~Coming(work[a]) BY <1>1 DEF Coming
<1>8. PICK U \in SUBSET People : U = was.unsynced \cup work[a].who BY WasFields, WorkFields DEF StaffInv
<1>9. was' = [was EXCEPT !.unsynced = U] BY <1>8 DEF OptOut
<1>10. /\ was' \in [seatRace : BOOLEAN, reactivated : BOOLEAN, aborts : 0 .. MaxAborts, loose : SUBSET People, unsynced : SUBSET People]
       /\ was'.seatRace = was.seatRace /\ was'.reactivated = was.reactivated /\ was'.loose = was.loose /\ was'.unsynced = U
  BY <1>9 DEF StaffInv, StaffTypeOK
<1>11. \A p \in work[a].who : p \in was'.unsynced BY <1>8, <1>10
<1>12. was.loose \subseteq was'.loose /\ was.unsynced \subseteq was'.unsynced BY <1>8, <1>10
<1> QED BY <1>3, <1>4, <1>5, <1>6, <1>10, <1>11, <1>12, RoleStays, RequestSteps

-----------------------------------------------------------------------------
\* Somebody joins, and the request that adds them goes on to their role.
LEMMA Joins ==
  ASSUME StaffInv, NEW a \in Admins, NEW w \in Work, Steps(a, w), UNCHANGED <<org, role, was>>,
         NEW p \in People \ Members, NEW r \in SystemRoles,
         person' = [person EXCEPT ![p] = [Nobody EXCEPT !.status = "active", !.mirror = r]],
         work[a].who = {}, w.who = {p}, w.what = r, w.op = work[a].op, Coming(w), w.op = "create" => w.step = "assign",
         w.op = "import" => w.step = "balances", w.op = "found" => r = AdminRole /\ w.step = "seed", org = "active", NeedsSeed(w) => Seeded,
         ~FoundsMember(w), \A b \in Admins \ {a} : ~FoundsMember(work[b]),
         CountsKnown'
  PROVE  StaffInv'
<1> DEFINE x == [Nobody EXCEPT !.status = "active", !.mirror = r]
<1>1. x \in Person /\ x.status = "active" /\ x.mirror = r /\ x.assigned = NoRole BY RolesApart DEF Nobody, Person
<1> HIDE DEF x
<1>2. person'[p] = x /\ (\A q \in People \ {p} : person'[q] = person[q]) /\ person' \in [People -> Person]
  BY <1>1 DEF StaffInv, StaffTypeOK, x
<1>3. Members' = Members \cup {p} BY <1>1, <1>2 DEF Members
<1>4. a \in Admins /\ work'[a] = w /\ (\A b \in Admins \ {a} : work'[b] = work[b]) /\ work' \in [Admins -> Work]
      /\ \A q : Placing(q)' = (Placing(q) \ {a}) \cup (IF q \in w.who THEN {a} ELSE {})
  BY OneSteps
<1>5. \A b \in Admins : work[b].who \subseteq Members BY DEF StaffInv, StepsKnown, WorkShape
<1>6. Placing(p) = {} BY <1>5 DEF Placing
<1>7. Placing(p)' = {a} BY <1>4, <1>6
<1>8. \A q \in Members : Placing(q)' = Placing(q) /\ a \notin Placing(q) BY <1>4 DEF Placing
<1>9. role' = role /\ was' = was /\ org' = org OBVIOUS
<1>10. StaffTypeOK' BY <1>2, <1>4 DEF StaffInv, StaffTypeOK
<1>11. StepsKnown'
  <2>1. WorkShape(w)' BY <1>3 DEF WorkShape, Coming
  <2> QED BY <1>3, <2>1, ShapesStay
<1>12. SeededFirst'
  <2>1. \A q \in People : person'[q].assigned # NoRole => person[q].assigned # NoRole \/ Seeded' BY <1>1, <1>2
  <2>2. Seeded' <=> Seeded BY <1>9, RoleStays
  <2>3. NeedsSeed(w) => Seeded' /\ Members' # {} BY <1>3, <2>2
  <2> QED BY <1>3, <2>1, <2>2, <2>3, SeedsStay
<1>13. FoundedOnce'
  <2>1. Members' = Members \/ (org = "active" /\ ~FoundsMember(w) /\ \A b \in Admins \ {a} : ~FoundsMember(work[b])) OBVIOUS
  <2> QED BY <1>9, <2>1, FoundsStay
<1>14. RoleComing'
  <2> SUFFICES ASSUME NEW q \in Members', person'[q].assigned = NoRole, q \notin was.loose
               PROVE  \E b \in Placing(q)' : Coming(work'[b])
    BY <1>9 DEF RoleComing, Coming
  <2>1. CASE q = p BY <1>4, <1>7, <2>1
  <2>2. CASE q # p
    <3>1. q \in Members /\ q \in People /\ person[q].assigned = NoRole BY <1>2, <1>3, <2>2 DEF Members
    <3>2. PICK b \in Placing(q) : Coming(work[b]) BY <3>1 DEF StaffInv, RoleComing
    <3>3. b \in Placing(q)' /\ work'[b] = work[b] BY <1>4, <1>8, <3>1, <3>2 DEF Placing
    <3> QED BY <3>2, <3>3
  <2> QED BY <2>1, <2>2
<1>15. DeletesLoose'
  <2> SUFFICES ASSUME NEW b \in Admins, work'[b].op = "delete", NEW q \in Members', person'[q].assigned = work'[b].what
               PROVE  q \in was.loose
    BY <1>9 DEF DeletesLoose
  <2>1. b # a BY <1>4 DEF Coming
  <2>2. work'[b] = work[b] BY <1>4, <2>1
  <2>3. work[b].what \in CustomRoles BY <2>2 DEF StaffInv, StepsKnown, WorkShape
  <2>4. q # p BY <1>1, <1>2, <2>2, <2>3, RolesApart
  <2>5. q \in Members /\ person'[q] = person[q] BY <1>2, <1>3, <2>4 DEF Members
  <2> QED BY <2>2, <2>5 DEF StaffInv, DeletesLoose
<1>16. MirrorKnown'
  <2>1. \A q \in Members' : person'[q].mirror \in SystemRoles BY <1>1, <1>2, <1>3 DEF StaffInv, MirrorKnown, Members
  <2>2. ASSUME NEW q \in Members' \ was.unsynced
        PROVE  /\ Placing(q)' = {} => Synced(q)'
               /\ \A b, c \in Placing(q)' : b = c
               /\ \A b \in Placing(q)' : MirrorAt(work[b], q)'
    <3>1. CASE q = p
      <4>1. person'[p].mirror = w.what /\ person'[p].assigned = NoRole BY <1>1, <1>2
      <4>2. Synced(p)' BY <4>1, RolesApart DEF Synced
      <4>3. MirrorAt(w, p)' BY <4>1, <4>2 DEF MirrorAt, Coming
      <4>4. MirrorAt(work[a], p)' BY <1>4, <4>3 DEF MirrorAt
      <4> QED BY <1>7, <3>1, <4>4
    <3>2. CASE q # p
      <4>1. q \in Members /\ person'[q] = person[q] BY <1>2, <1>3, <3>2 DEF Members
      <4>2. Synced(q)' <=> Synced(q) BY <4>1 DEF Synced
      <4>3. Placing(q)' = Placing(q) /\ a \notin Placing(q) BY <1>8, <4>1
      <4>4. ASSUME NEW b \in Placing(q) PROVE MirrorAt(work[b], q)'
        <5>1. work'[b] = work[b] BY <1>4, <4>3 DEF Placing
        <5>2. MirrorAt(work[b], q) BY <4>1 DEF StaffInv, MirrorKnown
        <5> QED BY <4>1, <4>2, <5>1, <5>2 DEF MirrorAt
      <4> QED BY <4>1, <4>2, <4>3, <4>4 DEF StaffInv, MirrorKnown
    <3> QED BY <3>1, <3>2
  <2> QED BY <1>9, <2>1, <2>2 DEF MirrorKnown
<1> QED BY <1>10, <1>11, <1>12, <1>13, <1>14, <1>15, <1>16 DEF StaffInv

LEMMA OneMore ==
  ASSUME StaffInv, NEW p \in People \ Members, NEW r, person' = [person EXCEPT ![p] = [Nobody EXCEPT !.status = "active", !.mirror = r]]
  PROVE  Cardinality(Active)' = Cardinality(Active) + 1
<1>1. person'[p].status = "active" /\ \A q \in People \ {p} : person'[q] = person[q]
  BY DEF StaffInv, StaffTypeOK, Nobody
<1>2. Active' = Active \cup {p} /\ p \notin Active BY <1>1 DEF Active, Members
<1>3. Cardinality(Active \cup {p}) = Cardinality(Active) + 1 BY <1>2, ActiveFinite, FS_AddElement
<1> QED BY <1>2, <1>3

LEMMA StaffFoundMember == ASSUME StaffInv, NEW a \in Admins, FoundMember(a) PROVE StaffInv'
<1>1. FoundsMember(work[a]) /\ UNCHANGED <<org, role, was>> BY DEF FoundMember, Busy, FoundsMember
<1>2. PICK p \in People \ Members :
        /\ person' = [person EXCEPT ![p] = [Nobody EXCEPT !.status = "active", !.mirror = AdminRole]]
        /\ work' = [work EXCEPT ![a].step = "seed", ![a].who = {p}]
  BY DEF FoundMember
<1>3. PICK w : w = [work[a] EXCEPT !.step = "seed", !.who = {p}] OBVIOUS
<1>4. w \in Work /\ w.op = work[a].op /\ w.what = work[a].what /\ w.step = "seed" /\ w.who = {p} /\ w.n = work[a].n
  <2>1. work[a] \in Work BY WorkFields DEF StaffInv
  <2> QED BY <1>3, <2>1 DEF Work
<1>5. Steps(a, w) BY <1>2, <1>3, <1>4 DEF Steps, StaffInv, StaffTypeOK
<1>6. work[a].op = "found" /\ work[a].what = AdminRole /\ work[a].who = {}
  BY <1>1 DEF FoundsMember, StaffInv, StepsKnown, WorkShape
<1>7. Members = {} /\ (\A b \in Admins \ {a} : work[b].op # "found") /\ org = "active"
  BY <1>1, <1>6 DEF StaffInv, FoundedOnce
<1>8. \A b \in Admins : ~NeedsSeed(work[b]) BY <1>7 DEF StaffInv, SeededFirst
<1>9. work'[a] = w /\ \A b \in Admins \ {a} : work'[b] = work[b] BY <1>5, OneSteps
<1>10. Adding' = {} BY <1>4, <1>6, <1>8, <1>9 DEF Adding, NeedsSeed
<1>11. Cardinality(Active)' = 1
  <2>1. Active = {} BY <1>7 DEF Active, Members
  <2>2. Cardinality(Active) = 0 BY <2>1, FS_EmptySet
  <2>3. Cardinality(Active)' = Cardinality(Active) + 1 BY <1>2, OneMore
  <2> QED BY <2>2, <2>3
<1>12. CountsKnown' BY <1>10, <1>11, RolesApart DEF CountsKnown
<1>13. Coming(w) /\ ~NeedsSeed(w) /\ ~FoundsMember(w) BY <1>4, <1>6 DEF Coming, NeedsSeed, FoundsMember
<1>14. \A b \in Admins \ {a} : ~FoundsMember(work[b]) BY <1>7 DEF FoundsMember
<1>15. w.op = "found" BY <1>4, <1>6
<1> QED BY <1>1, <1>2, <1>4, <1>5, <1>6, <1>7, <1>12, <1>13, <1>14, <1>15, RolesApart, Joins

LEMMA StaffHire == ASSUME StaffInv, NEW a \in Admins, Hire(a) PROVE StaffInv'
<1>1. work[a].step = "rows" /\ work[a].n < Seats /\ UNCHANGED <<org, role, was>> BY DEF Hire, TakenFor
<1>2. work[a] \in Work /\ work[a].n \in Nat /\ work[a].op \in {"none", "found", "create", "import", "update", "rewrite", "assign", "delete"}
  BY WorkFields DEF StaffInv
<1>3. work[a].op \in {"create", "import"} /\ work[a].what \in SystemRoles /\ work[a].who = {}
  <2>1. WorkShape(work[a]) BY DEF StaffInv, StepsKnown
  <2> QED BY <1>1, <1>2, <2>1, NoWorkType DEF WorkShape
<1>4. PICK p \in People \ Members :
        /\ person' = [person EXCEPT ![p] = [Nobody EXCEPT !.status = "active", !.mirror = work[a].what]]
        /\ work' = [work EXCEPT ![a].who = {p}, ![a].n = @ + 1,
                                ![a].step = IF work[a].op = "create" THEN "assign" ELSE "balances"]
  BY DEF Hire
<1>5. PICK st \in {"assign", "balances"} : st = IF work[a].op = "create" THEN "assign" ELSE "balances" OBVIOUS
<1>6. PICK w : w = [work[a] EXCEPT !.who = {p}, !.n = work[a].n + 1, !.step = st] OBVIOUS
<1>7. w \in Work /\ w.op = work[a].op /\ w.what = work[a].what /\ w.step = st /\ w.who = {p} /\ w.n = work[a].n + 1
  <2>1. {p} \in SUBSET People /\ work[a].n + 1 \in Nat BY <1>2
  <2>2. w \in Work BY <1>2, <1>6, <2>1 DEF Work
  <2> QED BY <1>2, <1>6, <2>2 DEF Work
<1>8. Steps(a, w) BY <1>2, <1>4, <1>5, <1>6, <1>7 DEF Steps, StaffInv, StaffTypeOK
<1>9. NeedsSeed(work[a]) BY <1>3 DEF NeedsSeed
<1>10. Seeded /\ Members # {} BY <1>9 DEF StaffInv, SeededFirst
<1>11. org = "active" /\ \A b \in Admins : ~FoundsMember(work[b]) BY <1>10 DEF StaffInv, FoundedOnce
<1>12. work'[a] = w /\ \A b \in Admins \ {a} : work'[b] = work[b] BY <1>8, OneSteps
<1>13. CountsKnown'
  <2> SUFFICES ASSUME ~was.seatRace, ~was.reactivated
               PROVE  /\ Cardinality(Active)' <= Seats
                      /\ \A b, c \in Adding' : b = c
                      /\ \A b \in Adding' : Cardinality(Active)' <= work'[b].n
    BY <1>1 DEF CountsKnown
  <2>1. a \in Adding BY <1>3 DEF Adding
  <2>2. Cardinality(Active) <= work[a].n /\ \A b \in Adding : b = a BY <2>1 DEF StaffInv, CountsKnown
  <2>3. Cardinality(Active)' = Cardinality(Active) + 1 BY <1>4, OneMore
  <2>4. Cardinality(Active) \in Nat /\ Seats \in Nat BY ActiveFinite, RolesApart
  <2>5. \A b \in Adding' : b = a BY <1>12, <2>2 DEF Adding
  <2> QED BY <1>1, <1>2, <1>7, <1>12, <2>2, <2>3, <2>4, <2>5
<1>14. Coming(w) /\ ~FoundsMember(w) /\ w.op # "found" /\ (w.op = "create" => w.step = "assign")
       /\ (w.op = "import" => w.step = "balances")
  BY <1>3, <1>5, <1>7 DEF Coming, FoundsMember
<1> QED BY <1>1, <1>3, <1>4, <1>7, <1>8, <1>10, <1>11, <1>13, <1>14, Joins

-----------------------------------------------------------------------------
\* Leave balances, and deactivation: roles stay.
LEMMA StaffBalances == ASSUME StaffInv, NEW a \in Admins, Balances(a) PROVE StaffInv'
<1>1. work[a].step = "balances" /\ UNCHANGED <<org, role, was>> BY DEF Balances
<1>2. work[a] \in Work /\ work[a].op \in {"none", "found", "create", "import", "update", "rewrite", "assign", "delete"} /\ WorkShape(work[a])
  BY WorkFields DEF StaffInv, StepsKnown
<1>3. work[a].op \in {"create", "import"} /\ work[a].what \in SystemRoles BY <1>1, <1>2, NoWorkType DEF WorkShape
<1>4. ASSUME NEW p \in People
      PROVE  /\ person'[p] \in Person /\ person'[p].status = person[p].status
             /\ person'[p].assigned = person[p].assigned /\ person'[p].mirror = person[p].mirror
  <2>1. person[p] \in Person BY PersonFields DEF StaffInv
  <2>2. CASE p \in work[a].who
    <3>1. person'[p] = [person[p] EXCEPT !.balances = TRUE] BY <2>2 DEF Balances
    <3> QED BY <2>1, <3>1 DEF Person
  <2>3. CASE p \notin work[a].who
    <3>1. person'[p] = person[p] BY <2>3 DEF Balances
    <3> QED BY <2>1, <3>1
  <2> QED BY <2>2, <2>3
<1>5. SamePeople /\ SameAssigned /\ person' \in [People -> Person]
  <2>1. person' \in [People -> Person] BY <1>4 DEF Balances
  <2> QED BY <1>4, <2>1 DEF SamePeople, SameAssigned, SameMembership
<1>6. Members' = Members /\ Active' = Active BY <1>4 DEF Members, Active
<1>7. PICK w : w = IF work[a].op = "create" THEN NoWork ELSE [work[a] EXCEPT !.step = "assign"] OBVIOUS
<1>8. CASE work[a].op = "create"
  <2>1. w \in Work /\ w = NoWork /\ w.op = "none" /\ w.who = {} /\ w.step = "idle" BY <1>7, <1>8, NoWorkType
  <2>2. Steps(a, w) BY <1>8, <2>1 DEF Balances, Ends, Steps
  <2>3. ~Coming(work[a]) BY <1>1, <1>8 DEF Coming
  <2>4. WorkShape(w)' BY <2>1 DEF WorkShape
  <2>5. ~NeedsSeed(w) /\ ~FoundsMember(w) BY <2>1 DEF NeedsSeed, FoundsMember
  <2>6. ASSUME NEW p \in Members \ was.unsynced, p \in work[a].who PROVE Synced(p)
    <3>1. a \in Placing(p) BY <2>6 DEF Placing
    <3>2. MirrorAt(work[a], p) BY <3>1 DEF StaffInv, MirrorKnown
    <3> QED BY <1>1, <1>8, <3>2 DEF MirrorAt
  <2>7. StaffTypeOK' BY <1>1, <1>5, <2>2, OneSteps DEF StaffInv, StaffTypeOK
  <2>8. StepsKnown' BY <1>6, <2>2, <2>4, ShapesStay
  <2>9. SeededFirst'
    <3>1. \A p \in People : person'[p].assigned # NoRole => person[p].assigned # NoRole \/ Seeded' BY <1>4
    <3>2. Seeded' <=> Seeded BY <1>1, RoleStays
    <3> QED BY <1>6, <2>1, <2>2, <2>5, <3>1, <3>2, SeedsStay
  <2>10. FoundedOnce' BY <1>1, <1>6, <2>1, <2>2, <2>5, FoundsStay
  <2>11. CountsKnown' BY <1>1, <1>6, <2>1, <2>2, CountsStay
  <2>12. RoleComing' BY <1>1, <1>5, <2>2, <2>3, ComingStays
  <2>13. DeletesLoose' BY <1>1, <1>5, <2>1, <2>2, DeletesStay
  <2>14. MirrorKnown' BY <1>1, <1>5, <2>1, <2>2, <2>6, MirrorStays
  <2> QED BY <2>7, <2>8, <2>9, <2>10, <2>11, <2>12, <2>13, <2>14 DEF StaffInv
<1>9. CASE work[a].op = "import"
  <2>1. /\ w \in Work /\ w.op = "import" /\ w.who = work[a].who /\ w.step = "assign" /\ w.what = work[a].what /\ w.n = work[a].n
    BY <1>2, <1>7, <1>9 DEF Work
  <2>2. Steps(a, w) BY <1>7, <1>9, <2>1 DEF Balances, Goes, Steps
  <2>3. Coming(w) BY <2>1 DEF Coming
  <2>4. WorkShape(w)' BY <1>2, <1>3, <1>6, <2>1 DEF WorkShape
  <2>5. NeedsSeed(work[a]) /\ ~FoundsMember(w) BY <1>9, <2>1 DEF NeedsSeed, FoundsMember
  <2>6. ASSUME NEW p \in Members \ was.unsynced, p \in w.who PROVE MirrorAt(w, p)
    <3>1. a \in Placing(p) BY <2>1, <2>6 DEF Placing
    <3>2. MirrorAt(work[a], p) BY <3>1 DEF StaffInv, MirrorKnown
    <3>3. person[p].mirror = w.what BY <1>1, <1>9, <2>1, <3>2 DEF MirrorAt
    <3> QED BY <2>1, <3>3 DEF MirrorAt
  <2>7. StaffTypeOK' BY <1>1, <1>5, <2>2, OneSteps DEF StaffInv, StaffTypeOK
  <2>8. StepsKnown' BY <1>6, <2>2, <2>4, ShapesStay
  <2>9. SeededFirst'
    <3>1. \A p \in People : person'[p].assigned # NoRole => person[p].assigned # NoRole \/ Seeded' BY <1>4
    <3>2. Seeded' <=> Seeded BY <1>1, RoleStays
    <3>3. Seeded /\ Members # {} BY <2>5 DEF StaffInv, SeededFirst
    <3> QED BY <1>6, <2>1, <2>2, <3>1, <3>2, <3>3, SeedsStay
  <2>10. FoundedOnce' BY <1>1, <1>6, <2>1, <2>2, <2>5, FoundsStay
  <2>11. CountsKnown' BY <1>1, <1>6, <1>9, <2>1, <2>2, CountsStay
  <2>12. RoleComing' BY <1>1, <1>5, <2>1, <2>2, <2>3, ComingStays
  <2>13. DeletesLoose' BY <1>1, <1>5, <2>1, <2>2, DeletesStay
  <2>14. MirrorKnown' BY <1>1, <1>5, <2>1, <2>2, <2>6, MirrorStays
  <2> QED BY <2>7, <2>8, <2>9, <2>10, <2>11, <2>12, <2>13, <2>14 DEF StaffInv
<1> QED BY <1>3, <1>8, <1>9

\* Steps of no request.
LEMMA NoRequestSteps ==
  ASSUME StaffInv, UNCHANGED work, SamePeople, was'.loose = was.loose, was'.unsynced = was.unsynced,
         Seeded => Seeded'
  PROVE  StepsKnown' /\ SeededFirst' /\ RoleComing' /\ DeletesLoose' /\ MirrorKnown'
<1>1. Members' = Members BY SameMembers DEF SamePeople, SameAssigned
<1>2. \A p \in People : person'[p].assigned = person[p].assigned /\ person'[p].mirror = person[p].mirror
  BY DEF SamePeople, SameAssigned
<1>3. \A p \in Members : p \in People BY DEF Members
<1>4. \A p : Placing(p)' = Placing(p) BY DEF Placing
<1>5. StepsKnown' BY <1>1 DEF StaffInv, StepsKnown, WorkShape
<1>6. SeededFirst' BY <1>1, <1>2 DEF StaffInv, SeededFirst, NeedsSeed
<1>7. RoleComing' BY <1>1, <1>2, <1>3, <1>4 DEF StaffInv, RoleComing, Coming
<1>8. DeletesLoose' BY <1>1, <1>2, <1>3 DEF StaffInv, DeletesLoose
<1>9. MirrorKnown'
  <2>1. \A p \in Members : Synced(p)' <=> Synced(p) BY <1>2, <1>3 DEF Synced
  <2>2. \A p \in Members, a \in Admins : MirrorAt(work[a], p)' <=> MirrorAt(work[a], p)
    BY <1>2, <1>3, <2>1 DEF MirrorAt
  <2>3. \A p : Placing(p) \subseteq Admins BY DEF Placing
  <2> QED BY <1>1, <1>2, <1>3, <1>4, <2>1, <2>2, <2>3 DEF StaffInv, MirrorKnown
<1> QED BY <1>5, <1>6, <1>7, <1>8, <1>9

LEMMA StaffSetActive == ASSUME StaffInv, NEW p \in People, SetActive(p) PROVE StaffInv'
<1>1. p \in Members /\ UNCHANGED <<org, role, work>> BY DEF SetActive
<1>2. person[p] \in Person /\ person[p].status \in {"active", "inactive"} BY <1>1, PersonFields DEF StaffInv, Members
<1>3. PICK st \in {"active", "inactive"} : st = IF person[p].status = "active" THEN "inactive" ELSE "active" OBVIOUS
<1>4. PICK x : x = [person[p] EXCEPT !.status = st] OBVIOUS
<1>5. x \in Person /\ x.status = st /\ x.assigned = person[p].assigned /\ x.mirror = person[p].mirror BY <1>2, <1>4 DEF Person
<1>6. person' = [person EXCEPT ![p] = x] BY <1>3, <1>4 DEF SetActive
<1>7. person'[p] = x /\ (\A q \in People \ {p} : person'[q] = person[q]) /\ person' \in [People -> Person]
  BY <1>5, <1>6 DEF StaffInv, StaffTypeOK
<1>8. SamePeople /\ SameMembership BY <1>2, <1>5, <1>7 DEF SamePeople, SameAssigned, SameMembership
<1>9. PICK b \in BOOLEAN : b = (was.reactivated \/ person[p].status = "inactive") BY WasFields DEF StaffInv
<1>10. was' = [was EXCEPT !.reactivated = b] BY <1>9 DEF SetActive
<1>11. /\ was' \in [seatRace : BOOLEAN, reactivated : BOOLEAN, aborts : 0 .. MaxAborts, loose : SUBSET People, unsynced : SUBSET People]
       /\ was'.seatRace = was.seatRace /\ was'.reactivated = b /\ was'.loose = was.loose /\ was'.unsynced = was.unsynced
  BY <1>10 DEF StaffInv, StaffTypeOK
<1>12. StaffTypeOK' BY <1>1, <1>7, <1>11 DEF StaffInv, StaffTypeOK
<1>13. Members' = Members BY <1>8, SameMembers
<1>14. StepsKnown' /\ SeededFirst' /\ RoleComing' /\ DeletesLoose' /\ MirrorKnown'
  <2>1. Seeded => Seeded' BY <1>1, RoleStays
  <2>2. UNCHANGED work BY <1>1
  <2> QED BY <1>8, <1>11, <2>1, <2>2, NoRequestSteps
<1>15. FoundedOnce' BY <1>1, <1>13 DEF StaffInv, FoundedOnce, FoundsMember
<1>16. CountsKnown'
  <2> SUFFICES ASSUME ~was.seatRace, ~b
               PROVE  /\ Cardinality(Active)' <= Seats
                      /\ \A c, d \in Adding' : c = d
                      /\ \A c \in Adding' : Cardinality(Active)' <= work'[c].n
    BY <1>11 DEF CountsKnown
  <2>1. st = "inactive" /\ ~was.reactivated BY <1>2, <1>3, <1>9
  <2>2. Active' \subseteq Active BY <1>5, <1>7, <2>1 DEF Active
  <2>3. Cardinality(Active') <= Cardinality(Active) BY <2>2, ActiveFinite, FS_Subset
  <2>4. Adding' = Adding /\ \A c \in Adding : work[c].n \in Nat /\ work'[c] = work[c] BY <1>1, WorkFields DEF Adding, StaffInv
  <2>5. /\ Cardinality(Active) <= Seats /\ \A c, d \in Adding : c = d
        /\ \A c \in Adding : Cardinality(Active) <= work[c].n
    BY <2>1 DEF StaffInv, CountsKnown
  <2>6. Cardinality(Active') \in Nat /\ Cardinality(Active) \in Nat /\ Seats \in Nat BY ActiveFinite, RolesApart
  <2> QED BY <2>3, <2>4, <2>5, <2>6
<1> QED BY <1>12, <1>14, <1>15, <1>16 DEF StaffInv

LEMMA StaffSaveRole == ASSUME StaffInv, NEW r \in AllRoles, SaveRole(r) PROVE StaffInv'
<1>1. UNCHANGED org /\ UNCHANGED person /\ UNCHANGED work /\ UNCHANGED was BY DEF SaveRole
<1>2. PICK keys \in {"bare", "full"} : role' = [role EXCEPT ![r] = keys] BY DEF SaveRole
<1>3. role' \in [AllRoles -> {"none", "bare", "full"}] BY <1>2 DEF StaffInv, StaffTypeOK
<1>4. Seeded => Seeded' BY <1>2, RolesApart DEF Seeded, StaffInv, StaffTypeOK
<1>5. SamePeople /\ Active' = Active /\ Members' = Members BY <1>1, PeopleStay
<1>6. StaffTypeOK' BY <1>1, <1>3 DEF StaffInv, StaffTypeOK
<1>7. StepsKnown' /\ SeededFirst' /\ RoleComing' /\ DeletesLoose' /\ MirrorKnown' BY <1>1, <1>4, <1>5, NoRequestSteps
<1>8. FoundedOnce' /\ CountsKnown' BY <1>1, <1>5 DEF StaffInv, FoundedOnce, FoundsMember, CountsKnown, Adding
<1> QED BY <1>6, <1>7, <1>8 DEF StaffInv

LEMMA StaffReject == ASSUME StaffInv, Reject PROVE StaffInv'
<1>1. UNCHANGED person /\ UNCHANGED role /\ UNCHANGED work /\ UNCHANGED was /\ org = "pending" /\ org' = "rejected" BY DEF Reject
<1>2. SamePeople /\ Active' = Active /\ Members' = Members BY <1>1, PeopleStay
<1>3. StaffTypeOK' BY <1>1 DEF StaffInv, StaffTypeOK
<1>4. Seeded => Seeded' BY <1>1, RoleStays
<1>5. StepsKnown' /\ SeededFirst' /\ RoleComing' /\ DeletesLoose' /\ MirrorKnown' BY <1>1, <1>2, <1>4, NoRequestSteps
<1>6. FoundedOnce' BY <1>1, <1>2 DEF StaffInv, FoundedOnce, FoundsMember
<1>7. CountsKnown' BY <1>1, <1>2 DEF StaffInv, CountsKnown, Adding
<1> QED BY <1>3, <1>5, <1>6, <1>7 DEF StaffInv

-----------------------------------------------------------------------------
\* Roles are written.
LEMMA StaffAssignStep == ASSUME StaffInv, NEW a \in Admins, AssignStep(a) PROVE StaffInv'
<1>1. work[a].step = "assign" /\ UNCHANGED org /\ UNCHANGED role BY DEF AssignStep
<1>2. work[a] \in Work /\ work[a].op \in {"none", "found", "create", "import", "update", "rewrite", "assign", "delete"} /\ WorkShape(work[a])
  BY WorkFields DEF StaffInv, StepsKnown
<1>3. PICK S : S = work[a].who OBVIOUS
<1>4. PICK r : r = work[a].what OBVIOUS
<1>5. /\ work[a].op \in {"found", "create", "import", "update", "assign"} /\ S \subseteq Members /\ r \in AllRoles
      /\ work[a].op # "assign" => r \in SystemRoles
  BY <1>1, <1>2, <1>3, <1>4, NoWorkType, RolesApart DEF WorkShape
<1>6. Seeded BY <1>1, <1>5 DEF StaffInv, SeededFirst, NeedsSeed
<1>7. r \in SystemRoles => role[r] # "none" BY <1>6 DEF Seeded
<1>8. ASSUME NEW p \in People
      PROVE  /\ person'[p] \in Person /\ person'[p].status = person[p].status /\ person'[p].mirror = person[p].mirror
             /\ p \in S /\ role[r] # "none" => person'[p].assigned = r
             /\ ~(p \in S /\ role[r] # "none") => person'[p].assigned = person[p].assigned
  <2>1. person[p] \in Person BY PersonFields DEF StaffInv
  <2>2. CASE p \in S /\ role[r] # "none"
    <3>1. person'[p] = [person[p] EXCEPT !.assigned = r] BY <1>3, <1>4, <2>2 DEF AssignStep, AfterAssign
    <3> QED BY <1>5, <2>1, <2>2, <3>1 DEF Person
  <2>3. CASE ~(p \in S /\ role[r] # "none")
    <3>1. person'[p] = person[p] BY <1>3, <1>4, <2>3 DEF AssignStep, AfterAssign
    <3> QED BY <2>1, <2>3, <3>1
  <2> QED BY <2>2, <2>3
<1>9. SameMembership /\ person' \in [People -> Person]
  <2>1. person' \in [People -> Person] BY <1>8 DEF AssignStep
  <2> QED BY <1>8, <2>1 DEF SameMembership
<1>10. Members' = Members /\ Active' = Active BY <1>8, <1>9, SameMembers DEF Active
<1>11. PICK L \in SUBSET People : L = IF Deleting(r) THEN was.loose \cup S ELSE was.loose
  BY <1>3, WasFields, WorkFields DEF StaffInv
<1>12. was' = [was EXCEPT !.loose = L] BY <1>3, <1>4, <1>11 DEF AssignStep
<1>13. /\ was' \in [seatRace : BOOLEAN, reactivated : BOOLEAN, aborts : 0 .. MaxAborts, loose : SUBSET People, unsynced : SUBSET People]
       /\ was'.seatRace = was.seatRace /\ was'.reactivated = was.reactivated /\ was'.loose = L /\ was'.unsynced = was.unsynced
  BY <1>12 DEF StaffInv, StaffTypeOK
<1>14. PICK w \in Work :
         /\ Steps(a, w)
         /\ work[a].op = "create" => w.op = "create" /\ w.step = "balances" /\ w.who = S /\ w.what = r /\ w.n = work[a].n
         /\ work[a].op = "import" => w.op = "import" /\ w.step = "rows" /\ w.who = {} /\ w.what = r /\ w.n = work[a].n
         /\ work[a].op = "assign" => w.op = "assign" /\ w.step = "mirror" /\ w.who = S /\ w.what = r
         /\ work[a].op \in {"found", "update"} => w = NoWork
  <2>1. CASE work[a].op = "create"
    <3>1. AfterAssignment(work[a].op) = "balances" BY <2>1 DEF AfterAssignment
    <3>2. PICK w : w = [work[a] EXCEPT !.step = "balances", !.who = S] OBVIOUS
    <3>3. w \in Work /\ w.op = "create" /\ w.step = "balances" /\ w.who = S /\ w.what = r /\ w.n = work[a].n
      BY <1>2, <1>3, <1>4, <2>1, <3>2 DEF Work
    <3>4. Steps(a, w) BY <1>2, <1>3, <3>1, <3>2, <3>3 DEF AssignStep, Steps, StaffInv, StaffTypeOK
    <3> QED BY <2>1, <3>3, <3>4
  <2>2. CASE work[a].op = "import"
    <3>1. AfterAssignment(work[a].op) = "rows" BY <2>2 DEF AfterAssignment
    <3>2. PICK w : w = [work[a] EXCEPT !.step = "rows", !.who = {}] OBVIOUS
    <3>3. w \in Work /\ w.op = "import" /\ w.step = "rows" /\ w.who = {} /\ w.what = r /\ w.n = work[a].n
      BY <1>2, <1>4, <2>2, <3>2 DEF Work
    <3>4. Steps(a, w) BY <1>2, <3>1, <3>2, <3>3 DEF AssignStep, Steps, StaffInv, StaffTypeOK
    <3> QED BY <2>2, <3>3, <3>4
  <2>3. CASE work[a].op = "assign"
    <3>1. AfterAssignment(work[a].op) = "mirror" BY <2>3 DEF AfterAssignment
    <3>2. PICK w : w = [work[a] EXCEPT !.step = "mirror", !.who = S] OBVIOUS
    <3>3. w \in Work /\ w.op = "assign" /\ w.step = "mirror" /\ w.who = S /\ w.what = r
      BY <1>2, <1>3, <1>4, <2>3, <3>2 DEF Work
    <3>4. Steps(a, w) BY <1>2, <1>3, <3>1, <3>2, <3>3 DEF AssignStep, Steps, StaffInv, StaffTypeOK
    <3> QED BY <2>3, <3>3, <3>4
  <2>4. CASE work[a].op \in {"found", "update"}
    <3>1. AfterAssignment(work[a].op) = "idle" BY <2>4 DEF AfterAssignment
    <3>2. Steps(a, NoWork) BY <3>1, NoWorkType DEF AssignStep, Ends, Steps
    <3> QED BY <2>4, <3>2, NoWorkType
  <2> QED BY <1>5, <2>1, <2>2, <2>3, <2>4
<1>15. /\ a \in Admins /\ work'[a] = w /\ (\A b \in Admins \ {a} : work'[b] = work[b]) /\ work' \in [Admins -> Work]
       /\ \A p : Placing(p)' = (Placing(p) \ {a}) \cup (IF p \in w.who THEN {a} ELSE {})
  BY <1>14, OneSteps
<1>16. /\ w.op \in {"none", "create", "import", "assign"} /\ w.who \subseteq S
       /\ w.op = "none" => w = NoWork
  BY <1>5, <1>14, NoWorkType
<1>17. StaffTypeOK' BY <1>1, <1>9, <1>13, <1>15 DEF StaffInv, StaffTypeOK
<1>18. StepsKnown'
  <2>1. WorkShape(w)
    <3>1. CASE work[a].op \in {"create", "import", "assign"} BY <1>5, <1>14, <3>1 DEF WorkShape
    <3>2. CASE work[a].op \in {"found", "update"} BY <1>14, <3>2, NoWorkType DEF WorkShape
    <3> QED BY <1>5, <3>1, <3>2
  <2>2. WorkShape(w)' BY <1>10, <2>1 DEF WorkShape
  <2> QED BY <1>10, <1>14, <2>2, ShapesStay
<1>19. Seeded' BY <1>1, <1>6, RoleStays
<1>20. SeededFirst'
  <2>1. NeedsSeed(w) => Members' # {}
    <3>1. NeedsSeed(w) => NeedsSeed(work[a]) BY <1>5, <1>14, NoWorkType DEF NeedsSeed
    <3> QED BY <1>10, <3>1 DEF StaffInv, SeededFirst
  <2> QED BY <1>10, <1>14, <1>19, <2>1, SeedsStay
<1>21. FoundedOnce'
  <2>1. w.op # "found" /\ ~FoundsMember(w) BY <1>16 DEF FoundsMember
  <2> QED BY <1>1, <1>10, <1>14, <2>1, FoundsStay
<1>22. CountsKnown'
  <2>1. w.op \in {"create", "import"} => work[a].op \in {"create", "import"} /\ w.n = work[a].n BY <1>5, <1>14, NoWorkType
  <2> QED BY <1>10, <1>13, <1>14, <2>1, CountsStay
<1>23. RoleComing'
  <2> SUFFICES ASSUME NEW p \in Members, person'[p].assigned = NoRole, p \notin L
               PROVE  \E b \in Placing(p)' : Coming(work'[b])
    BY <1>10, <1>13 DEF RoleComing, Coming
  <2>1. p \in People /\ person[p].assigned = NoRole /\ p \notin was.loose /\ ~(p \in S /\ role[r] # "none")
    BY <1>5, <1>8, <1>11, RolesApart DEF Members
  <2>2. PICK b \in Placing(p) : Coming(work[b]) BY <2>1 DEF StaffInv, RoleComing
  <2>3. b # a BY <1>3, <1>5, <1>7, <2>1, <2>2 DEF Placing, Coming
  <2>4. b \in Placing(p)' /\ work'[b] = work[b] BY <1>15, <2>2, <2>3 DEF Placing
  <2> QED BY <2>2, <2>4
<1>24. DeletesLoose'
  <2> SUFFICES ASSUME NEW b \in Admins, work'[b].op = "delete", NEW p \in Members, person'[p].assigned = work'[b].what
               PROVE  p \in L
    BY <1>10, <1>13 DEF DeletesLoose
  <2>1. work'[b] = work[b] BY <1>15, <1>16
  <2>2. p \in People BY DEF Members
  <2>3. CASE p \in S /\ role[r] # "none" BY <1>8, <1>11, <2>1, <2>2, <2>3 DEF Deleting
  <2>4. CASE ~(p \in S /\ role[r] # "none") BY <1>8, <1>11, <2>1, <2>2, <2>4 DEF StaffInv, DeletesLoose
  <2> QED BY <2>3, <2>4
<1>25. MirrorKnown'
  <2>1. \A p \in Members : p \in People /\ person'[p].mirror \in SystemRoles BY <1>8 DEF StaffInv, MirrorKnown, Members
  <2>2. ASSUME NEW p \in Members \ was.unsynced
        PROVE  /\ Placing(p)' = {} => Synced(p)'
               /\ \A b, c \in Placing(p)' : b = c
               /\ \A b \in Placing(p)' : MirrorAt(work[b], p)'
    <3>1. /\ Placing(p) = {} => Synced(p)
          /\ \A b, c \in Placing(p) : b = c
          /\ \A b \in Placing(p) : MirrorAt(work[b], p)
      BY DEF StaffInv, MirrorKnown
    <3>2. p \in People BY <2>1
    <3>3. CASE p \in S
      <4>1. a \in Placing(p) BY <1>3, <3>3 DEF Placing
      <4>2. Placing(p)' = IF p \in w.who THEN {a} ELSE {} BY <1>15, <3>1, <4>1
      <4>3. MirrorAt(work[a], p) BY <3>1, <4>1
      <4>4. CASE work[a].op # "assign"
        <5>1. person'[p].mirror = r /\ person'[p].assigned = r
          BY <1>1, <1>4, <1>5, <1>7, <1>8, <3>2, <3>3, <4>3, <4>4 DEF MirrorAt
        <5>2. Synced(p)' BY <5>1 DEF Synced
        <5>3. p \in w.who => w.op = "create" /\ w.step = "balances" BY <1>5, <1>14, <4>4, NoWorkType
        <5>4. p \in w.who => MirrorAt(work[a], p)' BY <1>15, <5>2, <5>3 DEF MirrorAt
        <5> QED BY <4>2, <5>2, <5>4
      <4>5. CASE work[a].op = "assign"
        <5>1. Synced(p) BY <1>1, <4>3, <4>5 DEF MirrorAt
        <5>2. w.op = "assign" /\ w.step = "mirror" /\ w.who = S /\ w.what = r BY <1>14, <4>5
        <5>3. r \in SystemRoles => person'[p].assigned = r BY <1>7, <1>8, <3>2, <3>3
        <5>4. r \notin SystemRoles => Synced(p)' BY <1>8, <3>2, <3>3, <5>1 DEF Synced
        <5>5. MirrorAt(work[a], p)' BY <1>15, <5>2, <5>3, <5>4 DEF MirrorAt
        <5> QED BY <3>3, <4>2, <5>2, <5>5
      <4> QED BY <4>4, <4>5
    <3>4. CASE p \notin S
      <4>1. a \notin Placing(p) /\ p \notin w.who BY <1>3, <1>16, <3>4 DEF Placing
      <4>2. Placing(p)' = Placing(p) BY <1>15, <4>1
      <4>3. person'[p].mirror = person[p].mirror /\ person'[p].assigned = person[p].assigned BY <1>8, <3>2, <3>4
      <4>4. Synced(p)' <=> Synced(p) BY <4>3 DEF Synced
      <4>5. ASSUME NEW b \in Placing(p) PROVE MirrorAt(work[b], p)'
        <5>1. work'[b] = work[b] BY <1>15, <4>1 DEF Placing
        <5>2. MirrorAt(work[b], p) BY <3>1
        <5> QED BY <4>3, <4>4, <5>1, <5>2 DEF MirrorAt
      <4> QED BY <3>1, <4>2, <4>4, <4>5
    <3> QED BY <3>3, <3>4
  <2> QED BY <1>10, <1>13, <2>1, <2>2 DEF MirrorKnown
<1> QED BY <1>17, <1>18, <1>20, <1>21, <1>22, <1>23, <1>24, <1>25 DEF StaffInv

LEMMA StaffMirrorStep == ASSUME StaffInv, NEW a \in Admins, MirrorStep(a) PROVE StaffInv'
<1>1. work[a].step = "mirror" /\ UNCHANGED org /\ UNCHANGED role /\ UNCHANGED was BY DEF MirrorStep
<1>2. work[a] \in Work /\ work[a].op \in {"none", "found", "create", "import", "update", "rewrite", "assign", "delete"} /\ WorkShape(work[a])
  BY WorkFields DEF StaffInv, StepsKnown
<1>3. PICK S : S = work[a].who OBVIOUS
<1>4. PICK r : r = work[a].what OBVIOUS
<1>5. /\ work[a].op \in {"update", "rewrite", "assign"} /\ S \subseteq Members /\ r \in AllRoles
      /\ work[a].op \in {"update", "rewrite"} => r \in SystemRoles
  BY <1>1, <1>2, <1>3, <1>4, NoWorkType, RolesApart DEF WorkShape
<1>6. ASSUME NEW p \in People
      PROVE  /\ person'[p] \in Person /\ person'[p].status = person[p].status /\ person'[p].assigned = person[p].assigned
             /\ p \in S /\ r \in SystemRoles => person'[p].mirror = r
             /\ ~(p \in S /\ r \in SystemRoles) => person'[p].mirror = person[p].mirror
  <2>1. person[p] \in Person /\ person[p].mirror \in AllRoles \cup {NoRole} BY PersonFields DEF StaffInv
  <2>2. CASE p \in S
    <3>1. PICK m \in AllRoles \cup {NoRole} : m = MirrorOf(p, r) BY <1>5, <2>1 DEF MirrorOf
    <3>2. person'[p] = [person[p] EXCEPT !.mirror = m] BY <1>3, <1>4, <2>2, <3>1 DEF MirrorStep
    <3>3. /\ person'[p] \in Person /\ person'[p].status = person[p].status /\ person'[p].assigned = person[p].assigned
          /\ person'[p].mirror = m
      BY <2>1, <3>2 DEF Person
    <3> QED BY <2>2, <3>1, <3>3 DEF MirrorOf
  <2>3. CASE p \notin S
    <3>1. person'[p] = person[p] BY <1>3, <2>3 DEF MirrorStep
    <3> QED BY <2>1, <2>3, <3>1
  <2> QED BY <2>2, <2>3
<1>7. SameMembership /\ SameAssigned /\ person' \in [People -> Person]
  <2>1. person' \in [People -> Person] BY <1>6 DEF MirrorStep
  <2> QED BY <1>6, <2>1 DEF SameMembership, SameAssigned
<1>8. Members' = Members /\ Active' = Active BY <1>6, <1>7, SameMembers DEF Active
<1>9. PICK w \in Work :
         /\ Steps(a, w)
         /\ work[a].op = "update" => w.op = "update" /\ w.step = "assign" /\ w.who = S /\ w.what = r
         /\ work[a].op # "update" => w = NoWork
  <2>1. CASE work[a].op = "update"
    <3>1. PICK w : w = [work[a] EXCEPT !.step = "assign"] OBVIOUS
    <3>2. w \in Work /\ w.op = "update" /\ w.step = "assign" /\ w.who = S /\ w.what = r
      BY <1>2, <1>3, <1>4, <2>1, <3>1 DEF Work
    <3>3. Steps(a, w) BY <2>1, <3>1, <3>2 DEF MirrorStep, Goes, Steps
    <3> QED BY <2>1, <3>2, <3>3
  <2>2. CASE work[a].op # "update"
    <3>1. Steps(a, NoWork) BY <2>2, NoWorkType DEF MirrorStep, Ends, Steps
    <3> QED BY <2>2, <3>1, NoWorkType
  <2> QED BY <1>5, <2>1, <2>2
<1>10. /\ a \in Admins /\ work'[a] = w /\ (\A b \in Admins \ {a} : work'[b] = work[b]) /\ work' \in [Admins -> Work]
       /\ \A p : Placing(p)' = (Placing(p) \ {a}) \cup (IF p \in w.who THEN {a} ELSE {})
  BY <1>9, OneSteps
<1>11. w.op \in {"none", "update"} /\ w.who \subseteq S BY <1>5, <1>9, NoWorkType
<1>12. StaffTypeOK' BY <1>1, <1>7, <1>10 DEF StaffInv, StaffTypeOK
<1>13. StepsKnown'
  <2>1. WorkShape(w)
    <3>1. CASE work[a].op = "update" BY <1>5, <1>9, <3>1 DEF WorkShape
    <3>2. CASE work[a].op # "update" BY <1>9, <3>2, NoWorkType DEF WorkShape
    <3> QED BY <3>1, <3>2
  <2>2. WorkShape(w)' BY <1>8, <2>1 DEF WorkShape
  <2> QED BY <1>8, <1>9, <2>2, ShapesStay
<1>14. SeededFirst'
  <2>1. Seeded /\ Members # {}
    <3>1. NeedsSeed(work[a]) BY <1>5 DEF NeedsSeed
    <3> QED BY <3>1 DEF StaffInv, SeededFirst
  <2>2. Seeded' BY <1>1, <2>1, RoleStays
  <2> QED BY <1>8, <1>9, <2>1, <2>2, SeedsStay
<1>15. FoundedOnce'
  <2>1. w.op # "found" /\ ~FoundsMember(w) BY <1>11 DEF FoundsMember
  <2> QED BY <1>1, <1>8, <1>9, <2>1, FoundsStay
<1>16. CountsKnown'
  <2>1. w.op \notin {"create", "import"} BY <1>11
  <2> QED BY <1>1, <1>8, <1>9, <2>1, CountsStay
<1>17. RoleComing'
  <2>1. ~Coming(work[a]) BY <1>5 DEF Coming
  <2> QED BY <1>1, <1>7, <1>9, <2>1, ComingStays
<1>18. DeletesLoose'
  <2>1. w.op # "delete" BY <1>11
  <2> QED BY <1>1, <1>7, <1>9, <2>1, DeletesStay
<1>19. MirrorKnown'
  <2>1. \A p \in Members : p \in People /\ person'[p].mirror \in SystemRoles BY <1>6 DEF StaffInv, MirrorKnown, Members
  <2>2. ASSUME NEW p \in Members \ was.unsynced
        PROVE  /\ Placing(p)' = {} => Synced(p)'
               /\ \A b, c \in Placing(p)' : b = c
               /\ \A b \in Placing(p)' : MirrorAt(work[b], p)'
    <3>1. /\ Placing(p) = {} => Synced(p)
          /\ \A b, c \in Placing(p) : b = c
          /\ \A b \in Placing(p) : MirrorAt(work[b], p)
      BY DEF StaffInv, MirrorKnown
    <3>2. p \in People BY <2>1
    <3>3. CASE p \in S
      <4>1. a \in Placing(p) BY <1>3, <3>3 DEF Placing
      <4>2. Placing(p)' = IF p \in w.who THEN {a} ELSE {} BY <1>10, <3>1, <4>1
      <4>3. MirrorAt(work[a], p) BY <3>1, <4>1
      <4>4. CASE work[a].op = "update"
        <5>1. w.op = "update" /\ w.step = "assign" /\ w.who = S /\ w.what = r BY <1>9, <4>4
        <5>2. person'[p].mirror = r BY <1>5, <1>6, <3>2, <3>3, <4>4
        <5>3. MirrorAt(work[a], p)' BY <1>10, <5>1, <5>2 DEF MirrorAt
        <5> QED BY <3>3, <4>2, <5>1, <5>3
      <4>5. CASE work[a].op = "assign"
        <5>1. p \notin w.who BY <1>9, <4>5, NoWorkType
        <5>2. IF r \in SystemRoles THEN person[p].assigned = r ELSE Synced(p) BY <1>1, <1>4, <4>3, <4>5 DEF MirrorAt
        <5>3. Synced(p)' BY <1>6, <3>2, <3>3, <5>2 DEF Synced
        <5> QED BY <4>2, <5>1, <5>3
      <4>6. CASE work[a].op = "rewrite"
        <5>1. p \notin w.who BY <1>9, <4>6, NoWorkType
        <5>2. person[p].mirror = r /\ Synced(p) /\ r \in SystemRoles BY <1>4, <1>5, <4>3, <4>6 DEF MirrorAt
        <5>3. Synced(p)' BY <1>6, <3>2, <3>3, <5>2 DEF Synced
        <5> QED BY <4>2, <5>1, <5>3
      <4> QED BY <1>5, <4>4, <4>5, <4>6
    <3>4. CASE p \notin S
      <4>1. a \notin Placing(p) /\ p \notin w.who BY <1>3, <1>11, <3>4 DEF Placing
      <4>2. Placing(p)' = Placing(p) BY <1>10, <4>1
      <4>3. person'[p].mirror = person[p].mirror /\ person'[p].assigned = person[p].assigned BY <1>6, <3>2, <3>4
      <4>4. Synced(p)' <=> Synced(p) BY <4>3 DEF Synced
      <4>5. ASSUME NEW b \in Placing(p) PROVE MirrorAt(work[b], p)'
        <5>1. work'[b] = work[b] BY <1>10, <4>1 DEF Placing
        <5>2. MirrorAt(work[b], p) BY <3>1
        <5> QED BY <4>3, <4>4, <5>1, <5>2 DEF MirrorAt
      <4> QED BY <3>1, <4>2, <4>4, <4>5
    <3> QED BY <3>3, <3>4
  <2> QED BY <1>1, <1>8, <2>1, <2>2 DEF MirrorKnown
<1> QED BY <1>12, <1>13, <1>14, <1>15, <1>16, <1>17, <1>18, <1>19 DEF StaffInv

\* A custom role goes, with the assignments there are by then.
LEMMA StaffDeleteRole == ASSUME StaffInv, NEW a \in Admins, DeleteRole(a) PROVE StaffInv'
<1>1. work[a].op = "delete" /\ work[a].step = "drop" /\ Ends(a) /\ UNCHANGED org /\ UNCHANGED was BY DEF DeleteRole, Busy
<1>2. PICK r : r = work[a].what OBVIOUS
<1>3. r \in CustomRoles /\ work[a].who = {} BY <1>1, <1>2 DEF StaffInv, StepsKnown, WorkShape
<1>4. PICK S : S = {p \in Members : person[p].assigned = r} OBVIOUS
<1>5. \A p \in S : p \in Members /\ p \in was.loose BY <1>1, <1>2, <1>4 DEF StaffInv, DeletesLoose
<1>6. ASSUME NEW p \in People
      PROVE  /\ person'[p] \in Person /\ person'[p].status = person[p].status /\ person'[p].mirror = person[p].mirror
             /\ p \in S => person'[p].assigned = NoRole
             /\ p \notin S => person'[p].assigned = person[p].assigned
  <2>1. person[p] \in Person BY PersonFields DEF StaffInv
  <2>2. CASE p \in S
    <3>1. person'[p] = [person[p] EXCEPT !.assigned = NoRole] BY <1>2, <1>4, <2>2 DEF DeleteRole
    <3> QED BY <2>1, <2>2, <3>1 DEF Person
  <2>3. CASE p \notin S
    <3>1. person'[p] = person[p] BY <1>2, <1>4, <2>3 DEF DeleteRole
    <3> QED BY <2>1, <2>3, <3>1
  <2> QED BY <2>2, <2>3
<1>7. SameMembership /\ person' \in [People -> Person]
  <2>1. person' \in [People -> Person] BY <1>6 DEF DeleteRole
  <2> QED BY <1>6, <2>1 DEF SameMembership
<1>8. Members' = Members /\ Active' = Active BY <1>6, <1>7, SameMembers DEF Active
<1>9. PICK w : w = NoWork OBVIOUS
<1>10. /\ Steps(a, w) /\ WorkShape(w) /\ ~NeedsSeed(w) /\ ~FoundsMember(w) /\ ~Coming(w)
       /\ w \in Work /\ w.op = "none" /\ w.who = {}
  BY <1>1, <1>9, Stopping
<1>11. /\ a \in Admins /\ work'[a] = w /\ (\A b \in Admins \ {a} : work'[b] = work[b]) /\ work' \in [Admins -> Work]
       /\ \A p : Placing(p)' = (Placing(p) \ {a}) \cup (IF p \in w.who THEN {a} ELSE {})
  BY <1>10, OneSteps
<1>12. \A p : Placing(p)' = Placing(p) /\ a \notin Placing(p) BY <1>3, <1>10, <1>11 DEF Placing
<1>13. role' = [role EXCEPT ![r] = "none"] BY <1>2 DEF DeleteRole
<1>14. role' \in [AllRoles -> {"none", "bare", "full"}] BY <1>13 DEF StaffInv, StaffTypeOK
<1>15. Seeded => Seeded' BY <1>3, <1>13, RolesApart DEF Seeded, StaffInv, StaffTypeOK
<1>16. StaffTypeOK' BY <1>1, <1>7, <1>11, <1>14 DEF StaffInv, StaffTypeOK
<1>17. StepsKnown'
  <2>1. WorkShape(w)' BY <1>8, <1>10 DEF WorkShape
  <2> QED BY <1>8, <1>10, <2>1, ShapesStay
<1>18. SeededFirst'
  <2>1. \A p \in People : person'[p].assigned # NoRole => person[p].assigned # NoRole \/ Seeded' BY <1>6
  <2>2. w.op # "found" BY <1>10
  <2> QED BY <1>8, <1>10, <1>15, <2>1, <2>2, SeedsStay
<1>19. FoundedOnce'
  <2>1. w.op # "found" BY <1>10
  <2> QED BY <1>1, <1>8, <1>10, <2>1, FoundsStay
<1>20. CountsKnown'
  <2>1. w.op \notin {"create", "import"} BY <1>10
  <2> QED BY <1>1, <1>8, <1>10, <2>1, CountsStay
<1>21. RoleComing'
  <2> SUFFICES ASSUME NEW p \in Members, person'[p].assigned = NoRole, p \notin was.loose
               PROVE  \E b \in Placing(p)' : Coming(work'[b])
    BY <1>1, <1>8 DEF RoleComing, Coming
  <2>1. p \in People /\ person[p].assigned = NoRole BY <1>5, <1>6 DEF Members
  <2>2. PICK b \in Placing(p) : Coming(work[b]) BY <2>1 DEF StaffInv, RoleComing
  <2>3. b \in Placing(p)' /\ work'[b] = work[b] BY <1>11, <1>12, <2>2 DEF Placing
  <2> QED BY <2>2, <2>3
<1>22. DeletesLoose'
  <2> SUFFICES ASSUME NEW b \in Admins, work'[b].op = "delete", NEW p \in Members, person'[p].assigned = work'[b].what
               PROVE  p \in was.loose
    BY <1>1, <1>8 DEF DeletesLoose
  <2>1. work'[b] = work[b] BY <1>10, <1>11
  <2>2. p \in People BY DEF Members
  <2>3. CASE p \in S BY <1>5, <2>3
  <2>4. CASE p \notin S BY <1>6, <2>1, <2>2, <2>4 DEF StaffInv, DeletesLoose
  <2> QED BY <2>3, <2>4
<1>23. MirrorKnown'
  <2>1. \A p \in Members : p \in People /\ person'[p].mirror = person[p].mirror BY <1>6 DEF Members
  <2>2. \A p \in Members : Synced(p) => Synced(p)' BY <1>6, <2>1, RolesApart DEF Synced
  <2>3. ASSUME NEW p \in Members, NEW b \in Placing(p), MirrorAt(work[b], p) PROVE MirrorAt(work[b], p)'
    <3>1. work'[b] = work[b] BY <1>11, <1>12, <2>3 DEF Placing
    <3>2. \A s \in SystemRoles : person[p].assigned = s => person'[p].assigned = s
      BY <1>3, <1>4, <1>6, <2>1, RolesApart
    <3> QED BY <2>1, <2>2, <2>3, <3>1, <3>2 DEF MirrorAt
  <2>4. \A p \in Members : person'[p].mirror \in SystemRoles BY <2>1 DEF StaffInv, MirrorKnown
  <2> QED BY <1>1, <1>8, <1>12, <2>2, <2>3, <2>4 DEF StaffInv, MirrorKnown
<1> QED BY <1>16, <1>17, <1>18, <1>19, <1>20, <1>21, <1>22, <1>23 DEF StaffInv

\* The server starts again, and repairs what was left behind.
LEMMA StaffRestart == ASSUME StaffInv, Restart PROVE StaffInv'
<1>1. org = "active" /\ UNCHANGED org BY DEF Restart
<1>2. \A a \in Admins : work'[a] = NoWork /\ work'[a].op = "none" /\ work'[a].who = {} BY NoWorkType DEF Restart
<1>3. \A p : Placing(p)' = {} BY <1>2 DEF Placing
<1>4. ASSUME NEW p \in People
      PROVE  /\ person'[p] \in Person /\ person'[p].status = person[p].status /\ person'[p].mirror = person[p].mirror
             /\ p \in Members => person'[p].assigned = IF person[p].assigned = NoRole THEN person[p].mirror ELSE person[p].assigned
  <2>1. person[p] \in Person /\ person[p].mirror \in AllRoles \cup {NoRole} BY PersonFields DEF StaffInv
  <2>2. CASE p \in Members /\ person[p].assigned = NoRole
    <3>1. PICK m \in AllRoles \cup {NoRole} : m = person[p].mirror BY <2>1
    <3>2. person'[p] = [person[p] EXCEPT !.assigned = m] BY <2>2, <3>1 DEF Restart, Backfilled
    <3> QED BY <2>1, <2>2, <3>1, <3>2 DEF Person
  <2>3. CASE ~(p \in Members /\ person[p].assigned = NoRole)
    <3>1. person'[p] = person[p] BY <2>3 DEF Restart, Backfilled
    <3> QED BY <2>1, <2>3, <3>1
  <2> QED BY <2>2, <2>3
<1>5. SameMembership /\ person' \in [People -> Person]
  <2>1. person' \in [People -> Person] BY <1>4 DEF Restart
  <2> QED BY <1>4, <2>1 DEF SameMembership
<1>6. Members' = Members /\ Active' = Active BY <1>4, <1>5, SameMembers DEF Active
<1>7. PICK U \in SUBSET People : U = was.unsynced \cup UNION {work[a].who : a \in Admins} BY WasFields, WorkFields DEF StaffInv
<1>8. was' = [was EXCEPT !.loose = {}, !.unsynced = U] BY <1>7 DEF Restart
<1>9. /\ was' \in [seatRace : BOOLEAN, reactivated : BOOLEAN, aborts : 0 .. MaxAborts, loose : SUBSET People, unsynced : SUBSET People]
      /\ was'.seatRace = was.seatRace /\ was'.reactivated = was.reactivated /\ was'.unsynced = U
  BY <1>8 DEF StaffInv, StaffTypeOK
<1>10. role' \in [AllRoles -> {"none", "bare", "full"}] /\ Seeded'
  <2>1. \A r \in AllRoles : role[r] \in {"none", "bare", "full"} BY DEF StaffInv, StaffTypeOK
  <2>2. \A r \in AllRoles : role'[r] = IF r \in SystemRoles /\ role[r] = "none" THEN "full" ELSE role[r] BY DEF Restart
  <2>3. role' \in [AllRoles -> {"none", "bare", "full"}] BY <2>1 DEF Restart
  <2> QED BY <2>2, <2>3, RolesApart DEF Seeded
<1>11. StaffTypeOK'
  <2>1. work' \in [Admins -> Work] BY NoWorkType DEF Restart
  <2> QED BY <1>1, <1>5, <1>9, <1>10, <2>1 DEF StaffInv, StaffTypeOK
<1>12. StepsKnown' BY <1>2, NoWorkType DEF StepsKnown, WorkShape
<1>13. SeededFirst' BY <1>2, <1>10 DEF SeededFirst, NeedsSeed
<1>14. FoundedOnce' BY <1>1, <1>2 DEF FoundedOnce, FoundsMember
<1>15. Adding' = {} BY <1>2 DEF Adding
<1>16. CountsKnown' BY <1>6, <1>9, <1>15 DEF StaffInv, CountsKnown
<1>17. \A p \in Members : p \in People /\ person[p].mirror \in SystemRoles BY DEF Members, StaffInv, MirrorKnown
<1>18. RoleComing' BY <1>4, <1>6, <1>17, RolesApart DEF RoleComing
<1>19. DeletesLoose' BY <1>2 DEF DeletesLoose
<1>20. MirrorKnown'
  <2>1. ASSUME NEW p \in Members \ U PROVE Synced(p)'
    <3>1. p \notin was.unsynced /\ Placing(p) = {} BY <1>7 DEF Placing
    <3>2. Synced(p) BY <3>1 DEF StaffInv, MirrorKnown
    <3> QED BY <1>4, <1>17, <3>2 DEF Synced
  <2>2. \A p \in Members : person'[p].mirror \in SystemRoles BY <1>4, <1>17
  <2> QED BY <1>3, <1>6, <1>9, <2>1, <2>2 DEF MirrorKnown
<1> QED BY <1>11, <1>12, <1>13, <1>14, <1>16, <1>18, <1>19, <1>20 DEF StaffInv

LEMMA StaffNextInv == StaffInv /\ [StaffNext]_staffVars => StaffInv'
<1> SUFFICES ASSUME StaffInv, [StaffNext]_staffVars PROVE StaffInv' OBVIOUS
<1>1. CASE HiringNext
  <2>1. ASSUME NEW a \in Admins, Found(a) \/ FoundMember(a) \/ Seed(a) \/ Fill(a) PROVE StaffInv'
    BY <2>1, StaffFound, StaffFoundMember, StaffSeed, StaffFill
  <2>2. ASSUME NEW a \in Admins, NEW op \in {"create", "import"}, NEW r \in SystemRoles, Recruit(a, op, r) PROVE StaffInv'
    BY <2>2, StaffRecruit
  <2>3. ASSUME NEW a \in Admins, Hire(a) \/ ImportEnds(a) \/ Balances(a) \/ AssignStep(a) \/ StaffAbort(a) PROVE StaffInv'
    BY <2>3, StaffHire, StaffImportEnds, StaffBalances, StaffAssignStep, StaffStaffAbort
  <2>4. CASE Reject \/ Restart BY <2>4, StaffReject, StaffRestart
  <2>5. ASSUME NEW p \in People, SetActive(p) PROVE StaffInv' BY <2>5, StaffSetActive
  <2> QED BY <1>1, <2>1, <2>2, <2>3, <2>4, <2>5 DEF HiringNext
<1>2. CASE RolesNext(People)
  <2>1. ASSUME NEW a \in Admins, NEW p \in People, NEW r \in AllRoles, UpdateRole(a, p, r) \/ AssignRole(a, p, r) PROVE StaffInv'
    BY <2>1, StaffUpdateRole, StaffAssignRole
  <2>2. ASSUME NEW a \in Admins, AssignStep(a) \/ MirrorStep(a) \/ OptOut(a) \/ DeleteRole(a) \/ StaffAbort(a) PROVE StaffInv'
    BY <2>2, StaffAssignStep, StaffMirrorStep, StaffOptOut, StaffDeleteRole, StaffStaffAbort
  <2>3. ASSUME NEW a \in Admins, NEW r \in AllRoles, DeleteRead(a, r) PROVE StaffInv' BY <2>3, StaffDeleteRead
  <2>4. CASE Restart BY <2>4, StaffRestart
  <2> QED BY <1>2, <2>1, <2>2, <2>3, <2>4 DEF RolesNext
<1>3. ASSUME NEW r \in AllRoles, SaveRole(r) PROVE StaffInv' BY <1>3, StaffSaveRole
<1>4. CASE UNCHANGED staffVars
  <2>1. UNCHANGED org /\ UNCHANGED person /\ UNCHANGED role /\ UNCHANGED work /\ UNCHANGED was BY <1>4 DEF staffVars
  <2>2. SamePeople /\ Active' = Active /\ Members' = Members BY <2>1, PeopleStay
  <2>3. StaffTypeOK' BY <2>1 DEF StaffInv, StaffTypeOK
  <2>4. Seeded => Seeded' BY <2>1, RoleStays
  <2>5. StepsKnown' /\ SeededFirst' /\ RoleComing' /\ DeletesLoose' /\ MirrorKnown' BY <2>1, <2>2, <2>4, NoRequestSteps
  <2>6. FoundedOnce' /\ CountsKnown' BY <2>1, <2>2 DEF StaffInv, FoundedOnce, FoundsMember, CountsKnown, Adding
  <2> QED BY <2>3, <2>5, <2>6 DEF StaffInv
<1> QED BY <1>1, <1>2, <1>3, <1>4 DEF StaffNext

\* However many requests hire, import, assign, rename and delete at once, and
\* wherever they die or the server restarts: the seats hold, everybody has a role
\* and users.role mirrors it, but for the overlaps, deaths and callers that opt
\* out that each part names.
THEOREM StaffHolds == StaffSpec => []StaffSafe
<1>1. StaffSpec => []StaffInv
  BY StaffInvInit, StaffNextInv, PTL DEF StaffSpec
<1> QED BY <1>1, StaffInvImplies, PTL
-----------------------------------------------------------------------------
(* Accounts *)

AccountSpec == (\E done \in BOOLEAN : AccountInit(done)) /\ [][AccountNext]_accountVars

\* Requests that end by opening a session.
Entering == {"login", "code", "sso", "setup"}
EntersKnown == \A c \in Calls : call[c].step \in {"unlock", "issue"} => call[c].op \in Entering

\* Failures are attempts, and the announcements come at their counts.
AttemptsCount ==
  /\ past.failed <= user.attempts
  /\ past.told <= 1 /\ (user.attempts < LockAt => past.told = 0)
  /\ past.escalated <= 1 /\ (user.attempts < EscalateAt => past.escalated = 0)

\* The lock is set or a request is about to set it.
LockComes ==
  past.crashes = 0 /\ past.failed >= LockAt =>
    user.locked # "never" \/ \E c \in Calls : call[c].step = "lock"

\* What a request that will open a session has read is still so, or it was overlapped.
ReadsOrRaced(c) ==
  call[c].op \in Entering =>
    /\ call[c].saw.pwd # user.pwd => "password" \in call[c].raced
    /\ call[c].saw.role # user.role => "role" \in call[c].raced
    /\ ~user.active /\ call[c].op \in {"login", "sso"} => "off" \in call[c].raced
AllReadOrRaced == \A c \in Calls : ReadsOrRaced(c)

\* A session from before a change was overlapped by it, or saw a role put back
\* unseen, or the change has yet to revoke every session.
EndsAll(c, ops) == call[c].op \in ops /\ call[c].step \in {"list", "revoke"}
StaleIsEnded ==
  past.crashes = 0 =>
    \A s \in OpenSessions :
      /\ session[s].pwd # user.pwd => "password" \in session[s].raced \/ \E c \in Calls : EndsAll(c, {"reset", "change"})
      /\ session[s].role # user.role => session[s].raced \cap {"role", "unseen"} # {} \/ \E c \in Calls : EndsAll(c, {"role"})

\* Once a deactivation has revoked, and as long as the account is inactive, the
\* open sessions are those that overlapped a deactivation or were not checked.
Closing(c) == call[c].op = "deactivate" /\ call[c].step \in {"mark", "off"}
LeaverIsOut ==
  (~user.active \/ \E c \in Calls : Closing(c)) => \A s \in OpenSessions : session[s].raced \cap {"off", "unchecked"} # {}

\* Tokens are numbered: one that was spent or is being spent is an old one, and a
\* reset link is not an invitation.
LinksApart ==
  /\ user.setup => user.invite = 0
  /\ 0 \notin past.spent /\ user.reset \notin past.spent
  /\ \A n \in past.spent : n <= past.tokens
  /\ user.reset <= past.tokens /\ user.invite <= past.tokens
  /\ user.invite # 0 => user.invite # user.reset
  /\ \A c \in Calls : call[c].op \in {"reset", "setup"} /\ call[c].step = "write" =>
       call[c].n \in 1 .. past.tokens /\ (call[c].op = "setup" => call[c].n # user.reset)

\* The secret is the one that was read as long as nobody else wrote it.
SecretStill ==
  ~past.setupRaced =>
    /\ user.totp => user.secret = past.verified /\ Running("totp_setup") = {}
    /\ \A c \in Calls : At(c, "totp_verify", "write") => call[c].saw.secret = user.secret

\* Requests that have read the counter of the codes and not answered.
Verifying == {c \in Calls : At(c, "code", "verify")}
TriesBounded ==
  /\ past.wrong <= code.tries + past.lapses
  /\ \/ past.wrong < MaxTries + past.lapses
     \/ past.wrong + Cardinality(Verifying) <= MaxTries + Cardinality(Calls) - 1 + past.lapses

AccountInv ==
  /\ AccountTypeOK /\ EntersKnown /\ AttemptsCount /\ LockComes /\ AllReadOrRaced /\ StaleIsEnded /\ LeaverIsOut
  /\ RevokedServesNothing /\ LinksApart /\ SecretStill /\ TriesBounded

CallSteps == {"idle", "verify", "lock", "unlock", "issue", "write", "list", "revoke", "mark", "off"}
CallOps == {"none", "login", "code", "sso", "setup", "reset", "change", "role", "deactivate",
            "totp_setup", "totp_verify", "totp_disable", "logout"}

LEMMA AccountNumbers ==
  /\ LockAt \in Nat /\ LockAt # 0 /\ MaxTries \in Nat /\ MaxTries # 0 /\ MaxAttempts \in Nat /\ MaxAttempts # 0
  /\ MaxChanges \in Nat /\ MaxChanges # 0 /\ EscalateAt \in Nat /\ LockAt < EscalateAt /\ MaxCallCrashes \in Nat
  /\ MaxLapses \in Nat /\ Cardinality(Calls) \in Nat /\ FirstRole \in Roles
<1>1. \E r \in Roles : TRUE BY AccountsAssumption
<1>2. FirstRole \in Roles BY <1>1 DEF FirstRole
<1>3. Cardinality(Calls) \in Nat BY AccountsAssumption, FS_CardinalityType
<1> QED BY <1>2, <1>3, AccountsAssumption

LEMMA NoCallType ==
  /\ NoSnapshot \in Snapshot
  /\ NoCall \in Call /\ NoCall.op = "none" /\ NoCall.step = "idle" /\ NoCall.n = 0
  /\ NoSession \in Session /\ NoSession.status = "none" /\ ~NoSession.used
<1>1. NoSnapshot \in Snapshot BY AccountNumbers DEF NoSnapshot, Snapshot, Numbers
<1> QED BY <1>1, AccountNumbers DEF NoCall, Call, NoSession, Session, Numbers

LEMMA UserFields ==
  ASSUME AccountTypeOK
  PROVE  /\ user.active \in BOOLEAN /\ user.pwd \in Numbers /\ user.role \in Roles /\ user.attempts \in 0 .. MaxAttempts
         /\ user.locked \in {"never", "now", "expired"} /\ user.reset \in Numbers /\ user.invite \in Numbers
         /\ user.setup \in BOOLEAN /\ user.totp \in BOOLEAN /\ user.secret \in Numbers
  BY DEF AccountTypeOK, User

LEMMA PastFields ==
  ASSUME AccountTypeOK
  PROVE  /\ past.failed \in Nat /\ past.told \in Nat /\ past.escalated \in Nat /\ past.wrong \in Nat
         /\ past.spent \subseteq Numbers /\ past.verified \in Numbers /\ past.setupRaced \in BOOLEAN
         /\ past.tokens \in Numbers /\ past.crashes \in 0 .. MaxCallCrashes
         /\ past.lapses \in 0 .. MaxLapses /\ code.issued \in BOOLEAN /\ code.tries \in Nat
  BY DEF AccountTypeOK, PastRecord

LEMMA CallFields ==
  ASSUME AccountTypeOK, NEW c \in Calls
  PROVE  /\ call[c] \in Call /\ call[c].op \in CallOps /\ call[c].step \in CallSteps /\ call[c].saw \in Snapshot
         /\ call[c].list \subseteq Sessions /\ call[c].raced \subseteq Events /\ call[c].n \in Nat
         /\ call[c].saw.pwd \in Numbers /\ call[c].saw.role \in Roles /\ call[c].saw.totp \in BOOLEAN
         /\ call[c].saw.secret \in Numbers
<1>1. call[c] \in Call BY DEF AccountTypeOK
<1>2. call[c].saw \in Snapshot BY <1>1 DEF Call
<1> QED BY <1>1, <1>2 DEF Call, Snapshot, CallOps, CallSteps

LEMMA SessionFields ==
  ASSUME AccountTypeOK, NEW s \in Sessions
  PROVE  /\ session[s] \in Session /\ session[s].status \in {"none", "open", "revoked"} /\ session[s].marked \in BOOLEAN
         /\ session[s].pwd \in Numbers /\ session[s].role \in Roles /\ session[s].raced \subseteq Events
         /\ session[s].used \in BOOLEAN
<1>1. session[s] \in Session BY DEF AccountTypeOK
<1> QED BY <1>1 DEF Session

LEMMA SeenType ==
  ASSUME AccountTypeOK
  PROVE  Seen \in Snapshot /\ Seen.pwd = user.pwd /\ Seen.role = user.role /\ Seen.secret = user.secret /\ Seen.totp = user.totp
  BY UserFields DEF Seen, Snapshot

\* A request d does not move; it may be overlapped.
Keeps(d) ==
  /\ call'[d].op = call[d].op /\ call'[d].step = call[d].step /\ call'[d].saw = call[d].saw /\ call'[d].n = call[d].n
  /\ call[d].raced \subseteq call'[d].raced

LEMMA CallMoves ==
  ASSUME AccountTypeOK, NEW c \in Calls, NEW step \in CallSteps, Step(c, step)
  PROVE  /\ call' \in [Calls -> Call] /\ \A d \in Calls \ {c} : call'[d] = call[d] /\ Keeps(d)
         /\ call'[c].op = call[c].op /\ call'[c].saw = call[c].saw /\ call'[c].n = call[c].n /\ call'[c].raced = call[c].raced
         /\ call'[c].list = call[c].list /\ call'[c].step = step
<1>1. PICK x : x = [call[c] EXCEPT !.step = step] OBVIOUS
<1>2. call[c] \in Call BY CallFields
<1>3. /\ x \in Call /\ x.op = call[c].op /\ x.saw = call[c].saw /\ x.n = call[c].n /\ x.raced = call[c].raced
      /\ x.list = call[c].list /\ x.step = step
  BY <1>1, <1>2 DEF Call, CallSteps
<1>4. call \in [Calls -> Call] BY DEF AccountTypeOK
<1>5. call' = [call EXCEPT ![c] = x] BY <1>1 DEF Step
<1> QED BY <1>3, <1>4, <1>5 DEF Keeps

LEMMA CallEnds ==
  ASSUME AccountTypeOK, NEW c \in Calls, Finished(c)
  PROVE  /\ call' \in [Calls -> Call] /\ \A d \in Calls \ {c} : call'[d] = call[d] /\ Keeps(d)
         /\ call'[c] = NoCall /\ call'[c].op = "none" /\ call'[c].step = "idle"
<1>4. call \in [Calls -> Call] BY DEF AccountTypeOK
<1> QED BY <1>4, NoCallType DEF Keeps, Finished

LEMMA CallBegins ==
  ASSUME AccountTypeOK, NEW c \in Calls, NEW op \in CallOps, NEW step \in CallSteps, Begin(c, op, step)
  PROVE  /\ call' \in [Calls -> Call] /\ \A d \in Calls \ {c} : call'[d] = call[d] /\ Keeps(d)
         /\ call[c].op = "none" /\ call[c].step = "idle"
         /\ call'[c].op = op /\ call'[c].step = step /\ call'[c].saw = Seen
<1>1. PICK x : x = [NoCall EXCEPT !.op = op, !.step = step, !.saw = Seen] OBVIOUS
<1>2. x \in Call /\ x.op = op /\ x.step = step /\ x.saw = Seen
  BY <1>1, NoCallType, SeenType DEF Call, CallSteps, CallOps
<1>4. call \in [Calls -> Call] BY DEF AccountTypeOK
<1>5. call' = [call EXCEPT ![c] = x] /\ call[c] = NoCall BY <1>1 DEF Begin
<1> QED BY <1>2, <1>4, <1>5, NoCallType DEF Keeps

LEMMA CallOverlaps ==
  ASSUME AccountTypeOK, NEW c \in Calls, NEW what \in Events, NEW step \in CallSteps, Overlaps(c, what, step)
  PROVE  /\ call' \in [Calls -> Call] /\ \A d \in Calls \ {c} : Keeps(d) /\ (call[d] # NoCall => what \in call'[d].raced)
         /\ call'[c].op = call[c].op /\ call'[c].saw = call[c].saw /\ call'[c].n = call[c].n /\ call'[c].step = step
         /\ call'[c].raced = call[c].raced
<1>1. \A d \in Calls :
        call'[d] = IF d = c THEN [call[d] EXCEPT !.step = step]
                   ELSE IF call[d] = NoCall THEN call[d] ELSE [call[d] EXCEPT !.raced = @ \cup {what}]
  BY DEF Overlaps
<1>2. call' = [d \in Calls |-> call'[d]] BY DEF Overlaps
<1>3. ASSUME NEW d \in Calls \ {c}
      PROVE  call'[d] \in Call /\ Keeps(d) /\ (call[d] # NoCall => what \in call'[d].raced)
  <2>1. call[d] \in Call BY CallFields
  <2>2. CASE call[d] = NoCall BY <2>2, <2>1, <1>1 DEF Keeps
  <2>3. CASE call[d] # NoCall
    <3>1. call'[d] = [call[d] EXCEPT !.raced = @ \cup {what}] BY <2>3, <1>1
    <3>2. PICK x : x = [call[d] EXCEPT !.raced = @ \cup {what}] OBVIOUS
    <3>3. /\ x \in Call /\ x.op = call[d].op /\ x.step = call[d].step /\ x.saw = call[d].saw /\ x.n = call[d].n
          /\ x.raced = call[d].raced \cup {what}
      BY <3>2, <2>1 DEF Call
    <3> QED BY <3>1, <3>2, <3>3 DEF Keeps
  <2> QED BY <2>2, <2>3
<1>4. /\ call'[c] \in Call /\ call'[c].op = call[c].op /\ call'[c].saw = call[c].saw /\ call'[c].n = call[c].n
      /\ call'[c].step = step /\ call'[c].raced = call[c].raced
  <2>1. call[c] \in Call BY CallFields
  <2>2. PICK x : x = [call[c] EXCEPT !.step = step] OBVIOUS
  <2>3. /\ x \in Call /\ x.op = call[c].op /\ x.saw = call[c].saw /\ x.n = call[c].n /\ x.raced = call[c].raced /\ x.step = step
    BY <2>1, <2>2 DEF Call, CallSteps
  <2>4. call'[c] = x BY <1>1, <2>2
  <2> QED BY <2>3, <2>4
<1>5. \A d \in Calls : call'[d] \in Call BY <1>3, <1>4
<1> QED BY <1>2, <1>3, <1>4, <1>5

LEMMA CallLeaves ==
  ASSUME AccountTypeOK, NEW c \in Calls, NEW what \in Events, Leaves(c, what)
  PROVE  /\ call' \in [Calls -> Call] /\ \A d \in Calls \ {c} : Keeps(d) /\ (call[d] # NoCall => what \in call'[d].raced)
         /\ call'[c].op = "none" /\ call'[c].step = "idle"
<1>1. \A d \in Calls :
        call'[d] = IF d = c \/ call[d] = NoCall THEN NoCall ELSE [call[d] EXCEPT !.raced = @ \cup {what}]
  BY DEF Leaves
<1>2. ASSUME NEW d \in Calls \ {c} PROVE call'[d] \in Call /\ Keeps(d) /\ (call[d] # NoCall => what \in call'[d].raced)
  <2>1. call[d] \in Call BY CallFields
  <2>2. CASE call[d] = NoCall BY <1>1, <2>1, <2>2 DEF Keeps
  <2>3. CASE call[d] # NoCall
    <3>1. PICK x : x = [call[d] EXCEPT !.raced = @ \cup {what}] OBVIOUS
    <3>2. /\ x \in Call /\ x.op = call[d].op /\ x.step = call[d].step /\ x.saw = call[d].saw /\ x.n = call[d].n
          /\ x.raced = call[d].raced \cup {what}
      BY <2>1, <3>1 DEF Call
    <3>3. call'[d] = x BY <1>1, <2>3, <3>1
    <3> QED BY <3>2, <3>3 DEF Keeps
  <2> QED BY <2>2, <2>3
<1>3. call'[c] = NoCall BY <1>1
<1>4. call' \in [Calls -> Call]
  <2>1. \A d \in Calls : call'[d] \in Call BY <1>2, <1>3, NoCallType
  <2>2. call' = [d \in Calls |-> call'[d]] BY DEF Leaves
  <2> QED BY <2>1, <2>2
<1> QED BY <1>2, <1>3, <1>4, NoCallType

LEMMA CallsStay ==
  ASSUME UNCHANGED call
  PROVE  \A d \in Calls : Keeps(d)
  BY DEF Keeps

\* What each part of the invariant depends on: a step that leaves that alone, or
\* moves a request where it does not matter, preserves the part.
LEMMA KeepCounts ==
  ASSUME AttemptsCount, user'.attempts = user.attempts, past'.failed = past.failed, past'.told = past.told,
         past'.escalated = past.escalated
  PROVE  AttemptsCount'
  BY DEF AttemptsCount

LEMMA KeepLock ==
  ASSUME LockComes, past'.failed = past.failed, past'.crashes = past.crashes, user.locked # "never" => user'.locked # "never",
         \A d \in Calls : Keeps(d) \/ call[d].step # "lock"
  PROVE  LockComes'
  BY DEF LockComes, Keeps

LEMMA KeepEnters ==
  ASSUME EntersKnown,
         \A d \in Calls : Keeps(d) \/ call'[d].step \notin {"unlock", "issue"} \/ call'[d].op \in Entering
  PROVE  EntersKnown'
  BY DEF EntersKnown, Keeps

LEMMA KeepReads ==
  ASSUME AllReadOrRaced, user'.pwd = user.pwd, user'.role = user.role, user'.active = user.active \/ user'.active,
         \A d \in Calls :
           \/ Keeps(d) \/ call'[d].op \notin Entering
           \/ call'[d].op = call[d].op /\ call'[d].saw = call[d].saw /\ call'[d].raced = call[d].raced
           \/ /\ call'[d].saw.pwd = user.pwd /\ call'[d].saw.role = user.role
              /\ user.active \/ call'[d].op \notin {"login", "sso"}
  PROVE  AllReadOrRaced'
<1> SUFFICES ASSUME NEW d \in Calls PROVE ReadsOrRaced(d)' BY DEF AllReadOrRaced
<1>1. ReadsOrRaced(d) BY DEF AllReadOrRaced
<1> QED BY <1>1 DEF ReadsOrRaced, Keeps

\* Sessions that are open were open, for the same credentials.
SessionsKept ==
  \A s \in Sessions : session'[s].status = "open" =>
    /\ session[s].status = "open" /\ session'[s].pwd = session[s].pwd /\ session[s].raced \subseteq session'[s].raced
    /\ session'[s].role \in {session[s].role, user.role}

LEMMA SessionsStay ==
  ASSUME UNCHANGED session
  PROVE  SessionsKept
  BY DEF SessionsKept

LEMMA KeepStale ==
  ASSUME StaleIsEnded, past'.crashes = past.crashes, user'.pwd = user.pwd, user'.role = user.role, SessionsKept,
         \A d \in Calls : \/ Keeps(d) \/ call[d].step \notin {"list", "revoke"}
                          \/ call'[d].op = call[d].op /\ call'[d].step \in {"list", "revoke"}
                          \/ call[d].op \notin {"reset", "change", "role"}
  PROVE  StaleIsEnded'
<1>1. ASSUME NEW d \in Calls PROVE /\ EndsAll(d, {"reset", "change"}) => EndsAll(d, {"reset", "change"})'
                                   /\ EndsAll(d, {"role"}) => EndsAll(d, {"role"})'
  BY DEF EndsAll, Keeps
<1>2. SUFFICES ASSUME past'.crashes = 0, NEW s \in OpenSessions'
               PROVE  /\ session'[s].pwd # user'.pwd => "password" \in session'[s].raced \/ \E c \in Calls : EndsAll(c, {"reset", "change"})'
                      /\ session'[s].role # user'.role => session'[s].raced \cap {"role", "unseen"} # {} \/ \E c \in Calls : EndsAll(c, {"role"})'
  BY DEF StaleIsEnded
<1>3. s \in OpenSessions /\ s \in Sessions /\ session'[s].status = "open" BY DEF OpenSessions, SessionsKept
<1>4. /\ session[s].pwd # user.pwd => "password" \in session[s].raced \/ \E c \in Calls : EndsAll(c, {"reset", "change"})
      /\ session[s].role # user.role => session[s].raced \cap {"role", "unseen"} # {} \/ \E c \in Calls : EndsAll(c, {"role"})
  BY <1>2, <1>3 DEF StaleIsEnded
<1>5. /\ session'[s].pwd = session[s].pwd /\ session[s].raced \subseteq session'[s].raced /\ session'[s].role \in {session[s].role, user.role}
  BY <1>3 DEF SessionsKept
<1> QED BY <1>1, <1>4, <1>5

LEMMA KeepLeaver ==
  ASSUME LeaverIsOut, user'.active = user.active \/ user'.active, SessionsKept,
         \A d \in Calls : Keeps(d) \/ ~Closing(d)' \/ Closing(d)
  PROVE  LeaverIsOut'
<1>1. SUFFICES ASSUME ~user'.active \/ \E c \in Calls : Closing(c)', NEW s \in OpenSessions'
               PROVE  session'[s].raced \cap {"off", "unchecked"} # {}
  BY DEF LeaverIsOut
<1>2. \A d \in Calls : Closing(d)' => Closing(d) BY DEF Closing, Keeps
<1>3. ~user.active \/ \E c \in Calls : Closing(c) BY <1>1, <1>2
<1>4. s \in OpenSessions /\ session[s].raced \subseteq session'[s].raced BY DEF OpenSessions, SessionsKept
<1> QED BY <1>3, <1>4 DEF LeaverIsOut

LEMMA KeepServes ==
  ASSUME RevokedServesNothing, UNCHANGED session
  PROVE  RevokedServesNothing'
  BY DEF RevokedServesNothing

LEMMA KeepLinks ==
  ASSUME AccountTypeOK, LinksApart, user'.setup = user.setup, user'.invite = user.invite, user'.reset = user.reset,
         past'.spent = past.spent, past'.tokens \in Numbers, past.tokens <= past'.tokens,
         \A d \in Calls : Keeps(d) \/ ~(call'[d].op \in {"reset", "setup"} /\ call'[d].step = "write")
  PROVE  LinksApart'
<1>1. past.tokens \in Nat /\ past'.tokens \in Nat /\ user.reset \in Nat /\ user.invite \in Nat /\ past.spent \subseteq Nat
  BY PastFields, UserFields, AccountNumbers DEF Numbers
<1>2. ASSUME NEW c \in Calls, call'[c].op \in {"reset", "setup"}, call'[c].step = "write"
      PROVE call'[c].n \in 1 .. past'.tokens /\ (call'[c].op = "setup" => call'[c].n # user'.reset)
  <2>1. Keeps(c) BY <1>2
  <2>2. call[c].n \in 1 .. past.tokens /\ (call[c].op = "setup" => call[c].n # user.reset) BY <1>2, <2>1 DEF LinksApart, Keeps
  <2> QED BY <2>1, <2>2, <1>1 DEF Keeps
<1>3. \A n \in past'.spent : n <= past'.tokens BY <1>1 DEF LinksApart
<1>4. user'.reset <= past'.tokens /\ user'.invite <= past'.tokens BY <1>1 DEF LinksApart
<1> QED BY <1>2, <1>3, <1>4 DEF LinksApart

LEMMA KeepSecret ==
  ASSUME SecretStill, user'.totp = user.totp, user'.secret = user.secret, past'.verified = past.verified,
         past'.setupRaced = past.setupRaced,
         \A d \in Calls : \/ Keeps(d)
                          \/ /\ call'[d].op = "totp_setup" => call[d].op = "totp_setup" \/ ~user.totp
                             /\ At(d, "totp_verify", "write")' => call'[d].saw.secret = user.secret
  PROVE  SecretStill'
<1>1. SUFFICES ASSUME ~past'.setupRaced
               PROVE  /\ user'.totp => user'.secret = past'.verified /\ Running("totp_setup")' = {}
                      /\ \A c \in Calls : At(c, "totp_verify", "write")' => call'[c].saw.secret = user'.secret
  BY DEF SecretStill
<1>2. /\ user.totp => user.secret = past.verified /\ Running("totp_setup") = {}
      /\ \A c \in Calls : At(c, "totp_verify", "write") => call[c].saw.secret = user.secret
  BY <1>1 DEF SecretStill
<1>3. user.totp => Running("totp_setup")' = {} BY <1>2 DEF Running, Keeps
<1>4. ASSUME NEW c \in Calls, At(c, "totp_verify", "write")' PROVE call'[c].saw.secret = user'.secret
  <2>1. CASE Keeps(c) BY <1>2, <1>4, <2>1 DEF At, Keeps
  <2>2. CASE ~Keeps(c) BY <1>4, <2>2
  <2> QED BY <2>1, <2>2
<1> QED BY <1>2, <1>3, <1>4

LEMMA FewerVerify ==
  ASSUME NEW c \in Calls, At(c, "code", "verify"), ~At(c, "code", "verify")',
         \A d \in Calls \ {c} : Keeps(d)
  PROVE  /\ Cardinality(Verifying') \in Nat /\ Cardinality(Verifying) = Cardinality(Verifying') + 1
         /\ Cardinality(Verifying) <= Cardinality(Calls) /\ Cardinality(Verifying) \in Nat
<1>1. IsFiniteSet(Calls) BY AccountsAssumption
<1>2. Verifying' = Verifying \ {c} /\ c \in Verifying /\ Verifying \subseteq Calls BY DEF Verifying, At, Keeps
<1>3. IsFiniteSet(Verifying) /\ Cardinality(Verifying) <= Cardinality(Calls) BY <1>1, <1>2, FS_Subset
<1>4. Cardinality(Verifying \ {c}) = Cardinality(Verifying) - 1 BY <1>2, <1>3, FS_RemoveElement
<1>5. Cardinality(Verifying) \in Nat BY <1>3, FS_CardinalityType
<1>6. IsFiniteSet(Verifying \ {c}) BY <1>3, FS_Subset
<1>7. Cardinality(Verifying \ {c}) \in Nat BY <1>6, FS_CardinalityType
<1> QED BY <1>2, <1>3, <1>4, <1>5, <1>7

LEMMA KeepTries ==
  ASSUME AccountTypeOK, TriesBounded, code'.tries = code.tries, past'.wrong = past.wrong, past'.lapses = past.lapses,
         \A d \in Calls : Keeps(d) \/ ~At(d, "code", "verify")' \/ code.tries < MaxTries
  PROVE  TriesBounded'
<1>0. code.tries \in Nat /\ past.wrong \in Nat /\ past.lapses \in Nat BY PastFields, AccountNumbers
<1>1. CASE code.tries < MaxTries BY <1>0, <1>1, AccountNumbers DEF TriesBounded
<1>2. CASE ~(code.tries < MaxTries)
  <2>1. Verifying' \subseteq Verifying /\ Verifying \subseteq Calls BY <1>2 DEF Verifying, At, Keeps
  <2>2. IsFiniteSet(Verifying) BY <2>1, AccountsAssumption, FS_Subset
  <2>3. IsFiniteSet(Verifying') /\ Cardinality(Verifying') <= Cardinality(Verifying) BY <2>1, <2>2, FS_Subset
  <2>4. Cardinality(Verifying') \in Nat /\ Cardinality(Verifying) \in Nat BY <2>2, <2>3, FS_CardinalityType
  <2> QED BY <1>0, <2>3, <2>4, AccountNumbers DEF TriesBounded
<1> QED BY <1>1, <1>2

LEMMA AccountInvInit == ASSUME NEW done \in BOOLEAN, AccountInit(done) PROVE AccountInv
<1>1. /\ session = [s \in Sessions |-> NoSession] /\ call = [c \in Calls |-> NoCall] /\ code = [issued |-> FALSE, tries |-> 0]
      /\ user = [active |-> TRUE, pwd |-> 0, role |-> FirstRole, attempts |-> 0, locked |-> "never", reset |-> 0,
                 invite |-> IF done THEN 0 ELSE 1, setup |-> done, totp |-> FALSE, secret |-> 0]
      /\ past = [failed |-> 0, told |-> 0, escalated |-> 0, wrong |-> 0, spent |-> {}, verified |-> 0, setupRaced |-> FALSE,
                 tokens |-> IF done THEN 0 ELSE 1, crashes |-> 0, lapses |-> 0]
  BY DEF AccountInit
<1>2. PICK one : one = IF done THEN 0 ELSE 1 OBVIOUS
<1>3. one \in Numbers /\ one \in {0, 1} /\ (done => one = 0) BY <1>2, AccountNumbers DEF Numbers
<1>4. 0 \in Numbers /\ 0 \in 0 .. MaxAttempts /\ 0 \in 0 .. MaxCallCrashes /\ 0 \in 0 .. MaxLapses
  BY AccountNumbers DEF Numbers
<1>5. user \in User BY <1>1, <1>2, <1>3, <1>4, AccountNumbers DEF User
<1>6. past \in PastRecord BY <1>1, <1>2, <1>3, <1>4 DEF PastRecord
<1>7. AccountTypeOK BY <1>1, <1>4, <1>5, <1>6, NoCallType DEF AccountTypeOK
<1>8. \A c \in Calls : call[c].op = "none" /\ call[c].step = "idle" BY <1>1, NoCallType
<1>9. \A s \in Sessions : session[s].status = "none" BY <1>1, NoCallType
<1>10. /\ user.active /\ user.attempts = 0 /\ user.setup = done /\ user.invite = one /\ user.reset = 0 /\ ~user.totp
  BY <1>1, <1>2
<1>11. /\ past.failed = 0 /\ past.told = 0 /\ past.escalated = 0 /\ past.wrong = 0 /\ past.spent = {} /\ past.tokens = one
       /\ code.tries = 0 /\ past.lapses = 0
  BY <1>1, <1>2
<1>12. EntersKnown /\ AllReadOrRaced BY <1>8 DEF EntersKnown, AllReadOrRaced, ReadsOrRaced, Entering
<1>13. AttemptsCount BY <1>10, <1>11 DEF AttemptsCount
<1>14. LockComes BY <1>11, AccountNumbers DEF LockComes
<1>15. StaleIsEnded /\ LeaverIsOut /\ RevokedServesNothing
  BY <1>9 DEF StaleIsEnded, LeaverIsOut, RevokedServesNothing, OpenSessions
<1>16. LinksApart BY <1>3, <1>8, <1>10, <1>11 DEF LinksApart
<1>17. SecretStill BY <1>8, <1>10 DEF SecretStill, At
<1>18. TriesBounded BY <1>11, AccountNumbers DEF TriesBounded
<1> QED BY <1>7, <1>12, <1>13, <1>14, <1>15, <1>16, <1>17, <1>18 DEF AccountInv

LEMMA AccountInvImplies == AccountInv => AccountsSafe
<1> SUFFICES ASSUME AccountInv PROVE AccountsSafe OBVIOUS
<1>1. AccountTypeOK BY DEF AccountInv
<1>2. LockAnnouncedOnce BY DEF AccountInv, AttemptsCount, LockAnnouncedOnce
<1>3. FailuresLock BY DEF AccountInv, LockComes, FailuresLock
<1>4. ChangeEndsSessions
  <2> SUFFICES ASSUME past.crashes = 0, Revoking = {}, NEW s \in OpenSessions
               PROVE  /\ session[s].pwd # user.pwd => "password" \in session[s].raced
                      /\ session[s].role # user.role => session[s].raced \cap {"role", "unseen"} # {}
    BY DEF ChangeEndsSessions
  <2>1. \A c \in Calls : ~EndsAll(c, {"reset", "change"}) /\ ~EndsAll(c, {"role"}) BY DEF EndsAll, Revoking
  <2> QED BY <2>1 DEF AccountInv, StaleIsEnded
<1>5. LeaverHasNoSession BY DEF AccountInv, LeaverIsOut, LeaverHasNoSession
<1>6. SpentLinkIsDead BY DEF AccountInv, LinksApart, SpentLinkIsDead
<1>7. EnabledSecretVerified BY DEF AccountInv, SecretStill, EnabledSecretVerified
<1>8. WrongCodesBounded
  <2>1. past.wrong \in Nat /\ past.lapses \in Nat BY <1>1, PastFields, AccountNumbers
  <2>2. IsFiniteSet(Verifying)
    <3>1. Verifying \subseteq Calls BY DEF Verifying
    <3> QED BY <3>1, AccountsAssumption, FS_Subset
  <2>3. Cardinality(Verifying) \in Nat BY <2>2, FS_CardinalityType
  <2> QED BY <2>1, <2>3, AccountNumbers DEF AccountInv, TriesBounded, WrongCodesBounded
<1> QED BY <1>1, <1>2, <1>3, <1>4, <1>5, <1>6, <1>7, <1>8 DEF AccountInv, AccountsSafe

\* A step of a request c that only reads.
LEMMA QuietStep ==
  ASSUME AccountInv, UNCHANGED <<user, session, past>>, NEW c \in Calls,
         code' \in [issued : BOOLEAN, tries : Nat], code'.tries = code.tries,
         call' \in [Calls -> Call], \A d \in Calls \ {c} : Keeps(d),
         call[c].step # "lock",
         call'[c].step \notin {"unlock", "issue"} \/ call'[c].op \in Entering,
         \/ call'[c].op \notin Entering
         \/ call'[c].op = call[c].op /\ call'[c].saw = call[c].saw /\ call'[c].raced = call[c].raced
         \/ /\ call'[c].saw.pwd = user.pwd /\ call'[c].saw.role = user.role
            /\ user.active \/ call'[c].op \notin {"login", "sso"},
         \/ call[c].step \notin {"list", "revoke"}
         \/ call'[c].op = call[c].op /\ call'[c].step \in {"list", "revoke"},
         ~Closing(c)',
         call'[c].op \in {"reset", "setup"} /\ call'[c].step = "write" =>
           call'[c].n \in 1 .. past.tokens /\ (call'[c].op = "setup" => call'[c].n # user.reset),
         call'[c].op = "totp_setup" => ~user.totp,
         At(c, "totp_verify", "write")' => call'[c].saw.secret = user.secret,
         At(c, "code", "verify")' => code.tries < MaxTries
  PROVE  AccountInv'
<1>0. AccountTypeOK BY DEF AccountInv
<1>1. AccountTypeOK' BY <1>0 DEF AccountTypeOK
<1>2. EntersKnown' BY KeepEnters DEF AccountInv
<1>3. AttemptsCount' BY KeepCounts DEF AccountInv
<1>4. LockComes' BY KeepLock DEF AccountInv
<1>5. AllReadOrRaced' BY KeepReads DEF AccountInv
<1>6. StaleIsEnded'
  <2>1. SessionsKept BY SessionsStay
  <2> QED BY <2>1, KeepStale DEF AccountInv
<1>7. LeaverIsOut'
  <2>1. SessionsKept BY SessionsStay
  <2> QED BY <2>1, KeepLeaver DEF AccountInv
<1>8. RevokedServesNothing' BY KeepServes DEF AccountInv
<1>9. LinksApart'
  <2>1. ASSUME NEW d \in Calls, call'[d].op \in {"reset", "setup"}, call'[d].step = "write"
        PROVE call'[d].n \in 1 .. past'.tokens /\ (call'[d].op = "setup" => call'[d].n # user'.reset)
    <3>1. CASE d = c BY <2>1, <3>1
    <3>2. CASE d # c
      <4>1. Keeps(d) BY <3>2
      <4>2. call[d].op \in {"reset", "setup"} /\ call[d].step = "write" BY <2>1, <4>1 DEF Keeps
      <4>3. call[d].n \in 1 .. past.tokens /\ (call[d].op = "setup" => call[d].n # user.reset)
        BY <4>2 DEF AccountInv, LinksApart
      <4> QED BY <4>1, <4>3 DEF Keeps
    <3> QED BY <3>1, <3>2
  <2> QED BY <2>1 DEF AccountInv, LinksApart
<1>10. SecretStill' BY KeepSecret DEF AccountInv
<1>11. TriesBounded' BY <1>0, KeepTries DEF AccountInv
<1> QED BY <1>1, <1>2, <1>3, <1>4, <1>5, <1>6, <1>7, <1>8, <1>9, <1>10, <1>11 DEF AccountInv

\* A request that reads the row to begin with.
LEMMA QuietBegin ==
  ASSUME AccountInv, UNCHANGED <<user, session, code, past>>, NEW c \in Calls, NEW op \in CallOps, NEW step \in CallSteps,
         Begin(c, op, step), step \notin {"unlock", "issue"} \/ op \in Entering,
         op \in {"login", "sso"} => user.active, ~(op = "deactivate" /\ step \in {"mark", "off"}),
         op \notin {"reset", "setup"}, op = "totp_setup" => ~user.totp,
         op = "code" => code.tries < MaxTries
  PROVE  AccountInv'
<1>0. AccountTypeOK BY DEF AccountInv
<1>1. /\ call' \in [Calls -> Call] /\ \A d \in Calls \ {c} : Keeps(d)
      /\ call[c].op = "none" /\ call[c].step = "idle"
      /\ call'[c].op = op /\ call'[c].step = step /\ call'[c].saw = Seen
  BY <1>0, CallBegins
<1>2. call'[c].saw.pwd = user.pwd /\ call'[c].saw.role = user.role /\ call'[c].saw.secret = user.secret
  BY <1>0, <1>1, SeenType
<1>3. /\ code' \in [issued : BOOLEAN, tries : Nat] /\ code'.tries = code.tries
  BY <1>0 DEF AccountTypeOK
<1>4. ~Closing(c)' BY <1>1 DEF Closing
<1>5. At(c, "code", "verify")' => code.tries < MaxTries BY <1>1 DEF At
<1>6. call'[c].op = "totp_setup" => ~user.totp BY <1>1
<1>7. call'[c].step \notin {"unlock", "issue"} \/ call'[c].op \in Entering BY <1>1
<1>8. user.active \/ call'[c].op \notin {"login", "sso"} BY <1>1
<1> QED BY <1>1, <1>2, <1>3, <1>4, <1>5, <1>6, <1>7, <1>8, QuietStep

\* Redis does not answer: what remains of the counts.
LEMMA LapseFields ==
  ASSUME AccountTypeOK, MayLapse
  PROVE  /\ Lapse \in PastRecord /\ Lapse.lapses = past.lapses + 1 /\ Lapse.wrong = past.wrong /\ Lapse.failed = past.failed
         /\ Lapse.told = past.told /\ Lapse.escalated = past.escalated /\ Lapse.spent = past.spent
         /\ Lapse.verified = past.verified /\ Lapse.setupRaced = past.setupRaced /\ Lapse.tokens = past.tokens
         /\ Lapse.crashes = past.crashes
<1>1. past \in PastRecord BY DEF AccountTypeOK
<1>2. past.lapses + 1 \in 0 .. MaxLapses BY PastFields, AccountNumbers DEF MayLapse
<1>3. PICK h : h = [past EXCEPT !.lapses = @ + 1] OBVIOUS
<1>4. h \in PastRecord BY <1>1, <1>2, <1>3 DEF PastRecord
<1>5. /\ h.lapses = past.lapses + 1 /\ h.wrong = past.wrong /\ h.failed = past.failed
      /\ h.told = past.told /\ h.escalated = past.escalated /\ h.spent = past.spent
      /\ h.verified = past.verified /\ h.setupRaced = past.setupRaced /\ h.tokens = past.tokens
      /\ h.crashes = past.crashes
  BY <1>1, <1>3 DEF PastRecord
<1>6. Lapse = h BY <1>3 DEF Lapse
<1> QED BY <1>4, <1>5, <1>6

\* A code that is looked at although the counter could not be read.
UncountedRead(c) == MayLapse /\ past' = Lapse /\ Begin(c, "code", "verify") /\ UNCHANGED <<user, session, code>>

LEMMA UncountedReadInv ==
  ASSUME AccountInv, NEW c \in Calls, UncountedRead(c)
  PROVE  AccountInv'
<1>0. AccountTypeOK BY DEF AccountInv
<1>1. MayLapse /\ past' = Lapse /\ Begin(c, "code", "verify") /\ UNCHANGED <<user, session, code>> BY DEF UncountedRead
<1>h. /\ past' \in PastRecord /\ past'.lapses = past.lapses + 1 /\ past'.wrong = past.wrong /\ past'.failed = past.failed
      /\ past'.told = past.told /\ past'.escalated = past.escalated /\ past'.spent = past.spent
      /\ past'.verified = past.verified /\ past'.setupRaced = past.setupRaced /\ past'.tokens = past.tokens
      /\ past'.crashes = past.crashes
  BY <1>0, <1>1, LapseFields
<1>c. /\ call' \in [Calls -> Call] /\ \A d \in Calls \ {c} : Keeps(d)
      /\ call[c].op = "none" /\ call[c].step = "idle"
      /\ call'[c].op = "code" /\ call'[c].step = "verify" /\ call'[c].saw = Seen
  BY <1>0, <1>1, CallBegins DEF CallOps, CallSteps
<1>e. call'[c].saw.pwd = user.pwd /\ call'[c].saw.role = user.role BY <1>0, <1>c, SeenType
<1>k. ~Closing(c)' /\ ~At(c, "totp_verify", "write")' BY <1>c DEF Closing, At
<1>s. SessionsKept BY <1>1, SessionsStay
<1>n. past'.tokens \in Numbers /\ past.tokens <= past'.tokens BY <1>0, <1>h, PastFields, AccountNumbers DEF Numbers
<1>t. AccountTypeOK' BY <1>0, <1>1, <1>h, <1>c DEF AccountTypeOK
<1>p1. EntersKnown' BY <1>1, <1>c, KeepEnters DEF AccountInv
<1>p2. AttemptsCount' BY <1>1, <1>h, KeepCounts DEF AccountInv
<1>p3. LockComes' BY <1>1, <1>c, <1>h, KeepLock DEF AccountInv
<1>p4. AllReadOrRaced' BY <1>1, <1>c, <1>e, KeepReads DEF AccountInv
<1>p5. StaleIsEnded' BY <1>1, <1>c, <1>h, <1>s, KeepStale DEF AccountInv
<1>p6. LeaverIsOut' BY <1>1, <1>c, <1>k, <1>s, KeepLeaver DEF AccountInv
<1>p7. RevokedServesNothing' BY <1>1, KeepServes DEF AccountInv
<1>p8. LinksApart' BY <1>0, <1>1, <1>c, <1>n, <1>h, KeepLinks DEF AccountInv
<1>p9. SecretStill' BY <1>1, <1>c, <1>k, <1>h, KeepSecret DEF AccountInv
<1>p10. TriesBounded'
  <2>1. Verifying' \subseteq Verifying \cup {c} /\ Verifying \subseteq Calls BY <1>c DEF Verifying, At, Keeps
  <2>2. IsFiniteSet(Verifying) BY <2>1, AccountsAssumption, FS_Subset
  <2>3. IsFiniteSet(Verifying \cup {c}) /\ Cardinality(Verifying \cup {c}) <= Cardinality(Verifying) + 1
    <3>1. IsFiniteSet(Verifying \cup {c}) BY <2>2, FS_AddElement
    <3>2. Cardinality(Verifying \cup {c}) = IF c \in Verifying THEN Cardinality(Verifying) ELSE Cardinality(Verifying) + 1
      BY <2>2, FS_AddElement
    <3>3. Cardinality(Verifying) \in Nat BY <2>2, FS_CardinalityType
    <3> QED BY <3>1, <3>2, <3>3
  <2>4. IsFiniteSet(Verifying') /\ Cardinality(Verifying') <= Cardinality(Verifying \cup {c}) BY <2>1, <2>3, FS_Subset
  <2>5. Cardinality(Verifying') \in Nat /\ Cardinality(Verifying) \in Nat /\ Cardinality(Verifying \cup {c}) \in Nat
    BY <2>2, <2>3, <2>4, FS_CardinalityType
  <2>6. code.tries \in Nat /\ past.wrong \in Nat /\ past.lapses \in Nat BY <1>0, PastFields, AccountNumbers
  <2>7. code'.tries = code.tries BY <1>1
  <2>8. TriesBounded BY DEF AccountInv
  <2> QED BY <1>h, <2>3, <2>4, <2>5, <2>6, <2>7, <2>8, AccountNumbers DEF TriesBounded
<1> QED BY <1>t, <1>p1, <1>p2, <1>p3, <1>p4, <1>p5, <1>p6, <1>p7, <1>p8, <1>p9, <1>p10 DEF AccountInv

LEMMA ReadStepsInv ==
  ASSUME AccountInv, NEW c \in Calls,
         \/ LoginRead(c) \/ CodeRead(c) \/ SsoRead(c) \/ ChangeRead(c) \/ RoleRead(c) \/ DeactivateRead(c)
         \/ TotpSetupRead(c) \/ TotpVerifyRead(c) \/ TotpDisableRead(c)
  PROVE  AccountInv'
<1> USE DEF CallOps, CallSteps, Entering
<1>1. CASE LoginRead(c) BY <1>1, QuietBegin DEF LoginRead
<1>2. CASE CodeRead(c)
  <2>1. CASE ~TooManyTries(code.tries) /\ UNCHANGED past
    <3>1. code.tries \in Nat BY PastFields, AccountNumbers DEF AccountInv
    <3>2. code.tries < MaxTries BY <2>1, <3>1, AccountNumbers DEF TooManyTries
    <3> QED BY <1>2, <2>1, <3>2, QuietBegin DEF CodeRead
  <2>2. CASE MayLapse /\ past' = Lapse BY <1>2, <2>2, UncountedReadInv DEF CodeRead, UncountedRead
  <2> QED BY <1>2, <2>1, <2>2 DEF CodeRead
<1>3. CASE SsoRead(c) BY <1>3, QuietBegin DEF SsoRead
<1>4. CASE ChangeRead(c) BY <1>4, QuietBegin DEF ChangeRead
<1>5. CASE RoleRead(c) BY <1>5, QuietBegin DEF RoleRead
<1>6. CASE DeactivateRead(c) BY <1>6, QuietBegin DEF DeactivateRead
<1>7. CASE TotpSetupRead(c) BY <1>7, QuietBegin DEF TotpSetupRead, MaySetUp
<1>8. CASE TotpVerifyRead(c) BY <1>8, QuietBegin DEF TotpVerifyRead
<1>9. CASE TotpDisableRead(c) BY <1>9, QuietBegin DEF TotpDisableRead
<1> QED BY <1>1, <1>2, <1>3, <1>4, <1>5, <1>6, <1>7, <1>8, <1>9

LEMMA TokenReadInv ==
  ASSUME AccountInv, NEW c \in Calls, NEW op \in {"reset", "setup"}, TokenRead(c, op)
  PROVE  AccountInv'
<1>0. AccountTypeOK BY DEF AccountInv
<1>1. PICK token : token = IF op = "reset" THEN user.reset ELSE user.invite OBVIOUS
<1>2. /\ call[c] = NoCall /\ token # 0 /\ UNCHANGED <<user, session, code, past>>
      /\ call' = [call EXCEPT ![c] = [NoCall EXCEPT !.op = op, !.step = "write", !.saw = Seen, !.n = token]]
  BY <1>1 DEF TokenRead
<1>3. PICK x : x = [NoCall EXCEPT !.op = op, !.step = "write", !.saw = Seen, !.n = token] OBVIOUS
<1>4. token \in Nat /\ token \in 1 .. past.tokens /\ (op = "setup" => token # user.reset)
  <2>1. user.reset \in Nat /\ user.invite \in Nat /\ past.tokens \in Nat BY <1>0, UserFields, PastFields, AccountNumbers DEF Numbers
  <2>2. /\ user.reset <= past.tokens /\ user.invite <= past.tokens /\ (user.invite # 0 => user.invite # user.reset)
    BY DEF AccountInv, LinksApart
  <2>3. CASE op = "reset" BY <2>1, <2>2, <2>3, <1>1, <1>2
  <2>4. CASE op = "setup" BY <2>1, <2>2, <2>4, <1>1, <1>2
  <2> QED BY <2>3, <2>4
<1>5. x \in Call /\ x.op = op /\ x.step = "write" /\ x.saw = Seen /\ x.n = token
  BY <1>3, <1>4, <1>0, NoCallType, SeenType DEF Call
<1>6. call \in [Calls -> Call] BY <1>0 DEF AccountTypeOK
<1>7. call' = [call EXCEPT ![c] = x] BY <1>2, <1>3
<1>8. /\ call' \in [Calls -> Call] /\ \A d \in Calls \ {c} : Keeps(d)
      /\ call'[c].op = op /\ call'[c].step = "write" /\ call'[c].saw = Seen /\ call'[c].n = token
      /\ call[c].op = "none" /\ call[c].step = "idle"
  BY <1>2, <1>5, <1>6, <1>7, NoCallType DEF Keeps
<1>9. /\ call'[c].saw.pwd = user.pwd /\ call'[c].saw.role = user.role BY <1>0, <1>8, SeenType
<1>10. ~Closing(c)' /\ ~At(c, "totp_verify", "write")' /\ ~At(c, "code", "verify")' BY <1>8 DEF Closing, At
<1>11. /\ code' \in [issued : BOOLEAN, tries : Nat] /\ code'.tries = code.tries
  BY <1>0, <1>2 DEF AccountTypeOK
<1>12. call'[c].op \notin {"login", "sso"} /\ call'[c].op # "totp_setup" /\ call'[c].step \notin {"unlock", "issue"} BY <1>8
<1> QED BY <1>2, <1>4, <1>8, <1>9, <1>10, <1>11, <1>12, QuietStep

LEMMA LogoutInv ==
  ASSUME AccountInv, NEW c \in Calls, NEW s \in Sessions, Logout(c, s)
  PROVE  AccountInv'
<1>0. AccountTypeOK BY DEF AccountInv
<1>2. /\ call[c] = NoCall /\ UNCHANGED <<user, session, code, past>>
      /\ call' = [call EXCEPT ![c] = [NoCall EXCEPT !.op = "logout", !.step = "revoke", !.list = {s}]]
  BY DEF Logout
<1>3. PICK x : x = [NoCall EXCEPT !.op = "logout", !.step = "revoke", !.list = {s}] OBVIOUS
<1>5. x \in Call /\ x.op = "logout" /\ x.step = "revoke"
  BY <1>3, NoCallType DEF Call
<1>6. call \in [Calls -> Call] BY <1>0 DEF AccountTypeOK
<1>7. call' = [call EXCEPT ![c] = x] BY <1>2, <1>3
<1>8. /\ call' \in [Calls -> Call] /\ \A d \in Calls \ {c} : Keeps(d)
      /\ call'[c].op = "logout" /\ call'[c].step = "revoke" /\ call[c].op = "none" /\ call[c].step = "idle"
  BY <1>2, <1>5, <1>6, <1>7, NoCallType DEF Keeps
<1>10. ~Closing(c)' /\ ~At(c, "totp_verify", "write")' /\ ~At(c, "code", "verify")' BY <1>8 DEF Closing, At
<1>11. /\ code' \in [issued : BOOLEAN, tries : Nat] /\ code'.tries = code.tries
  BY <1>0, <1>2 DEF AccountTypeOK
<1>12. call'[c].op \notin Entering BY <1>8 DEF Entering
<1> QED BY <1>2, <1>8, <1>10, <1>11, <1>12, QuietStep

LEMMA ListSessionsInv ==
  ASSUME AccountInv, NEW c \in Calls, ListSessions(c)
  PROVE  AccountInv'
<1>0. AccountTypeOK BY DEF AccountInv
<1>2. PICK keep \in {{}} \cup {{s} : s \in OpenSessions} :
        call' = [call EXCEPT ![c].list = OpenSessions \ keep, ![c].step = "revoke"]
  BY DEF ListSessions
<1>1. call[c].step = "list" /\ UNCHANGED <<user, session, code, past>> BY DEF ListSessions
<1>3. PICK x : x = [call[c] EXCEPT !.list = OpenSessions \ keep, !.step = "revoke"] OBVIOUS
<1>4. call[c] \in Call BY <1>0, CallFields
<1>5. /\ x \in Call /\ x.op = call[c].op /\ x.step = "revoke" /\ x.saw = call[c].saw /\ x.raced = call[c].raced
  BY <1>3, <1>4 DEF Call, OpenSessions
<1>6. call \in [Calls -> Call] BY <1>0 DEF AccountTypeOK
<1>7. call' = [call EXCEPT ![c] = x] BY <1>2, <1>3, <1>6
<1>8. /\ call' \in [Calls -> Call] /\ \A d \in Calls \ {c} : Keeps(d)
      /\ call'[c].op = call[c].op /\ call'[c].step = "revoke" /\ call'[c].saw = call[c].saw /\ call'[c].raced = call[c].raced
  BY <1>5, <1>6, <1>7 DEF Keeps
<1>10. ~Closing(c)' /\ ~At(c, "totp_verify", "write")' /\ ~At(c, "code", "verify")' BY <1>8 DEF Closing, At
<1>11. /\ code' \in [issued : BOOLEAN, tries : Nat] /\ code'.tries = code.tries
  BY <1>0, <1>1 DEF AccountTypeOK
<1>12. AccountTypeOK' BY <1>0, <1>1, <1>8 DEF AccountTypeOK
<1>13. SessionsKept BY <1>1, SessionsStay
<1>14. \A d \in Calls : Keeps(d) \/ d = c BY <1>8
<1>2a. EntersKnown' BY <1>8, KeepEnters DEF AccountInv
<1>3a. AttemptsCount' BY <1>1, KeepCounts DEF AccountInv
<1>4a. LockComes' BY <1>1, <1>8, KeepLock DEF AccountInv
<1>5a. AllReadOrRaced' BY <1>1, <1>8, KeepReads DEF AccountInv
<1>6a. StaleIsEnded' BY <1>1, <1>8, <1>13, KeepStale DEF AccountInv
<1>7a. LeaverIsOut' BY <1>1, <1>8, <1>10, <1>13, KeepLeaver DEF AccountInv
<1>8a. RevokedServesNothing' BY <1>1, KeepServes DEF AccountInv
<1>9a. LinksApart'
  <2>1. past'.tokens \in Numbers /\ past.tokens <= past'.tokens BY <1>0, <1>1, PastFields, AccountNumbers DEF Numbers
  <2> QED BY <1>0, <1>1, <1>8, <2>1, KeepLinks DEF AccountInv
<1>10a. SecretStill' BY <1>1, <1>8, <1>10, KeepSecret DEF AccountInv
<1>11a. TriesBounded' BY <1>0, <1>1, <1>8, <1>10, KeepTries DEF AccountInv
<1> QED BY <1>12, <1>2a, <1>3a, <1>4a, <1>5a, <1>6a, <1>7a, <1>8a, <1>9a, <1>10a, <1>11a DEF AccountInv

LEMMA LoginLockedInv ==
  ASSUME AccountInv, NEW c \in Calls, LoginLocked(c)
  PROVE  AccountInv'
<1>0. AccountTypeOK BY DEF AccountInv
<1>1. /\ At(c, "login", "verify") /\ user.attempts < MaxAttempts /\ user' = [user EXCEPT !.attempts = @ + 1]
      /\ Finished(c) /\ UNCHANGED <<session, code, past>>
  BY DEF LoginLocked
<1>r. user.attempts \in Nat /\ user.attempts + 1 \in 0 .. MaxAttempts BY <1>0, <1>1, UserFields, AccountNumbers
<1>u1. PICK u : u = [user EXCEPT !.attempts = @ + 1] OBVIOUS
<1>u2. user \in User BY <1>0 DEF AccountTypeOK
<1>u3. u \in User BY <1>u1, <1>u2, <1>r DEF User
<1>u4. user' = u BY <1>1, <1>u1
<1>u. /\ user' \in User /\ user'.pwd = user.pwd /\ user'.role = user.role /\ user'.active = user.active /\ user'.totp = user.totp /\ user'.secret = user.secret
      /\ user'.reset = user.reset /\ user'.invite = user.invite /\ user'.setup = user.setup /\ user'.locked = user.locked /\ user'.attempts = user.attempts + 1
  BY <1>u1, <1>u2, <1>u3, <1>u4 DEF User
<1>c. /\ call' \in [Calls -> Call] /\ \A d \in Calls \ {c} : Keeps(d)
      /\ call'[c].op = "none" /\ call'[c].step = "idle" /\ call[c].op = "login" /\ call[c].step = "verify"
  BY <1>0, <1>1, CallEnds DEF At
<1>k. ~Closing(c)' /\ ~At(c, "code", "verify")' /\ ~At(c, "totp_verify", "write")' /\ call'[c].op \notin Entering
  BY <1>c DEF Closing, At, Entering
<1>s. SessionsKept BY <1>1, SessionsStay
<1>n. past'.tokens \in Numbers /\ past.tokens <= past'.tokens BY <1>0, <1>1, PastFields, AccountNumbers DEF Numbers
<1>t. AccountTypeOK' BY <1>0, <1>1, <1>u, <1>c DEF AccountTypeOK
<1>p1. EntersKnown' BY <1>0, <1>1, <1>c, <1>k, <1>s, <1>n, <1>u, KeepEnters DEF AccountInv
<1>p2. AttemptsCount'
  <2>1. past'.failed = past.failed /\ past'.told = past.told /\ past'.escalated = past.escalated BY <1>1
  <2>2. past.failed \in Nat BY <1>0, PastFields
  <2> QED BY <1>r, <1>u, <2>1, <2>2, AccountNumbers DEF AccountInv, AttemptsCount
<1>p3. LockComes' BY <1>0, <1>1, <1>c, <1>k, <1>s, <1>n, <1>u, KeepLock DEF AccountInv
<1>p4. AllReadOrRaced' BY <1>0, <1>1, <1>c, <1>k, <1>s, <1>n, <1>u, KeepReads DEF AccountInv
<1>p5. StaleIsEnded' BY <1>0, <1>1, <1>c, <1>k, <1>s, <1>n, <1>u, KeepStale DEF AccountInv
<1>p6. LeaverIsOut' BY <1>0, <1>1, <1>c, <1>k, <1>s, <1>n, <1>u, KeepLeaver DEF AccountInv
<1>p7. RevokedServesNothing' BY <1>0, <1>1, <1>c, <1>k, <1>s, <1>n, <1>u, KeepServes DEF AccountInv
<1>p8. LinksApart' BY <1>0, <1>1, <1>c, <1>k, <1>s, <1>n, <1>u, KeepLinks DEF AccountInv
<1>p9. SecretStill' BY <1>0, <1>1, <1>c, <1>k, <1>s, <1>n, <1>u, KeepSecret DEF AccountInv
<1>p10. TriesBounded' BY <1>0, <1>1, <1>c, <1>k, <1>s, <1>n, <1>u, KeepTries DEF AccountInv
<1> QED BY <1>t, <1>p1, <1>p2, <1>p3, <1>p4, <1>p5, <1>p6, <1>p7, <1>p8, <1>p9, <1>p10 DEF AccountInv

LEMMA LoginFailsInv ==
  ASSUME AccountInv, NEW c \in Calls, LoginFails(c)
  PROVE  AccountInv'
<1>0. AccountTypeOK BY DEF AccountInv
<1>a. PICK n : n = user.attempts + 1 OBVIOUS
<1>1. /\ At(c, "login", "verify") /\ n <= MaxAttempts /\ user' = [user EXCEPT !.attempts = n] /\ UNCHANGED <<session, code>>
      /\ past' = [past EXCEPT !.failed = @ + 1, !.told = IF Tells(n) THEN @ + 1 ELSE @,
                              !.escalated = IF n = EscalateAt THEN @ + 1 ELSE @]
      /\ IF Locks(n) THEN call' = [call EXCEPT ![c].step = "lock", ![c].n = n] ELSE Finished(c)
  BY <1>a DEF LoginFails
<1>b. user.attempts \in Nat /\ n \in Nat /\ n \in 0 .. MaxAttempts BY <1>0, <1>a, <1>1, UserFields, AccountNumbers
<1>r. user.attempts \in Nat /\ past.failed \in Nat /\ past.told \in Nat /\ past.escalated \in Nat BY <1>0, UserFields, PastFields, AccountNumbers
<1>m. /\ (IF Tells(n) THEN past.told + 1 ELSE past.told) \in Nat
      /\ (IF n = EscalateAt THEN past.escalated + 1 ELSE past.escalated) \in Nat /\ past.failed + 1 \in Nat
  BY <1>r DEF Tells
<1>u1. PICK u : u = [user EXCEPT !.attempts = n] OBVIOUS
<1>u2. user \in User BY <1>0 DEF AccountTypeOK
<1>u3. u \in User BY <1>u1, <1>u2, <1>b DEF User
<1>u4. user' = u BY <1>1, <1>u1
<1>u. /\ user' \in User /\ user'.pwd = user.pwd /\ user'.role = user.role /\ user'.active = user.active /\ user'.totp = user.totp /\ user'.secret = user.secret
      /\ user'.reset = user.reset /\ user'.invite = user.invite /\ user'.setup = user.setup /\ user'.locked = user.locked /\ user'.attempts = n
  BY <1>u1, <1>u2, <1>u3, <1>u4 DEF User
<1>h1. PICK h : h = [past EXCEPT !.failed = @ + 1, !.told = IF Tells(n) THEN @ + 1 ELSE @,
                              !.escalated = IF n = EscalateAt THEN @ + 1 ELSE @] OBVIOUS
<1>h2. past \in PastRecord BY <1>0 DEF AccountTypeOK
<1>h3. h \in PastRecord BY <1>h1, <1>h2, <1>r, <1>m DEF PastRecord
<1>h4. past' = h BY <1>1, <1>h1
<1>h. /\ past' \in PastRecord /\ past'.spent = past.spent /\ past'.tokens = past.tokens /\ past'.verified = past.verified /\ past'.setupRaced = past.setupRaced
      /\ past'.crashes = past.crashes /\ past'.wrong = past.wrong /\ past'.lapses = past.lapses /\ past'.failed = past.failed + 1
      /\ past'.told = IF Tells(n) THEN past.told + 1 ELSE past.told
      /\ past'.escalated = IF n = EscalateAt THEN past.escalated + 1 ELSE past.escalated
  BY <1>h1, <1>h2, <1>h3, <1>h4 DEF PastRecord
<1>c. /\ call' \in [Calls -> Call] /\ \A d \in Calls \ {c} : Keeps(d)
      /\ call[c].op = "login" /\ call[c].step = "verify" /\ (Locks(n) => call'[c].step = "lock")
      /\ \/ call'[c].op = call[c].op /\ call'[c].step = "lock" /\ call'[c].saw = call[c].saw /\ call'[c].raced = call[c].raced
         \/ call'[c].op = "none" /\ call'[c].step = "idle"
  <2>1. CASE Locks(n)
    <3>1. PICK x : x = [call[c] EXCEPT !.step = "lock", !.n = n] OBVIOUS
    <3>2. call[c] \in Call BY <1>0, CallFields
    <3>3. x \in Call /\ x.op = call[c].op /\ x.step = "lock" /\ x.saw = call[c].saw /\ x.raced = call[c].raced
      BY <1>b, <3>1, <3>2 DEF Call
    <3>4. call \in [Calls -> Call] BY <1>0 DEF AccountTypeOK
    <3>5. call' = [call EXCEPT ![c] = x] BY <1>1, <2>1, <3>1, <3>4
    <3> QED BY <1>1, <2>1, <3>3, <3>4, <3>5 DEF Keeps, At
  <2>2. CASE ~Locks(n)
    <3>1. Finished(c) BY <1>1, <2>2
    <3> QED BY <1>0, <1>1, <2>2, <3>1, CallEnds DEF At
  <2> QED BY <2>1, <2>2
<1>k. /\ ~Closing(c)' /\ ~At(c, "code", "verify")' /\ ~At(c, "totp_verify", "write")'
      /\ call'[c].step \notin {"unlock", "issue"} /\ call'[c].op # "totp_setup"
      /\ call'[c].op \notin {"reset", "setup"} /\ call[c].step \notin {"list", "revoke"}
      /\ \/ call'[c].op \notin Entering
         \/ call'[c].op = call[c].op /\ call'[c].saw = call[c].saw /\ call'[c].raced = call[c].raced
  BY <1>c DEF Closing, At, Entering
<1>s. SessionsKept BY <1>1, SessionsStay
<1>n. past'.tokens \in Numbers /\ past.tokens <= past'.tokens BY <1>0, <1>h, PastFields, AccountNumbers DEF Numbers
<1>t. AccountTypeOK' BY <1>0, <1>1, <1>u, <1>h, <1>c DEF AccountTypeOK
<1>p1. EntersKnown' BY <1>0, <1>1, <1>c, <1>k, <1>s, <1>n, <1>u, <1>h, KeepEnters DEF AccountInv
<1>p2. AttemptsCount'
  <2>1. Tells(n) <=> n = LockAt BY DEF Tells
  <2>2. /\ past.failed <= user.attempts /\ past.told <= 1 /\ (user.attempts < LockAt => past.told = 0)
        /\ past.escalated <= 1 /\ (user.attempts < EscalateAt => past.escalated = 0)
    BY DEF AccountInv, AttemptsCount
  <2>3. past'.failed <= user'.attempts BY <1>a, <1>b, <1>r, <1>u, <1>h, <2>2
  <2>4. past'.told <= 1 /\ (user'.attempts < LockAt => past'.told = 0) BY <1>a, <1>b, <1>r, <1>u, <1>h, <2>1, <2>2, AccountNumbers
  <2>5. past'.escalated <= 1 /\ (user'.attempts < EscalateAt => past'.escalated = 0)
    BY <1>a, <1>b, <1>r, <1>u, <1>h, <2>2, AccountNumbers
  <2> QED BY <2>3, <2>4, <2>5 DEF AttemptsCount
<1>p3. LockComes'
  <2>1. SUFFICES ASSUME past'.failed >= LockAt PROVE call'[c].step = "lock" BY DEF LockComes
  <2>2. past.failed <= user.attempts BY DEF AccountInv, AttemptsCount
  <2>3. n >= LockAt BY <2>1, <2>2, <1>a, <1>h, <1>r, AccountNumbers
  <2> QED BY <2>3, <1>c DEF Locks
<1>p4. AllReadOrRaced' BY <1>0, <1>1, <1>c, <1>k, <1>s, <1>n, <1>u, <1>h, KeepReads DEF AccountInv
<1>p5. StaleIsEnded' BY <1>0, <1>1, <1>c, <1>k, <1>s, <1>n, <1>u, <1>h, KeepStale DEF AccountInv
<1>p6. LeaverIsOut' BY <1>0, <1>1, <1>c, <1>k, <1>s, <1>n, <1>u, <1>h, KeepLeaver DEF AccountInv
<1>p7. RevokedServesNothing' BY <1>0, <1>1, <1>c, <1>k, <1>s, <1>n, <1>u, <1>h, KeepServes DEF AccountInv
<1>p8. LinksApart' BY <1>0, <1>1, <1>c, <1>k, <1>s, <1>n, <1>u, <1>h, KeepLinks DEF AccountInv
<1>p9. SecretStill' BY <1>0, <1>1, <1>c, <1>k, <1>s, <1>n, <1>u, <1>h, KeepSecret DEF AccountInv
<1>p10. TriesBounded' BY <1>0, <1>1, <1>c, <1>k, <1>s, <1>n, <1>u, <1>h, KeepTries DEF AccountInv
<1> QED BY <1>t, <1>p1, <1>p2, <1>p3, <1>p4, <1>p5, <1>p6, <1>p7, <1>p8, <1>p9, <1>p10 DEF AccountInv

LEMMA SetLockInv ==
  ASSUME AccountInv, NEW c \in Calls, SetLock(c)
  PROVE  AccountInv'
<1>0. AccountTypeOK BY DEF AccountInv
<1>1. At(c, "login", "lock") /\ user' = [user EXCEPT !.locked = "now"] /\ Finished(c) /\ UNCHANGED <<session, code, past>>
  BY DEF SetLock
<1>u1. PICK u : u = [user EXCEPT !.locked = "now"] OBVIOUS
<1>u2. user \in User BY <1>0 DEF AccountTypeOK
<1>u3. u \in User BY <1>u1, <1>u2 DEF User
<1>u4. user' = u BY <1>1, <1>u1
<1>u. /\ user' \in User /\ user'.pwd = user.pwd /\ user'.role = user.role /\ user'.active = user.active /\ user'.totp = user.totp /\ user'.secret = user.secret
      /\ user'.reset = user.reset /\ user'.invite = user.invite /\ user'.setup = user.setup /\ user'.locked = "now" /\ user'.attempts = user.attempts
  BY <1>u1, <1>u2, <1>u3, <1>u4 DEF User
<1>c. /\ call' \in [Calls -> Call] /\ \A d \in Calls \ {c} : Keeps(d)
      /\ call'[c].op = "none" /\ call'[c].step = "idle" /\ call[c].op = "login" /\ call[c].step = "lock"
  BY <1>0, <1>1, CallEnds DEF At
<1>k. ~Closing(c)' /\ ~At(c, "code", "verify")' /\ ~At(c, "totp_verify", "write")' /\ call'[c].op \notin Entering
  BY <1>c DEF Closing, At, Entering
<1>s. SessionsKept BY <1>1, SessionsStay
<1>n. past'.tokens \in Numbers /\ past.tokens <= past'.tokens BY <1>0, <1>1, PastFields, AccountNumbers DEF Numbers
<1>t. AccountTypeOK' BY <1>0, <1>1, <1>u, <1>c DEF AccountTypeOK
<1>p1. EntersKnown' BY <1>0, <1>1, <1>c, <1>k, <1>s, <1>n, <1>u, KeepEnters DEF AccountInv
<1>p2. AttemptsCount' BY <1>0, <1>1, <1>c, <1>k, <1>s, <1>n, <1>u, KeepCounts DEF AccountInv
<1>p3. LockComes' BY <1>u DEF LockComes
<1>p4. AllReadOrRaced' BY <1>0, <1>1, <1>c, <1>k, <1>s, <1>n, <1>u, KeepReads DEF AccountInv
<1>p5. StaleIsEnded' BY <1>0, <1>1, <1>c, <1>k, <1>s, <1>n, <1>u, KeepStale DEF AccountInv
<1>p6. LeaverIsOut' BY <1>0, <1>1, <1>c, <1>k, <1>s, <1>n, <1>u, KeepLeaver DEF AccountInv
<1>p7. RevokedServesNothing' BY <1>0, <1>1, <1>c, <1>k, <1>s, <1>n, <1>u, KeepServes DEF AccountInv
<1>p8. LinksApart' BY <1>0, <1>1, <1>c, <1>k, <1>s, <1>n, <1>u, KeepLinks DEF AccountInv
<1>p9. SecretStill' BY <1>0, <1>1, <1>c, <1>k, <1>s, <1>n, <1>u, KeepSecret DEF AccountInv
<1>p10. TriesBounded' BY <1>0, <1>1, <1>c, <1>k, <1>s, <1>n, <1>u, KeepTries DEF AccountInv
<1> QED BY <1>t, <1>p1, <1>p2, <1>p3, <1>p4, <1>p5, <1>p6, <1>p7, <1>p8, <1>p9, <1>p10 DEF AccountInv

LEMMA LockExpiresInv ==
  ASSUME AccountInv, LockExpires
  PROVE  AccountInv'
<1>0. AccountTypeOK BY DEF AccountInv
<1>1. user.locked = "now" /\ user' = [user EXCEPT !.locked = "expired"] /\ UNCHANGED <<session, call, code, past>>
  BY DEF LockExpires
<1>u1. PICK u : u = [user EXCEPT !.locked = "expired"] OBVIOUS
<1>u2. user \in User BY <1>0 DEF AccountTypeOK
<1>u3. u \in User BY <1>u1, <1>u2 DEF User
<1>u4. user' = u BY <1>1, <1>u1
<1>u. /\ user' \in User /\ user'.pwd = user.pwd /\ user'.role = user.role /\ user'.active = user.active /\ user'.totp = user.totp /\ user'.secret = user.secret
      /\ user'.reset = user.reset /\ user'.invite = user.invite /\ user'.setup = user.setup /\ user'.locked = "expired" /\ user'.attempts = user.attempts
  BY <1>u1, <1>u2, <1>u3, <1>u4 DEF User
<1>c. \A d \in Calls : Keeps(d) BY <1>1, CallsStay
<1>s. SessionsKept BY <1>1, SessionsStay
<1>n. past'.tokens \in Numbers /\ past.tokens <= past'.tokens BY <1>0, <1>1, PastFields, AccountNumbers DEF Numbers
<1>t. AccountTypeOK' BY <1>0, <1>1, <1>u DEF AccountTypeOK
<1>p1. EntersKnown' BY <1>0, <1>1, <1>c, <1>s, <1>n, <1>u, KeepEnters DEF AccountInv
<1>p2. AttemptsCount' BY <1>0, <1>1, <1>c, <1>s, <1>n, <1>u, KeepCounts DEF AccountInv
<1>p3. LockComes' BY <1>0, <1>1, <1>c, <1>s, <1>n, <1>u, KeepLock DEF AccountInv
<1>p4. AllReadOrRaced' BY <1>0, <1>1, <1>c, <1>s, <1>n, <1>u, KeepReads DEF AccountInv
<1>p5. StaleIsEnded' BY <1>0, <1>1, <1>c, <1>s, <1>n, <1>u, KeepStale DEF AccountInv
<1>p6. LeaverIsOut' BY <1>0, <1>1, <1>c, <1>s, <1>n, <1>u, KeepLeaver DEF AccountInv
<1>p7. RevokedServesNothing' BY <1>0, <1>1, <1>c, <1>s, <1>n, <1>u, KeepServes DEF AccountInv
<1>p8. LinksApart' BY <1>0, <1>1, <1>c, <1>s, <1>n, <1>u, KeepLinks DEF AccountInv
<1>p9. SecretStill' BY <1>0, <1>1, <1>c, <1>s, <1>n, <1>u, KeepSecret DEF AccountInv
<1>p10. TriesBounded' BY <1>0, <1>1, <1>c, <1>s, <1>n, <1>u, KeepTries DEF AccountInv
<1> QED BY <1>t, <1>p1, <1>p2, <1>p3, <1>p4, <1>p5, <1>p6, <1>p7, <1>p8, <1>p9, <1>p10 DEF AccountInv

LEMMA ActivateInv ==
  ASSUME AccountInv, Activate
  PROVE  AccountInv'
<1>0. AccountTypeOK BY DEF AccountInv
<1>1. ~user.active /\ user' = [user EXCEPT !.active = TRUE] /\ UNCHANGED <<session, call, code, past>>
  BY DEF Activate
<1>u1. PICK u : u = [user EXCEPT !.active = TRUE] OBVIOUS
<1>u2. user \in User BY <1>0 DEF AccountTypeOK
<1>u3. u \in User BY <1>u1, <1>u2 DEF User
<1>u4. user' = u BY <1>1, <1>u1
<1>u. /\ user' \in User /\ user'.pwd = user.pwd /\ user'.role = user.role /\ user'.active = TRUE /\ user'.totp = user.totp /\ user'.secret = user.secret
      /\ user'.reset = user.reset /\ user'.invite = user.invite /\ user'.setup = user.setup /\ user'.locked = user.locked /\ user'.attempts = user.attempts
  BY <1>u1, <1>u2, <1>u3, <1>u4 DEF User
<1>c. \A d \in Calls : Keeps(d) BY <1>1, CallsStay
<1>s. SessionsKept BY <1>1, SessionsStay
<1>n. past'.tokens \in Numbers /\ past.tokens <= past'.tokens BY <1>0, <1>1, PastFields, AccountNumbers DEF Numbers
<1>t. AccountTypeOK' BY <1>0, <1>1, <1>u DEF AccountTypeOK
<1>p1. EntersKnown' BY <1>0, <1>1, <1>c, <1>s, <1>n, <1>u, KeepEnters DEF AccountInv
<1>p2. AttemptsCount' BY <1>0, <1>1, <1>c, <1>s, <1>n, <1>u, KeepCounts DEF AccountInv
<1>p3. LockComes' BY <1>0, <1>1, <1>c, <1>s, <1>n, <1>u, KeepLock DEF AccountInv
<1>p4. AllReadOrRaced' BY <1>0, <1>1, <1>c, <1>s, <1>n, <1>u, KeepReads DEF AccountInv
<1>p5. StaleIsEnded' BY <1>0, <1>1, <1>c, <1>s, <1>n, <1>u, KeepStale DEF AccountInv
<1>p6. LeaverIsOut' BY <1>0, <1>1, <1>c, <1>s, <1>n, <1>u, KeepLeaver DEF AccountInv
<1>p7. RevokedServesNothing' BY <1>0, <1>1, <1>c, <1>s, <1>n, <1>u, KeepServes DEF AccountInv
<1>p8. LinksApart' BY <1>0, <1>1, <1>c, <1>s, <1>n, <1>u, KeepLinks DEF AccountInv
<1>p9. SecretStill' BY <1>0, <1>1, <1>c, <1>s, <1>n, <1>u, KeepSecret DEF AccountInv
<1>p10. TriesBounded' BY <1>0, <1>1, <1>c, <1>s, <1>n, <1>u, KeepTries DEF AccountInv
<1> QED BY <1>t, <1>p1, <1>p2, <1>p3, <1>p4, <1>p5, <1>p6, <1>p7, <1>p8, <1>p9, <1>p10 DEF AccountInv

LEMMA AccountStutterInv ==
  ASSUME AccountInv, UNCHANGED accountVars
  PROVE  AccountInv'
<1>0. AccountTypeOK BY DEF AccountInv
<1>1. UNCHANGED <<user, session, call, code, past>> BY DEF accountVars
<1>c. \A d \in Calls : Keeps(d) BY <1>1, CallsStay
<1>s. SessionsKept BY <1>1, SessionsStay
<1>n. past'.tokens \in Numbers /\ past.tokens <= past'.tokens BY <1>0, <1>1, PastFields, AccountNumbers DEF Numbers
<1>t. AccountTypeOK' BY <1>0, <1>1, <1>c DEF AccountTypeOK
<1>p1. EntersKnown' BY <1>0, <1>1, <1>c, <1>s, <1>n, KeepEnters DEF AccountInv
<1>p2. AttemptsCount' BY <1>0, <1>1, <1>c, <1>s, <1>n, KeepCounts DEF AccountInv
<1>p3. LockComes' BY <1>0, <1>1, <1>c, <1>s, <1>n, KeepLock DEF AccountInv
<1>p4. AllReadOrRaced' BY <1>0, <1>1, <1>c, <1>s, <1>n, KeepReads DEF AccountInv
<1>p5. StaleIsEnded' BY <1>0, <1>1, <1>c, <1>s, <1>n, KeepStale DEF AccountInv
<1>p6. LeaverIsOut' BY <1>0, <1>1, <1>c, <1>s, <1>n, KeepLeaver DEF AccountInv
<1>p7. RevokedServesNothing' BY <1>0, <1>1, <1>c, <1>s, <1>n, KeepServes DEF AccountInv
<1>p8. LinksApart' BY <1>0, <1>1, <1>c, <1>s, <1>n, KeepLinks DEF AccountInv
<1>p9. SecretStill' BY <1>0, <1>1, <1>c, <1>s, <1>n, KeepSecret DEF AccountInv
<1>p10. TriesBounded' BY <1>0, <1>1, <1>c, <1>s, <1>n, KeepTries DEF AccountInv
<1> QED BY <1>t, <1>p1, <1>p2, <1>p3, <1>p4, <1>p5, <1>p6, <1>p7, <1>p8, <1>p9, <1>p10 DEF AccountInv

LEMMA UnlockInv ==
  ASSUME AccountInv, NEW c \in Calls, Unlock(c)
  PROVE  AccountInv'
<1>0. AccountTypeOK BY DEF AccountInv
<1>1. /\ call[c].step = "unlock" /\ user' = [user EXCEPT !.attempts = 0, !.locked = "never"]
      /\ past' = [past EXCEPT !.failed = 0, !.told = 0, !.escalated = 0] /\ Step(c, "issue") /\ UNCHANGED <<session, code>>
  BY DEF Unlock
<1>2. call[c].op \in Entering BY <1>1 DEF AccountInv, EntersKnown
<1>b. 0 \in 0 .. MaxAttempts BY AccountNumbers
<1>u1. PICK u : u = [user EXCEPT !.attempts = 0, !.locked = "never"] OBVIOUS
<1>u2. user \in User BY <1>0 DEF AccountTypeOK
<1>u3. u \in User BY <1>u1, <1>u2, <1>b DEF User
<1>u4. user' = u BY <1>1, <1>u1
<1>u. /\ user' \in User /\ user'.pwd = user.pwd /\ user'.role = user.role /\ user'.active = user.active /\ user'.totp = user.totp /\ user'.secret = user.secret
      /\ user'.reset = user.reset /\ user'.invite = user.invite /\ user'.setup = user.setup /\ user'.attempts = 0
  BY <1>u1, <1>u2, <1>u3, <1>u4 DEF User
<1>h1. PICK h : h = [past EXCEPT !.failed = 0, !.told = 0, !.escalated = 0] OBVIOUS
<1>h2. past \in PastRecord BY <1>0 DEF AccountTypeOK
<1>h3. h \in PastRecord BY <1>h1, <1>h2 DEF PastRecord
<1>h4. past' = h BY <1>1, <1>h1
<1>h. /\ past' \in PastRecord /\ past'.spent = past.spent /\ past'.tokens = past.tokens /\ past'.verified = past.verified /\ past'.setupRaced = past.setupRaced
      /\ past'.wrong = past.wrong /\ past'.lapses = past.lapses /\ past'.failed = 0 /\ past'.told = 0 /\ past'.escalated = 0 /\ past'.crashes = past.crashes
  BY <1>h1, <1>h2, <1>h3, <1>h4 DEF PastRecord
<1>c. /\ call' \in [Calls -> Call] /\ \A d \in Calls \ {c} : Keeps(d)
      /\ call'[c].op = call[c].op /\ call'[c].saw = call[c].saw /\ call'[c].n = call[c].n /\ call'[c].raced = call[c].raced
      /\ call'[c].step = "issue" /\ call[c].step = "unlock"
  BY <1>0, <1>1, CallMoves DEF At, CallSteps
<1>k. ~Closing(c)' /\ ~At(c, "code", "verify")' /\ ~At(c, "totp_verify", "write")'
  BY <1>c DEF Closing, At
<1>e. call'[c].op \in Entering /\ call'[c].op # "totp_setup" BY <1>c, <1>2 DEF Entering
<1>s. SessionsKept BY <1>1, SessionsStay
<1>n. past'.tokens \in Numbers /\ past.tokens <= past'.tokens BY <1>0, <1>h, PastFields, AccountNumbers DEF Numbers
<1>t. AccountTypeOK' BY <1>0, <1>1, <1>u, <1>h, <1>c DEF AccountTypeOK
<1>p1. EntersKnown' BY <1>0, <1>1, <1>c, <1>k, <1>s, <1>n, <1>u, <1>h, <1>e, KeepEnters DEF AccountInv
<1>p2. AttemptsCount' BY <1>u, <1>h DEF AttemptsCount
<1>p3. LockComes' BY <1>h, AccountNumbers DEF LockComes
<1>p4. AllReadOrRaced' BY <1>0, <1>1, <1>c, <1>k, <1>s, <1>n, <1>u, <1>h, <1>e, KeepReads DEF AccountInv
<1>p5. StaleIsEnded' BY <1>0, <1>1, <1>c, <1>k, <1>s, <1>n, <1>u, <1>h, <1>e, KeepStale DEF AccountInv
<1>p6. LeaverIsOut' BY <1>0, <1>1, <1>c, <1>k, <1>s, <1>n, <1>u, <1>h, <1>e, KeepLeaver DEF AccountInv
<1>p7. RevokedServesNothing' BY <1>0, <1>1, <1>c, <1>k, <1>s, <1>n, <1>u, <1>h, <1>e, KeepServes DEF AccountInv
<1>p8. LinksApart' BY <1>0, <1>1, <1>c, <1>k, <1>s, <1>n, <1>u, <1>h, <1>e, KeepLinks DEF AccountInv
<1>p9. SecretStill' BY <1>0, <1>1, <1>c, <1>k, <1>s, <1>n, <1>u, <1>h, <1>e, KeepSecret DEF AccountInv
<1>p10. TriesBounded' BY <1>0, <1>1, <1>c, <1>k, <1>s, <1>n, <1>u, <1>h, <1>e, KeepTries DEF AccountInv
<1> QED BY <1>t, <1>p1, <1>p2, <1>p3, <1>p4, <1>p5, <1>p6, <1>p7, <1>p8, <1>p9, <1>p10 DEF AccountInv

LEMMA CodeFailsInv ==
  ASSUME AccountInv, NEW c \in Calls, CodeFails(c)
  PROVE  AccountInv'
<1>0. AccountTypeOK BY DEF AccountInv
<1>1. /\ At(c, "code", "verify") /\ Finished(c) /\ UNCHANGED <<user, session>>
      /\ \/ code' = [code EXCEPT !.tries = @ + 1] /\ past' = [past EXCEPT !.wrong = @ + 1]
         \/ MayLapse /\ past' = [Lapse EXCEPT !.wrong = @ + 1] /\ UNCHANGED code
  BY DEF CodeFails
<1>b. past.wrong \in Nat /\ code.tries \in Nat /\ past.lapses \in Nat BY <1>0, PastFields, AccountNumbers
<1>d. /\ code' \in [issued : BOOLEAN, tries : Nat] /\ past' \in PastRecord
      /\ past'.spent = past.spent /\ past'.tokens = past.tokens /\ past'.verified = past.verified /\ past'.setupRaced = past.setupRaced
      /\ past'.failed = past.failed /\ past'.told = past.told /\ past'.escalated = past.escalated /\ past'.crashes = past.crashes
      /\ past'.wrong = past.wrong + 1 /\ code'.tries + past'.lapses = code.tries + past.lapses + 1
      /\ past'.lapses \in {past.lapses, past.lapses + 1} /\ code'.tries \in Nat
  <2>0. code \in [issued : BOOLEAN, tries : Nat] /\ past \in PastRecord BY <1>0 DEF AccountTypeOK
  <2>1. CASE code' = [code EXCEPT !.tries = @ + 1] /\ past' = [past EXCEPT !.wrong = @ + 1]
    <3>1. PICK h : h = [past EXCEPT !.wrong = @ + 1] OBVIOUS
    <3>2. h \in PastRecord BY <1>b, <2>0, <3>1 DEF PastRecord
    <3>3. /\ h.spent = past.spent /\ h.tokens = past.tokens /\ h.verified = past.verified /\ h.setupRaced = past.setupRaced
          /\ h.failed = past.failed /\ h.told = past.told /\ h.escalated = past.escalated /\ h.crashes = past.crashes
          /\ h.wrong = past.wrong + 1 /\ h.lapses = past.lapses
      BY <2>0, <3>1 DEF PastRecord
    <3>4. past' = h BY <2>1, <3>1
    <3>5. code' \in [issued : BOOLEAN, tries : Nat] /\ code'.tries = code.tries + 1 BY <1>b, <2>0, <2>1
    <3> QED BY <1>b, <3>2, <3>3, <3>4, <3>5
  <2>2. CASE MayLapse /\ past' = [Lapse EXCEPT !.wrong = @ + 1] /\ UNCHANGED code
    <3>0. PICK g : g = Lapse OBVIOUS
    <3>1. PICK h : h = [g EXCEPT !.wrong = @ + 1] OBVIOUS
    <3>2. /\ g \in PastRecord /\ g.lapses = past.lapses + 1 /\ g.wrong = past.wrong /\ g.failed = past.failed
          /\ g.told = past.told /\ g.escalated = past.escalated /\ g.spent = past.spent
          /\ g.verified = past.verified /\ g.setupRaced = past.setupRaced /\ g.tokens = past.tokens
          /\ g.crashes = past.crashes
      BY <1>0, <2>2, <3>0, LapseFields
    <3>3. h \in PastRecord BY <1>b, <3>1, <3>2 DEF PastRecord
    <3>4. /\ h.spent = g.spent /\ h.tokens = g.tokens /\ h.verified = g.verified /\ h.setupRaced = g.setupRaced
          /\ h.failed = g.failed /\ h.told = g.told /\ h.escalated = g.escalated /\ h.crashes = g.crashes
          /\ h.wrong = g.wrong + 1 /\ h.lapses = g.lapses
      BY <3>1, <3>2 DEF PastRecord
    <3>5. past' = h BY <2>2, <3>0, <3>1
    <3>6. code' = code BY <2>2
    <3> QED BY <1>b, <2>0, <3>2, <3>3, <3>4, <3>5, <3>6
  <2> QED BY <1>1, <2>1, <2>2
<1>h. /\ past' \in PastRecord /\ past'.spent = past.spent /\ past'.tokens = past.tokens /\ past'.verified = past.verified /\ past'.setupRaced = past.setupRaced
      /\ past'.failed = past.failed /\ past'.told = past.told /\ past'.escalated = past.escalated /\ past'.crashes = past.crashes
  BY <1>d
<1>c. /\ call' \in [Calls -> Call] /\ \A d \in Calls \ {c} : Keeps(d)
      /\ call'[c].op = "none" /\ call'[c].step = "idle" /\ call[c].op = "code" /\ call[c].step = "verify"
  BY <1>0, <1>1, CallEnds DEF At
<1>k. ~Closing(c)' /\ ~At(c, "code", "verify")' /\ ~At(c, "totp_verify", "write")' /\ call'[c].op \notin Entering
  BY <1>c DEF Closing, At, Entering
<1>f. /\ Cardinality(Verifying') \in Nat /\ Cardinality(Verifying) = Cardinality(Verifying') + 1
      /\ Cardinality(Verifying) <= Cardinality(Calls) /\ Cardinality(Verifying) \in Nat
  BY <1>1, <1>c, <1>k, FewerVerify
<1>g. TriesBounded'
  <2>1. /\ past.wrong <= code.tries + past.lapses
        /\ \/ past.wrong < MaxTries + past.lapses
           \/ past.wrong + Cardinality(Verifying) <= MaxTries + Cardinality(Calls) - 1 + past.lapses
    BY DEF AccountInv, TriesBounded
  <2>2. past'.wrong <= code'.tries + past'.lapses BY <1>b, <1>d, <2>1
  <2>3. past'.wrong + Cardinality(Verifying') <= MaxTries + Cardinality(Calls) - 1 + past'.lapses
    BY <1>b, <1>d, <1>f, <2>1, AccountNumbers
  <2> QED BY <2>2, <2>3 DEF TriesBounded
<1>s. SessionsKept BY <1>1, SessionsStay
<1>n. past'.tokens \in Numbers /\ past.tokens <= past'.tokens BY <1>0, <1>h, PastFields, AccountNumbers DEF Numbers
<1>t. AccountTypeOK' BY <1>0, <1>1, <1>h, <1>c, <1>d DEF AccountTypeOK
<1>p1. EntersKnown' BY <1>0, <1>1, <1>c, <1>k, <1>s, <1>n, <1>h, KeepEnters DEF AccountInv
<1>p2. AttemptsCount' BY <1>0, <1>1, <1>c, <1>k, <1>s, <1>n, <1>h, KeepCounts DEF AccountInv
<1>p3. LockComes' BY <1>0, <1>1, <1>c, <1>k, <1>s, <1>n, <1>h, KeepLock DEF AccountInv
<1>p4. AllReadOrRaced' BY <1>0, <1>1, <1>c, <1>k, <1>s, <1>n, <1>h, KeepReads DEF AccountInv
<1>p5. StaleIsEnded' BY <1>0, <1>1, <1>c, <1>k, <1>s, <1>n, <1>h, KeepStale DEF AccountInv
<1>p6. LeaverIsOut' BY <1>0, <1>1, <1>c, <1>k, <1>s, <1>n, <1>h, KeepLeaver DEF AccountInv
<1>p7. RevokedServesNothing' BY <1>0, <1>1, <1>c, <1>k, <1>s, <1>n, <1>h, KeepServes DEF AccountInv
<1>p8. LinksApart' BY <1>0, <1>1, <1>c, <1>k, <1>s, <1>n, <1>h, KeepLinks DEF AccountInv
<1>p9. SecretStill' BY <1>0, <1>1, <1>c, <1>k, <1>s, <1>n, <1>h, KeepSecret DEF AccountInv
<1>p10. TriesBounded' BY <1>g
<1> QED BY <1>t, <1>p1, <1>p2, <1>p3, <1>p4, <1>p5, <1>p6, <1>p7, <1>p8, <1>p9, <1>p10 DEF AccountInv

LEMMA CodePassesInv ==
  ASSUME AccountInv, NEW c \in Calls, CodePasses(c)
  PROVE  AccountInv'
<1>0. AccountTypeOK BY DEF AccountInv
<1>2. PICK n \in {0, code.tries} : code' = [code EXCEPT !.tries = n] BY DEF CodePasses
<1>1. /\ At(c, "code", "verify") /\ past' = [past EXCEPT !.wrong = 0] /\ Step(c, "unlock") /\ UNCHANGED <<user, session>>
  BY DEF CodePasses
<1>h1. PICK h : h = [past EXCEPT !.wrong = 0] OBVIOUS
<1>h2. past \in PastRecord BY <1>0 DEF AccountTypeOK
<1>h3. h \in PastRecord BY <1>h1, <1>h2 DEF PastRecord
<1>h4. past' = h BY <1>1, <1>h1
<1>h. /\ past' \in PastRecord /\ past'.spent = past.spent /\ past'.tokens = past.tokens /\ past'.verified = past.verified /\ past'.setupRaced = past.setupRaced
      /\ past'.wrong = 0 /\ past'.lapses = past.lapses /\ past'.failed = past.failed /\ past'.told = past.told /\ past'.escalated = past.escalated /\ past'.crashes = past.crashes
  BY <1>h1, <1>h2, <1>h3, <1>h4 DEF PastRecord
<1>c. /\ call' \in [Calls -> Call] /\ \A d \in Calls \ {c} : Keeps(d)
      /\ call'[c].op = call[c].op /\ call'[c].saw = call[c].saw /\ call'[c].n = call[c].n /\ call'[c].raced = call[c].raced
      /\ call'[c].step = "unlock" /\ call[c].op = "code" /\ call[c].step = "verify"
  BY <1>0, <1>1, CallMoves DEF At, CallSteps
<1>k. ~Closing(c)' /\ ~At(c, "code", "verify")' /\ ~At(c, "totp_verify", "write")'
  BY <1>c DEF Closing, At
<1>e. call'[c].op \in Entering /\ call'[c].op # "totp_setup" BY <1>c DEF Entering
<1>d. code' \in [issued : BOOLEAN, tries : Nat] /\ code'.tries \in Nat
  <2>1. code \in [issued : BOOLEAN, tries : Nat] BY <1>0 DEF AccountTypeOK
  <2>2. n \in Nat BY <2>1
  <2> QED BY <1>2, <2>1, <2>2
<1>b. past.lapses \in Nat BY <1>0, PastFields, AccountNumbers
<1>s. SessionsKept BY <1>1, SessionsStay
<1>n. past'.tokens \in Numbers /\ past.tokens <= past'.tokens BY <1>0, <1>h, PastFields, AccountNumbers DEF Numbers
<1>t. AccountTypeOK' BY <1>0, <1>1, <1>h, <1>c, <1>d DEF AccountTypeOK
<1>p1. EntersKnown' BY <1>0, <1>1, <1>c, <1>k, <1>s, <1>n, <1>h, <1>e, KeepEnters DEF AccountInv
<1>p2. AttemptsCount' BY <1>0, <1>1, <1>c, <1>k, <1>s, <1>n, <1>h, <1>e, KeepCounts DEF AccountInv
<1>p3. LockComes' BY <1>0, <1>1, <1>c, <1>k, <1>s, <1>n, <1>h, <1>e, KeepLock DEF AccountInv
<1>p4. AllReadOrRaced' BY <1>0, <1>1, <1>c, <1>k, <1>s, <1>n, <1>h, <1>e, KeepReads DEF AccountInv
<1>p5. StaleIsEnded' BY <1>0, <1>1, <1>c, <1>k, <1>s, <1>n, <1>h, <1>e, KeepStale DEF AccountInv
<1>p6. LeaverIsOut' BY <1>0, <1>1, <1>c, <1>k, <1>s, <1>n, <1>h, <1>e, KeepLeaver DEF AccountInv
<1>p7. RevokedServesNothing' BY <1>0, <1>1, <1>c, <1>k, <1>s, <1>n, <1>h, <1>e, KeepServes DEF AccountInv
<1>p8. LinksApart' BY <1>0, <1>1, <1>c, <1>k, <1>s, <1>n, <1>h, <1>e, KeepLinks DEF AccountInv
<1>p9. SecretStill' BY <1>0, <1>1, <1>c, <1>k, <1>s, <1>n, <1>h, <1>e, KeepSecret DEF AccountInv
<1>p10. TriesBounded' BY <1>b, <1>h, <1>d, AccountNumbers DEF TriesBounded
<1> QED BY <1>t, <1>p1, <1>p2, <1>p3, <1>p4, <1>p5, <1>p6, <1>p7, <1>p8, <1>p9, <1>p10 DEF AccountInv

LEMMA LoginPassesInv ==
  ASSUME AccountInv, NEW c \in Calls, LoginPasses(c)
  PROVE  AccountInv'
<1>0. AccountTypeOK BY DEF AccountInv
<1>1. At(c, "login", "verify") /\ UNCHANGED <<user, session, past>> BY DEF LoginPasses
<1>2. code \in [issued : BOOLEAN, tries : Nat] BY <1>0 DEF AccountTypeOK
<1>3. code' \in [issued : BOOLEAN, tries : Nat] /\ code'.tries = code.tries
  <2>1. CASE code' = [code EXCEPT !.issued = TRUE] BY <1>2, <2>1
  <2>2. CASE UNCHANGED code BY <1>2, <2>2
  <2> QED BY <2>1, <2>2 DEF LoginPasses
<1>4. CASE Finished(c)
  <2>1. /\ call' \in [Calls -> Call] /\ \A d \in Calls \ {c} : Keeps(d)
        /\ call'[c].op = "none" /\ call'[c].step = "idle" /\ call[c].op = "login" /\ call[c].step = "verify"
    BY <1>0, <1>1, <1>4, CallEnds DEF At
  <2>2. /\ ~Closing(c)' /\ ~At(c, "code", "verify")' /\ ~At(c, "totp_verify", "write")' /\ call'[c].op \notin Entering
    BY <2>1 DEF Closing, At, Entering
  <2> QED BY <1>1, <1>3, <2>1, <2>2, QuietStep
<1>5. CASE Step(c, "unlock")
  <2>1. /\ call' \in [Calls -> Call] /\ \A d \in Calls \ {c} : Keeps(d)
        /\ call'[c].op = call[c].op /\ call'[c].saw = call[c].saw /\ call'[c].raced = call[c].raced
        /\ call'[c].step = "unlock" /\ call[c].op = "login" /\ call[c].step = "verify"
    BY <1>0, <1>1, <1>5, CallMoves DEF At, CallSteps
  <2>2. /\ ~Closing(c)' /\ ~At(c, "code", "verify")' /\ ~At(c, "totp_verify", "write")' /\ call'[c].op \in Entering
    BY <2>1 DEF Closing, At, Entering
  <2> QED BY <1>1, <1>3, <2>1, <2>2, QuietStep
<1> QED BY <1>4, <1>5 DEF LoginPasses

LEMMA IssueInv ==
  ASSUME AccountInv, NEW c \in Calls, Issue(c)
  PROVE  AccountInv'
<1>0. AccountTypeOK BY DEF AccountInv
<1>1. call[c].step = "issue" /\ Finished(c) /\ UNCHANGED <<user, code, past>> BY DEF Issue
<1>2. PICK s \in Sessions :
        /\ session[s].status = "none"
        /\ session' = [session EXCEPT ![s] = [NoSession EXCEPT !.status = "open", !.pwd = call[c].saw.pwd,
                                              !.role = call[c].saw.role, !.raced = RacedBy(c)]]
  BY DEF Issue
<1>3. call[c].op \in Entering BY <1>1 DEF AccountInv, EntersKnown
<1>4. RacedBy(c) \subseteq Events /\ call[c].raced \subseteq RacedBy(c) BY <1>0, CallFields DEF RacedBy, Events
<1>5. PICK x : x = [NoSession EXCEPT !.status = "open", !.pwd = call[c].saw.pwd, !.role = call[c].saw.role, !.raced = RacedBy(c)]
  OBVIOUS
<1>6. /\ x \in Session /\ x.status = "open" /\ x.pwd = call[c].saw.pwd /\ x.role = call[c].saw.role /\ x.raced = RacedBy(c)
  BY <1>0, <1>4, <1>5, NoCallType, CallFields DEF Session
<1>7. session \in [Sessions -> Session] BY <1>0 DEF AccountTypeOK
<1>8. session' = [session EXCEPT ![s] = x] BY <1>2, <1>5
<1>9. session' \in [Sessions -> Session] /\ session'[s] = x /\ \A y \in Sessions \ {s} : session'[y] = session[y]
  BY <1>6, <1>7, <1>8
<1>c. /\ call' \in [Calls -> Call] /\ \A d \in Calls \ {c} : Keeps(d)
      /\ call'[c].op = "none" /\ call'[c].step = "idle" /\ call[c].step = "issue"
  BY <1>0, <1>1, CallEnds DEF At
<1>k. ~Closing(c)' /\ ~At(c, "code", "verify")' /\ ~At(c, "totp_verify", "write")' /\ call'[c].op \notin Entering
  BY <1>c DEF Closing, At, Entering
<1>n. past'.tokens \in Numbers /\ past.tokens <= past'.tokens BY <1>0, <1>1, PastFields, AccountNumbers DEF Numbers
<1>t. AccountTypeOK' BY <1>0, <1>1, <1>c, <1>9 DEF AccountTypeOK
<1>p1. EntersKnown' BY <1>0, <1>1, <1>c, <1>k, <1>n, KeepEnters DEF AccountInv
<1>p2. AttemptsCount' BY <1>0, <1>1, <1>c, <1>k, <1>n, KeepCounts DEF AccountInv
<1>p3. LockComes' BY <1>0, <1>1, <1>c, <1>k, <1>n, KeepLock DEF AccountInv
<1>p4. AllReadOrRaced' BY <1>0, <1>1, <1>c, <1>k, <1>n, KeepReads DEF AccountInv
<1>p5. StaleIsEnded'
  <2>1. SUFFICES ASSUME past.crashes = 0, NEW y \in OpenSessions'
        PROVE  /\ session'[y].pwd # user.pwd => "password" \in session'[y].raced \/ \E d \in Calls : EndsAll(d, {"reset", "change"})'
               /\ session'[y].role # user.role => session'[y].raced \cap {"role", "unseen"} # {} \/ \E d \in Calls : EndsAll(d, {"role"})'
    BY <1>1 DEF StaleIsEnded
  <2>2. ASSUME NEW d \in Calls
        PROVE  (EndsAll(d, {"reset", "change"}) => EndsAll(d, {"reset", "change"})') /\ (EndsAll(d, {"role"}) => EndsAll(d, {"role"})')
    BY <1>c DEF EndsAll, Keeps
  <2>3. CASE y = s
    <3>1. ReadsOrRaced(c) BY DEF AccountInv, AllReadOrRaced
    <3> QED BY <1>3, <1>4, <1>6, <1>9, <2>3, <3>1 DEF ReadsOrRaced
  <2>4. CASE y # s
    <3>1. y \in Sessions /\ session'[y] = session[y] /\ y \in OpenSessions BY <1>9, <2>1, <2>4 DEF OpenSessions
    <3>2. /\ session[y].pwd # user.pwd => "password" \in session[y].raced \/ \E d \in Calls : EndsAll(d, {"reset", "change"})
          /\ session[y].role # user.role => session[y].raced \cap {"role", "unseen"} # {} \/ \E d \in Calls : EndsAll(d, {"role"})
      BY <2>1, <3>1 DEF AccountInv, StaleIsEnded
    <3> QED BY <2>2, <3>1, <3>2
  <2> QED BY <2>3, <2>4
<1>p6. LeaverIsOut'
  <2>1. SUFFICES ASSUME ~user.active \/ \E d \in Calls : Closing(d)', NEW y \in OpenSessions'
        PROVE  session'[y].raced \cap {"off", "unchecked"} # {}
    BY <1>1 DEF LeaverIsOut
  <2>2. ~user.active \/ \E d \in Calls : Closing(d) BY <2>1, <1>c, <1>k DEF Closing, Keeps
  <2>3. CASE y = s
    <3>1. CASE call[c].op \in {"setup", "code"}
      <4>1. "unchecked" \in RacedBy(c) BY <3>1 DEF RacedBy
      <4> QED BY <4>1, <1>6, <1>9, <2>3
    <3>2. CASE call[c].op \in {"login", "sso"} /\ ~user.active
      <4>1. ReadsOrRaced(c) BY DEF AccountInv, AllReadOrRaced
      <4>2. "off" \in RacedBy(c) BY <1>3, <1>4, <3>2, <4>1 DEF ReadsOrRaced
      <4> QED BY <4>2, <1>6, <1>9, <2>3
    <3>3. CASE \E d \in Calls : Closing(d)
      <4>1. Running("deactivate") # {} BY <3>3 DEF Closing, Running
      <4>2. "off" \in RacedBy(c) BY <4>1 DEF RacedBy
      <4> QED BY <4>2, <1>6, <1>9, <2>3
    <3> QED BY <2>2, <1>3, <3>1, <3>2, <3>3 DEF Entering
  <2>4. CASE y # s
    <3>1. y \in Sessions /\ session'[y] = session[y] /\ y \in OpenSessions BY <1>9, <2>1, <2>4 DEF OpenSessions
    <3> QED BY <2>2, <3>1 DEF AccountInv, LeaverIsOut
  <2> QED BY <2>3, <2>4
<1>p7. RevokedServesNothing' BY <1>6, <1>9 DEF AccountInv, RevokedServesNothing
<1>p8. LinksApart' BY <1>0, <1>1, <1>c, <1>k, <1>n, KeepLinks DEF AccountInv
<1>p9. SecretStill' BY <1>0, <1>1, <1>c, <1>k, <1>n, KeepSecret DEF AccountInv
<1>p10. TriesBounded' BY <1>0, <1>1, <1>c, <1>k, <1>n, KeepTries DEF AccountInv
<1> QED BY <1>t, <1>p1, <1>p2, <1>p3, <1>p4, <1>p5, <1>p6, <1>p7, <1>p8, <1>p9, <1>p10 DEF AccountInv

LEMMA AuthenticateInv ==
  ASSUME AccountInv, NEW s \in Sessions, Authenticate(s)
  PROVE  AccountInv'
<1>0. AccountTypeOK BY DEF AccountInv
<1>1. /\ session' = [session EXCEPT ![s].used = ~IsRevoked(s), ![s].marked = IsRevoked(s)] /\ UNCHANGED <<user, call, code, past>>
  BY DEF Authenticate
<1>b. IsRevoked(s) \in BOOLEAN /\ (session[s].status = "revoked" => IsRevoked(s)) BY <1>0, SessionFields DEF IsRevoked
<1>2. PICK x : x = [session[s] EXCEPT !.used = ~IsRevoked(s), !.marked = IsRevoked(s)] OBVIOUS
<1>3. session[s] \in Session BY <1>0, SessionFields
<1>4. /\ x \in Session /\ x.status = session[s].status /\ x.pwd = session[s].pwd /\ x.role = session[s].role
      /\ x.raced = session[s].raced /\ x.used = ~IsRevoked(s)
  BY <1>2, <1>3, <1>b DEF Session
<1>5. session \in [Sessions -> Session] BY <1>0 DEF AccountTypeOK
<1>6. session' = [session EXCEPT ![s] = x] BY <1>1, <1>2, <1>5
<1>7. session' \in [Sessions -> Session] /\ session'[s] = x /\ \A y \in Sessions \ {s} : session'[y] = session[y]
  BY <1>4, <1>5, <1>6
<1>s. SessionsKept BY <1>4, <1>7 DEF SessionsKept
<1>c. \A d \in Calls : Keeps(d) BY <1>1, CallsStay
<1>n. past'.tokens \in Numbers /\ past.tokens <= past'.tokens BY <1>0, <1>1, PastFields, AccountNumbers DEF Numbers
<1>t. AccountTypeOK' BY <1>0, <1>1, <1>7 DEF AccountTypeOK
<1>p1. EntersKnown' BY <1>0, <1>1, <1>c, <1>s, <1>n, KeepEnters DEF AccountInv
<1>p2. AttemptsCount' BY <1>0, <1>1, <1>c, <1>s, <1>n, KeepCounts DEF AccountInv
<1>p3. LockComes' BY <1>0, <1>1, <1>c, <1>s, <1>n, KeepLock DEF AccountInv
<1>p4. AllReadOrRaced' BY <1>0, <1>1, <1>c, <1>s, <1>n, KeepReads DEF AccountInv
<1>p5. StaleIsEnded' BY <1>0, <1>1, <1>c, <1>s, <1>n, KeepStale DEF AccountInv
<1>p6. LeaverIsOut' BY <1>0, <1>1, <1>c, <1>s, <1>n, KeepLeaver DEF AccountInv
<1>p7. RevokedServesNothing' BY <1>b, <1>4, <1>7 DEF AccountInv, RevokedServesNothing
<1>p8. LinksApart' BY <1>0, <1>1, <1>c, <1>s, <1>n, KeepLinks DEF AccountInv
<1>p9. SecretStill' BY <1>0, <1>1, <1>c, <1>s, <1>n, KeepSecret DEF AccountInv
<1>p10. TriesBounded' BY <1>0, <1>1, <1>c, <1>s, <1>n, KeepTries DEF AccountInv
<1> QED BY <1>t, <1>p1, <1>p2, <1>p3, <1>p4, <1>p5, <1>p6, <1>p7, <1>p8, <1>p9, <1>p10 DEF AccountInv

LEMMA RefreshInv ==
  ASSUME AccountInv, NEW s \in Sessions, Refresh(s)
  PROVE  AccountInv'
<1>0. AccountTypeOK BY DEF AccountInv
<1>1. /\ session' = [session EXCEPT ![s].role = user.role] /\ UNCHANGED <<user, call, code, past>>
  BY DEF Refresh
<1>2. PICK x : x = [session[s] EXCEPT !.role = user.role] OBVIOUS
<1>3. session[s] \in Session /\ user.role \in Roles BY <1>0, SessionFields, UserFields
<1>4. /\ x \in Session /\ x.status = session[s].status /\ x.pwd = session[s].pwd /\ x.role = user.role
      /\ x.raced = session[s].raced /\ x.used = session[s].used
  BY <1>2, <1>3 DEF Session
<1>5. session \in [Sessions -> Session] BY <1>0 DEF AccountTypeOK
<1>6. session' = [session EXCEPT ![s] = x] BY <1>1, <1>2, <1>5
<1>7. session' \in [Sessions -> Session] /\ session'[s] = x /\ \A y \in Sessions \ {s} : session'[y] = session[y]
  BY <1>4, <1>5, <1>6
<1>s. SessionsKept BY <1>4, <1>7 DEF SessionsKept
<1>c. \A d \in Calls : Keeps(d) BY <1>1, CallsStay
<1>n. past'.tokens \in Numbers /\ past.tokens <= past'.tokens BY <1>0, <1>1, PastFields, AccountNumbers DEF Numbers
<1>t. AccountTypeOK' BY <1>0, <1>1, <1>7 DEF AccountTypeOK
<1>p1. EntersKnown' BY <1>0, <1>1, <1>c, <1>s, <1>n, KeepEnters DEF AccountInv
<1>p2. AttemptsCount' BY <1>0, <1>1, <1>c, <1>s, <1>n, KeepCounts DEF AccountInv
<1>p3. LockComes' BY <1>0, <1>1, <1>c, <1>s, <1>n, KeepLock DEF AccountInv
<1>p4. AllReadOrRaced' BY <1>0, <1>1, <1>c, <1>s, <1>n, KeepReads DEF AccountInv
<1>p5. StaleIsEnded' BY <1>0, <1>1, <1>c, <1>s, <1>n, KeepStale DEF AccountInv
<1>p6. LeaverIsOut' BY <1>0, <1>1, <1>c, <1>s, <1>n, KeepLeaver DEF AccountInv
<1>p7. RevokedServesNothing' BY <1>4, <1>7 DEF AccountInv, RevokedServesNothing
<1>p8. LinksApart' BY <1>0, <1>1, <1>c, <1>s, <1>n, KeepLinks DEF AccountInv
<1>p9. SecretStill' BY <1>0, <1>1, <1>c, <1>s, <1>n, KeepSecret DEF AccountInv
<1>p10. TriesBounded' BY <1>0, <1>1, <1>c, <1>s, <1>n, KeepTries DEF AccountInv
<1> QED BY <1>t, <1>p1, <1>p2, <1>p3, <1>p4, <1>p5, <1>p6, <1>p7, <1>p8, <1>p9, <1>p10 DEF AccountInv

LEMMA RevokeSessionsInv ==
  ASSUME AccountInv, NEW c \in Calls, RevokeSessions(c)
  PROVE  AccountInv'
<1>0. AccountTypeOK BY DEF AccountInv
<1>1. /\ call[c].step = "revoke" /\ Step(c, "mark") /\ UNCHANGED <<user, code, past>>
      /\ session' = [s \in Sessions |->
           IF s \in OpenSessions \cap RevokedBy(c) THEN [session[s] EXCEPT !.status = "revoked", !.used = FALSE] ELSE session[s]]
  BY DEF RevokeSessions
<1>m. past' = past BY <1>1
<1>2. ASSUME NEW s \in Sessions
      PROVE  /\ session'[s] \in Session
             /\ s \in OpenSessions \cap RevokedBy(c) => session'[s].status = "revoked" /\ ~session'[s].used
             /\ s \notin OpenSessions \cap RevokedBy(c) => session'[s] = session[s]
  <2>1. session[s] \in Session BY <1>0, SessionFields
  <2>2. PICK x : x = [session[s] EXCEPT !.status = "revoked", !.used = FALSE] OBVIOUS
  <2>3. x \in Session /\ x.status = "revoked" /\ x.used = FALSE BY <2>1, <2>2 DEF Session
  <2>4. session'[s] = IF s \in OpenSessions \cap RevokedBy(c) THEN x ELSE session[s] BY <1>1, <2>2
  <2> QED BY <2>1, <2>3, <2>4
<1>3. session' \in [Sessions -> Session] BY <1>1, <1>2
<1>s. SessionsKept BY <1>2 DEF SessionsKept
<1>4. call[c].op \notin {"logout", "totp_verify", "totp_disable"} => OpenSessions' = {} BY <1>2 DEF OpenSessions, RevokedBy
<1>c. /\ call' \in [Calls -> Call] /\ \A d \in Calls \ {c} : Keeps(d)
      /\ call'[c].op = call[c].op /\ call'[c].saw = call[c].saw /\ call'[c].n = call[c].n /\ call'[c].raced = call[c].raced
      /\ call'[c].step = "mark"
  BY <1>0, <1>1, CallMoves DEF CallSteps
<1>k. ~At(c, "code", "verify")' /\ ~At(c, "totp_verify", "write")' BY <1>c DEF At
<1>n. past'.tokens \in Numbers /\ past.tokens <= past'.tokens BY <1>0, <1>m, PastFields, AccountNumbers DEF Numbers
<1>t. AccountTypeOK' BY <1>0, <1>1, <1>3, <1>c DEF AccountTypeOK
<1>p1. EntersKnown' BY <1>0, <1>1, <1>c, <1>k, <1>s, <1>n, KeepEnters DEF AccountInv
<1>p2. AttemptsCount' BY <1>0, <1>1, <1>c, <1>k, <1>s, <1>n, KeepCounts DEF AccountInv
<1>p3. LockComes' BY <1>0, <1>1, <1>c, <1>k, <1>s, <1>n, KeepLock DEF AccountInv
<1>p4. AllReadOrRaced' BY <1>0, <1>1, <1>c, <1>k, <1>s, <1>n, KeepReads DEF AccountInv
<1>p5. StaleIsEnded'
  <2>1. CASE call[c].op \notin {"logout", "totp_verify", "totp_disable"} BY <1>4, <2>1 DEF StaleIsEnded
  <2>2. CASE call[c].op \in {"logout", "totp_verify", "totp_disable"} BY <1>1, <1>c, <1>s, <2>2, KeepStale DEF AccountInv
  <2> QED BY <2>1, <2>2
<1>p6. LeaverIsOut'
  <2>1. CASE call[c].op \notin {"logout", "totp_verify", "totp_disable"} BY <1>4, <2>1 DEF LeaverIsOut
  <2>2. CASE call[c].op \in {"logout", "totp_verify", "totp_disable"}
    <3>1. ~Closing(c)' BY <1>c, <2>2 DEF Closing
    <3> QED BY <1>1, <1>c, <1>s, <3>1, KeepLeaver DEF AccountInv
  <2> QED BY <2>1, <2>2
<1>p7. RevokedServesNothing' BY <1>2 DEF AccountInv, RevokedServesNothing
<1>p8. LinksApart' BY <1>0, <1>1, <1>c, <1>k, <1>s, <1>n, KeepLinks DEF AccountInv
<1>p9. SecretStill' BY <1>0, <1>1, <1>c, <1>k, <1>s, <1>n, KeepSecret DEF AccountInv
<1>p10. TriesBounded' BY <1>0, <1>1, <1>c, <1>k, <1>s, <1>n, KeepTries DEF AccountInv
<1> QED BY <1>t, <1>p1, <1>p2, <1>p3, <1>p4, <1>p5, <1>p6, <1>p7, <1>p8, <1>p9, <1>p10 DEF AccountInv

LEMMA MarkSessionsInv ==
  ASSUME AccountInv, NEW c \in Calls, MarkSessions(c)
  PROVE  AccountInv'
<1>0. AccountTypeOK BY DEF AccountInv
<1>1. /\ call[c].step = "mark" /\ UNCHANGED <<user, code, past>>
      /\ session' = [s \in Sessions |-> IF s \in call[c].list THEN [session[s] EXCEPT !.marked = TRUE] ELSE session[s]]
      /\ IF call[c].op = "deactivate" THEN Step(c, "off") ELSE Finished(c)
  BY DEF MarkSessions
<1>m. past' = past BY <1>1
<1>2. ASSUME NEW s \in Sessions
      PROVE  /\ session'[s] \in Session /\ session'[s].status = session[s].status /\ session'[s].pwd = session[s].pwd
             /\ session'[s].role = session[s].role /\ session'[s].raced = session[s].raced /\ session'[s].used = session[s].used
  <2>1. session[s] \in Session BY <1>0, SessionFields
  <2>2. PICK x : x = [session[s] EXCEPT !.marked = TRUE] OBVIOUS
  <2>3. /\ x \in Session /\ x.status = session[s].status /\ x.pwd = session[s].pwd /\ x.role = session[s].role
        /\ x.raced = session[s].raced /\ x.used = session[s].used
    BY <2>1, <2>2 DEF Session
  <2>4. session'[s] = IF s \in call[c].list THEN x ELSE session[s] BY <1>1, <2>2
  <2> QED BY <2>1, <2>3, <2>4
<1>3. session' \in [Sessions -> Session] BY <1>1, <1>2
<1>s. SessionsKept BY <1>2 DEF SessionsKept
<1>c. /\ call' \in [Calls -> Call] /\ \A d \in Calls \ {c} : Keeps(d)
      /\ \/ call[c].op = "deactivate" /\ call'[c].op = "deactivate" /\ call'[c].step = "off"
         \/ call'[c].op = "none" /\ call'[c].step = "idle"
  <2>1. CASE call[c].op = "deactivate"
    <3>1. Step(c, "off") BY <1>1, <2>1
    <3> QED BY <1>0, <2>1, <3>1, CallMoves DEF CallSteps
  <2>2. CASE call[c].op # "deactivate"
    <3>1. Finished(c) BY <1>1, <2>2
    <3> QED BY <1>0, <3>1, CallEnds
  <2> QED BY <2>1, <2>2
<1>k. /\ ~At(c, "code", "verify")' /\ ~At(c, "totp_verify", "write")' /\ call'[c].op \notin Entering
      /\ call'[c].op \notin {"totp_setup", "reset", "setup"} /\ call'[c].step \notin {"unlock", "issue"}
      /\ Closing(c)' => Closing(c)
  BY <1>1, <1>c DEF At, Entering, Closing
<1>n. past'.tokens \in Numbers /\ past.tokens <= past'.tokens BY <1>0, <1>m, PastFields, AccountNumbers DEF Numbers
<1>t. AccountTypeOK' BY <1>0, <1>1, <1>3, <1>c DEF AccountTypeOK
<1>p1. EntersKnown' BY <1>0, <1>1, <1>c, <1>k, <1>s, <1>n, KeepEnters DEF AccountInv
<1>p2. AttemptsCount' BY <1>0, <1>1, <1>c, <1>k, <1>s, <1>n, KeepCounts DEF AccountInv
<1>p3. LockComes' BY <1>0, <1>1, <1>c, <1>k, <1>s, <1>n, KeepLock DEF AccountInv
<1>p4. AllReadOrRaced' BY <1>0, <1>1, <1>c, <1>k, <1>s, <1>n, KeepReads DEF AccountInv
<1>p5. StaleIsEnded' BY <1>0, <1>1, <1>c, <1>k, <1>s, <1>n, KeepStale DEF AccountInv
<1>p6. LeaverIsOut' BY <1>0, <1>1, <1>c, <1>k, <1>s, <1>n, KeepLeaver DEF AccountInv
<1>p7. RevokedServesNothing' BY <1>2 DEF AccountInv, RevokedServesNothing
<1>p8. LinksApart' BY <1>0, <1>1, <1>c, <1>k, <1>s, <1>n, KeepLinks DEF AccountInv
<1>p9. SecretStill' BY <1>0, <1>1, <1>c, <1>k, <1>s, <1>n, KeepSecret DEF AccountInv
<1>p10. TriesBounded' BY <1>0, <1>1, <1>c, <1>k, <1>s, <1>n, KeepTries DEF AccountInv
<1> QED BY <1>t, <1>p1, <1>p2, <1>p3, <1>p4, <1>p5, <1>p6, <1>p7, <1>p8, <1>p9, <1>p10 DEF AccountInv

LEMMA ForgotPasswordInv ==
  ASSUME AccountInv, ForgotPassword
  PROVE  AccountInv'
<1>0. AccountTypeOK BY DEF AccountInv
<1>1. /\ user.active /\ past.tokens < MaxChanges /\ user' = [user EXCEPT !.reset = NewToken] /\ past' = [past EXCEPT !.tokens = NewToken]
      /\ UNCHANGED <<session, call, code>>
  BY DEF ForgotPassword
<1>b. past.tokens \in Nat /\ NewToken \in Numbers /\ NewToken = past.tokens + 1
  BY <1>0, <1>1, PastFields, AccountNumbers DEF NewToken, Numbers
<1>u1. PICK u : u = [user EXCEPT !.reset = NewToken] OBVIOUS
<1>u2. user \in User BY <1>0 DEF AccountTypeOK
<1>u3. u \in User BY <1>u1, <1>u2, <1>b DEF User
<1>u4. user' = u BY <1>1, <1>u1
<1>u. /\ user' \in User /\ user'.pwd = user.pwd /\ user'.role = user.role /\ user'.active = user.active /\ user'.totp = user.totp /\ user'.secret = user.secret
      /\ user'.invite = user.invite /\ user'.reset = NewToken /\ user'.setup = user.setup /\ user'.locked = user.locked /\ user'.attempts = user.attempts
  BY <1>u1, <1>u2, <1>u3, <1>u4 DEF User
<1>h1. PICK h : h = [past EXCEPT !.tokens = NewToken] OBVIOUS
<1>h2. past \in PastRecord BY <1>0 DEF AccountTypeOK
<1>h3. h \in PastRecord BY <1>h1, <1>h2, <1>b DEF PastRecord
<1>h4. past' = h BY <1>1, <1>h1
<1>h. /\ past' \in PastRecord /\ past'.spent = past.spent /\ past'.tokens = NewToken /\ past'.verified = past.verified /\ past'.setupRaced = past.setupRaced
      /\ past'.wrong = past.wrong /\ past'.lapses = past.lapses /\ past'.failed = past.failed /\ past'.told = past.told /\ past'.escalated = past.escalated /\ past'.crashes = past.crashes
  BY <1>h1, <1>h2, <1>h3, <1>h4 DEF PastRecord
<1>c. \A d \in Calls : Keeps(d) BY <1>1, CallsStay
<1>s. SessionsKept BY <1>1, SessionsStay
<1>t. AccountTypeOK' BY <1>0, <1>1, <1>u, <1>h DEF AccountTypeOK
<1>p1. EntersKnown' BY <1>0, <1>1, <1>c, <1>s, <1>u, <1>h, KeepEnters DEF AccountInv
<1>p2. AttemptsCount' BY <1>0, <1>1, <1>c, <1>s, <1>u, <1>h, KeepCounts DEF AccountInv
<1>p3. LockComes' BY <1>0, <1>1, <1>c, <1>s, <1>u, <1>h, KeepLock DEF AccountInv
<1>p4. AllReadOrRaced' BY <1>0, <1>1, <1>c, <1>s, <1>u, <1>h, KeepReads DEF AccountInv
<1>p5. StaleIsEnded' BY <1>0, <1>1, <1>c, <1>s, <1>u, <1>h, KeepStale DEF AccountInv
<1>p6. LeaverIsOut' BY <1>0, <1>1, <1>c, <1>s, <1>u, <1>h, KeepLeaver DEF AccountInv
<1>p7. RevokedServesNothing' BY <1>0, <1>1, <1>c, <1>s, <1>u, <1>h, KeepServes DEF AccountInv
<1>p8. LinksApart'
  <2>1. /\ user.reset \in Nat /\ user.invite \in Nat /\ past.spent \subseteq Nat /\ \A d \in Calls : call[d].n \in Nat
    BY <1>0, UserFields, PastFields, CallFields, AccountNumbers DEF Numbers
  <2>2. /\ user.setup => user.invite = 0
        /\ 0 \notin past.spent /\ user.reset \notin past.spent /\ \A n \in past.spent : n <= past.tokens
        /\ user.reset <= past.tokens /\ user.invite <= past.tokens /\ (user.invite # 0 => user.invite # user.reset)
        /\ \A d \in Calls : call[d].op \in {"reset", "setup"} /\ call[d].step = "write" =>
             call[d].n \in 1 .. past.tokens /\ (call[d].op = "setup" => call[d].n # user.reset)
    BY DEF AccountInv, LinksApart
  <2>3. NewToken \notin past.spent BY <1>b, <2>1, <2>2
  <2>4. \A n \in past'.spent : n <= past'.tokens BY <1>b, <1>h, <2>1, <2>2
  <2>5. ASSUME NEW d \in Calls, call[d].op \in {"reset", "setup"}, call[d].step = "write"
        PROVE  call[d].n \in 1 .. past'.tokens /\ (call[d].op = "setup" => call[d].n # user'.reset)
    <3>1. call[d].n \in 1 .. past.tokens /\ (call[d].op = "setup" => call[d].n # user.reset) BY <2>2, <2>5
    <3> QED BY <3>1, <1>b, <1>u, <1>h
  <2>6. user'.reset <= past'.tokens /\ user'.invite <= past'.tokens /\ (user'.invite # 0 => user'.invite # user'.reset)
    BY <1>b, <1>u, <1>h, <2>1, <2>2
  <2> QED BY <1>1, <1>u, <1>h, <2>2, <2>3, <2>4, <2>5, <2>6 DEF LinksApart
<1>p9. SecretStill' BY <1>0, <1>1, <1>c, <1>s, <1>u, <1>h, KeepSecret DEF AccountInv
<1>p10. TriesBounded' BY <1>0, <1>1, <1>c, <1>s, <1>u, <1>h, KeepTries DEF AccountInv
<1> QED BY <1>t, <1>p1, <1>p2, <1>p3, <1>p4, <1>p5, <1>p6, <1>p7, <1>p8, <1>p9, <1>p10 DEF AccountInv

LEMMA ResendInviteInv ==
  ASSUME AccountInv, ResendInvite
  PROVE  AccountInv'
<1>0. AccountTypeOK BY DEF AccountInv
<1>1. /\ ~user.setup /\ past.tokens < MaxChanges /\ user' = [user EXCEPT !.invite = NewToken] /\ past' = [past EXCEPT !.tokens = NewToken]
      /\ UNCHANGED <<session, call, code>>
  BY DEF ResendInvite
<1>b. past.tokens \in Nat /\ NewToken \in Numbers /\ NewToken = past.tokens + 1
  BY <1>0, <1>1, PastFields, AccountNumbers DEF NewToken, Numbers
<1>u1. PICK u : u = [user EXCEPT !.invite = NewToken] OBVIOUS
<1>u2. user \in User BY <1>0 DEF AccountTypeOK
<1>u3. u \in User BY <1>u1, <1>u2, <1>b DEF User
<1>u4. user' = u BY <1>1, <1>u1
<1>u. /\ user' \in User /\ user'.pwd = user.pwd /\ user'.role = user.role /\ user'.active = user.active /\ user'.totp = user.totp /\ user'.secret = user.secret
      /\ user'.reset = user.reset /\ user'.invite = NewToken /\ user'.setup = user.setup /\ user'.locked = user.locked /\ user'.attempts = user.attempts
  BY <1>u1, <1>u2, <1>u3, <1>u4 DEF User
<1>h1. PICK h : h = [past EXCEPT !.tokens = NewToken] OBVIOUS
<1>h2. past \in PastRecord BY <1>0 DEF AccountTypeOK
<1>h3. h \in PastRecord BY <1>h1, <1>h2, <1>b DEF PastRecord
<1>h4. past' = h BY <1>1, <1>h1
<1>h. /\ past' \in PastRecord /\ past'.spent = past.spent /\ past'.tokens = NewToken /\ past'.verified = past.verified /\ past'.setupRaced = past.setupRaced
      /\ past'.wrong = past.wrong /\ past'.lapses = past.lapses /\ past'.failed = past.failed /\ past'.told = past.told /\ past'.escalated = past.escalated /\ past'.crashes = past.crashes
  BY <1>h1, <1>h2, <1>h3, <1>h4 DEF PastRecord
<1>c. \A d \in Calls : Keeps(d) BY <1>1, CallsStay
<1>s. SessionsKept BY <1>1, SessionsStay
<1>t. AccountTypeOK' BY <1>0, <1>1, <1>u, <1>h DEF AccountTypeOK
<1>p1. EntersKnown' BY <1>0, <1>1, <1>c, <1>s, <1>u, <1>h, KeepEnters DEF AccountInv
<1>p2. AttemptsCount' BY <1>0, <1>1, <1>c, <1>s, <1>u, <1>h, KeepCounts DEF AccountInv
<1>p3. LockComes' BY <1>0, <1>1, <1>c, <1>s, <1>u, <1>h, KeepLock DEF AccountInv
<1>p4. AllReadOrRaced' BY <1>0, <1>1, <1>c, <1>s, <1>u, <1>h, KeepReads DEF AccountInv
<1>p5. StaleIsEnded' BY <1>0, <1>1, <1>c, <1>s, <1>u, <1>h, KeepStale DEF AccountInv
<1>p6. LeaverIsOut' BY <1>0, <1>1, <1>c, <1>s, <1>u, <1>h, KeepLeaver DEF AccountInv
<1>p7. RevokedServesNothing' BY <1>0, <1>1, <1>c, <1>s, <1>u, <1>h, KeepServes DEF AccountInv
<1>p8. LinksApart'
  <2>1. /\ user.reset \in Nat /\ user.invite \in Nat /\ past.spent \subseteq Nat /\ \A d \in Calls : call[d].n \in Nat
    BY <1>0, UserFields, PastFields, CallFields, AccountNumbers DEF Numbers
  <2>2. /\ user.setup => user.invite = 0
        /\ 0 \notin past.spent /\ user.reset \notin past.spent /\ \A n \in past.spent : n <= past.tokens
        /\ user.reset <= past.tokens /\ user.invite <= past.tokens /\ (user.invite # 0 => user.invite # user.reset)
        /\ \A d \in Calls : call[d].op \in {"reset", "setup"} /\ call[d].step = "write" =>
             call[d].n \in 1 .. past.tokens /\ (call[d].op = "setup" => call[d].n # user.reset)
    BY DEF AccountInv, LinksApart
  <2>3. NewToken \notin past.spent BY <1>b, <2>1, <2>2
  <2>4. \A n \in past'.spent : n <= past'.tokens BY <1>b, <1>h, <2>1, <2>2
  <2>5. ASSUME NEW d \in Calls, call[d].op \in {"reset", "setup"}, call[d].step = "write"
        PROVE  call[d].n \in 1 .. past'.tokens /\ (call[d].op = "setup" => call[d].n # user'.reset)
    <3>1. call[d].n \in 1 .. past.tokens /\ (call[d].op = "setup" => call[d].n # user.reset) BY <2>2, <2>5
    <3> QED BY <3>1, <1>b, <1>u, <1>h
  <2>6. user'.reset <= past'.tokens /\ user'.invite <= past'.tokens /\ (user'.invite # 0 => user'.invite # user'.reset)
    BY <1>b, <1>u, <1>h, <2>1, <2>2
  <2> QED BY <1>1, <1>u, <1>h, <2>2, <2>3, <2>4, <2>5, <2>6 DEF LinksApart
<1>p9. SecretStill' BY <1>0, <1>1, <1>c, <1>s, <1>u, <1>h, KeepSecret DEF AccountInv
<1>p10. TriesBounded' BY <1>0, <1>1, <1>c, <1>s, <1>u, <1>h, KeepTries DEF AccountInv
<1> QED BY <1>t, <1>p1, <1>p2, <1>p3, <1>p4, <1>p5, <1>p6, <1>p7, <1>p8, <1>p9, <1>p10 DEF AccountInv

LEMMA CallCrashInv ==
  ASSUME AccountInv, NEW c \in Calls, CallCrash(c)
  PROVE  AccountInv'
<1>0. AccountTypeOK BY DEF AccountInv
<1>1. /\ past.crashes < MaxCallCrashes /\ past' = [past EXCEPT !.crashes = @ + 1] /\ Finished(c) /\ UNCHANGED <<user, session, code>>
  BY DEF CallCrash
<1>b. past.crashes \in Nat /\ past.crashes + 1 \in 0 .. MaxCallCrashes BY <1>0, <1>1, PastFields, AccountNumbers
<1>h1. PICK h : h = [past EXCEPT !.crashes = @ + 1] OBVIOUS
<1>h2. past \in PastRecord BY <1>0 DEF AccountTypeOK
<1>h3. h \in PastRecord BY <1>h1, <1>h2, <1>b DEF PastRecord
<1>h4. past' = h BY <1>1, <1>h1
<1>h. /\ past' \in PastRecord /\ past'.spent = past.spent /\ past'.tokens = past.tokens /\ past'.verified = past.verified /\ past'.setupRaced = past.setupRaced
      /\ past'.wrong = past.wrong /\ past'.lapses = past.lapses /\ past'.failed = past.failed /\ past'.told = past.told /\ past'.escalated = past.escalated /\ past'.crashes = past.crashes + 1
  BY <1>h1, <1>h2, <1>h3, <1>h4 DEF PastRecord
<1>c. /\ call' \in [Calls -> Call] /\ \A d \in Calls \ {c} : Keeps(d)
      /\ call'[c].op = "none" /\ call'[c].step = "idle" /\ TRUE
  BY <1>0, <1>1, CallEnds DEF At
<1>k. ~Closing(c)' /\ ~At(c, "code", "verify")' /\ ~At(c, "totp_verify", "write")' /\ call'[c].op \notin Entering
  BY <1>c DEF Closing, At, Entering
<1>s. SessionsKept BY <1>1, SessionsStay
<1>n. past'.tokens \in Numbers /\ past.tokens <= past'.tokens BY <1>0, <1>h, PastFields, AccountNumbers DEF Numbers
<1>t. AccountTypeOK' BY <1>0, <1>1, <1>h, <1>c DEF AccountTypeOK
<1>p1. EntersKnown' BY <1>0, <1>1, <1>c, <1>k, <1>s, <1>n, <1>h, KeepEnters DEF AccountInv
<1>p2. AttemptsCount' BY <1>0, <1>1, <1>c, <1>k, <1>s, <1>n, <1>h, KeepCounts DEF AccountInv
<1>p3. LockComes' BY <1>b, <1>h DEF LockComes
<1>p4. AllReadOrRaced' BY <1>0, <1>1, <1>c, <1>k, <1>s, <1>n, <1>h, KeepReads DEF AccountInv
<1>p5. StaleIsEnded' BY <1>b, <1>h DEF StaleIsEnded
<1>p6. LeaverIsOut' BY <1>0, <1>1, <1>c, <1>k, <1>s, <1>n, <1>h, KeepLeaver DEF AccountInv
<1>p7. RevokedServesNothing' BY <1>0, <1>1, <1>c, <1>k, <1>s, <1>n, <1>h, KeepServes DEF AccountInv
<1>p8. LinksApart' BY <1>0, <1>1, <1>c, <1>k, <1>s, <1>n, <1>h, KeepLinks DEF AccountInv
<1>p9. SecretStill' BY <1>0, <1>1, <1>c, <1>k, <1>s, <1>n, <1>h, KeepSecret DEF AccountInv
<1>p10. TriesBounded' BY <1>0, <1>1, <1>c, <1>k, <1>s, <1>n, <1>h, KeepTries DEF AccountInv
<1> QED BY <1>t, <1>p1, <1>p2, <1>p3, <1>p4, <1>p5, <1>p6, <1>p7, <1>p8, <1>p9, <1>p10 DEF AccountInv

LEMMA WriteResetInv ==
  ASSUME AccountInv, NEW c \in Calls, WriteReset(c)
  PROVE  AccountInv'
<1>0. AccountTypeOK BY DEF AccountInv
<1>1. /\ At(c, "reset", "write") /\ user.pwd < MaxChanges /\ user' = AfterReset
      /\ past' = [past EXCEPT !.spent = @ \cup {call[c].n}, !.failed = 0, !.told = 0, !.escalated = 0]
      /\ Overlaps(c, "password", "list") /\ UNCHANGED <<session, code>>
  BY DEF WriteReset
<1>b. user.pwd + 1 \in Numbers BY <1>0, <1>1, UserFields, AccountNumbers DEF Numbers
<1>b2. 0 \in Numbers /\ 0 \in 0 .. MaxAttempts BY AccountNumbers DEF Numbers
<1>m. call[c].n \in 1 .. past.tokens /\ (call[c].op = "setup" => call[c].n # user.reset) /\ call[c].n \in Numbers /\ call[c].n # 0
      /\ call[c].n <= past.tokens
  <2>1. call[c].n \in 1 .. past.tokens /\ (call[c].op = "setup" => call[c].n # user.reset) BY <1>1 DEF AccountInv, LinksApart, At
  <2>2. past.tokens \in Numbers BY <1>0, PastFields
  <2> QED BY <2>1, <2>2, AccountNumbers DEF Numbers
<1>u1. PICK u : u = AfterReset OBVIOUS
<1>u2. user \in User BY <1>0 DEF AccountTypeOK
<1>u3. u \in User BY <1>u1, <1>u2, <1>b, <1>b2 DEF User, AfterReset
<1>u4. user' = u BY <1>1, <1>u1
<1>u. /\ user' \in User /\ user'.role = user.role /\ user'.active = user.active /\ user'.totp = user.totp /\ user'.secret = user.secret /\ user'.attempts = 0
      /\ user'.reset = 0 /\ user'.invite = user.invite /\ user'.setup = user.setup /\ user'.locked = user.locked
  BY <1>u1, <1>u2, <1>u3, <1>u4 DEF User, AfterReset
<1>h1. PICK h : h = [past EXCEPT !.spent = @ \cup {call[c].n}, !.failed = 0, !.told = 0, !.escalated = 0] OBVIOUS
<1>h2. past \in PastRecord BY <1>0 DEF AccountTypeOK
<1>h3. h \in PastRecord BY <1>h1, <1>h2, <1>m DEF PastRecord
<1>h4. past' = h BY <1>1, <1>h1
<1>h. /\ past' \in PastRecord /\ past'.spent = past.spent \cup {call[c].n} /\ past'.tokens = past.tokens /\ past'.verified = past.verified /\ past'.setupRaced = past.setupRaced
      /\ past'.wrong = past.wrong /\ past'.lapses = past.lapses /\ past'.failed = 0 /\ past'.told = 0 /\ past'.escalated = 0 /\ past'.crashes = past.crashes
  BY <1>h1, <1>h2, <1>h3, <1>h4 DEF PastRecord
<1>c. /\ call' \in [Calls -> Call] /\ (\A d \in Calls \ {c} : Keeps(d) /\ (call[d] # NoCall => "password" \in call'[d].raced))
      /\ call'[c].op = "reset" /\ call'[c].step = "list" /\ call[c].op = "reset" /\ call[c].step = "write"
  BY <1>0, <1>1, CallOverlaps DEF At, CallSteps, Events
<1>k. ~Closing(c)' /\ ~At(c, "code", "verify")' /\ ~At(c, "totp_verify", "write")' /\ call'[c].op \notin Entering
  BY <1>c DEF Closing, At, Entering
<1>s. SessionsKept BY <1>1, SessionsStay
<1>t. AccountTypeOK' BY <1>0, <1>1, <1>u, <1>h, <1>c DEF AccountTypeOK
<1>p1. EntersKnown' BY <1>0, <1>1, <1>c, <1>k, <1>s, <1>u, <1>h, KeepEnters DEF AccountInv
<1>p2. AttemptsCount' BY <1>u, <1>h DEF AttemptsCount
<1>p3. LockComes' BY <1>h, AccountNumbers DEF LockComes
<1>p4. AllReadOrRaced'
  <2> SUFFICES ASSUME NEW d \in Calls PROVE ReadsOrRaced(d)' BY DEF AllReadOrRaced
  <2>1. CASE d = c BY <1>k, <2>1 DEF ReadsOrRaced
  <2>2. CASE d # c /\ call[d].op \in Entering
    <3>1. Keeps(d) /\ "password" \in call'[d].raced BY <1>c, <2>2, NoCallType DEF Entering
    <3>2. ReadsOrRaced(d) BY DEF AccountInv, AllReadOrRaced
    <3> QED BY <1>u, <2>2, <3>1, <3>2 DEF ReadsOrRaced, Keeps
  <2>3. CASE d # c /\ call[d].op \notin Entering
    <3>1. call'[d].op \notin Entering BY <1>c, <2>3 DEF Keeps
    <3> QED BY <3>1 DEF ReadsOrRaced
  <2> QED BY <2>1, <2>2, <2>3
<1>p5. StaleIsEnded'
  <2>1. EndsAll(c, {"reset", "change"})' BY <1>c DEF EndsAll
  <2>2. ASSUME NEW d \in Calls PROVE EndsAll(d, {"role"}) => EndsAll(d, {"role"})' BY <1>c DEF EndsAll, Keeps
  <2>3. ASSUME past'.crashes = 0, NEW s \in OpenSessions'
        PROVE  session'[s].role # user'.role => session'[s].raced \cap {"role", "unseen"} # {} \/ \E d \in Calls : EndsAll(d, {"role"})'
    <3>1. s \in OpenSessions /\ session'[s] = session[s] /\ past.crashes = 0 BY <1>1, <1>h, <2>3 DEF OpenSessions
    <3>2. session[s].role # user.role => session[s].raced \cap {"role", "unseen"} # {} \/ \E d \in Calls : EndsAll(d, {"role"})
      BY <3>1 DEF AccountInv, StaleIsEnded
    <3> QED BY <1>u, <2>2, <3>1, <3>2
  <2> QED BY <2>1, <2>3 DEF StaleIsEnded
<1>p6. LeaverIsOut' BY <1>0, <1>1, <1>c, <1>k, <1>s, <1>u, <1>h, KeepLeaver DEF AccountInv
<1>p7. RevokedServesNothing' BY <1>0, <1>1, <1>c, <1>k, <1>s, <1>u, <1>h, KeepServes DEF AccountInv
<1>p8. LinksApart'
  <2>1. /\ user.reset \in Nat /\ user.invite \in Nat /\ past.spent \subseteq Nat /\ \A d \in Calls : call[d].n \in Nat
    BY <1>0, UserFields, PastFields, CallFields, AccountNumbers DEF Numbers
  <2>2. /\ user.setup => user.invite = 0
        /\ 0 \notin past.spent /\ user.reset \notin past.spent /\ \A n \in past.spent : n <= past.tokens
        /\ user.reset <= past.tokens /\ user.invite <= past.tokens /\ (user.invite # 0 => user.invite # user.reset)
        /\ \A d \in Calls : call[d].op \in {"reset", "setup"} /\ call[d].step = "write" =>
             call[d].n \in 1 .. past.tokens /\ (call[d].op = "setup" => call[d].n # user.reset)
    BY DEF AccountInv, LinksApart
  <2>3. past.tokens \in Nat BY <1>0, PastFields, AccountNumbers DEF Numbers
  <2>4. \A n \in past'.spent : n <= past'.tokens BY <1>h, <1>m, <2>1, <2>2
  <2>5. 0 \notin past'.spent /\ user'.reset \notin past'.spent BY <1>u, <1>h, <1>m, <2>2
  <2>6. ASSUME NEW d \in Calls, call'[d].op \in {"reset", "setup"}, call'[d].step = "write"
        PROVE  call'[d].n \in 1 .. past'.tokens /\ (call'[d].op = "setup" => call'[d].n # user'.reset)
    <3>1. Keeps(d) BY <1>c, <2>6
    <3>2. call[d].n \in 1 .. past.tokens /\ (call[d].op = "setup" => call[d].n # user.reset) BY <2>2, <2>6, <3>1 DEF Keeps
    <3>3. call'[d].n = call[d].n /\ call'[d].op = call[d].op /\ call[d].n # 0 BY <3>1, <3>2, <2>3 DEF Keeps
    <3> QED BY <3>2, <3>3, <1>u, <1>h
  <2>7. user'.reset <= past'.tokens /\ user'.invite <= past'.tokens /\ (user'.invite # 0 => user'.invite # user'.reset)
    BY <1>u, <1>h, <2>1, <2>2, <2>3
  <2>8. user'.setup => user'.invite = 0 BY <1>u, <2>2
  <2> QED BY <2>4, <2>5, <2>6, <2>7, <2>8 DEF LinksApart
<1>p9. SecretStill' BY <1>0, <1>1, <1>c, <1>k, <1>s, <1>u, <1>h, KeepSecret DEF AccountInv
<1>p10. TriesBounded' BY <1>0, <1>1, <1>c, <1>k, <1>s, <1>u, <1>h, KeepTries DEF AccountInv
<1> QED BY <1>t, <1>p1, <1>p2, <1>p3, <1>p4, <1>p5, <1>p6, <1>p7, <1>p8, <1>p9, <1>p10 DEF AccountInv

LEMMA WriteSetupInv ==
  ASSUME AccountInv, NEW c \in Calls, WriteSetup(c)
  PROVE  AccountInv'
<1>0. AccountTypeOK BY DEF AccountInv
<1>1. /\ At(c, "setup", "write") /\ user' = [user EXCEPT !.invite = 0, !.setup = TRUE]
      /\ past' = [past EXCEPT !.spent = @ \cup {call[c].n}] /\ Step(c, "issue") /\ UNCHANGED <<session, code>>
  BY DEF WriteSetup
<1>b2. 0 \in Numbers BY AccountNumbers DEF Numbers
<1>m. call[c].n \in 1 .. past.tokens /\ (call[c].op = "setup" => call[c].n # user.reset) /\ call[c].n \in Numbers /\ call[c].n # 0
      /\ call[c].n <= past.tokens
  <2>1. call[c].n \in 1 .. past.tokens /\ (call[c].op = "setup" => call[c].n # user.reset) BY <1>1 DEF AccountInv, LinksApart, At
  <2>2. past.tokens \in Numbers BY <1>0, PastFields
  <2> QED BY <2>1, <2>2, AccountNumbers DEF Numbers
<1>u1. PICK u : u = [user EXCEPT !.invite = 0, !.setup = TRUE] OBVIOUS
<1>u2. user \in User BY <1>0 DEF AccountTypeOK
<1>u3. u \in User BY <1>u1, <1>u2, <1>b2 DEF User
<1>u4. user' = u BY <1>1, <1>u1
<1>u. /\ user' \in User /\ user'.pwd = user.pwd /\ user'.role = user.role /\ user'.active = user.active /\ user'.totp = user.totp /\ user'.secret = user.secret /\ user'.attempts = user.attempts
      /\ user'.reset = user.reset /\ user'.invite = 0 /\ user'.setup = TRUE /\ user'.locked = user.locked
  BY <1>u1, <1>u2, <1>u3, <1>u4 DEF User
<1>h1. PICK h : h = [past EXCEPT !.spent = @ \cup {call[c].n}] OBVIOUS
<1>h2. past \in PastRecord BY <1>0 DEF AccountTypeOK
<1>h3. h \in PastRecord BY <1>h1, <1>h2, <1>m DEF PastRecord
<1>h4. past' = h BY <1>1, <1>h1
<1>h. /\ past' \in PastRecord /\ past'.spent = past.spent \cup {call[c].n} /\ past'.tokens = past.tokens /\ past'.verified = past.verified /\ past'.setupRaced = past.setupRaced
      /\ past'.wrong = past.wrong /\ past'.lapses = past.lapses /\ past'.failed = past.failed /\ past'.told = past.told /\ past'.escalated = past.escalated /\ past'.crashes = past.crashes
  BY <1>h1, <1>h2, <1>h3, <1>h4 DEF PastRecord
<1>c. /\ call' \in [Calls -> Call] /\ \A d \in Calls \ {c} : Keeps(d)
      /\ call'[c].op = call[c].op /\ call'[c].saw = call[c].saw /\ call'[c].n = call[c].n /\ call'[c].raced = call[c].raced
      /\ call'[c].step = "issue" /\ call[c].op = "setup" /\ call[c].step = "write"
  BY <1>0, <1>1, CallMoves DEF At, CallSteps
<1>k. ~Closing(c)' /\ ~At(c, "code", "verify")' /\ ~At(c, "totp_verify", "write")'
  BY <1>c DEF Closing, At
<1>e. call'[c].op \in Entering BY <1>c DEF Entering
<1>s. SessionsKept BY <1>1, SessionsStay
<1>t. AccountTypeOK' BY <1>0, <1>1, <1>u, <1>h, <1>c DEF AccountTypeOK
<1>p1. EntersKnown' BY <1>0, <1>1, <1>c, <1>k, <1>s, <1>u, <1>h, <1>e, KeepEnters DEF AccountInv
<1>p2. AttemptsCount' BY <1>0, <1>1, <1>c, <1>k, <1>s, <1>u, <1>h, <1>e, KeepCounts DEF AccountInv
<1>p3. LockComes' BY <1>0, <1>1, <1>c, <1>k, <1>s, <1>u, <1>h, <1>e, KeepLock DEF AccountInv
<1>p4. AllReadOrRaced' BY <1>0, <1>1, <1>c, <1>k, <1>s, <1>u, <1>h, <1>e, KeepReads DEF AccountInv
<1>p5. StaleIsEnded' BY <1>0, <1>1, <1>c, <1>k, <1>s, <1>u, <1>h, <1>e, KeepStale DEF AccountInv
<1>p6. LeaverIsOut' BY <1>0, <1>1, <1>c, <1>k, <1>s, <1>u, <1>h, <1>e, KeepLeaver DEF AccountInv
<1>p7. RevokedServesNothing' BY <1>0, <1>1, <1>c, <1>k, <1>s, <1>u, <1>h, <1>e, KeepServes DEF AccountInv
<1>p8. LinksApart'
  <2>1. /\ user.reset \in Nat /\ user.invite \in Nat /\ past.spent \subseteq Nat /\ \A d \in Calls : call[d].n \in Nat
    BY <1>0, UserFields, PastFields, CallFields, AccountNumbers DEF Numbers
  <2>2. /\ user.setup => user.invite = 0
        /\ 0 \notin past.spent /\ user.reset \notin past.spent /\ \A n \in past.spent : n <= past.tokens
        /\ user.reset <= past.tokens /\ user.invite <= past.tokens /\ (user.invite # 0 => user.invite # user.reset)
        /\ \A d \in Calls : call[d].op \in {"reset", "setup"} /\ call[d].step = "write" =>
             call[d].n \in 1 .. past.tokens /\ (call[d].op = "setup" => call[d].n # user.reset)
    BY DEF AccountInv, LinksApart
  <2>3. past.tokens \in Nat BY <1>0, PastFields, AccountNumbers DEF Numbers
  <2>4. \A n \in past'.spent : n <= past'.tokens BY <1>h, <1>m, <2>1, <2>2
  <2>5. 0 \notin past'.spent /\ user'.reset \notin past'.spent BY <1>c, <1>u, <1>h, <1>m, <2>2
  <2>6. ASSUME NEW d \in Calls, call'[d].op \in {"reset", "setup"}, call'[d].step = "write"
        PROVE  call'[d].n \in 1 .. past'.tokens /\ (call'[d].op = "setup" => call'[d].n # user'.reset)
    <3>1. Keeps(d) BY <1>c, <2>6
    <3>2. call[d].n \in 1 .. past.tokens /\ (call[d].op = "setup" => call[d].n # user.reset) BY <2>2, <2>6, <3>1 DEF Keeps
    <3>3. call'[d].n = call[d].n /\ call'[d].op = call[d].op /\ call[d].n # 0 BY <3>1, <3>2, <2>3 DEF Keeps
    <3> QED BY <3>2, <3>3, <1>u, <1>h
  <2>7. user'.reset <= past'.tokens /\ user'.invite <= past'.tokens /\ (user'.invite # 0 => user'.invite # user'.reset)
    BY <1>u, <1>h, <2>1, <2>2, <2>3
  <2>8. user'.setup => user'.invite = 0 BY <1>u, <2>2
  <2> QED BY <2>4, <2>5, <2>6, <2>7, <2>8 DEF LinksApart
<1>p9. SecretStill' BY <1>0, <1>1, <1>c, <1>k, <1>s, <1>u, <1>h, <1>e, KeepSecret DEF AccountInv
<1>p10. TriesBounded' BY <1>0, <1>1, <1>c, <1>k, <1>s, <1>u, <1>h, <1>e, KeepTries DEF AccountInv
<1> QED BY <1>t, <1>p1, <1>p2, <1>p3, <1>p4, <1>p5, <1>p6, <1>p7, <1>p8, <1>p9, <1>p10 DEF AccountInv

LEMMA WriteChangeInv ==
  ASSUME AccountInv, NEW c \in Calls, WriteChange(c)
  PROVE  AccountInv'
<1>0. AccountTypeOK BY DEF AccountInv
<1>1. /\ At(c, "change", "write") /\ user.pwd < MaxChanges /\ user' = [user EXCEPT !.pwd = @ + 1]
      /\ Overlaps(c, "password", "list") /\ UNCHANGED <<session, code, past>>
  BY DEF WriteChange
<1>b. user.pwd + 1 \in Numbers BY <1>0, <1>1, UserFields, AccountNumbers DEF Numbers
<1>u1. PICK u : u = [user EXCEPT !.pwd = @ + 1] OBVIOUS
<1>u2. user \in User BY <1>0 DEF AccountTypeOK
<1>u3. u \in User BY <1>u1, <1>u2, <1>b DEF User
<1>u4. user' = u BY <1>1, <1>u1
<1>u. /\ user' \in User /\ user'.role = user.role /\ user'.active = user.active /\ user'.totp = user.totp /\ user'.secret = user.secret
      /\ user'.reset = user.reset /\ user'.invite = user.invite /\ user'.setup = user.setup /\ user'.locked = user.locked /\ user'.attempts = user.attempts
  BY <1>u1, <1>u2, <1>u3, <1>u4 DEF User
<1>h. past' = past BY <1>1
<1>c. /\ call' \in [Calls -> Call] /\ (\A d \in Calls \ {c} : Keeps(d) /\ (call[d] # NoCall => "password" \in call'[d].raced))
      /\ call'[c].op = "change" /\ call'[c].step = "list" /\ call[c].op = "change" /\ call[c].step = "write"
  BY <1>0, <1>1, CallOverlaps DEF At, CallSteps, Events
<1>k. ~Closing(c)' /\ ~At(c, "code", "verify")' /\ ~At(c, "totp_verify", "write")' /\ call'[c].op \notin Entering
  BY <1>c DEF Closing, At, Entering
<1>s. SessionsKept BY <1>1, SessionsStay
<1>n. past'.tokens \in Numbers /\ past.tokens <= past'.tokens BY <1>0, <1>h, PastFields, AccountNumbers DEF Numbers
<1>t. AccountTypeOK' BY <1>0, <1>1, <1>u, <1>h, <1>c DEF AccountTypeOK
<1>p1. EntersKnown' BY <1>0, <1>1, <1>c, <1>k, <1>s, <1>n, <1>u, <1>h, KeepEnters DEF AccountInv
<1>p2. AttemptsCount' BY <1>0, <1>1, <1>c, <1>k, <1>s, <1>n, <1>u, <1>h, KeepCounts DEF AccountInv
<1>p3. LockComes' BY <1>0, <1>1, <1>c, <1>k, <1>s, <1>n, <1>u, <1>h, KeepLock DEF AccountInv
<1>p4. AllReadOrRaced'
  <2> SUFFICES ASSUME NEW d \in Calls PROVE ReadsOrRaced(d)' BY DEF AllReadOrRaced
  <2>1. CASE d = c BY <1>k, <2>1 DEF ReadsOrRaced
  <2>2. CASE d # c /\ call[d].op \in Entering
    <3>1. Keeps(d) /\ "password" \in call'[d].raced BY <1>c, <2>2, NoCallType DEF Entering
    <3>2. ReadsOrRaced(d) BY DEF AccountInv, AllReadOrRaced
    <3> QED BY <1>u, <2>2, <3>1, <3>2 DEF ReadsOrRaced, Keeps
  <2>3. CASE d # c /\ call[d].op \notin Entering
    <3>1. call'[d].op \notin Entering BY <1>c, <2>3 DEF Keeps
    <3> QED BY <3>1 DEF ReadsOrRaced
  <2> QED BY <2>1, <2>2, <2>3
<1>p5. StaleIsEnded'
  <2>1. EndsAll(c, {"reset", "change"})' BY <1>c DEF EndsAll
  <2>2. ASSUME NEW d \in Calls PROVE EndsAll(d, {"role"}) => EndsAll(d, {"role"})' BY <1>c DEF EndsAll, Keeps
  <2>3. ASSUME past'.crashes = 0, NEW s \in OpenSessions'
        PROVE  session'[s].role # user'.role => session'[s].raced \cap {"role", "unseen"} # {} \/ \E d \in Calls : EndsAll(d, {"role"})'
    <3>1. s \in OpenSessions /\ session'[s] = session[s] /\ past.crashes = 0 BY <1>1, <1>h, <2>3 DEF OpenSessions
    <3>2. session[s].role # user.role => session[s].raced \cap {"role", "unseen"} # {} \/ \E d \in Calls : EndsAll(d, {"role"})
      BY <3>1 DEF AccountInv, StaleIsEnded
    <3> QED BY <1>u, <2>2, <3>1, <3>2
  <2> QED BY <2>1, <2>3 DEF StaleIsEnded
<1>p6. LeaverIsOut' BY <1>0, <1>1, <1>c, <1>k, <1>s, <1>n, <1>u, <1>h, KeepLeaver DEF AccountInv
<1>p7. RevokedServesNothing' BY <1>0, <1>1, <1>c, <1>k, <1>s, <1>n, <1>u, <1>h, KeepServes DEF AccountInv
<1>p8. LinksApart' BY <1>0, <1>1, <1>c, <1>k, <1>s, <1>n, <1>u, <1>h, KeepLinks DEF AccountInv
<1>p9. SecretStill' BY <1>0, <1>1, <1>c, <1>k, <1>s, <1>n, <1>u, <1>h, KeepSecret DEF AccountInv
<1>p10. TriesBounded' BY <1>0, <1>1, <1>c, <1>k, <1>s, <1>n, <1>u, <1>h, KeepTries DEF AccountInv
<1> QED BY <1>t, <1>p1, <1>p2, <1>p3, <1>p4, <1>p5, <1>p6, <1>p7, <1>p8, <1>p9, <1>p10 DEF AccountInv

\* A role that ends the sessions, and one that was put back unseen.
SeenRole(c, r) ==
  /\ At(c, "role", "write") /\ user' = [user EXCEPT !.role = r] /\ Overlaps(c, "role", "list") /\ UNCHANGED <<session, code, past>>
UnseenRole(c, r) ==
  /\ At(c, "role", "write") /\ user' = [user EXCEPT !.role = r] /\ Leaves(c, "role") /\ session' = Unseen(r)
  /\ UNCHANGED <<code, past>>

LEMMA SeenRoleInv ==
  ASSUME AccountInv, NEW c \in Calls, NEW r \in Roles, SeenRole(c, r)
  PROVE  AccountInv'
<1>0. AccountTypeOK BY DEF AccountInv
<1>1. /\ At(c, "role", "write") /\ user' = [user EXCEPT !.role = r] /\ Overlaps(c, "role", "list") /\ UNCHANGED <<session, code, past>>
  BY DEF SeenRole
<1>u1. PICK u : u = [user EXCEPT !.role = r] OBVIOUS
<1>u2. user \in User BY <1>0 DEF AccountTypeOK
<1>u3. u \in User BY <1>u1, <1>u2 DEF User
<1>u4. user' = u BY <1>1, <1>u1
<1>u. /\ user' \in User /\ user'.pwd = user.pwd /\ user'.role = r /\ user'.active = user.active /\ user'.totp = user.totp /\ user'.secret = user.secret
      /\ user'.reset = user.reset /\ user'.invite = user.invite /\ user'.setup = user.setup /\ user'.locked = user.locked /\ user'.attempts = user.attempts
  BY <1>u1, <1>u2, <1>u3, <1>u4 DEF User
<1>h. past' = past BY <1>1
<1>c. /\ call' \in [Calls -> Call] /\ (\A d \in Calls \ {c} : Keeps(d) /\ (call[d] # NoCall => "role" \in call'[d].raced))
      /\ call'[c].op = "role" /\ call'[c].step = "list" /\ call[c].op = "role" /\ call[c].step = "write"
  BY <1>0, <1>1, CallOverlaps DEF At, CallSteps, Events
<1>k. ~Closing(c)' /\ ~At(c, "code", "verify")' /\ ~At(c, "totp_verify", "write")' /\ call'[c].op \notin Entering
  BY <1>c DEF Closing, At, Entering
<1>s. SessionsKept BY <1>1, SessionsStay
<1>n. past'.tokens \in Numbers /\ past.tokens <= past'.tokens BY <1>0, <1>h, PastFields, AccountNumbers DEF Numbers
<1>t. AccountTypeOK' BY <1>0, <1>1, <1>u, <1>h, <1>c DEF AccountTypeOK
<1>p1. EntersKnown' BY <1>0, <1>1, <1>c, <1>k, <1>s, <1>n, <1>u, <1>h, KeepEnters DEF AccountInv
<1>p2. AttemptsCount' BY <1>0, <1>1, <1>c, <1>k, <1>s, <1>n, <1>u, <1>h, KeepCounts DEF AccountInv
<1>p3. LockComes' BY <1>0, <1>1, <1>c, <1>k, <1>s, <1>n, <1>u, <1>h, KeepLock DEF AccountInv
<1>p4. AllReadOrRaced'
  <2> SUFFICES ASSUME NEW d \in Calls PROVE ReadsOrRaced(d)' BY DEF AllReadOrRaced
  <2>1. CASE d = c BY <1>k, <2>1 DEF ReadsOrRaced
  <2>2. CASE d # c /\ call[d].op \in Entering
    <3>1. Keeps(d) /\ "role" \in call'[d].raced BY <1>c, <2>2, NoCallType DEF Entering
    <3>2. ReadsOrRaced(d) BY DEF AccountInv, AllReadOrRaced
    <3> QED BY <1>u, <2>2, <3>1, <3>2 DEF ReadsOrRaced, Keeps
  <2>3. CASE d # c /\ call[d].op \notin Entering
    <3>1. call'[d].op \notin Entering BY <1>c, <2>3 DEF Keeps
    <3> QED BY <3>1 DEF ReadsOrRaced
  <2> QED BY <2>1, <2>2, <2>3
<1>p5. StaleIsEnded'
  <2>1. EndsAll(c, {"role"})' BY <1>c DEF EndsAll
  <2>2. ASSUME NEW d \in Calls PROVE EndsAll(d, {"reset", "change"}) => EndsAll(d, {"reset", "change"})' BY <1>c DEF EndsAll, Keeps
  <2>3. ASSUME past'.crashes = 0, NEW s \in OpenSessions'
        PROVE  session'[s].pwd # user'.pwd => "password" \in session'[s].raced \/ \E d \in Calls : EndsAll(d, {"reset", "change"})'
    <3>1. s \in OpenSessions /\ session'[s] = session[s] /\ past.crashes = 0 BY <1>1, <1>h, <2>3 DEF OpenSessions
    <3>2. session[s].pwd # user.pwd => "password" \in session[s].raced \/ \E d \in Calls : EndsAll(d, {"reset", "change"})
      BY <3>1 DEF AccountInv, StaleIsEnded
    <3> QED BY <1>u, <2>2, <3>1, <3>2
  <2> QED BY <2>1, <2>3 DEF StaleIsEnded
<1>p6. LeaverIsOut' BY <1>0, <1>1, <1>c, <1>k, <1>s, <1>n, <1>u, <1>h, KeepLeaver DEF AccountInv
<1>p7. RevokedServesNothing' BY <1>0, <1>1, <1>c, <1>k, <1>s, <1>n, <1>u, <1>h, KeepServes DEF AccountInv
<1>p8. LinksApart' BY <1>0, <1>1, <1>c, <1>k, <1>s, <1>n, <1>u, <1>h, KeepLinks DEF AccountInv
<1>p9. SecretStill' BY <1>0, <1>1, <1>c, <1>k, <1>s, <1>n, <1>u, <1>h, KeepSecret DEF AccountInv
<1>p10. TriesBounded' BY <1>0, <1>1, <1>c, <1>k, <1>s, <1>n, <1>u, <1>h, KeepTries DEF AccountInv
<1> QED BY <1>t, <1>p1, <1>p2, <1>p3, <1>p4, <1>p5, <1>p6, <1>p7, <1>p8, <1>p9, <1>p10 DEF AccountInv

LEMMA UnseenRoleInv ==
  ASSUME AccountInv, NEW c \in Calls, NEW r \in Roles, UnseenRole(c, r)
  PROVE  AccountInv'
<1>0. AccountTypeOK BY DEF AccountInv
<1>1. /\ At(c, "role", "write") /\ user' = [user EXCEPT !.role = r] /\ Leaves(c, "role") /\ session' = Unseen(r)
      /\ UNCHANGED <<code, past>>
  BY DEF UnseenRole
<1>u1. PICK u : u = [user EXCEPT !.role = r] OBVIOUS
<1>u2. user \in User BY <1>0 DEF AccountTypeOK
<1>u3. u \in User BY <1>u1, <1>u2 DEF User
<1>u4. user' = u BY <1>1, <1>u1
<1>u. /\ user' \in User /\ user'.pwd = user.pwd /\ user'.role = r /\ user'.active = user.active /\ user'.totp = user.totp /\ user'.secret = user.secret
      /\ user'.reset = user.reset /\ user'.invite = user.invite /\ user'.setup = user.setup /\ user'.locked = user.locked /\ user'.attempts = user.attempts
  BY <1>u1, <1>u2, <1>u3, <1>u4 DEF User
<1>h. past' = past BY <1>1
<1>c. /\ call' \in [Calls -> Call] /\ (\A d \in Calls \ {c} : Keeps(d) /\ (call[d] # NoCall => "role" \in call'[d].raced))
      /\ call'[c].op = "none" /\ call'[c].step = "idle" /\ call[c].op = "role" /\ call[c].step = "write"
  BY <1>0, <1>1, CallLeaves DEF At, Events
<1>k. ~Closing(c)' /\ ~At(c, "code", "verify")' /\ ~At(c, "totp_verify", "write")' /\ call'[c].op \notin Entering
  BY <1>c DEF Closing, At, Entering
<1>2. ASSUME NEW s \in Sessions
      PROVE  /\ session'[s] \in Session /\ session'[s].status = session[s].status /\ session'[s].pwd = session[s].pwd
             /\ session'[s].role = session[s].role /\ session'[s].used = session[s].used
             /\ session[s].raced \subseteq session'[s].raced
             /\ s \in OpenSessions /\ user.role # r => "unseen" \in session'[s].raced
  <2>1. session[s] \in Session BY <1>0, SessionFields
  <2>2. PICK x : x = [session[s] EXCEPT !.raced = @ \cup {"unseen"}] OBVIOUS
  <2>3. /\ x \in Session /\ x.status = session[s].status /\ x.pwd = session[s].pwd /\ x.role = session[s].role
        /\ x.used = session[s].used /\ x.raced = session[s].raced \cup {"unseen"}
    BY <2>1, <2>2 DEF Session, Events
  <2>4. session'[s] = IF s \in OpenSessions /\ user.role # r THEN x ELSE session[s] BY <1>1, <2>2 DEF Unseen
  <2> QED BY <2>1, <2>3, <2>4
<1>3. session' \in [Sessions -> Session]
  <2>1. session' = [s \in Sessions |-> session'[s]] BY <1>1 DEF Unseen
  <2> QED BY <1>2, <2>1
<1>s. SessionsKept BY <1>2 DEF SessionsKept
<1>n. past'.tokens \in Numbers /\ past.tokens <= past'.tokens BY <1>0, <1>h, PastFields, AccountNumbers DEF Numbers
<1>t. AccountTypeOK' BY <1>0, <1>1, <1>3, <1>u, <1>h, <1>c DEF AccountTypeOK
<1>p1. EntersKnown' BY <1>0, <1>1, <1>c, <1>k, <1>s, <1>n, <1>u, <1>h, KeepEnters DEF AccountInv
<1>p2. AttemptsCount' BY <1>0, <1>1, <1>c, <1>k, <1>s, <1>n, <1>u, <1>h, KeepCounts DEF AccountInv
<1>p3. LockComes' BY <1>0, <1>1, <1>c, <1>k, <1>s, <1>n, <1>u, <1>h, KeepLock DEF AccountInv
<1>p4. AllReadOrRaced'
  <2> SUFFICES ASSUME NEW d \in Calls PROVE ReadsOrRaced(d)' BY DEF AllReadOrRaced
  <2>1. CASE d = c BY <1>k, <2>1 DEF ReadsOrRaced
  <2>2. CASE d # c /\ call[d].op \in Entering
    <3>1. Keeps(d) /\ "role" \in call'[d].raced BY <1>c, <2>2, NoCallType DEF Entering
    <3>2. ReadsOrRaced(d) BY DEF AccountInv, AllReadOrRaced
    <3> QED BY <1>u, <2>2, <3>1, <3>2 DEF ReadsOrRaced, Keeps
  <2>3. CASE d # c /\ call[d].op \notin Entering
    <3>1. call'[d].op \notin Entering BY <1>c, <2>3 DEF Keeps
    <3> QED BY <3>1 DEF ReadsOrRaced
  <2> QED BY <2>1, <2>2, <2>3
<1>p5. StaleIsEnded'
  <2>1. ASSUME NEW d \in Calls
        PROVE  (EndsAll(d, {"reset", "change"}) => EndsAll(d, {"reset", "change"})') /\ (EndsAll(d, {"role"}) => EndsAll(d, {"role"})')
    BY <1>c DEF EndsAll, Keeps
  <2>2. ASSUME past'.crashes = 0, NEW s \in OpenSessions'
        PROVE  /\ session'[s].pwd # user'.pwd => "password" \in session'[s].raced \/ \E d \in Calls : EndsAll(d, {"reset", "change"})'
               /\ session'[s].role # user'.role => session'[s].raced \cap {"role", "unseen"} # {} \/ \E d \in Calls : EndsAll(d, {"role"})'
    <3>1. s \in OpenSessions /\ s \in Sessions /\ past.crashes = 0 BY <1>2, <1>h, <2>2 DEF OpenSessions
    <3>2. /\ session[s].pwd # user.pwd => "password" \in session[s].raced \/ \E d \in Calls : EndsAll(d, {"reset", "change"})
          /\ session[s].role # user.role => session[s].raced \cap {"role", "unseen"} # {} \/ \E d \in Calls : EndsAll(d, {"role"})
      BY <3>1 DEF AccountInv, StaleIsEnded
    <3>3. session'[s].pwd = session[s].pwd /\ session'[s].role = session[s].role /\ session[s].raced \subseteq session'[s].raced
      BY <1>2, <3>1
    <3>4. session'[s].pwd # user'.pwd => "password" \in session'[s].raced \/ \E d \in Calls : EndsAll(d, {"reset", "change"})'
      BY <1>u, <2>1, <3>2, <3>3
    <3>5. CASE user.role = r BY <1>u, <2>1, <3>2, <3>3, <3>4, <3>5
    <3>6. CASE user.role # r BY <1>2, <3>1, <3>4, <3>6
    <3> QED BY <3>5, <3>6
  <2> QED BY <2>2 DEF StaleIsEnded
<1>p6. LeaverIsOut' BY <1>0, <1>1, <1>c, <1>k, <1>s, <1>n, <1>u, <1>h, KeepLeaver DEF AccountInv
<1>p7. RevokedServesNothing' BY <1>2 DEF AccountInv, RevokedServesNothing
<1>p8. LinksApart' BY <1>0, <1>1, <1>c, <1>k, <1>s, <1>n, <1>u, <1>h, KeepLinks DEF AccountInv
<1>p9. SecretStill' BY <1>0, <1>1, <1>c, <1>k, <1>s, <1>n, <1>u, <1>h, KeepSecret DEF AccountInv
<1>p10. TriesBounded' BY <1>0, <1>1, <1>c, <1>k, <1>s, <1>n, <1>u, <1>h, KeepTries DEF AccountInv
<1> QED BY <1>t, <1>p1, <1>p2, <1>p3, <1>p4, <1>p5, <1>p6, <1>p7, <1>p8, <1>p9, <1>p10 DEF AccountInv

LEMMA WriteRoleInv ==
  ASSUME AccountInv, NEW c \in Calls, WriteRole(c)
  PROVE  AccountInv'
<1>1. PICK r \in Roles : SeenRole(c, r) \/ UnseenRole(c, r) BY DEF WriteRole, SeenRole, UnseenRole
<1> QED BY <1>1, SeenRoleInv, UnseenRoleInv

LEMMA DeactivateInv ==
  ASSUME AccountInv, NEW c \in Calls, Deactivate(c)
  PROVE  AccountInv'
<1>0. AccountTypeOK BY DEF AccountInv
<1>1. /\ At(c, "deactivate", "off") /\ user' = [user EXCEPT !.active = FALSE] /\ UNCHANGED <<session, code, past>>
      /\ Leaves(c, "off")
  BY DEF Deactivate
<1>u1. PICK u : u = [user EXCEPT !.active = FALSE] OBVIOUS
<1>u2. user \in User BY <1>0 DEF AccountTypeOK
<1>u3. u \in User BY <1>u1, <1>u2 DEF User
<1>u4. user' = u BY <1>1, <1>u1
<1>u. /\ user' \in User /\ user'.pwd = user.pwd /\ user'.role = user.role /\ user'.active = FALSE /\ user'.totp = user.totp /\ user'.secret = user.secret
      /\ user'.reset = user.reset /\ user'.invite = user.invite /\ user'.setup = user.setup /\ user'.locked = user.locked /\ user'.attempts = user.attempts
  BY <1>u1, <1>u2, <1>u3, <1>u4 DEF User
<1>h. past' = past BY <1>1
<1>c. /\ call' \in [Calls -> Call] /\ (\A d \in Calls \ {c} : Keeps(d) /\ (call[d] # NoCall => "off" \in call'[d].raced))
      /\ call'[c].op = "none" /\ call'[c].step = "idle" /\ call[c].op = "deactivate" /\ call[c].step = "off"
  BY <1>0, <1>1, CallLeaves DEF At, Events
<1>k. ~Closing(c)' /\ ~At(c, "code", "verify")' /\ ~At(c, "totp_verify", "write")' /\ call'[c].op \notin Entering
  BY <1>c DEF Closing, At, Entering
<1>s. SessionsKept BY <1>1, SessionsStay
<1>n. past'.tokens \in Numbers /\ past.tokens <= past'.tokens BY <1>0, <1>h, PastFields, AccountNumbers DEF Numbers
<1>t. AccountTypeOK' BY <1>0, <1>1, <1>u, <1>h, <1>c DEF AccountTypeOK
<1>p1. EntersKnown' BY <1>0, <1>1, <1>c, <1>k, <1>s, <1>n, <1>u, <1>h, KeepEnters DEF AccountInv
<1>p2. AttemptsCount' BY <1>0, <1>1, <1>c, <1>k, <1>s, <1>n, <1>u, <1>h, KeepCounts DEF AccountInv
<1>p3. LockComes' BY <1>0, <1>1, <1>c, <1>k, <1>s, <1>n, <1>u, <1>h, KeepLock DEF AccountInv
<1>p4. AllReadOrRaced'
  <2> SUFFICES ASSUME NEW d \in Calls PROVE ReadsOrRaced(d)' BY DEF AllReadOrRaced
  <2>1. CASE d = c BY <1>k, <2>1 DEF ReadsOrRaced
  <2>2. CASE d # c /\ call[d].op \in Entering
    <3>1. Keeps(d) /\ "off" \in call'[d].raced BY <1>c, <2>2, NoCallType DEF Entering
    <3>2. ReadsOrRaced(d) BY DEF AccountInv, AllReadOrRaced
    <3> QED BY <1>u, <2>2, <3>1, <3>2 DEF ReadsOrRaced, Keeps
  <2>3. CASE d # c /\ call[d].op \notin Entering
    <3>1. call'[d].op \notin Entering BY <1>c, <2>3 DEF Keeps
    <3> QED BY <3>1 DEF ReadsOrRaced
  <2> QED BY <2>1, <2>2, <2>3
<1>p5. StaleIsEnded' BY <1>0, <1>1, <1>c, <1>k, <1>s, <1>n, <1>u, <1>h, KeepStale DEF AccountInv
<1>p6. LeaverIsOut'
  <2>1. Closing(c) BY <1>c DEF Closing
  <2>2. \A s \in OpenSessions : session[s].raced \cap {"off", "unchecked"} # {} BY <2>1 DEF AccountInv, LeaverIsOut
  <2>3. OpenSessions' = OpenSessions /\ session' = session BY <1>1 DEF OpenSessions
  <2> QED BY <2>2, <2>3 DEF LeaverIsOut
<1>p7. RevokedServesNothing' BY <1>0, <1>1, <1>c, <1>k, <1>s, <1>n, <1>u, <1>h, KeepServes DEF AccountInv
<1>p8. LinksApart' BY <1>0, <1>1, <1>c, <1>k, <1>s, <1>n, <1>u, <1>h, KeepLinks DEF AccountInv
<1>p9. SecretStill' BY <1>0, <1>1, <1>c, <1>k, <1>s, <1>n, <1>u, <1>h, KeepSecret DEF AccountInv
<1>p10. TriesBounded' BY <1>0, <1>1, <1>c, <1>k, <1>s, <1>n, <1>u, <1>h, KeepTries DEF AccountInv
<1> QED BY <1>t, <1>p1, <1>p2, <1>p3, <1>p4, <1>p5, <1>p6, <1>p7, <1>p8, <1>p9, <1>p10 DEF AccountInv

LEMMA TotpSetupWriteInv ==
  ASSUME AccountInv, NEW c \in Calls, TotpSetupWrite(c)
  PROVE  AccountInv'
<1>0. AccountTypeOK BY DEF AccountInv
<1>1. /\ At(c, "totp_setup", "write") /\ past.tokens < MaxChanges /\ user' = [user EXCEPT !.secret = NewToken]
      /\ past' = [past EXCEPT !.tokens = NewToken, !.setupRaced = @ \/ Running("totp_verify") # {}]
      /\ Finished(c) /\ UNCHANGED <<session, code>>
  BY DEF TotpSetupWrite
<1>b. past.tokens \in Nat /\ NewToken \in Numbers /\ NewToken = past.tokens + 1 /\ past.setupRaced \in BOOLEAN
  BY <1>0, <1>1, PastFields, AccountNumbers DEF NewToken, Numbers
<1>u1. PICK u : u = [user EXCEPT !.secret = NewToken] OBVIOUS
<1>u2. user \in User BY <1>0 DEF AccountTypeOK
<1>u3. u \in User BY <1>u1, <1>u2, <1>b DEF User
<1>u4. user' = u BY <1>1, <1>u1
<1>u. /\ user' \in User /\ user'.pwd = user.pwd /\ user'.role = user.role /\ user'.active = user.active /\ user'.totp = user.totp /\ user'.secret = NewToken
      /\ user'.reset = user.reset /\ user'.invite = user.invite /\ user'.setup = user.setup /\ user'.locked = user.locked /\ user'.attempts = user.attempts
  BY <1>u1, <1>u2, <1>u3, <1>u4 DEF User
<1>h1. PICK h : h = [past EXCEPT !.tokens = NewToken, !.setupRaced = @ \/ Running("totp_verify") # {}] OBVIOUS
<1>h2. past \in PastRecord BY <1>0 DEF AccountTypeOK
<1>h3. h \in PastRecord BY <1>h1, <1>h2, <1>b DEF PastRecord
<1>h4. past' = h BY <1>1, <1>h1
<1>h. /\ past' \in PastRecord /\ past'.spent = past.spent /\ past'.tokens = NewToken /\ past'.verified = past.verified
      /\ (past'.setupRaced <=> past.setupRaced \/ Running("totp_verify") # {})
      /\ past'.wrong = past.wrong /\ past'.lapses = past.lapses /\ past'.failed = past.failed /\ past'.told = past.told /\ past'.escalated = past.escalated /\ past'.crashes = past.crashes
  BY <1>h1, <1>h2, <1>h3, <1>h4 DEF PastRecord
<1>c. /\ call' \in [Calls -> Call] /\ \A d \in Calls \ {c} : Keeps(d)
      /\ call'[c].op = "none" /\ call'[c].step = "idle" /\ call[c].op = "totp_setup" /\ call[c].step = "write"
  BY <1>0, <1>1, CallEnds DEF At
<1>k. ~Closing(c)' /\ ~At(c, "code", "verify")' /\ ~At(c, "totp_verify", "write")' /\ call'[c].op \notin Entering
  BY <1>c DEF Closing, At, Entering
<1>s. SessionsKept BY <1>1, SessionsStay
<1>n. past'.tokens \in Numbers /\ past.tokens <= past'.tokens BY <1>0, <1>b, <1>h, PastFields, AccountNumbers DEF Numbers
<1>t. AccountTypeOK' BY <1>0, <1>1, <1>u, <1>h, <1>c DEF AccountTypeOK
<1>p1. EntersKnown' BY <1>0, <1>1, <1>c, <1>k, <1>s, <1>n, <1>u, <1>h, KeepEnters DEF AccountInv
<1>p2. AttemptsCount' BY <1>0, <1>1, <1>c, <1>k, <1>s, <1>n, <1>u, <1>h, KeepCounts DEF AccountInv
<1>p3. LockComes' BY <1>0, <1>1, <1>c, <1>k, <1>s, <1>n, <1>u, <1>h, KeepLock DEF AccountInv
<1>p4. AllReadOrRaced' BY <1>0, <1>1, <1>c, <1>k, <1>s, <1>n, <1>u, <1>h, KeepReads DEF AccountInv
<1>p5. StaleIsEnded' BY <1>0, <1>1, <1>c, <1>k, <1>s, <1>n, <1>u, <1>h, KeepStale DEF AccountInv
<1>p6. LeaverIsOut' BY <1>0, <1>1, <1>c, <1>k, <1>s, <1>n, <1>u, <1>h, KeepLeaver DEF AccountInv
<1>p7. RevokedServesNothing' BY <1>0, <1>1, <1>c, <1>k, <1>s, <1>n, <1>u, <1>h, KeepServes DEF AccountInv
<1>p8. LinksApart' BY <1>0, <1>1, <1>c, <1>k, <1>s, <1>n, <1>u, <1>h, KeepLinks DEF AccountInv
<1>p9. SecretStill'
  <2>1. SUFFICES ASSUME ~past'.setupRaced
                 PROVE  ~user'.totp /\ \A d \in Calls : ~At(d, "totp_verify", "write")'
    BY DEF SecretStill
  <2>2. ~past.setupRaced /\ Running("totp_verify") = {} BY <1>h, <2>1
  <2>3. c \in Running("totp_setup") BY <1>c DEF Running
  <2>4. ~user.totp BY <2>2, <2>3 DEF AccountInv, SecretStill
  <2>5. \A d \in Calls : ~At(d, "totp_verify", "write")' BY <1>c, <1>k, <2>2 DEF At, Running, Keeps
  <2> QED BY <1>u, <2>4, <2>5
<1>p10. TriesBounded' BY <1>0, <1>1, <1>c, <1>k, <1>s, <1>n, <1>u, <1>h, KeepTries DEF AccountInv
<1> QED BY <1>t, <1>p1, <1>p2, <1>p3, <1>p4, <1>p5, <1>p6, <1>p7, <1>p8, <1>p9, <1>p10 DEF AccountInv

LEMMA TotpVerifyWriteInv ==
  ASSUME AccountInv, NEW c \in Calls, TotpVerifyWrite(c)
  PROVE  AccountInv'
<1>0. AccountTypeOK BY DEF AccountInv
<1>1. /\ At(c, "totp_verify", "write") /\ user' = [user EXCEPT !.totp = TRUE]
      /\ past' = [past EXCEPT !.verified = call[c].saw.secret,
                              !.setupRaced = @ \/ Running("totp_setup") \cup Running("totp_disable") # {}]
      /\ Step(c, "list") /\ UNCHANGED <<session, code>>
  BY DEF TotpVerifyWrite
<1>b. call[c].saw.secret \in Numbers /\ past.setupRaced \in BOOLEAN BY <1>0, CallFields, PastFields
<1>u1. PICK u : u = [user EXCEPT !.totp = TRUE] OBVIOUS
<1>u2. user \in User BY <1>0 DEF AccountTypeOK
<1>u3. u \in User BY <1>u1, <1>u2 DEF User
<1>u4. user' = u BY <1>1, <1>u1
<1>u. /\ user' \in User /\ user'.pwd = user.pwd /\ user'.role = user.role /\ user'.active = user.active /\ user'.totp = TRUE /\ user'.secret = user.secret
      /\ user'.reset = user.reset /\ user'.invite = user.invite /\ user'.setup = user.setup /\ user'.locked = user.locked /\ user'.attempts = user.attempts
  BY <1>u1, <1>u2, <1>u3, <1>u4 DEF User
<1>h1. PICK h : h = [past EXCEPT !.verified = call[c].saw.secret,
                              !.setupRaced = @ \/ Running("totp_setup") \cup Running("totp_disable") # {}] OBVIOUS
<1>h2. past \in PastRecord BY <1>0 DEF AccountTypeOK
<1>h3. h \in PastRecord BY <1>h1, <1>h2, <1>b DEF PastRecord
<1>h4. past' = h BY <1>1, <1>h1
<1>h. /\ past' \in PastRecord /\ past'.spent = past.spent /\ past'.tokens = past.tokens /\ past'.verified = call[c].saw.secret
      /\ (past'.setupRaced <=> past.setupRaced \/ Running("totp_setup") \cup Running("totp_disable") # {})
      /\ past'.wrong = past.wrong /\ past'.lapses = past.lapses /\ past'.failed = past.failed /\ past'.told = past.told /\ past'.escalated = past.escalated /\ past'.crashes = past.crashes
  BY <1>h1, <1>h2, <1>h3, <1>h4 DEF PastRecord
<1>c. /\ call' \in [Calls -> Call] /\ \A d \in Calls \ {c} : Keeps(d)
      /\ call'[c].op = call[c].op /\ call'[c].saw = call[c].saw /\ call'[c].n = call[c].n /\ call'[c].raced = call[c].raced
      /\ call'[c].step = "list" /\ call[c].op = "totp_verify" /\ call[c].step = "write"
  BY <1>0, <1>1, CallMoves DEF At, CallSteps
<1>k. ~Closing(c)' /\ ~At(c, "code", "verify")' /\ ~At(c, "totp_verify", "write")'
  BY <1>c DEF Closing, At
<1>e. call'[c].op \notin Entering BY <1>c DEF Entering
<1>s. SessionsKept BY <1>1, SessionsStay
<1>n. past'.tokens \in Numbers /\ past.tokens <= past'.tokens BY <1>0, <1>h, PastFields, AccountNumbers DEF Numbers
<1>t. AccountTypeOK' BY <1>0, <1>1, <1>u, <1>h, <1>c DEF AccountTypeOK
<1>p1. EntersKnown' BY <1>0, <1>1, <1>c, <1>k, <1>s, <1>n, <1>u, <1>h, <1>e, KeepEnters DEF AccountInv
<1>p2. AttemptsCount' BY <1>0, <1>1, <1>c, <1>k, <1>s, <1>n, <1>u, <1>h, <1>e, KeepCounts DEF AccountInv
<1>p3. LockComes' BY <1>0, <1>1, <1>c, <1>k, <1>s, <1>n, <1>u, <1>h, <1>e, KeepLock DEF AccountInv
<1>p4. AllReadOrRaced' BY <1>0, <1>1, <1>c, <1>k, <1>s, <1>n, <1>u, <1>h, <1>e, KeepReads DEF AccountInv
<1>p5. StaleIsEnded' BY <1>0, <1>1, <1>c, <1>k, <1>s, <1>n, <1>u, <1>h, <1>e, KeepStale DEF AccountInv
<1>p6. LeaverIsOut' BY <1>0, <1>1, <1>c, <1>k, <1>s, <1>n, <1>u, <1>h, <1>e, KeepLeaver DEF AccountInv
<1>p7. RevokedServesNothing' BY <1>0, <1>1, <1>c, <1>k, <1>s, <1>n, <1>u, <1>h, <1>e, KeepServes DEF AccountInv
<1>p8. LinksApart' BY <1>0, <1>1, <1>c, <1>k, <1>s, <1>n, <1>u, <1>h, <1>e, KeepLinks DEF AccountInv
<1>p9. SecretStill'
  <2>1. SUFFICES ASSUME ~past'.setupRaced
                 PROVE  /\ user'.secret = past'.verified /\ Running("totp_setup")' = {}
                        /\ \A d \in Calls : At(d, "totp_verify", "write")' => call'[d].saw.secret = user'.secret
    BY DEF SecretStill
  <2>2. ~past.setupRaced /\ Running("totp_setup") = {} BY <1>h, <2>1
  <2>3. \A d \in Calls : At(d, "totp_verify", "write") => call[d].saw.secret = user.secret BY <2>2 DEF AccountInv, SecretStill
  <2>4. Running("totp_setup")' = {} BY <1>c, <2>2 DEF Running, Keeps
  <2>5. user'.secret = past'.verified BY <1>1, <1>u, <1>h, <2>3
  <2>6. \A d \in Calls : At(d, "totp_verify", "write")' => call'[d].saw.secret = user'.secret
    BY <1>c, <1>k, <1>u, <2>3 DEF At, Keeps
  <2> QED BY <2>4, <2>5, <2>6
<1>p10. TriesBounded' BY <1>0, <1>1, <1>c, <1>k, <1>s, <1>n, <1>u, <1>h, <1>e, KeepTries DEF AccountInv
<1> QED BY <1>t, <1>p1, <1>p2, <1>p3, <1>p4, <1>p5, <1>p6, <1>p7, <1>p8, <1>p9, <1>p10 DEF AccountInv

LEMMA TotpDisableWriteInv ==
  ASSUME AccountInv, NEW c \in Calls, TotpDisableWrite(c)
  PROVE  AccountInv'
<1>0. AccountTypeOK BY DEF AccountInv
<1>1. /\ At(c, "totp_disable", "write") /\ user' = [user EXCEPT !.totp = FALSE, !.secret = 0]
      /\ past' = [past EXCEPT !.setupRaced = @ \/ Running("totp_verify") # {}] /\ Step(c, "list") /\ UNCHANGED <<session, code>>
  BY DEF TotpDisableWrite
<1>b. 0 \in Numbers /\ past.setupRaced \in BOOLEAN BY <1>0, PastFields, AccountNumbers DEF Numbers
<1>u1. PICK u : u = [user EXCEPT !.totp = FALSE, !.secret = 0] OBVIOUS
<1>u2. user \in User BY <1>0 DEF AccountTypeOK
<1>u3. u \in User BY <1>u1, <1>u2, <1>b DEF User
<1>u4. user' = u BY <1>1, <1>u1
<1>u. /\ user' \in User /\ user'.pwd = user.pwd /\ user'.role = user.role /\ user'.active = user.active /\ user'.totp = FALSE /\ user'.secret = 0
      /\ user'.reset = user.reset /\ user'.invite = user.invite /\ user'.setup = user.setup /\ user'.locked = user.locked /\ user'.attempts = user.attempts
  BY <1>u1, <1>u2, <1>u3, <1>u4 DEF User
<1>h1. PICK h : h = [past EXCEPT !.setupRaced = @ \/ Running("totp_verify") # {}] OBVIOUS
<1>h2. past \in PastRecord BY <1>0 DEF AccountTypeOK
<1>h3. h \in PastRecord BY <1>h1, <1>h2, <1>b DEF PastRecord
<1>h4. past' = h BY <1>1, <1>h1
<1>h. /\ past' \in PastRecord /\ past'.spent = past.spent /\ past'.tokens = past.tokens /\ past'.verified = past.verified
      /\ (past'.setupRaced <=> past.setupRaced \/ Running("totp_verify") # {})
      /\ past'.wrong = past.wrong /\ past'.lapses = past.lapses /\ past'.failed = past.failed /\ past'.told = past.told /\ past'.escalated = past.escalated /\ past'.crashes = past.crashes
  BY <1>h1, <1>h2, <1>h3, <1>h4 DEF PastRecord
<1>c. /\ call' \in [Calls -> Call] /\ \A d \in Calls \ {c} : Keeps(d)
      /\ call'[c].op = call[c].op /\ call'[c].saw = call[c].saw /\ call'[c].n = call[c].n /\ call'[c].raced = call[c].raced
      /\ call'[c].step = "list" /\ call[c].op = "totp_disable" /\ call[c].step = "write"
  BY <1>0, <1>1, CallMoves DEF At, CallSteps
<1>k. ~Closing(c)' /\ ~At(c, "code", "verify")' /\ ~At(c, "totp_verify", "write")'
  BY <1>c DEF Closing, At
<1>e. call'[c].op \notin Entering BY <1>c DEF Entering
<1>s. SessionsKept BY <1>1, SessionsStay
<1>n. past'.tokens \in Numbers /\ past.tokens <= past'.tokens BY <1>0, <1>h, PastFields, AccountNumbers DEF Numbers
<1>t. AccountTypeOK' BY <1>0, <1>1, <1>u, <1>h, <1>c DEF AccountTypeOK
<1>p1. EntersKnown' BY <1>0, <1>1, <1>c, <1>k, <1>s, <1>n, <1>u, <1>h, <1>e, KeepEnters DEF AccountInv
<1>p2. AttemptsCount' BY <1>0, <1>1, <1>c, <1>k, <1>s, <1>n, <1>u, <1>h, <1>e, KeepCounts DEF AccountInv
<1>p3. LockComes' BY <1>0, <1>1, <1>c, <1>k, <1>s, <1>n, <1>u, <1>h, <1>e, KeepLock DEF AccountInv
<1>p4. AllReadOrRaced' BY <1>0, <1>1, <1>c, <1>k, <1>s, <1>n, <1>u, <1>h, <1>e, KeepReads DEF AccountInv
<1>p5. StaleIsEnded' BY <1>0, <1>1, <1>c, <1>k, <1>s, <1>n, <1>u, <1>h, <1>e, KeepStale DEF AccountInv
<1>p6. LeaverIsOut' BY <1>0, <1>1, <1>c, <1>k, <1>s, <1>n, <1>u, <1>h, <1>e, KeepLeaver DEF AccountInv
<1>p7. RevokedServesNothing' BY <1>0, <1>1, <1>c, <1>k, <1>s, <1>n, <1>u, <1>h, <1>e, KeepServes DEF AccountInv
<1>p8. LinksApart' BY <1>0, <1>1, <1>c, <1>k, <1>s, <1>n, <1>u, <1>h, <1>e, KeepLinks DEF AccountInv
<1>p9. SecretStill'
  <2>1. SUFFICES ASSUME ~past'.setupRaced PROVE \A d \in Calls : ~At(d, "totp_verify", "write")'
    BY <1>u DEF SecretStill
  <2>2. Running("totp_verify") = {} BY <1>h, <2>1
  <2> QED BY <1>c, <1>k, <2>2 DEF At, Running, Keeps
<1>p10. TriesBounded' BY <1>0, <1>1, <1>c, <1>k, <1>s, <1>n, <1>u, <1>h, <1>e, KeepTries DEF AccountInv
<1> QED BY <1>t, <1>p1, <1>p2, <1>p3, <1>p4, <1>p5, <1>p6, <1>p7, <1>p8, <1>p9, <1>p10 DEF AccountInv

LEMMA AccountNextInv == AccountInv /\ [AccountNext]_accountVars => AccountInv'
<1> SUFFICES ASSUME AccountInv, [AccountNext]_accountVars PROVE AccountInv' OBVIOUS
<1>1. CASE UNCHANGED accountVars BY <1>1, AccountStutterInv
<1>2. CASE LoginNext
  <2>1. CASE LockExpires BY <2>1, LockExpiresInv
  <2>2. ASSUME NEW c \in Calls, LoginRead(c) \/ LoginLocked(c) \/ LoginFails(c) \/ SetLock(c) \/ LoginPasses(c) \/ Unlock(c) \/ Issue(c)
        PROVE  AccountInv'
    BY <2>2, ReadStepsInv, LoginLockedInv, LoginFailsInv, SetLockInv, LoginPassesInv, UnlockInv, IssueInv
  <2> QED BY <1>2, <2>1, <2>2 DEF LoginNext
<1>3. CASE CodeNext BY <1>3, ReadStepsInv, CodeFailsInv, CodePassesInv DEF CodeNext
<1>4. CASE RevokeNext
  BY <1>4, ListSessionsInv, RevokeSessionsInv, MarkSessionsInv, LogoutInv, AuthenticateInv, RefreshInv DEF RevokeNext
<1>5. CASE ChangeNext
  <2>1. CASE ForgotPassword \/ ResendInvite \/ Activate BY <2>1, ForgotPasswordInv, ResendInviteInv, ActivateInv
  <2>2. ASSUME NEW c \in Calls, NEW op \in {"reset", "setup"}, TokenRead(c, op) PROVE AccountInv' BY <2>2, TokenReadInv
  <2>3. ASSUME NEW c \in Calls, ChangeRead(c) \/ RoleRead(c) \/ DeactivateRead(c) \/ SsoRead(c) PROVE AccountInv'
    BY <2>3, ReadStepsInv
  <2>4. ASSUME NEW c \in Calls, WriteReset(c) \/ WriteSetup(c) \/ WriteChange(c) \/ WriteRole(c) \/ Deactivate(c) PROVE AccountInv'
    BY <2>4, WriteResetInv, WriteSetupInv, WriteChangeInv, WriteRoleInv, DeactivateInv
  <2> QED BY <1>5, <2>1, <2>2, <2>3, <2>4 DEF ChangeNext
<1>6. CASE TotpNext
  BY <1>6, ReadStepsInv, TotpSetupWriteInv, TotpVerifyWriteInv, TotpDisableWriteInv DEF TotpNext
<1>7. ASSUME NEW c \in Calls, CallCrash(c) PROVE AccountInv' BY <1>7, CallCrashInv
<1> QED BY <1>1, <1>2, <1>3, <1>4, <1>5, <1>6, <1>7 DEF AccountNext

\* However log-ins, codes, links, changes of the credentials, of the role and of
\* the second factor, revocations, deactivations and deaths of requests interleave
\* on one account, for any number of requests and sessions and any limits: a
\* lock-out is announced once and follows its failures, changes and deactivations
\* end the sessions from before them, a revoked session serves nothing, links are
\* spent once and wrong codes are bounded, but for the overlaps each part names
\* (routes/auth.ts, routes/users.ts, middleware/auth.ts).
THEOREM AccountsHold == AccountSpec => []AccountsSafe
<1>1. (\E done \in BOOLEAN : AccountInit(done)) => AccountInv BY AccountInvInit
<1>2. AccountInv /\ [AccountNext]_accountVars => AccountInv' BY AccountNextInv
<1>3. AccountInv => AccountsSafe BY AccountInvImplies
<1> QED BY <1>1, <1>2, <1>3, PTL DEF AccountSpec
=============================================================================
