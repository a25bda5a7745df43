--------------------------- MODULE PayrollProofs ---------------------------
(* Proofs about Payroll, for any number of employees, requests and claims. *)
EXTENDS Payroll, FiniteSetTheorems, TLAPS

-----------------------------------------------------------------------------
(* Type correctness *)

\* What a request has in its local variables at each label.
Locals == \A p \in Procs :
  /\ pc[p] \in {"gen_write", "auto_write", "proc_final"} => cur[p] \in todo[p]
  /\ pc[p] \in AdjustPc => cur[p] \in Users /\ arg[p] \in AdjustValues \cup {None}
  /\ pc[p] \in {"reimb_read", "reimb_write"} => cur[p] \in Users /\ arg[p] \in Claims
  /\ pc[p] \in {"recall_write", "proc_clean"} => cur[p] \in Users
  /\ pc[p] \in GenPc \cup ProcessPc => actor[p] \in Admins

TypeInv == TypeOK /\ Locals

\* The type of the stored state, and of the local variables of the requests.
DbOK ==
  /\ rec \in [Users -> Record]
  /\ att \in [Users -> 1 .. MaxAtt]
  /\ rate \in [Users -> Rates]
  /\ claim \in [Claims -> {"approved", "reimbursed"}]
  /\ payslip \in [Users -> Gross \cup {NoPdf, DeletedPdf}]
  /\ notified \in [Users -> Nat]

LocOK ==
  /\ pc \in [Procs -> Labels]
  /\ actor \in [Procs -> Admins \cup {None}]
  /\ cur \in [Procs -> Users \cup {None}]
  /\ todo \in [Procs -> SUBSET Users]
  /\ snap \in [Procs -> [Users -> Record]]
  /\ seenAtt \in [Procs -> Versions]
  /\ seenRate \in [Procs -> [Users -> Rates]]
  /\ arg \in [Procs -> Claims \cup AdjustValues \cup {None}]
  /\ Locals

LeaseOK == lease \in [Leases -> Procs \cup {None, "dead"}]
RacedOK == raced \in [Users -> BOOLEAN]

LEMMA TypeInvSplit == TypeInv <=> DbOK /\ LocOK /\ LeaseOK /\ RacedOK
  BY DEF TypeInv, TypeOK, DbOK, LocOK, LeaseOK, RacedOK

\* Lemmas on the helpers: what they return is of the right type.
LEMMA GrossOfType == \A b \in Base, a \in Nat : GrossOf(b, a) \in Gross
  BY DEF GrossOf, Base, Gross

LEMMA NoRecordType == NoRecord \in Record
<1>1. NoBase \in Base
  BY ConstantsAssumption DEF NoBase, Base, Manual, Versions, Rates
<1>2. GrossOf(NoBase, 0) \in Gross
  BY <1>1, GrossOfType
<1> QED
  BY <1>1, <1>2 DEF NoRecord, Record, Status

LEMMA RecordUpdates == \A r \in Record :
  /\ \A s \in Status : [r EXCEPT !.status = s] \in Record
  /\ \A b \in BOOLEAN : [r EXCEPT !.stale = b] \in Record
  /\ \A s \in Status, a \in Admins :
        [r EXCEPT !.status = s, !.processed_by = a] \in Record
  /\ \A n \in Nat, g \in Gross : [r EXCEPT !.adj = n, !.gross = g] \in Record
  BY DEF Record

LEMMA TypeInit == Init => TypeInv
<1> SUFFICES ASSUME Init PROVE TypeInv
  OBVIOUS
<1>1. DbOK
  <2>1. rate \in [Users -> Rates]
    BY DEF Init
  <2>2. att \in [Users -> 1 .. MaxAtt]
    BY ConstantsAssumption DEF Init
  <2> QED
    BY <2>1, <2>2, NoRecordType DEF Init, DbOK
<1>2. LocOK
  BY NoRecordType, ConstantsAssumption
  DEF Init, LocOK, Locals, Labels, Versions, Rates, GenPc, AdjustPc, ProcessPc, Admins
<1>3. LeaseOK /\ RacedOK
  BY DEF Init, LeaseOK, RacedOK
<1> QED
  BY <1>1, <1>2, <1>3, TypeInvSplit

LEMMA ForgetType ==
  ASSUME LocOK, NEW p \in Procs, Forget(p) PROVE LocOK'
  BY NoRecordType, ConstantsAssumption
  DEF LocOK, Locals, Forget, Labels, Versions, Rates, GenPc, AdjustPc, ProcessPc

LEMMA FinishType ==
  ASSUME LocOK, LeaseOK, NEW p \in Procs, Finish(p) PROVE LocOK' /\ LeaseOK'
<1>1. LocOK'
  BY ForgetType DEF Finish
<1>2. LeaseOK'
  BY DEF Finish, LeaseOK, Freed, Held
<1> QED
  BY <1>1, <1>2

LEMMA ComputedType ==
  ASSUME DbOK, LocOK, NEW p \in Procs, NEW u \in Users, NEW by \in Admins \cup {None}
  PROVE  Computed(p, u, by) \in Record
<1>1. rec[u] \in Record /\ snap[p][u] \in Record /\ seenAtt[p] \in Versions
      /\ seenRate[p][u] \in Rates
  BY DEF DbOK, LocOK
<1> DEFINE base == [att |-> seenAtt[p], rate |-> seenRate[p][u]]
<1>2. base \in Base
  BY <1>1 DEF Base
<1>3. snap[p][u].adj \in Nat
  BY <1>1 DEF Record
<1>4. GrossOf(base, snap[p][u].adj) \in Gross
  BY <1>2, <1>3, GrossOfType
<1> HIDE DEF base
<1>5. Computed(p, u, by) =
       [status |-> IF Exists(u) THEN rec[u].status ELSE "draft",
        stale |-> FALSE, incomplete |-> seenRate[p][u] = 0,
        adj |-> rec[u].adj, base |-> base, gross |-> GrossOf(base, snap[p][u].adj),
        generated_by |-> by, processed_by |-> rec[u].processed_by]
  BY DEF Computed, base
<1>6. (IF Exists(u) THEN rec[u].status ELSE "draft") \in Status
  BY <1>1 DEF Record, Status
<1>7. rec[u].adj \in Nat /\ rec[u].processed_by \in Admins \cup {None}
  BY <1>1 DEF Record
<1> QED
  BY <1>2, <1>4, <1>5, <1>6, <1>7 DEF Record

LEMMA AdjustedType ==
  ASSUME NEW old \in Record, NEW row \in Record, NEW v \in AdjustValues \cup {None}
  PROVE  Adjusted(old, row, v) \in Record
<1> DEFINE adj  == IF v = None THEN row.adj ELSE v
           base == IF v = None THEN [row.base EXCEPT !.att = Manual] ELSE row.base
<1>1. adj \in Nat
  BY ConstantsAssumption DEF Record
<1>2. base \in Base
  BY ConstantsAssumption DEF Record, Base, Manual, Versions
<1>3. GrossOf(base, adj) \in Gross
  BY <1>1, <1>2, GrossOfType
<1>4. (IF v = None THEN old.adj ELSE v) \in Nat
  BY ConstantsAssumption DEF Record
<1> HIDE DEF adj, base
<1>5. Adjusted(old, row, v) =
       [old EXCEPT !.adj = IF v = None THEN @ ELSE v, !.base = base,
                   !.gross = GrossOf(base, adj)]
  BY DEF Adjusted, adj, base
<1> QED
  BY <1>2, <1>3, <1>4, <1>5 DEF Record

LEMMA TakeConfigType ==
  ASSUME LocOK, LeaseOK, NEW p \in Procs, NEW from, NEW label, TakeConfig(p, from, label),
         label \in Labels, from \in GenPc => label = "gen_load",
         from \in ProcessPc => label = "proc_check", from \in AdjustPc => label = "adj_write",
         from \in {"gen_lease2", "proc_lease2", "adj_lease2"}
  PROVE  LocOK' /\ LeaseOK'
<1>1. CASE lease["config"] = None
  <2>1. LeaseOK'
    BY <1>1 DEF TakeConfig, Take, LeaseOK
  <2>2. LocOK'
    BY <1>1 DEF TakeConfig, locVars, LocOK, Locals, GenPc, ProcessPc, AdjustPc
  <2> QED BY <2>1, <2>2
<1>2. CASE lease["config"] # None
  BY <1>2, FinishType DEF TakeConfig
<1> QED
  BY <1>1, <1>2

LEMMA TypeStep == TypeInv /\ [Next]_vars => TypeInv'
<1> SUFFICES ASSUME TypeInv, [Next]_vars PROVE TypeInv'
  OBVIOUS
<1>t. DbOK /\ LocOK /\ LeaseOK /\ RacedOK
  BY TypeInvSplit
<1>q. SUFFICES DbOK' /\ LocOK' /\ LeaseOK' /\ RacedOK'
  BY DEF TypeInv, TypeOK, DbOK, LocOK, LeaseOK, RacedOK
<1>u. CASE UNCHANGED vars
  BY <1>t, <1>u DEF vars, dbVars, locVars, DbOK, LocOK, Locals, LeaseOK, RacedOK
<1>db. ASSUME UNCHANGED dbVars PROVE DbOK'
  BY <1>t, <1>db DEF dbVars, DbOK
<1>le. ASSUME UNCHANGED lease PROVE LeaseOK'
  BY <1>t, <1>le DEF LeaseOK
<1>ra. ASSUME UNCHANGED raced PROVE RacedOK'
  BY <1>t, <1>ra DEF RacedOK
<1>rb. ASSUME NEW p \in Procs, NEW u \in Users \cup {None}, raced' = RacedBy(p, u) PROVE RacedOK'
  BY <1>t, <1>rb DEF RacedOK, RacedBy
<1>1. ASSUME NEW p \in Procs, Generate(p) PROVE DbOK' /\ LocOK' /\ LeaseOK' /\ RacedOK'
  <2>1. ASSUME NEW a \in Makers, GenerateStart(p, a)
        PROVE  DbOK' /\ LocOK' /\ LeaseOK' /\ RacedOK'
    <3>1. LocOK' /\ LeaseOK'
      BY <1>t, <2>1 DEF GenerateStart, TakePeriod, Take, LeaseOK, LocOK, Locals, Labels, GenPc, AutoPc, AdjustPc, ProcessPc, Admins
    <3> QED BY <3>1, <2>1, <1>db, <1>ra DEF GenerateStart, TakePeriod
  <2>2. CASE GenerateConfig(p)
    <3>1. LocOK' /\ LeaseOK'
      BY <1>t, <2>2, TakeConfigType DEF GenerateConfig, Labels, GenPc, ProcessPc, AdjustPc
    <3> QED BY <3>1, <2>2, <1>db, <1>ra DEF GenerateConfig, TakeConfig
  <2>3. CASE GenerateLoad(p)
    <3>1. LocOK'
      BY <1>t, <2>3 DEF GenerateLoad, DbOK, LocOK, Locals, Labels, GenPc, AutoPc, AdjustPc, ProcessPc, Admins
    <3> QED BY <3>1, <2>3, <1>db, <1>le, <1>ra DEF GenerateLoad
  <2>4. CASE GenerateRead(p)
    <3>1. LocOK'
      BY <1>t, <2>4, ConstantsAssumption DEF GenerateRead, ReadAttendance, DbOK, Versions, LocOK, Locals, Labels, GenPc, AutoPc, AdjustPc, ProcessPc, Admins
    <3> QED BY <3>1, <2>4, <1>db, <1>le, <1>ra DEF GenerateRead, ReadAttendance
  <2>5. CASE GenerateWrite(p)
    <3>1. cur[p] \in Users /\ actor[p] \in Admins
      BY <1>t, <2>5 DEF GenerateWrite, LocOK, Locals, GenPc
    <3>2. Computed(p, cur[p], actor[p]) \in Record
      BY <1>t, <3>1, ComputedType
    <3>3. DbOK'
      BY <1>t, <2>5, <3>2 DEF GenerateWrite, DbOK
    <3>4. LocOK'
      BY <1>t, <2>5 DEF GenerateWrite, Visited, LocOK, Locals, Labels, GenPc, AutoPc, AdjustPc, ProcessPc, Admins
    <3> QED BY <2>5, <3>1, <3>3, <3>4, <1>le, <1>rb DEF GenerateWrite
  <2>6. CASE GenerateEnd(p)
    BY <1>t, <2>6, <1>db, <1>ra, FinishType DEF GenerateEnd
  <2> QED
    BY <1>1, <2>1, <2>2, <2>3, <2>4, <2>5, <2>6 DEF Generate
<1>2. ASSUME NEW p \in Procs, AutoGenerate(p) PROVE DbOK' /\ LocOK' /\ LeaseOK' /\ RacedOK'
  <2>1. CASE AutoGenerateStart(p)
    <3>1. LocOK'
      BY <1>t, <2>1 DEF AutoGenerateStart, DbOK, LocOK, Locals, Labels, GenPc, AutoPc, AdjustPc, ProcessPc, Admins
    <3> QED BY <3>1, <2>1, <1>db, <1>le, <1>ra DEF AutoGenerateStart
  <2>2. CASE AutoGenerateRead(p)
    <3>1. LocOK'
      BY <1>t, <2>2, ConstantsAssumption DEF AutoGenerateRead, ReadAttendance, DbOK, Versions, LocOK, Locals, Labels, GenPc, AutoPc, AdjustPc, ProcessPc, Admins
    <3> QED BY <3>1, <2>2, <1>db, <1>le, <1>ra DEF AutoGenerateRead, ReadAttendance
  <2>3. CASE AutoGenerateWrite(p)
    <3>1. cur[p] \in Users
      BY <1>t, <2>3 DEF AutoGenerateWrite, LocOK, Locals
    <3>2. Computed(p, cur[p], None) \in Record
      BY <1>t, <3>1, ComputedType
    <3>3. DbOK'
      BY <1>t, <2>3, <3>2 DEF AutoGenerateWrite, DbOK
    <3>4. LocOK'
      BY <1>t, <2>3 DEF AutoGenerateWrite, Visited, LocOK, Locals, Labels, GenPc, AutoPc, AdjustPc, ProcessPc, Admins
    <3> QED BY <2>3, <3>1, <3>3, <3>4, <1>le, <1>rb DEF AutoGenerateWrite
  <2>4. CASE AutoGenerateEnd(p)
    BY <1>t, <2>4, <1>db, <1>le, <1>ra, ForgetType DEF AutoGenerateEnd
  <2> QED
    BY <1>2, <2>1, <2>2, <2>3, <2>4 DEF AutoGenerate
<1>3. ASSUME NEW p \in Procs, Adjust(p) PROVE DbOK' /\ LocOK' /\ LeaseOK' /\ RacedOK'
  <2>1. ASSUME NEW a \in Makers, NEW u \in Users, NEW v \in AdjustValues \cup {None},
               AdjustRead(p, a, u, v)
        PROVE  DbOK' /\ LocOK' /\ LeaseOK' /\ RacedOK'
    <3>1. LocOK'
      BY <1>t, <2>1 DEF AdjustRead, DbOK, LocOK, Locals, Labels, GenPc, AutoPc, AdjustPc, ProcessPc, Admins
    <3> QED BY <3>1, <2>1, <1>db, <1>le, <1>ra DEF AdjustRead
  <2>2. CASE AdjustPeriod(p)
    <3>1. CASE lease["period"] = None
      <4>1. LocOK'
        BY <1>t, <2>2, <3>1 DEF AdjustPeriod, locVars, LocOK, Locals, Labels, GenPc, AutoPc, AdjustPc, ProcessPc, Admins
      <4>2. LeaseOK'
        BY <1>t, <2>2, <3>1 DEF AdjustPeriod, Take, LeaseOK
      <4> QED BY <4>1, <4>2, <2>2, <1>db, <1>ra DEF AdjustPeriod
    <3>2. CASE lease["period"] # None
      BY <1>t, <2>2, <3>2, <1>db, <1>ra, FinishType DEF AdjustPeriod
    <3> QED BY <3>1, <3>2
  <2>3. CASE AdjustConfig(p)
    <3>1. LocOK' /\ LeaseOK'
      BY <1>t, <2>3, TakeConfigType DEF AdjustConfig, Labels, GenPc, ProcessPc, AdjustPc
    <3> QED BY <3>1, <2>3, <1>db, <1>ra DEF AdjustConfig, TakeConfig
  <2>4. CASE AdjustWrite(p)
    <3>1. cur[p] \in Users /\ arg[p] \in AdjustValues \cup {None}
      BY <1>t, <2>4 DEF AdjustWrite, LocOK, Locals, AdjustPc
    <3>2. Adjusted(rec[cur[p]], snap[p][cur[p]], arg[p]) \in Record
      BY <1>t, <3>1, AdjustedType DEF DbOK, LocOK
    <3>3. DbOK'
      BY <1>t, <2>4, <3>2 DEF AdjustWrite, DbOK
    <3>4. LocOK' /\ LeaseOK'
      BY <1>t, <2>4, FinishType DEF AdjustWrite
    <3> QED BY <2>4, <3>1, <3>3, <3>4, <1>ra, <1>rb DEF AdjustWrite
  <2> QED
    BY <1>3, <2>1, <2>2, <2>3, <2>4 DEF Adjust
<1>4. ASSUME NEW p \in Procs, Recall(p) PROVE DbOK' /\ LocOK' /\ LeaseOK' /\ RacedOK'
  <2>1. ASSUME NEW a \in Checkers, NEW u \in Users, RecallRead(p, a, u)
        PROVE  DbOK' /\ LocOK' /\ LeaseOK' /\ RacedOK'
    <3>1. LocOK'
      BY <1>t, <2>1 DEF RecallRead, LocOK, Locals, Labels, GenPc, AutoPc, AdjustPc, ProcessPc, Admins
    <3> QED BY <3>1, <2>1, <1>db, <1>le, <1>ra DEF RecallRead
  <2>2. CASE RecallWrite(p)
    <3>1. DbOK'
      BY <1>t, <2>2 DEF RecallWrite, DbOK, Record, Status
    <3> QED BY <3>1, <1>t, <2>2, <1>le, <1>ra, ForgetType DEF RecallWrite
  <2> QED
    BY <1>4, <2>1, <2>2 DEF Recall
<1>5. ASSUME NEW p \in Procs, Process(p) PROVE DbOK' /\ LocOK' /\ LeaseOK' /\ RacedOK'
  <2>1. ASSUME NEW a \in Checkers, ProcessStart(p, a)
        PROVE  DbOK' /\ LocOK' /\ LeaseOK' /\ RacedOK'
    <3>1. LocOK' /\ LeaseOK'
      BY <1>t, <2>1 DEF ProcessStart, TakePeriod, Take, LeaseOK, LocOK, Locals, Labels, GenPc, AutoPc, AdjustPc, ProcessPc, Admins
    <3> QED BY <3>1, <2>1, <1>db, <1>ra DEF ProcessStart, TakePeriod
  <2>2. CASE ProcessConfig(p)
    <3>1. LocOK' /\ LeaseOK'
      BY <1>t, <2>2, TakeConfigType DEF ProcessConfig, Labels, GenPc, ProcessPc, AdjustPc
    <3> QED BY <3>1, <2>2, <1>db, <1>ra DEF ProcessConfig, TakeConfig
  <2>3. CASE ProcessCheck(p)
    <3>1. CASE Finish(p)
      BY <1>t, <2>3, <3>1, <1>db, <1>ra, FinishType DEF ProcessCheck
    <3>2. CASE ~Finish(p)
      <4>1. LocOK'
        BY <1>t, <2>3, <3>2 DEF ProcessCheck, locVars, LocOK, Locals, Labels, GenPc, AutoPc, AdjustPc, ProcessPc, Admins
      <4> QED BY <4>1, <2>3, <3>2, <1>db, <1>le, <1>ra DEF ProcessCheck
    <3> QED BY <3>1, <3>2
  <2>4. CASE ProcessLoad(p)
    <3>1. CASE Finish(p)
      BY <1>t, <2>4, <3>1, <1>db, <1>ra, FinishType DEF ProcessLoad
    <3>2. CASE ~Finish(p)
      <4> DEFINE open == {u \in Users : rec[u].status \in {"draft", "recalled"}}
      <4>a. /\ pc[p] = "proc_load" /\ snap' = [snap EXCEPT ![p] = rec]
            /\ todo' = [todo EXCEPT ![p] = open] /\ pc' = [pc EXCEPT ![p] = "proc_pick"]
            /\ UNCHANGED <<lease, actor, cur, seenAtt, seenRate, arg>>
        BY <2>4, <3>2 DEF ProcessLoad
      <4>b. open \in SUBSET Users
        OBVIOUS
      <4> HIDE DEF open
      <4>1. LocOK'
        BY <1>t, <4>a, <4>b DEF DbOK, LocOK, Locals, Labels, GenPc, AutoPc, AdjustPc, ProcessPc, Admins
      <4> QED BY <4>1, <2>4, <3>2, <1>db, <1>le, <1>ra DEF ProcessLoad
    <3> QED BY <3>1, <3>2
  <2>5. CASE ProcessUpload(p)
    <3>1. LocOK'
      BY <1>t, <2>5 DEF ProcessUpload, LocOK, Locals, Labels, GenPc, AutoPc, AdjustPc, ProcessPc, Admins
    <3>2. DbOK'
      BY <1>t, <2>5 DEF ProcessUpload, DbOK, LocOK, Record
    <3> QED BY <3>1, <3>2, <2>5, <1>le, <1>ra DEF ProcessUpload
  <2>6. CASE ProcessUploadFails(p)
    <3>1. LocOK'
      BY <1>t, <2>6 DEF ProcessUploadFails, LocOK, Locals, Labels, GenPc, AutoPc, AdjustPc, ProcessPc, Admins
    <3>2. DbOK'
      BY <1>t, <2>6 DEF ProcessUploadFails, DbOK, LocOK, Record
    <3> QED BY <3>1, <3>2, <2>6, <1>le, <1>ra DEF ProcessUploadFails
  <2>7. CASE ProcessFinalize(p)
    <3>1. LocOK'
      BY <1>t, <2>7 DEF ProcessFinalize, Visited, LocOK, Locals, Labels, GenPc, AutoPc, AdjustPc, ProcessPc, Admins
    <3>2. DbOK'
      <4>1. cur[p] \in Users /\ actor[p] \in Admins
        BY <1>t, <2>7 DEF ProcessFinalize, LocOK, Locals, ProcessPc
      <4>2. rec' \in [Users -> Record]
        <5>1. rec' = [rec EXCEPT ![cur[p]] = [@ EXCEPT !.status = "processed", !.processed_by = actor[p]]]
          BY <2>7, <4>1, <1>t DEF ProcessFinalize, DbOK
        <5> QED BY <5>1, <4>1, <1>t, RecordUpdates DEF DbOK, Status
      <4> QED BY <4>1, <4>2, <1>t, <2>7 DEF ProcessFinalize, DbOK
    <3> QED BY <3>1, <3>2, <2>7, <1>le, <1>ra DEF ProcessFinalize
  <2>8. CASE ProcessRejected(p)
    <3>1. LocOK'
      BY <1>t, <2>8 DEF ProcessRejected, Visited, LocOK, Locals, Labels, GenPc, AutoPc, AdjustPc, ProcessPc, Admins
    <3>2. DbOK'
      BY <1>t, <2>8 DEF ProcessRejected, DbOK
    <3> QED BY <3>1, <3>2, <2>8, <1>le, <1>ra DEF ProcessRejected
  <2>9. CASE ProcessEnd(p)
    BY <1>t, <2>9, <1>db, <1>ra, FinishType DEF ProcessEnd
  <2>10. CASE ProcessCleanup(p)
    <3>1. LocOK'
      BY <1>t, <2>10 DEF ProcessCleanup, locVars, LocOK, Locals, Labels, GenPc, AutoPc, AdjustPc, ProcessPc, Admins
    <3>2. DbOK'
      BY <1>t, <2>10 DEF ProcessCleanup, DbOK
    <3> QED BY <3>1, <3>2, <2>10, <1>le, <1>ra DEF ProcessCleanup
  <2> QED
    BY <1>5, <2>1, <2>2, <2>3, <2>4, <2>5, <2>6, <2>7, <2>8, <2>9, <2>10 DEF Process
<1>6. ASSUME NEW p \in Procs, Reimburse(p) PROVE DbOK' /\ LocOK' /\ LeaseOK' /\ RacedOK'
  <2>1. ASSUME NEW c \in Claims, ReimburseStart(p, c)
        PROVE  DbOK' /\ LocOK' /\ LeaseOK' /\ RacedOK'
    <3>1. LocOK'
      BY <1>t, <2>1, ConstantsAssumption DEF ReimburseStart, LocOK, Locals, Labels, GenPc, AutoPc, AdjustPc, ProcessPc, Admins
    <3> QED BY <3>1, <2>1, <1>db, <1>le, <1>ra DEF ReimburseStart
  <2>2. CASE ReimburseRead(p)
    <3>1. CASE Forget(p)
      BY <1>t, <2>2, <3>1, <1>db, <1>le, <1>ra, ForgetType DEF ReimburseRead
    <3>2. CASE ~Forget(p)
      <4>a. /\ pc[p] = "reimb_read" /\ snap' = [snap EXCEPT ![p][cur[p]] = rec[cur[p]]]
            /\ pc' = [pc EXCEPT ![p] = "reimb_write"]
            /\ UNCHANGED <<actor, cur, todo, seenAtt, seenRate, arg>>
        BY <2>2, <3>2 DEF ReimburseRead
      <4>b. cur[p] \in Users /\ rec[cur[p]] \in Record
        BY <4>a, <1>t DEF LocOK, Locals, DbOK
      <4>c. snap' \in [Procs -> [Users -> Record]]
        BY <4>a, <4>b, <1>t DEF LocOK
      <4>1. LocOK'
        BY <1>t, <4>a, <4>c DEF LocOK, Locals, Labels, GenPc, AutoPc, AdjustPc, ProcessPc, Admins
      <4> QED BY <4>1, <2>2, <1>db, <1>le, <1>ra DEF ReimburseRead
    <3> QED BY <3>1, <3>2
  <2>3. CASE ReimburseWrite(p)
    <3>1. cur[p] \in Users /\ arg[p] \in Claims
      BY <1>t, <2>3 DEF ReimburseWrite, LocOK, Locals
    <3> DEFINE row == snap[p][cur[p]]
    <3>2. row \in Record
      BY <1>t, <3>1 DEF LocOK
    <3>3. row.adj + 1 \in Nat /\ GrossOf(row.base, row.adj + 1) \in Gross
      BY <3>2, GrossOfType DEF Record
    <3>4. rec' \in [Users -> Record]
      <4>1. rec' = [rec EXCEPT ![cur[p]] = [@ EXCEPT !.adj = row.adj + 1,
                                               !.gross = GrossOf(row.base, row.adj + 1)]]
        BY <2>3, <3>1, <1>t DEF ReimburseWrite, DbOK
      <4> QED BY <4>1, <3>1, <3>3, <1>t, RecordUpdates DEF DbOK
    <3>5. DbOK'
      BY <1>t, <2>3, <3>4 DEF ReimburseWrite, DbOK
    <3> QED BY <3>5, <1>t, <2>3, <1>le, <1>ra, ForgetType DEF ReimburseWrite
  <2> QED
    BY <1>6, <2>1, <2>2, <2>3 DEF Reimburse
<1>n. ASSUME NEW S \in SUBSET Users, NewRates(S),
             UNCHANGED <<att, claim, payslip, notified>>
      PROVE  DbOK'
  <2>1. rec' \in [Users -> Record]
    BY <1>t, <1>n, RecordUpdates DEF NewRates, DbOK
  <2>2. rate' \in [Users -> Rates]
    BY <1>t, <1>n, ConstantsAssumption DEF NewRates, DbOK, Rates
  <2> QED BY <2>1, <2>2, <1>t, <1>n DEF DbOK
<1>7. ASSUME NEW p \in Procs, ChangeRates(p) PROVE DbOK' /\ LocOK' /\ LeaseOK' /\ RacedOK'
  <2>1. ASSUME NEW S \in SUBSET Users, RateStart(p, S)
        PROVE  DbOK' /\ LocOK' /\ LeaseOK' /\ RacedOK'
    <3>1. LocOK' /\ LeaseOK'
      BY <1>t, <2>1 DEF RateStart, Take, LeaseOK, LocOK, Locals, Labels, GenPc, AutoPc, AdjustPc, ProcessPc, Admins
    <3> QED BY <3>1, <2>1, <1>db, <1>ra DEF RateStart
  <2>2. CASE RateWrite(p)
    <3>1. DbOK'
      BY <1>t, <1>n, <2>2 DEF RateWrite, LocOK
    <3>2. RacedOK'
      BY <1>t, <2>2 DEF RateWrite, RacedOK
    <3> QED BY <3>1, <3>2, <1>t, <2>2, FinishType DEF RateWrite
  <2> QED
    BY <1>7, <2>1, <2>2 DEF ChangeRates
<1>8. ASSUME NEW p \in Procs, Abort(p) PROVE DbOK' /\ LocOK' /\ LeaseOK' /\ RacedOK'
  BY <1>t, <1>8, <1>db, <1>ra, FinishType DEF Abort
<1>9. ASSUME NEW p \in Procs, Crash(p) PROVE DbOK' /\ LocOK' /\ LeaseOK' /\ RacedOK'
  <2>1. LeaseOK'
    BY <1>t, <1>9 DEF Crash, LeaseOK
  <2> QED BY <2>1, <1>t, <1>9, <1>db, <1>ra, ForgetType DEF Crash
<1>10. ASSUME NEW u \in Users, AttendanceWrite(u) PROVE DbOK' /\ LocOK' /\ LeaseOK' /\ RacedOK'
  <2>1. rec' \in [Users -> Record]
    BY <1>t, <1>10, RecordUpdates DEF AttendanceWrite, DbOK
  <2>2. att' \in [Users -> 1 .. MaxAtt]
    BY <1>t, <1>10, ConstantsAssumption DEF AttendanceWrite, DbOK
  <2>3. RacedOK'
    BY <1>t, <1>10 DEF AttendanceWrite, RacedOK
  <2>4. LocOK'
    BY <1>t, <1>10 DEF AttendanceWrite, locVars, LocOK, Locals
  <2> QED BY <2>1, <2>2, <2>3, <2>4, <1>t, <1>10, <1>le DEF AttendanceWrite, DbOK
<1>11. ASSUME NEW u \in Users, UserRateWrite(u) PROVE DbOK' /\ LocOK' /\ LeaseOK' /\ RacedOK'
  <2>1. LocOK'
    BY <1>t, <1>11 DEF UserRateWrite, locVars, LocOK, Locals
  <2>2. RacedOK'
    BY <1>t, <1>11 DEF UserRateWrite, RacedOK
  <2> QED BY <2>1, <2>2, <1>n, <1>11, <1>le DEF UserRateWrite
<1>12. ASSUME NEW l \in Leases, Expire(l) PROVE DbOK' /\ LocOK' /\ LeaseOK' /\ RacedOK'
  <2>1. LocOK'
    BY <1>t, <1>12 DEF Expire, locVars, LocOK, Locals
  <2>2. LeaseOK'
    BY <1>t, <1>12 DEF Expire, LeaseOK
  <2> QED BY <2>1, <2>2, <1>12, <1>db, <1>ra DEF Expire
<1> QED
  BY <1>u, <1>1, <1>2, <1>3, <1>4, <1>5, <1>6, <1>7, <1>8, <1>9, <1>10, <1>11, <1>12 DEF Next

\* Payroll is type correct, and a request that is about to write a row has the
\* row's employee, the claim and the administrator it needs at hand.
THEOREM PayrollTypeOK == Spec => []TypeOK
<1>1. TypeInv => TypeOK
  BY DEF TypeInv
<1> QED
  BY <1>1, TypeInit, TypeStep, PTL DEF Spec
-----------------------------------------------------------------------------
(* Separation of duties *)

\* A request between the two ends of its period lease is the one that holds it.
Exclusive == \A p \in Procs : pc[p] \in PeriodPc => lease["period"] = p

\* The rows a generate run will still write are not processed; the rows that a
\* process-full run will still finalize exist and were made by somebody else.
GenerateOpen == \A p \in Procs : \A u \in todo[p] :
  pc[p] \in {"gen_pick", "gen_write"} => rec[u].status # "processed"
MakerKnown == \A p \in Procs : \A u \in todo[p] :
  pc[p] \in {"proc_pick", "proc_final", "proc_clean"} =>
    rec[u].status # "none" /\ rec[u].generated_by # actor[p]

MakerInv == Exclusive /\ GenerateOpen /\ MakerKnown /\ MakerChecker

\* What the steps that are not part of generate or process-full do to a row: it
\* stays in place, keeps its maker and its processor, and is not finalized.
Keeps == \A u \in Users :
  /\ rec'[u].status = "processed" => rec[u].status = "processed"
  /\ rec[u].status # "none" => /\ rec'[u].status # "none"
                               /\ rec'[u].generated_by = rec[u].generated_by
  /\ rec'[u].status = "processed" => rec'[u].generated_by = rec[u].generated_by
  /\ rec'[u].processed_by = rec[u].processed_by

\* The step leaves request q alone.
Spares(q) == pc'[q] = pc[q] /\ todo'[q] = todo[q] /\ actor'[q] = actor[q]

LEMMA KeepsMaker ==
  ASSUME TypeInv, MakerInv, Keeps, Exclusive',
         NEW p, \A q \in Procs \ {p} : Spares(q),
         p \in Procs => \/ pc'[p] \notin {"gen_pick", "gen_write", "proc_pick", "proc_final", "proc_clean"}
                        \/ /\ pc[p] \in {"gen_pick", "gen_write"}
                           /\ pc'[p] \in {"gen_pick", "gen_write"} /\ todo'[p] \subseteq todo[p]
                        \/ /\ pc[p] \in {"proc_pick", "proc_final", "proc_clean"} /\ actor'[p] = actor[p]
                           /\ pc'[p] \in {"proc_pick", "proc_final", "proc_clean"} /\ todo'[p] \subseteq todo[p]
  PROVE  MakerInv'
<1>1. todo \in [Procs -> SUBSET Users]
  BY DEF TypeInv, TypeOK
<1>2. GenerateOpen'
  BY <1>1 DEF MakerInv, GenerateOpen, Keeps, Spares
<1>3. MakerKnown'
  BY <1>1 DEF MakerInv, MakerKnown, Keeps, Spares
<1>4. MakerChecker'
  BY DEF MakerInv, MakerChecker, Processed, Keeps
<1> QED
  BY <1>2, <1>3, <1>4 DEF MakerInv

LEMMA ForgetSpares ==
  ASSUME TypeInv, NEW p \in Procs, Forget(p)
  PROVE  pc'[p] = "idle" /\ \A q \in Procs \ {p} : Spares(q)
  BY DEF TypeInv, TypeOK, Forget, Spares

\* The end of a request, whatever it wrote on the way out.
LEMMA FinishMaker ==
  ASSUME TypeInv, MakerInv, Keeps, NEW p \in Procs, Finish(p)
  PROVE  MakerInv'
<1>1. pc'[p] = "idle" /\ \A q \in Procs \ {p} : Spares(q)
  BY ForgetSpares DEF Finish
<1>2. \A q \in Procs \ {p} : lease["period"] = q => lease'["period"] = q
  BY DEF Finish, Freed, Held, Leases
<1>3. Exclusive'
  BY <1>1, <1>2 DEF MakerInv, Exclusive, Spares, PeriodPc, GenPc, AdjustPc, ProcessPc
<1> QED
  BY <1>1, <1>3, KeepsMaker

LEMMA ForgetMaker ==
  ASSUME TypeInv, MakerInv, Keeps, NEW p \in Procs, Forget(p), UNCHANGED lease
  PROVE  MakerInv'
<1>1. pc'[p] = "idle" /\ \A q \in Procs \ {p} : Spares(q)
  BY ForgetSpares
<1>2. Exclusive'
  BY <1>1 DEF MakerInv, Exclusive, Spares, PeriodPc, GenPc, AdjustPc, ProcessPc
<1> QED
  BY <1>1, <1>2, KeepsMaker

LEMMA MakerInit == Init => MakerInv
  BY DEF Init, MakerInv, Exclusive, GenerateOpen, MakerKnown, MakerChecker, Processed,
         NoRecord, PeriodPc, GenPc, AdjustPc, ProcessPc

LEMMA MakerStep ==
  ASSUME ~LeaseMayBeLost, TypeInv, MakerInv, [Next]_vars
  PROVE  MakerInv'
<1>1. ASSUME NEW p \in Procs, NEW a \in Makers, GenerateStart(p, a)
      PROVE  MakerInv'
  <2>1. Keeps
    BY <1>1 DEF GenerateStart, TakePeriod, dbVars, Keeps
  <2>2. Exclusive' /\ \A q \in Procs \ {p} : Spares(q)
    BY <1>1, ConstantsAssumption
    DEF GenerateStart, TakePeriod, TypeInv, TypeOK, MakerInv, Exclusive, Spares, Take, locVars, Leases, PeriodPc, GenPc, AutoPc, AdjustPc, ProcessPc
  <2>3. \/ pc'[p] \notin {"gen_pick", "gen_write", "proc_pick", "proc_final", "proc_clean"}
        \/ /\ pc[p] \in {"gen_pick", "gen_write"}
           /\ pc'[p] \in {"gen_pick", "gen_write"} /\ todo'[p] \subseteq todo[p]
        \/ /\ pc[p] \in {"proc_pick", "proc_final", "proc_clean"} /\ actor'[p] = actor[p]
           /\ pc'[p] \in {"proc_pick", "proc_final", "proc_clean"} /\ todo'[p] \subseteq todo[p]
    BY <1>1 DEF GenerateStart, TakePeriod, TypeInv, TypeOK
  <2> QED BY <2>1, <2>2, <2>3, KeepsMaker
<1>2. ASSUME NEW p \in Procs, GenerateConfig(p) PROVE MakerInv'
  <2>1. Keeps
    BY <1>2 DEF GenerateConfig, TakeConfig, dbVars, Keeps
  <2>2. CASE Finish(p)
    BY <2>1, <2>2, FinishMaker
  <2>3. CASE ~Finish(p)
    <3>1. Exclusive' /\ \A q \in Procs \ {p} : Spares(q)
      BY <1>2, <2>3 DEF GenerateConfig, TakeConfig, TypeInv, TypeOK, MakerInv, Exclusive, Spares,
                         Take, locVars, Leases, PeriodPc, GenPc, AutoPc, AdjustPc, ProcessPc
    <3>2. pc'[p] \notin {"gen_pick", "gen_write", "proc_pick", "proc_final", "proc_clean"}
      BY <1>2, <2>3 DEF GenerateConfig, TakeConfig, TypeInv, TypeOK
    <3> QED BY <2>1, <3>1, <3>2, KeepsMaker
  <2> QED BY <2>2, <2>3
<1>3. ASSUME NEW p \in Procs, GenerateLoad(p) PROVE MakerInv'
  <2>1. Exclusive'
    BY <1>3 DEF GenerateLoad, TypeInv, TypeOK, MakerInv, Exclusive, PeriodPc, GenPc, AutoPc, AdjustPc, ProcessPc
  <2>2. GenerateOpen'
    BY <1>3 DEF GenerateLoad, dbVars, TypeInv, TypeOK, MakerInv, GenerateOpen
  <2>3. MakerKnown' /\ MakerChecker'
    BY <1>3 DEF GenerateLoad, dbVars, TypeInv, TypeOK, MakerInv, MakerKnown, MakerChecker, Processed
  <2> QED BY <2>1, <2>2, <2>3 DEF MakerInv
<1>4. ASSUME NEW p \in Procs, GenerateRead(p)
      PROVE  MakerInv'
  <2>1. Keeps
    BY <1>4 DEF GenerateRead, ReadAttendance, dbVars, Keeps
  <2>2. Exclusive' /\ \A q \in Procs \ {p} : Spares(q)
    BY <1>4, ConstantsAssumption
    DEF GenerateRead, ReadAttendance, TypeInv, TypeOK, MakerInv, Exclusive, Spares, Take, locVars, Leases, PeriodPc, GenPc, AutoPc, AdjustPc, ProcessPc
  <2>3. \/ pc'[p] \notin {"gen_pick", "gen_write", "proc_pick", "proc_final", "proc_clean"}
        \/ /\ pc[p] \in {"gen_pick", "gen_write"}
           /\ pc'[p] \in {"gen_pick", "gen_write"} /\ todo'[p] \subseteq todo[p]
        \/ /\ pc[p] \in {"proc_pick", "proc_final", "proc_clean"} /\ actor'[p] = actor[p]
           /\ pc'[p] \in {"proc_pick", "proc_final", "proc_clean"} /\ todo'[p] \subseteq todo[p]
    BY <1>4 DEF GenerateRead, ReadAttendance, TypeInv, TypeOK
  <2> QED BY <2>1, <2>2, <2>3, KeepsMaker
<1>5. ASSUME NEW p \in Procs, GenerateWrite(p) PROVE MakerInv'
  <2>1. cur[p] \in todo[p] /\ cur[p] \in Users /\ rec[cur[p]].status # "processed"
    BY <1>5 DEF GenerateWrite, TypeInv, TypeOK, Locals, MakerInv, GenerateOpen
  <2>2. Exclusive' /\ \A q \in Procs \ {p} : Spares(q)
    BY <1>5 DEF GenerateWrite, Visited, TypeInv, TypeOK, MakerInv, Exclusive, Spares, PeriodPc, GenPc, AutoPc, AdjustPc, ProcessPc
  <2>3. \A q \in Procs \ {p} : pc[q] \notin PeriodPc
    BY <1>5 DEF GenerateWrite, MakerInv, Exclusive, PeriodPc, GenPc, AutoPc, AdjustPc, ProcessPc
  <2>4. \A u \in Users \ {cur[p]} : rec'[u] = rec[u]
    BY <1>5 DEF GenerateWrite, TypeInv, TypeOK
  <2>5. rec'[cur[p]].status # "processed"
    BY <1>5, <2>1 DEF GenerateWrite, Computed, Exists, TypeInv, TypeOK
  <2>6. pc'[p] = "gen_pick" /\ todo'[p] \subseteq todo[p] /\ todo'[p] \subseteq Users
    BY <1>5 DEF GenerateWrite, Visited, TypeInv, TypeOK
  <2>7. GenerateOpen'
    BY <1>5, <2>2, <2>3, <2>4, <2>5, <2>6 DEF GenerateWrite, MakerInv, GenerateOpen, Spares, PeriodPc, GenPc, AutoPc, AdjustPc, ProcessPc
  <2>8. MakerKnown'
    BY <2>2, <2>3, <2>6 DEF MakerKnown, Spares, PeriodPc, GenPc, AutoPc, AdjustPc, ProcessPc
  <2>9. MakerChecker'
    BY <2>4, <2>5 DEF MakerInv, MakerChecker, Processed
  <2> QED BY <2>2, <2>7, <2>8, <2>9 DEF MakerInv
<1>6. ASSUME NEW p \in Procs, GenerateEnd(p) \/ ProcessEnd(p) \/ Abort(p) PROVE MakerInv'
  <2>1. Keeps
    BY <1>6 DEF GenerateEnd, ProcessEnd, Abort, dbVars, Keeps
  <2> QED BY <1>6, <2>1, FinishMaker DEF GenerateEnd, ProcessEnd, Abort
<1>7. ASSUME NEW p \in Procs, AutoGenerateStart(p)
      PROVE  MakerInv'
  <2>1. Keeps
    BY <1>7 DEF AutoGenerateStart, dbVars, Keeps
  <2>2. Exclusive' /\ \A q \in Procs \ {p} : Spares(q)
    BY <1>7, ConstantsAssumption
    DEF AutoGenerateStart, TypeInv, TypeOK, MakerInv, Exclusive, Spares, Take, locVars, Leases, PeriodPc, GenPc, AutoPc, AdjustPc, ProcessPc
  <2>3. \/ pc'[p] \notin {"gen_pick", "gen_write", "proc_pick", "proc_final", "proc_clean"}
        \/ /\ pc[p] \in {"gen_pick", "gen_write"}
           /\ pc'[p] \in {"gen_pick", "gen_write"} /\ todo'[p] \subseteq todo[p]
        \/ /\ pc[p] \in {"proc_pick", "proc_final", "proc_clean"} /\ actor'[p] = actor[p]
           /\ pc'[p] \in {"proc_pick", "proc_final", "proc_clean"} /\ todo'[p] \subseteq todo[p]
    BY <1>7 DEF AutoGenerateStart, TypeInv, TypeOK
  <2> QED BY <2>1, <2>2, <2>3, KeepsMaker
<1>8. ASSUME NEW p \in Procs, AutoGenerateRead(p)
      PROVE  MakerInv'
  <2>1. Keeps
    BY <1>8 DEF AutoGenerateRead, ReadAttendance, dbVars, Keeps
  <2>2. Exclusive' /\ \A q \in Procs \ {p} : Spares(q)
    BY <1>8, ConstantsAssumption
    DEF AutoGenerateRead, ReadAttendance, TypeInv, TypeOK, MakerInv, Exclusive, Spares, Take, locVars, Leases, PeriodPc, GenPc, AutoPc, AdjustPc, ProcessPc
  <2>3. \/ pc'[p] \notin {"gen_pick", "gen_write", "proc_pick", "proc_final", "proc_clean"}
        \/ /\ pc[p] \in {"gen_pick", "gen_write"}
           /\ pc'[p] \in {"gen_pick", "gen_write"} /\ todo'[p] \subseteq todo[p]
        \/ /\ pc[p] \in {"proc_pick", "proc_final", "proc_clean"} /\ actor'[p] = actor[p]
           /\ pc'[p] \in {"proc_pick", "proc_final", "proc_clean"} /\ todo'[p] \subseteq todo[p]
    BY <1>8 DEF AutoGenerateRead, ReadAttendance, TypeInv, TypeOK
  <2> QED BY <2>1, <2>2, <2>3, KeepsMaker
<1>9. ASSUME NEW p \in Procs, AutoGenerateWrite(p) PROVE MakerInv'
  <2>1. Keeps
    BY <1>9 DEF AutoGenerateWrite, Computed, Exists, TypeInv, TypeOK, Keeps
  <2>2. Exclusive' /\ pc'[p] = "auto_pick" /\ \A q \in Procs \ {p} : Spares(q)
    BY <1>9 DEF AutoGenerateWrite, Visited, TypeInv, TypeOK, MakerInv, Exclusive, Spares, PeriodPc, GenPc, AutoPc, AdjustPc, ProcessPc
  <2> QED BY <2>1, <2>2, KeepsMaker
<1>10. ASSUME NEW p \in Procs, AutoGenerateEnd(p) PROVE MakerInv'
  <2>1. Keeps
    BY <1>10 DEF AutoGenerateEnd, dbVars, Keeps
  <2> QED BY <1>10, <2>1, ForgetMaker DEF AutoGenerateEnd
<1>11. ASSUME NEW p \in Procs, NEW a \in Makers, NEW u \in Users, NEW v \in AdjustValues \cup {None}, AdjustRead(p, a, u, v)
      PROVE  MakerInv'
  <2>1. Keeps
    BY <1>11 DEF AdjustRead, dbVars, Keeps
  <2>2. Exclusive' /\ \A q \in Procs \ {p} : Spares(q)
    BY <1>11, ConstantsAssumption
    DEF AdjustRead, TypeInv, TypeOK, MakerInv, Exclusive, Spares, Take, locVars, Leases, PeriodPc, GenPc, AutoPc, AdjustPc, ProcessPc
  <2>3. \/ pc'[p] \notin {"gen_pick", "gen_write", "proc_pick", "proc_final", "proc_clean"}
        \/ /\ pc[p] \in {"gen_pick", "gen_write"}
           /\ pc'[p] \in {"gen_pick", "gen_write"} /\ todo'[p] \subseteq todo[p]
        \/ /\ pc[p] \in {"proc_pick", "proc_final", "proc_clean"} /\ actor'[p] = actor[p]
           /\ pc'[p] \in {"proc_pick", "proc_final", "proc_clean"} /\ todo'[p] \subseteq todo[p]
    BY <1>11 DEF AdjustRead, TypeInv, TypeOK
  <2> QED BY <2>1, <2>2, <2>3, KeepsMaker
<1>12. ASSUME NEW p \in Procs, AdjustPeriod(p) PROVE MakerInv'
  <2>1. Keeps
    BY <1>12 DEF AdjustPeriod, dbVars, Keeps
  <2>2. CASE Finish(p)
    BY <2>1, <2>2, FinishMaker
  <2>3. CASE ~Finish(p)
    <3>1. Exclusive' /\ pc'[p] = "adj_lease2" /\ \A q \in Procs \ {p} : Spares(q)
      BY <1>12, <2>3, ConstantsAssumption
      DEF AdjustPeriod, TypeInv, TypeOK, MakerInv, Exclusive, Spares, Take, locVars, Leases, PeriodPc, GenPc, AutoPc, AdjustPc, ProcessPc
    <3> QED BY <2>1, <3>1, KeepsMaker
  <2> QED BY <2>2, <2>3
<1>13. ASSUME NEW p \in Procs, AdjustConfig(p) PROVE MakerInv'
  <2>1. Keeps
    BY <1>13 DEF AdjustConfig, TakeConfig, dbVars, Keeps
  <2>2. CASE Finish(p)
    BY <2>1, <2>2, FinishMaker
  <2>3. CASE ~Finish(p)
    <3>1. Exclusive' /\ \A q \in Procs \ {p} : Spares(q)
      BY <1>13, <2>3 DEF AdjustConfig, TakeConfig, TypeInv, TypeOK, MakerInv, Exclusive, Spares,
                         Take, locVars, Leases, PeriodPc, GenPc, AutoPc, AdjustPc, ProcessPc
    <3>2. pc'[p] \notin {"gen_pick", "gen_write", "proc_pick", "proc_final", "proc_clean"}
      BY <1>13, <2>3 DEF AdjustConfig, TakeConfig, TypeInv, TypeOK
    <3> QED BY <2>1, <3>1, <3>2, KeepsMaker
  <2> QED BY <2>2, <2>3
<1>14. ASSUME NEW p \in Procs, AdjustWrite(p) PROVE MakerInv'
  <2>1. Keeps
    <3>1. CASE UNCHANGED rec
      BY <3>1 DEF Keeps
    <3>2. CASE ~UNCHANGED rec
      <4> DEFINE new == Adjusted(rec[cur[p]], snap[p][cur[p]], arg[p])
      <4>1. rec' = [rec EXCEPT ![cur[p]] = new] /\ rec \in [Users -> Record]
        BY <1>14, <3>2 DEF AdjustWrite, TypeInv, TypeOK
      <4>2. ASSUME cur[p] \in Users
            PROVE  /\ new.status = rec[cur[p]].status /\ new.generated_by = rec[cur[p]].generated_by
                   /\ new.processed_by = rec[cur[p]].processed_by
        BY <4>1, <4>2 DEF Adjusted, Record
      <4> HIDE DEF new
      <4> QED BY <4>1, <4>2 DEF Keeps
    <3> QED BY <3>1, <3>2
  <2> QED BY <1>14, <2>1, FinishMaker DEF AdjustWrite
<1>15. ASSUME NEW p \in Procs, NEW a \in Checkers, NEW u \in Users, RecallRead(p, a, u)
      PROVE  MakerInv'
  <2>1. Keeps
    BY <1>15 DEF RecallRead, dbVars, Keeps
  <2>2. Exclusive' /\ \A q \in Procs \ {p} : Spares(q)
    BY <1>15, ConstantsAssumption
    DEF RecallRead, TypeInv, TypeOK, MakerInv, Exclusive, Spares, Take, locVars, Leases, PeriodPc, GenPc, AutoPc, AdjustPc, ProcessPc
  <2>3. \/ pc'[p] \notin {"gen_pick", "gen_write", "proc_pick", "proc_final", "proc_clean"}
        \/ /\ pc[p] \in {"gen_pick", "gen_write"}
           /\ pc'[p] \in {"gen_pick", "gen_write"} /\ todo'[p] \subseteq todo[p]
        \/ /\ pc[p] \in {"proc_pick", "proc_final", "proc_clean"} /\ actor'[p] = actor[p]
           /\ pc'[p] \in {"proc_pick", "proc_final", "proc_clean"} /\ todo'[p] \subseteq todo[p]
    BY <1>15 DEF RecallRead, TypeInv, TypeOK
  <2> QED BY <2>1, <2>2, <2>3, KeepsMaker
<1>16. ASSUME NEW p \in Procs, RecallWrite(p) PROVE MakerInv'
  <2>1. rec \in [Users -> Record] /\ rec' = [rec EXCEPT ![cur[p]].status = "recalled"]
    BY <1>16 DEF RecallWrite, TypeInv, TypeOK
  <2>2. Keeps
    BY <2>1 DEF Keeps, Record
  <2> QED BY <1>16, <2>2, ForgetMaker DEF RecallWrite
<1>17. ASSUME NEW p \in Procs, NEW a \in Checkers, ProcessStart(p, a)
      PROVE  MakerInv'
  <2>1. Keeps
    BY <1>17 DEF ProcessStart, TakePeriod, dbVars, Keeps
  <2>2. Exclusive' /\ \A q \in Procs \ {p} : Spares(q)
    BY <1>17, ConstantsAssumption
    DEF ProcessStart, TakePeriod, TypeInv, TypeOK, MakerInv, Exclusive, Spares, Take, locVars, Leases, PeriodPc, GenPc, AutoPc, AdjustPc, ProcessPc
  <2>3. \/ pc'[p] \notin {"gen_pick", "gen_write", "proc_pick", "proc_final", "proc_clean"}
        \/ /\ pc[p] \in {"gen_pick", "gen_write"}
           /\ pc'[p] \in {"gen_pick", "gen_write"} /\ todo'[p] \subseteq todo[p]
        \/ /\ pc[p] \in {"proc_pick", "proc_final", "proc_clean"} /\ actor'[p] = actor[p]
           /\ pc'[p] \in {"proc_pick", "proc_final", "proc_clean"} /\ todo'[p] \subseteq todo[p]
    BY <1>17 DEF ProcessStart, TakePeriod, TypeInv, TypeOK
  <2> QED BY <2>1, <2>2, <2>3, KeepsMaker
<1>18. ASSUME NEW p \in Procs, ProcessConfig(p) PROVE MakerInv'
  <2>1. Keeps
    BY <1>18 DEF ProcessConfig, TakeConfig, dbVars, Keeps
  <2>2. CASE Finish(p)
    BY <2>1, <2>2, FinishMaker
  <2>3. CASE ~Finish(p)
    <3>1. Exclusive' /\ \A q \in Procs \ {p} : Spares(q)
      BY <1>18, <2>3 DEF ProcessConfig, TakeConfig, TypeInv, TypeOK, MakerInv, Exclusive, Spares,
                         Take, locVars, Leases, PeriodPc, GenPc, AutoPc, AdjustPc, ProcessPc
    <3>2. pc'[p] \notin {"gen_pick", "gen_write", "proc_pick", "proc_final", "proc_clean"}
      BY <1>18, <2>3 DEF ProcessConfig, TakeConfig, TypeInv, TypeOK
    <3> QED BY <2>1, <3>1, <3>2, KeepsMaker
  <2> QED BY <2>2, <2>3
<1>19. ASSUME NEW p \in Procs, ProcessCheck(p) PROVE MakerInv'
  <2>1. Keeps
    BY <1>19 DEF ProcessCheck, dbVars, Keeps
  <2>2. CASE Finish(p)
    BY <2>1, <2>2, FinishMaker
  <2>3. CASE ~Finish(p)
    <3>1. Exclusive' /\ pc'[p] = "proc_load" /\ \A q \in Procs \ {p} : Spares(q)
      BY <1>19, <2>3 DEF ProcessCheck, TypeInv, TypeOK, MakerInv, Exclusive, Spares, locVars, PeriodPc, GenPc, AutoPc, AdjustPc, ProcessPc
    <3> QED BY <2>1, <3>1, KeepsMaker
  <2> QED BY <2>2, <2>3
<1>20. ASSUME NEW p \in Procs, ProcessLoad(p) PROVE MakerInv'
  <2>1. Keeps
    BY <1>20 DEF ProcessLoad, dbVars, Keeps
  <2>2. CASE Finish(p)
    BY <2>1, <2>2, FinishMaker
  <2>3. CASE ~Finish(p)
    <3> DEFINE open == {u \in Users : rec[u].status \in {"draft", "recalled"}}
    <3>1. /\ pc[p] = "proc_load" /\ \A u \in open : rec[u].generated_by # actor[p]
          /\ todo' = [todo EXCEPT ![p] = open] /\ pc' = [pc EXCEPT ![p] = "proc_pick"]
          /\ UNCHANGED <<dbVars, lease, actor>>
      BY <1>20, <2>3 DEF ProcessLoad
    <3>2. \A u \in open : rec[u].status # "none"
      OBVIOUS
    <3> HIDE DEF open
    <3>3. Exclusive'
      BY <3>1 DEF TypeInv, TypeOK, MakerInv, Exclusive, PeriodPc, GenPc, AutoPc, AdjustPc, ProcessPc
    <3>4. GenerateOpen'
      BY <3>1 DEF dbVars, TypeInv, TypeOK, MakerInv, GenerateOpen
    <3>5. MakerKnown'
      BY <3>1, <3>2 DEF dbVars, TypeInv, TypeOK, MakerInv, MakerKnown
    <3>6. MakerChecker'
      BY <3>1 DEF dbVars, MakerInv, MakerChecker, Processed
    <3> QED BY <3>3, <3>4, <3>5, <3>6 DEF MakerInv
  <2> QED BY <2>2, <2>3
<1>21. ASSUME NEW p \in Procs, ProcessUpload(p)
      PROVE  MakerInv'
  <2>1. Keeps
    BY <1>21 DEF ProcessUpload, dbVars, Keeps
  <2>2. Exclusive' /\ \A q \in Procs \ {p} : Spares(q)
    BY <1>21, ConstantsAssumption
    DEF ProcessUpload, TypeInv, TypeOK, MakerInv, Exclusive, Spares, Take, locVars, Leases, PeriodPc, GenPc, AutoPc, AdjustPc, ProcessPc
  <2>3. \/ pc'[p] \notin {"gen_pick", "gen_write", "proc_pick", "proc_final", "proc_clean"}
        \/ /\ pc[p] \in {"gen_pick", "gen_write"}
           /\ pc'[p] \in {"gen_pick", "gen_write"} /\ todo'[p] \subseteq todo[p]
        \/ /\ pc[p] \in {"proc_pick", "proc_final", "proc_clean"} /\ actor'[p] = actor[p]
           /\ pc'[p] \in {"proc_pick", "proc_final", "proc_clean"} /\ todo'[p] \subseteq todo[p]
    BY <1>21 DEF ProcessUpload, TypeInv, TypeOK
  <2> QED BY <2>1, <2>2, <2>3, KeepsMaker
<1>22. ASSUME NEW p \in Procs, ProcessUploadFails(p)
      PROVE  MakerInv'
  <2>1. Keeps
    BY <1>22 DEF ProcessUploadFails, dbVars, Keeps
  <2>2. Exclusive' /\ \A q \in Procs \ {p} : Spares(q)
    BY <1>22, ConstantsAssumption
    DEF ProcessUploadFails, TypeInv, TypeOK, MakerInv, Exclusive, Spares, Take, locVars, Leases, PeriodPc, GenPc, AutoPc, AdjustPc, ProcessPc
  <2>3. \/ pc'[p] \notin {"gen_pick", "gen_write", "proc_pick", "proc_final", "proc_clean"}
        \/ /\ pc[p] \in {"gen_pick", "gen_write"}
           /\ pc'[p] \in {"gen_pick", "gen_write"} /\ todo'[p] \subseteq todo[p]
        \/ /\ pc[p] \in {"proc_pick", "proc_final", "proc_clean"} /\ actor'[p] = actor[p]
           /\ pc'[p] \in {"proc_pick", "proc_final", "proc_clean"} /\ todo'[p] \subseteq todo[p]
    BY <1>22 DEF ProcessUploadFails, TypeInv, TypeOK
  <2> QED BY <2>1, <2>2, <2>3, KeepsMaker
<1>23. ASSUME NEW p \in Procs, ProcessFinalize(p) PROVE MakerInv'
  <2>1. /\ cur[p] \in todo[p] /\ cur[p] \in Users /\ actor[p] \in Admins
        /\ rec[cur[p]].generated_by # actor[p]
    BY <1>23 DEF ProcessFinalize, TypeInv, TypeOK, Locals, MakerInv, MakerKnown, ProcessPc
  <2>2. Exclusive' /\ \A q \in Procs \ {p} : Spares(q)
    BY <1>23 DEF ProcessFinalize, Visited, TypeInv, TypeOK, MakerInv, Exclusive, Spares, PeriodPc, GenPc, AutoPc, AdjustPc, ProcessPc
  <2>3. \A q \in Procs \ {p} : pc[q] \notin PeriodPc
    BY <1>23 DEF ProcessFinalize, MakerInv, Exclusive, PeriodPc, GenPc, AutoPc, AdjustPc, ProcessPc
  <2>4. \A u \in Users \ {cur[p]} : rec'[u] = rec[u]
    BY <1>23 DEF ProcessFinalize, TypeInv, TypeOK
  <2>5. /\ rec'[cur[p]].processed_by = actor[p]
        /\ rec'[cur[p]].generated_by = rec[cur[p]].generated_by
        /\ rec'[cur[p]].status = "processed"
    BY <1>23, <2>1 DEF ProcessFinalize, TypeInv, TypeOK, Record
  <2>6. pc'[p] \in {"proc_pick", "proc_clean"} /\ todo'[p] \subseteq todo[p] /\ todo'[p] \subseteq Users /\ actor'[p] = actor[p]
    BY <1>23 DEF ProcessFinalize, Visited, TypeInv, TypeOK
  <2>7. GenerateOpen'
    BY <2>2, <2>3, <2>6 DEF GenerateOpen, Spares, PeriodPc, GenPc, AutoPc, AdjustPc, ProcessPc
  <2>8. MakerKnown'
    <3>1. \A u \in todo[p] : rec[u].status # "none" /\ rec[u].generated_by # actor[p]
      BY <1>23 DEF ProcessFinalize, MakerInv, MakerKnown
    <3>2. \A u \in todo'[p] : rec'[u].status # "none" /\ rec'[u].generated_by # actor[p]
      BY <3>1, <2>1, <2>4, <2>5, <2>6
    <3> QED BY <3>2, <2>2, <2>3, <2>6 DEF MakerKnown, Spares, PeriodPc, GenPc, AutoPc, AdjustPc, ProcessPc
  <2>9. MakerChecker'
    BY <2>1, <2>4, <2>5, ConstantsAssumption DEF MakerInv, MakerChecker, Processed, Admins
  <2> QED BY <2>2, <2>7, <2>8, <2>9 DEF MakerInv
<1>24. ASSUME NEW p \in Procs, ProcessRejected(p)
      PROVE  MakerInv'
  <2>1. Keeps
    BY <1>24 DEF ProcessRejected, Visited, dbVars, Keeps
  <2>2. Exclusive' /\ \A q \in Procs \ {p} : Spares(q)
    BY <1>24, ConstantsAssumption
    DEF ProcessRejected, Visited, TypeInv, TypeOK, MakerInv, Exclusive, Spares, Take, locVars, Leases, PeriodPc, GenPc, AutoPc, AdjustPc, ProcessPc
  <2>3. \/ pc'[p] \notin {"gen_pick", "gen_write", "proc_pick", "proc_final", "proc_clean"}
        \/ /\ pc[p] \in {"gen_pick", "gen_write"}
           /\ pc'[p] \in {"gen_pick", "gen_write"} /\ todo'[p] \subseteq todo[p]
        \/ /\ pc[p] \in {"proc_pick", "proc_final", "proc_clean"} /\ actor'[p] = actor[p]
           /\ pc'[p] \in {"proc_pick", "proc_final", "proc_clean"} /\ todo'[p] \subseteq todo[p]
    BY <1>24 DEF ProcessRejected, Visited, TypeInv, TypeOK
  <2> QED BY <2>1, <2>2, <2>3, KeepsMaker
<1>24c. ASSUME NEW p \in Procs, ProcessCleanup(p)
      PROVE  MakerInv'
  <2>1. Keeps
    BY <1>24c DEF ProcessCleanup, dbVars, Keeps
  <2>2. Exclusive' /\ \A q \in Procs \ {p} : Spares(q)
    BY <1>24c, ConstantsAssumption
    DEF ProcessCleanup, TypeInv, TypeOK, MakerInv, Exclusive, Spares, Take, locVars, Leases, PeriodPc, GenPc, AutoPc, AdjustPc, ProcessPc
  <2>3. \/ pc'[p] \notin {"gen_pick", "gen_write", "proc_pick", "proc_final", "proc_clean"}
        \/ /\ pc[p] \in {"gen_pick", "gen_write"}
           /\ pc'[p] \in {"gen_pick", "gen_write"} /\ todo'[p] \subseteq todo[p]
        \/ /\ pc[p] \in {"proc_pick", "proc_final", "proc_clean"} /\ actor'[p] = actor[p]
           /\ pc'[p] \in {"proc_pick", "proc_final", "proc_clean"} /\ todo'[p] \subseteq todo[p]
    BY <1>24c DEF ProcessCleanup, locVars, TypeInv, TypeOK
  <2> QED BY <2>1, <2>2, <2>3, KeepsMaker
<1>25. ASSUME NEW p \in Procs, NEW c \in Claims, ReimburseStart(p, c)
      PROVE  MakerInv'
  <2>1. Keeps
    BY <1>25 DEF ReimburseStart, dbVars, Keeps
  <2>2. Exclusive' /\ \A q \in Procs \ {p} : Spares(q)
    BY <1>25, ConstantsAssumption
    DEF ReimburseStart, TypeInv, TypeOK, MakerInv, Exclusive, Spares, Take, locVars, Leases, PeriodPc, GenPc, AutoPc, AdjustPc, ProcessPc
  <2>3. \/ pc'[p] \notin {"gen_pick", "gen_write", "proc_pick", "proc_final", "proc_clean"}
        \/ /\ pc[p] \in {"gen_pick", "gen_write"}
           /\ pc'[p] \in {"gen_pick", "gen_write"} /\ todo'[p] \subseteq todo[p]
        \/ /\ pc[p] \in {"proc_pick", "proc_final", "proc_clean"} /\ actor'[p] = actor[p]
           /\ pc'[p] \in {"proc_pick", "proc_final", "proc_clean"} /\ todo'[p] \subseteq todo[p]
    BY <1>25 DEF ReimburseStart, TypeInv, TypeOK
  <2> QED BY <2>1, <2>2, <2>3, KeepsMaker
<1>26. ASSUME NEW p \in Procs, ReimburseRead(p) PROVE MakerInv'
  <2>1. Keeps
    BY <1>26 DEF ReimburseRead, dbVars, Keeps
  <2>2. CASE Forget(p)
    BY <1>26, <2>1, <2>2, ForgetMaker DEF ReimburseRead
  <2>3. CASE ~Forget(p)
    <3>1. Exclusive' /\ pc'[p] = "reimb_write" /\ \A q \in Procs \ {p} : Spares(q)
      BY <1>26, <2>3 DEF ReimburseRead, TypeInv, TypeOK, MakerInv, Exclusive, Spares, PeriodPc, GenPc, AutoPc, AdjustPc, ProcessPc
    <3> QED BY <2>1, <3>1, KeepsMaker
  <2> QED BY <2>2, <2>3
<1>27. ASSUME NEW p \in Procs, ReimburseWrite(p) PROVE MakerInv'
  <2>1. rec \in [Users -> Record] /\ \E a, g : rec' = [rec EXCEPT ![cur[p]].adj = a, ![cur[p]].gross = g]
    BY <1>27 DEF ReimburseWrite, TypeInv, TypeOK
  <2>2. Keeps
    BY <2>1 DEF Keeps, Record
  <2> QED BY <1>27, <2>2, ForgetMaker DEF ReimburseWrite
<1>28. ASSUME NEW p \in Procs, NEW S \in SUBSET Users, RateStart(p, S) PROVE MakerInv'
  <2>1. Keeps
    BY <1>28 DEF RateStart, dbVars, Keeps
  <2>2. Exclusive' /\ pc'[p] = "rate_write" /\ \A q \in Procs \ {p} : Spares(q)
    BY <1>28 DEF RateStart, TypeInv, TypeOK, MakerInv, Exclusive, Spares, Take, Leases, PeriodPc, GenPc, AutoPc, AdjustPc, ProcessPc
  <2> QED BY <2>1, <2>2, KeepsMaker
<1>29. ASSUME NEW S \in SUBSET Users, NewRates(S) PROVE Keeps
  BY <1>29 DEF NewRates, TypeInv, TypeOK, Record, Keeps
<1>30. ASSUME NEW p \in Procs, RateWrite(p) PROVE MakerInv'
  BY <1>30, <1>29, FinishMaker DEF RateWrite, TypeInv, TypeOK
<1>31. ASSUME NEW p \in Procs, Crash(p) PROVE MakerInv'
  <2>1. Keeps
    BY <1>31 DEF Crash, dbVars, Keeps
  <2>2. pc'[p] = "idle" /\ \A q \in Procs \ {p} : Spares(q)
    BY <1>31, ForgetSpares DEF Crash
  <2>3. Exclusive'
    BY <1>31, <2>2 DEF Crash, MakerInv, Exclusive, Spares, Leases, PeriodPc, GenPc, AutoPc, AdjustPc, ProcessPc
  <2> QED BY <2>1, <2>2, <2>3, KeepsMaker
<1>32. ASSUME NEW u \in Users, AttendanceWrite(u) PROVE MakerInv'
  <2>1. Keeps
    BY <1>32 DEF AttendanceWrite, TypeInv, TypeOK, Record, Keeps
  <2>2. Exclusive' /\ \A q \in Procs : Spares(q)
    BY <1>32, ConstantsAssumption
    DEF AttendanceWrite, UserRateWrite, Expire, locVars, MakerInv, Exclusive, Spares, TypeInv, TypeOK, Leases
  <2> QED BY <2>1, <2>2, KeepsMaker, ConstantsAssumption
<1>33. ASSUME NEW u \in Users, UserRateWrite(u) PROVE MakerInv'
  <2>1. Keeps
    BY <1>33, <1>29 DEF UserRateWrite
  <2>2. Exclusive' /\ \A q \in Procs : Spares(q)
    BY <1>33, ConstantsAssumption
    DEF AttendanceWrite, UserRateWrite, Expire, locVars, MakerInv, Exclusive, Spares, TypeInv, TypeOK, Leases
  <2> QED BY <2>1, <2>2, KeepsMaker, ConstantsAssumption
<1>34. ASSUME NEW l \in Leases, Expire(l) PROVE MakerInv'
  <2>1. Keeps
    BY <1>34 DEF Expire, dbVars, Keeps
  <2>2. Exclusive' /\ \A q \in Procs : Spares(q)
    BY <1>34, ConstantsAssumption
    DEF AttendanceWrite, UserRateWrite, Expire, locVars, MakerInv, Exclusive, Spares, TypeInv, TypeOK, Leases
  <2> QED BY <2>1, <2>2, KeepsMaker, ConstantsAssumption
<1>35. CASE UNCHANGED vars
  BY <1>35 DEF vars, dbVars, locVars, MakerInv, Exclusive, GenerateOpen, MakerKnown, MakerChecker, Processed
<1> QED
  BY <1>1, <1>2, <1>3, <1>4, <1>5, <1>6, <1>7, <1>8, <1>9, <1>10, <1>11, <1>12, <1>13, <1>14, <1>15, <1>16, <1>17, <1>18, <1>19, <1>20, <1>21, <1>22, <1>23, <1>24, <1>24c, <1>25, <1>26, <1>27, <1>28, <1>29, <1>30, <1>31, <1>32, <1>33, <1>34, <1>35
  DEF Next, Generate, AutoGenerate, Adjust, Recall, Process, Reimburse, ChangeRates

\* Whoever finalizes a record is not the one who generated it, as long as the
\* holder of a period lease does not lose it: for any number of administrators,
\* employees, requests and cron runs, with crashes and failed releases.
THEOREM MakerCheckerHolds == ASSUME ~LeaseMayBeLost PROVE Spec => []MakerChecker
<1>1. TypeInv /\ MakerInv /\ [Next]_vars => TypeInv' /\ MakerInv'
  BY TypeStep, MakerStep
<1>2. MakerInv => MakerChecker
  BY DEF MakerInv
<1> QED
  BY <1>1, <1>2, TypeInit, MakerInit, PTL DEF Spec
-----------------------------------------------------------------------------
(* The figures of a record: what the requests in flight have read of it *)

\* The rows whose figures count: processed ones, and drafts that can be finalized.
Settled(u) == rec[u].status = "processed" \/ Finalizable(u)

\* As long as nothing raced for an employee: gross pay and base pay come from the
\* same data, those of a settled row from the attendance rows as they are, and a
\* request in flight has seen the attendance rows, or the row, as they are.
SameBase == \A u \in Users : ~raced[u] =>
  rec[u].gross.att = rec[u].base.att /\ rec[u].gross.rate = rec[u].base.rate
SettledFresh == \A u \in Users : ~raced[u] /\ Settled(u) => rec[u].base.att \in {Manual, att[u]}
AttendanceSeen == \A p \in Procs, u \in Users :
  ~raced[u] /\ AttendanceInFlight(p, u) => seenAtt[p] = att[u]
RecordSeen == \A p \in Procs, u \in Users :
  ~raced[u] /\ RecordInFlight(p, u) => snap[p][u].base = rec[u].base

FigureInv == SameBase /\ SettledFresh /\ AttendanceSeen /\ RecordSeen

\* Only a finalized record is being recalled.
RecallsFinal == \A p \in Procs :
  pc[p] = "recall_write" => rec[cur[p]].status \in {"processed", "recalled"}

NotifyInv == RecallsFinal /\ NotifiedOnce

\* A request between the two ends of its configuration lease is the one that
\* holds it; so the pay rules a run of generate has read are those in force, and
\* those of a draft that can be finalized too.
ConfigExclusive == \A p \in Procs : pc[p] \in ConfigPc => lease["config"] = p
RateSeen == \A p \in Procs, u \in Users :
  ~raced[u] /\ RateInFlight(p, u) => seenRate[p][u] = rate[u]
DraftRate == \A u \in Users : ~raced[u] /\ Finalizable(u) => rec[u].base.rate = rate[u]

RateInv == RateSeen /\ DraftRate

\* The rows that process-full has still to visit are not processed, and drafts
\* among them are as it loaded them; the object of the current one is uploaded.
LoadedOpen == \A p \in Procs : \A u \in todo[p] :
  pc[p] \in {"proc_pick", "proc_final", "proc_clean"} =>
    /\ rec[u].status \in {"draft", "recalled"}
    /\ rec[u].status = "draft" => snap[p][u].gross = rec[u].gross
UploadedCurrent == \A p \in Procs :
  pc[p] = "proc_final" => payslip[cur[p]] = snap[p][cur[p]].gross

PayslipInv == LoadedOpen /\ UploadedCurrent /\ PayslipMatchesRecord

\* When requests do not overlap, a request in flight has seen the manual
\* adjustment as it is, and the claim it reimburses is not reimbursed.
AdjustmentSeen == \A p \in Procs : \A u \in Users :
  \/ u \in todo[p] /\ pc[p] \in {"gen_pick", "gen_write", "auto_pick", "auto_write"}
  \/ cur[p] = u /\ pc[p] \in AdjustPc \cup {"reimb_write"}
  => snap[p][u].adj = rec[u].adj
ClaimOpen == \A p \in Procs : pc[p] \in {"reimb_read", "reimb_write"} =>
  claim[arg[p]] = "approved" /\ ClaimUser[arg[p]] = cur[p]

SerialInv == AdjustmentSeen /\ GrossIncludesAdjustment
ClaimInv == ClaimOpen /\ ReimbursedOnce

\* The step leaves the local variables of request q alone.
Same(q) ==
  /\ pc'[q] = pc[q] /\ cur'[q] = cur[q] /\ todo'[q] = todo[q] /\ snap'[q] = snap[q]
  /\ seenAtt'[q] = seenAtt[q] /\ seenRate'[q] = seenRate[q] /\ arg'[q] = arg[q]

\* The labels at which a request has read something that it will use.
ReadPc == {"gen_pick", "gen_write", "auto_pick", "auto_write", "recall_write", "proc_pick",
           "proc_final", "proc_clean", "reimb_read", "reimb_write"} \cup AdjustPc

\* A step in which request p neither reads nor writes a row: it ends, or moves
\* between its leases.
Quiet(p) ==
  /\ UNCHANGED <<dbVars, raced>>
  /\ \/ pc'[p] \notin ReadPc
     \/ pc[p] \in AdjustPc /\ pc'[p] \in AdjustPc /\ UNCHANGED <<cur, snap, arg>>

\* A step in which request p reads or writes a row.
Touches(p) ==
  \/ GenerateLoad(p) \/ GenerateRead(p) \/ GenerateWrite(p)
  \/ AutoGenerateStart(p) \/ AutoGenerateRead(p) \/ AutoGenerateWrite(p)
  \/ \E a \in Makers, u \in Users, v \in AdjustValues \cup {None} : AdjustRead(p, a, u, v)
  \/ AdjustWrite(p)
  \/ \E a \in Checkers, u \in Users : RecallRead(p, a, u)
  \/ RecallWrite(p)
  \/ ProcessLoad(p) /\ pc'[p] = "proc_pick"
  \/ ProcessUpload(p) \/ ProcessUploadFails(p) \/ ProcessFinalize(p) \/ ProcessRejected(p)
  \/ ProcessCleanup(p)
  \/ \E c \in Claims : ReimburseStart(p, c)
  \/ ReimburseRead(p) /\ pc'[p] = "reimb_write"
  \/ ReimburseWrite(p) \/ RateWrite(p)

LEMMA ForgetSame ==
  ASSUME TypeInv, NEW p \in Procs, Forget(p)
  PROVE  pc'[p] = "idle" /\ \A q \in Procs \ {p} : Same(q)
  BY DEF TypeInv, TypeOK, Forget, Same

LEMMA TouchesSame ==
  ASSUME TypeInv, NEW p \in Procs, Touches(p)
  PROVE  \A q \in Procs \ {p} : Same(q)
<1>1. CASE GenerateLoad(p)
  BY <1>1 DEF TypeInv, TypeOK, GenerateLoad, Same
<1>2. CASE GenerateRead(p)
  BY <1>2 DEF TypeInv, TypeOK, GenerateRead, ReadAttendance, Same
<1>3. CASE GenerateWrite(p)
  BY <1>3 DEF TypeInv, TypeOK, GenerateWrite, Visited, Same
<1>4. CASE AutoGenerateStart(p)
  BY <1>4 DEF TypeInv, TypeOK, AutoGenerateStart, Same
<1>5. CASE AutoGenerateRead(p)
  BY <1>5 DEF TypeInv, TypeOK, AutoGenerateRead, ReadAttendance, Same
<1>6. CASE AutoGenerateWrite(p)
  BY <1>6 DEF TypeInv, TypeOK, AutoGenerateWrite, Visited, Same
<1>7. ASSUME NEW a \in Makers, NEW u \in Users, NEW v \in AdjustValues \cup {None},
             AdjustRead(p, a, u, v)
      PROVE  \A q \in Procs \ {p} : Same(q)
  BY <1>7 DEF TypeInv, TypeOK, AdjustRead, Same
<1>8. CASE AdjustWrite(p)
  BY <1>8, ForgetSame DEF AdjustWrite, Finish
<1>9. ASSUME NEW a \in Checkers, NEW u \in Users, RecallRead(p, a, u)
      PROVE  \A q \in Procs \ {p} : Same(q)
  BY <1>9 DEF TypeInv, TypeOK, RecallRead, Same
<1>10. CASE RecallWrite(p)
  BY <1>10, ForgetSame DEF RecallWrite
<1>11. CASE ProcessLoad(p) /\ pc'[p] = "proc_pick"
  <2>1. CASE Finish(p)
    BY <2>1, ForgetSame DEF Finish
  <2>2. CASE ~Finish(p)
    BY <1>11, <2>2 DEF TypeInv, TypeOK, ProcessLoad, Same
  <2> QED BY <2>1, <2>2
<1>12. CASE ProcessUpload(p)
  BY <1>12 DEF TypeInv, TypeOK, ProcessUpload, Same
<1>13. CASE ProcessUploadFails(p)
  BY <1>13 DEF TypeInv, TypeOK, ProcessUploadFails, Same
<1>14. CASE ProcessFinalize(p)
  BY <1>14 DEF TypeInv, TypeOK, ProcessFinalize, Visited, Same
<1>15. CASE ProcessRejected(p)
  BY <1>15 DEF TypeInv, TypeOK, ProcessRejected, Visited, Same
<1>15c. CASE ProcessCleanup(p)
  BY <1>15c DEF TypeInv, TypeOK, ProcessCleanup, locVars, Same
<1>16. ASSUME NEW c \in Claims, ReimburseStart(p, c)
       PROVE  \A q \in Procs \ {p} : Same(q)
  BY <1>16 DEF TypeInv, TypeOK, ReimburseStart, Same
<1>17. CASE ReimburseRead(p) /\ pc'[p] = "reimb_write"
  <2>1. CASE Forget(p)
    BY <2>1, ForgetSame
  <2>2. CASE ~Forget(p)
    BY <1>17, <2>2 DEF TypeInv, TypeOK, ReimburseRead, Same
  <2> QED BY <2>1, <2>2
<1>18. CASE ReimburseWrite(p)
  BY <1>18, ForgetSame DEF ReimburseWrite
<1>19. CASE RateWrite(p)
  BY <1>19, ForgetSame DEF RateWrite, Finish
<1> QED
  BY <1>1, <1>2, <1>3, <1>4, <1>5, <1>6, <1>7, <1>8, <1>9, <1>10, <1>11, <1>12, <1>13,
     <1>14, <1>15, <1>15c, <1>16, <1>17, <1>18, <1>19 DEF Touches

\* Every step is a write of the source data, the end of a lease, a quiet step of
\* some request or one that reads or writes a row; it leaves the others alone.
LEMMA StepKinds ==
  ASSUME TypeInv, Next
  PROVE  \/ \E p \in Procs : (Quiet(p) \/ Touches(p)) /\ \A q \in Procs \ {p} : Same(q)
         \/ \E u \in Users : AttendanceWrite(u) \/ UserRateWrite(u)
         \/ \E l \in Leases : Expire(l)
<1> DEFINE Kind(p) == (Quiet(p) \/ Touches(p)) /\ \A q \in Procs \ {p} : Same(q)
<1>f. ASSUME NEW p \in Procs, Forget(p), UNCHANGED <<dbVars, raced>>
      PROVE  Kind(p)
  <2>1. pc'[p] = "idle" /\ \A q \in Procs \ {p} : Same(q)
    BY <1>f, ForgetSame
  <2>2. Quiet(p)
    BY <1>f, <2>1 DEF Quiet, ReadPc, AdjustPc
  <2> QED BY <2>1, <2>2
<1>n. ASSUME NEW p \in Procs, Finish(p), UNCHANGED <<dbVars, raced>>
      PROVE  Kind(p)
  BY <1>n, <1>f DEF Finish
<1>t. ASSUME NEW p \in Procs, Touches(p) PROVE Kind(p)
  BY <1>t, TouchesSame
<1>p. ASSUME NEW p \in Procs, NEW a, NEW op, NEW label, TakePeriod(p, a, op, label),
             label \in {"gen_lease2", "proc_lease2"}
      PROVE  Kind(p)
  <2>1. Quiet(p)
    BY <1>p DEF TakePeriod, Quiet, ReadPc, AdjustPc, TypeInv, TypeOK
  <2>2. \A q \in Procs \ {p} : Same(q)
    BY <1>p DEF TakePeriod, Same, TypeInv, TypeOK
  <2> QED BY <2>1, <2>2
<1>c. ASSUME NEW p \in Procs, NEW from, NEW label, TakeConfig(p, from, label),
             label \in {"gen_load", "proc_check"} \/ (from \in AdjustPc /\ label \in AdjustPc)
      PROVE  Kind(p)
  <2>1. CASE Finish(p)
    BY <1>c, <2>1, <1>n DEF TakeConfig
  <2>2. CASE ~Finish(p)
    <3>1. /\ pc' = [pc EXCEPT ![p] = label] /\ UNCHANGED locVars /\ UNCHANGED <<dbVars, raced>>
          /\ pc[p] = from
      BY <1>c, <2>2 DEF TakeConfig
    <3>2. Quiet(p)
      BY <1>c, <3>1 DEF Quiet, ReadPc, AdjustPc, locVars, TypeInv, TypeOK
    <3>3. \A q \in Procs \ {p} : Same(q)
      BY <3>1 DEF Same, locVars, TypeInv, TypeOK
    <3> QED BY <3>2, <3>3
  <2> QED BY <2>1, <2>2
<1>1. ASSUME NEW p \in Procs, Generate(p) PROVE Kind(p)
  <2>1. ASSUME NEW a \in Makers, GenerateStart(p, a) PROVE Kind(p)
    BY <2>1, <1>p DEF GenerateStart
  <2>2. CASE GenerateConfig(p)
    BY <2>2, <1>c DEF GenerateConfig
  <2>3. CASE GenerateEnd(p)
    BY <2>3, <1>n DEF GenerateEnd
  <2> QED BY <1>1, <1>t, <2>1, <2>2, <2>3 DEF Generate, Touches
<1>2. ASSUME NEW p \in Procs, AutoGenerate(p) PROVE Kind(p)
  <2>1. CASE AutoGenerateEnd(p)
    BY <2>1, <1>f DEF AutoGenerateEnd
  <2> QED BY <1>2, <1>t, <2>1 DEF AutoGenerate, Touches
<1>3. ASSUME NEW p \in Procs, Adjust(p) PROVE Kind(p)
  <2>1. CASE AdjustPeriod(p)
    <3>1. CASE Finish(p)
      BY <2>1, <3>1, <1>n DEF AdjustPeriod
    <3>2. CASE ~Finish(p)
      <4>1. /\ pc' = [pc EXCEPT ![p] = "adj_lease2"] /\ UNCHANGED locVars
            /\ UNCHANGED <<dbVars, raced>> /\ pc[p] = "adj_lease"
        BY <2>1, <3>2 DEF AdjustPeriod
      <4>2. Quiet(p)
        BY <4>1 DEF Quiet, ReadPc, AdjustPc, locVars, TypeInv, TypeOK
      <4>3. \A q \in Procs \ {p} : Same(q)
        BY <4>1 DEF Same, locVars, TypeInv, TypeOK
      <4> QED BY <4>2, <4>3
    <3> QED BY <3>1, <3>2
  <2>2. CASE AdjustConfig(p)
    BY <2>2, <1>c DEF AdjustConfig, AdjustPc
  <2> QED BY <1>3, <1>t, <2>1, <2>2 DEF Adjust, Touches
<1>4. ASSUME NEW p \in Procs, Recall(p) PROVE Kind(p)
  BY <1>4, <1>t DEF Recall, Touches
<1>5. ASSUME NEW p \in Procs, Process(p) PROVE Kind(p)
  <2>1. ASSUME NEW a \in Checkers, ProcessStart(p, a) PROVE Kind(p)
    BY <2>1, <1>p DEF ProcessStart
  <2>2. CASE ProcessConfig(p)
    BY <2>2, <1>c DEF ProcessConfig
  <2>3. CASE ProcessCheck(p)
    <3>1. CASE Finish(p)
      BY <2>3, <3>1, <1>n DEF ProcessCheck
    <3>2. CASE ~Finish(p)
      <4>1. /\ pc' = [pc EXCEPT ![p] = "proc_load"] /\ UNCHANGED locVars
            /\ UNCHANGED <<dbVars, raced>>
        BY <2>3, <3>2 DEF ProcessCheck
      <4>2. Quiet(p)
        BY <4>1 DEF Quiet, ReadPc, AdjustPc, TypeInv, TypeOK
      <4>3. \A q \in Procs \ {p} : Same(q)
        BY <4>1 DEF Same, locVars, TypeInv, TypeOK
      <4> QED BY <4>2, <4>3
    <3> QED BY <3>1, <3>2
  <2>4. CASE ProcessLoad(p)
    <3>1. CASE Finish(p)
      BY <2>4, <3>1, <1>n DEF ProcessLoad
    <3>2. CASE ~Finish(p)
      <4>1. pc'[p] = "proc_pick"
        BY <2>4, <3>2 DEF ProcessLoad, TypeInv, TypeOK
      <4> QED BY <4>1, <2>4, <1>t DEF Touches
    <3> QED BY <3>1, <3>2
  <2>5. CASE ProcessEnd(p)
    BY <2>5, <1>n DEF ProcessEnd
  <2> QED BY <1>5, <1>t, <2>1, <2>2, <2>3, <2>4, <2>5 DEF Process, Touches
<1>6. ASSUME NEW p \in Procs, Reimburse(p) PROVE Kind(p)
  <2>1. CASE ReimburseRead(p)
    <3>1. CASE Forget(p)
      BY <2>1, <3>1, <1>f DEF ReimburseRead
    <3>2. CASE ~Forget(p)
      <4>1. pc'[p] = "reimb_write"
        BY <2>1, <3>2 DEF ReimburseRead, TypeInv, TypeOK
      <4> QED BY <4>1, <2>1, <1>t DEF Touches
    <3> QED BY <3>1, <3>2
  <2> QED BY <1>6, <1>t, <2>1 DEF Reimburse, Touches
<1>7. ASSUME NEW p \in Procs, ChangeRates(p) PROVE Kind(p)
  <2>1. ASSUME NEW S, RateStart(p, S) PROVE Kind(p)
    <3>1. Quiet(p)
      BY <2>1 DEF RateStart, Quiet, ReadPc, AdjustPc, TypeInv, TypeOK
    <3>2. \A q \in Procs \ {p} : Same(q)
      BY <2>1 DEF RateStart, Same, TypeInv, TypeOK
    <3> QED BY <3>1, <3>2
  <2> QED BY <1>7, <1>t, <2>1 DEF ChangeRates, Touches
<1>8. ASSUME NEW p \in Procs, Abort(p) \/ Crash(p) PROVE Kind(p)
  BY <1>8, <1>f, <1>n DEF Abort, Crash
<1> HIDE DEF Kind
<1>9. \/ \E p \in Procs : Kind(p)
      \/ \E u \in Users : AttendanceWrite(u) \/ UserRateWrite(u)
      \/ \E l \in Leases : Expire(l)
  BY <1>1, <1>2, <1>3, <1>4, <1>5, <1>6, <1>7, <1>8 DEF Next
<1> QED
  BY <1>9 DEF Kind

-----------------------------------------------------------------------------
(* The payslip notice *)

\* A step that finalizes and recalls nothing; at most it creates drafts.
SameStatus == \A u \in Users :
  \/ rec'[u].status = rec[u].status
  \/ rec[u].status = "none" /\ rec'[u].status = "draft"

\* ... and starts no recall; the other steps are those of finalizing and recalling.
Calm ==
  /\ SameStatus /\ UNCHANGED notified
  /\ \A q \in Procs : pc'[q] = "recall_write" => pc[q] = "recall_write" /\ cur'[q] = cur[q]
Transits(p) ==
  /\ \A q \in Procs \ {p} : Same(q)
  /\ \/ \E a \in Checkers, u \in Users : RecallRead(p, a, u)
     \/ RecallWrite(p) \/ ProcessFinalize(p)

LEMMA ComputedStatus ==
  ASSUME TypeInv, NEW p \in Procs, NEW u \in Users, NEW by
  PROVE  Computed(p, u, by).status = IF Exists(u) THEN rec[u].status ELSE "draft"
  BY DEF Computed

LEMMA StatusStep ==
  ASSUME TypeInv, [Next]_vars
  PROVE  Calm \/ \E q \in Procs : Transits(q)
<1>u. CASE UNCHANGED vars
  BY <1>u DEF vars, dbVars, locVars, Calm, SameStatus
<1>r. rec \in [Users -> Record]
  BY DEF TypeInv, TypeOK
<1>s. ASSUME UNCHANGED rec PROVE SameStatus
  BY <1>s DEF SameStatus
<1>1. ASSUME NEW p \in Procs, Quiet(p), \A q \in Procs \ {p} : Same(q) PROVE Calm \/ \E q \in Procs : Transits(q)
  <2>1. SameStatus /\ UNCHANGED notified
    BY <1>1, <1>s DEF Quiet, dbVars
  <2>2. pc'[p] # "recall_write"
    BY <1>1 DEF Quiet, ReadPc, AdjustPc
  <2> QED BY <1>1, <2>1, <2>2 DEF Same, Calm
<1>2. ASSUME NEW p \in Procs, Touches(p), \A q \in Procs \ {p} : Same(q) PROVE Calm \/ \E q \in Procs : Transits(q)
  <2>k. ASSUME SameStatus, UNCHANGED notified, pc'[p] # "recall_write" PROVE Calm \/ \E q \in Procs : Transits(q)
    BY <1>2, <2>k DEF Same, Calm
  <2>1. CASE GenerateLoad(p)
    BY <2>1, <1>s, <2>k DEF GenerateLoad, dbVars, TypeInv, TypeOK
  <2>2. CASE GenerateRead(p)
    BY <2>2, <1>s, <2>k DEF GenerateRead, ReadAttendance, dbVars, TypeInv, TypeOK
  <2>3. CASE GenerateWrite(p)
    <3>1. cur[p] \in Users
      BY <2>3 DEF GenerateWrite, TypeInv, TypeOK, Locals
    <3>2. SameStatus
      BY <2>3, <3>1, <1>r, ComputedStatus DEF GenerateWrite, SameStatus, Exists
    <3> QED BY <2>3, <3>2, <2>k DEF GenerateWrite, Visited, TypeInv, TypeOK
  <2>4. CASE AutoGenerateStart(p)
    BY <2>4, <1>s, <2>k DEF AutoGenerateStart, dbVars, TypeInv, TypeOK
  <2>5. CASE AutoGenerateRead(p)
    BY <2>5, <1>s, <2>k DEF AutoGenerateRead, ReadAttendance, dbVars, TypeInv, TypeOK
  <2>6. CASE AutoGenerateWrite(p)
    <3>1. cur[p] \in Users
      BY <2>6 DEF AutoGenerateWrite, TypeInv, TypeOK, Locals
    <3>2. SameStatus
      BY <2>6, <3>1, <1>r, ComputedStatus DEF AutoGenerateWrite, SameStatus, Exists
    <3> QED BY <2>6, <3>2, <2>k DEF AutoGenerateWrite, Visited, TypeInv, TypeOK
  <2>7. ASSUME NEW a \in Makers, NEW u \in Users, NEW v \in AdjustValues \cup {None},
               AdjustRead(p, a, u, v)
        PROVE  Calm \/ \E q \in Procs : Transits(q)
    BY <2>7, <1>s, <2>k DEF AdjustRead, dbVars, TypeInv, TypeOK
  <2>8. CASE AdjustWrite(p)
    <3>1. cur[p] \in Users
      BY <2>8 DEF AdjustWrite, TypeInv, TypeOK, Locals, AdjustPc
    <3>2. \A old \in Record : \A row, v : Adjusted(old, row, v).status = old.status
      BY DEF Adjusted, Record
    <3>3. SameStatus
      BY <2>8, <3>1, <3>2, <1>r DEF AdjustWrite, SameStatus
    <3> QED BY <2>8, <3>3, <2>k, ForgetSame DEF AdjustWrite, Finish
  <2>9. ASSUME NEW a \in Checkers, NEW u \in Users, RecallRead(p, a, u)
        PROVE  Calm \/ \E q \in Procs : Transits(q)
    BY <1>2, <2>9 DEF Transits
  <2>10. CASE RecallWrite(p)
    BY <1>2, <2>10 DEF Transits
  <2>11. CASE ProcessLoad(p) /\ pc'[p] = "proc_pick"
    BY <2>11, <1>s, <2>k DEF ProcessLoad, dbVars
  <2>12. CASE ProcessUpload(p)
    BY <2>12, <1>s, <2>k DEF ProcessUpload, TypeInv, TypeOK
  <2>13. CASE ProcessUploadFails(p)
    BY <2>13, <1>s, <2>k DEF ProcessUploadFails, dbVars
  <2>14. CASE ProcessFinalize(p)
    BY <1>2, <2>14 DEF Transits
  <2>15. CASE ProcessRejected(p)
    BY <2>15, <1>s, <2>k DEF ProcessRejected, Visited, TypeInv, TypeOK
  <2>15c. CASE ProcessCleanup(p)
    BY <2>15c, <1>s, <2>k DEF ProcessCleanup, TypeInv, TypeOK
  <2>16. ASSUME NEW c \in Claims, ReimburseStart(p, c) PROVE Calm \/ \E q \in Procs : Transits(q)
    BY <2>16, <1>s, <2>k DEF ReimburseStart, dbVars, TypeInv, TypeOK
  <2>17. CASE ReimburseRead(p) /\ pc'[p] = "reimb_write"
    BY <2>17, <1>s, <2>k DEF ReimburseRead, dbVars
  <2>18. CASE ReimburseWrite(p)
    <3>1. cur[p] \in Users
      BY <2>18 DEF ReimburseWrite, TypeInv, TypeOK, Locals
    <3>2. \E a, g : rec' = [rec EXCEPT ![cur[p]].adj = a, ![cur[p]].gross = g]
      BY <2>18 DEF ReimburseWrite
    <3>3. SameStatus
      BY <3>1, <3>2, <1>r DEF SameStatus, Record
    <3> QED BY <2>18, <3>3, <2>k, ForgetSame DEF ReimburseWrite
  <2>19. CASE RateWrite(p)
    <3>1. SameStatus
      BY <2>19, <1>r DEF RateWrite, NewRates, SameStatus, Record
    <3> QED BY <2>19, <3>1, <2>k, ForgetSame DEF RateWrite, Finish
  <2> QED
    BY <1>2, <2>1, <2>2, <2>3, <2>4, <2>5, <2>6, <2>7, <2>8, <2>9, <2>10, <2>11, <2>12,
       <2>13, <2>14, <2>15, <2>15c, <2>16, <2>17, <2>18, <2>19 DEF Touches
<1>3. ASSUME NEW u \in Users, AttendanceWrite(u) \/ UserRateWrite(u) PROVE Calm \/ \E q \in Procs : Transits(q)
  <2>1. SameStatus
    BY <1>3, <1>r DEF AttendanceWrite, UserRateWrite, NewRates, SameStatus, Record
  <2> QED BY <1>3, <2>1 DEF Calm, AttendanceWrite, UserRateWrite, locVars
<1>4. ASSUME NEW l \in Leases, Expire(l) PROVE Calm \/ \E q \in Procs : Transits(q)
  BY <1>4, <1>s DEF Calm, Expire, dbVars, locVars
<1> QED
  BY <1>u, <1>1, <1>2, <1>3, <1>4, StepKinds

LEMMA NotifyKeeps ==
  ASSUME TypeInv, NotifyInv, SameStatus, UNCHANGED notified,
         \A q \in Procs : pc'[q] = "recall_write" => pc[q] = "recall_write" /\ cur'[q] = cur[q]
  PROVE  NotifyInv'
<1>0. \A q \in Procs : pc[q] = "recall_write" => cur[q] \in Users
  BY DEF TypeInv, Locals
<1>1. RecallsFinal'
  BY <1>0 DEF NotifyInv, RecallsFinal, SameStatus
<1>2. NotifiedOnce'
  BY DEF NotifyInv, NotifiedOnce, SameStatus
<1> QED BY <1>1, <1>2 DEF NotifyInv

LEMMA NotifyStep ==
  ASSUME TypeInv, NotifyInv, [Next]_vars
  PROVE  NotifyInv'
<1>r. rec \in [Users -> Record]
  BY DEF TypeInv, TypeOK
<1>c. \A q \in Procs : pc[q] = "recall_write" => cur[q] \in Users
  BY DEF TypeInv, Locals
<1>1. CASE Calm
  BY <1>1, NotifyKeeps DEF Calm
<1>2. ASSUME NEW p \in Procs, Transits(p) PROVE NotifyInv'
  <2>s. \A q \in Procs \ {p} : Same(q)
    BY <1>2 DEF Transits
  <2>1. ASSUME NEW a \in Checkers, NEW u \in Users, RecallRead(p, a, u)
        PROVE  NotifyInv'
    <3>1. pc'[p] = "recall_write" /\ cur'[p] = u /\ UNCHANGED <<rec, notified>>
          /\ rec[u].status = "processed"
      BY <2>1 DEF RecallRead, dbVars, TypeInv, TypeOK
    <3>2. RecallsFinal'
      BY <3>1, <2>s DEF NotifyInv, RecallsFinal, Same
    <3> QED BY <3>1, <3>2 DEF NotifyInv, NotifiedOnce
  <2>2. CASE RecallWrite(p)
    <3>1. /\ cur[p] \in Users /\ rec[cur[p]].status \in {"processed", "recalled"}
          /\ rec' = [rec EXCEPT ![cur[p]].status = "recalled"]
      BY <2>2 DEF RecallWrite, TypeInv, TypeOK, Locals, NotifyInv, RecallsFinal
    <3>2. \A u \in Users : rec'[u].status = IF u = cur[p] THEN "recalled" ELSE rec[u].status
      BY <3>1, <1>r DEF Record
    <3>3. UNCHANGED notified /\ pc'[p] = "idle"
      BY <2>2, ForgetSame DEF RecallWrite
    <3>4. RecallsFinal'
      BY <3>2, <3>3, <2>s, <1>c DEF NotifyInv, RecallsFinal, Same
    <3> QED BY <3>1, <3>2, <3>3, <3>4 DEF NotifyInv, NotifiedOnce
  <2>3. CASE ProcessFinalize(p)
    <3>1. cur[p] \in Users /\ rec[cur[p]].status = "draft" /\ pc'[p] \in {"proc_pick", "proc_clean"}
      BY <2>3 DEF ProcessFinalize, Finalizable, Visited, TypeInv, TypeOK, Locals
    <3>2. \A u \in Users : rec'[u].status = IF u = cur[p] THEN "processed" ELSE rec[u].status
      BY <2>3, <3>1, <1>r DEF ProcessFinalize, Record
    <3>3. RecallsFinal'
      BY <3>1, <3>2, <2>s, <1>c DEF NotifyInv, RecallsFinal, Same
    <3>4. \A u \in Users : notified'[u] = IF u = cur[p] THEN notified[u] + 1 ELSE notified[u]
      BY <2>3, <3>1 DEF ProcessFinalize, TypeInv, TypeOK
    <3>5. NotifiedOnce'
      BY <3>1, <3>2, <3>4 DEF NotifyInv, NotifiedOnce
    <3> QED BY <3>3, <3>5 DEF NotifyInv
  <2> QED BY <1>2, <2>1, <2>2, <2>3 DEF Transits
<1> QED
  BY <1>1, <1>2, StatusStep

\* An employee is told once that the payslip is ready, and exactly when the record
\* has been finalized: for any number of overlapping, failing and repeated
\* process-full runs and recalls, even when a live holder loses its lease.
THEOREM NotifiedOnceHolds == Spec => []NotifiedOnce
<1>1. Init => NotifyInv
  BY DEF Init, NotifyInv, RecallsFinal, NotifiedOnce, NoRecord
<1>2. NotifyInv => NotifiedOnce
  BY DEF NotifyInv
<1> QED
  BY <1>1, <1>2, TypeInit, TypeStep, NotifyStep, PTL DEF Spec

-----------------------------------------------------------------------------
(* Attendance data and pay *)

\* The labels at which a request holds attendance rows, or a row, that it read.
FigurePc == {"gen_write", "auto_write", "reimb_write"} \cup AdjustPc

\* A step that leaves the data behind the figures alone and settles no row.
SameFigures == \A u \in Users :
  /\ rec'[u].base = rec[u].base
  /\ ~raced[u] => /\ rec'[u].gross.att = rec[u].gross.att
                  /\ rec'[u].gross.rate = rec[u].gross.rate
  /\ Settled(u)' => Settled(u)

LEMMA FigureKeeps ==
  ASSUME TypeInv, FigureInv, SameFigures, UNCHANGED att, \A u \in Users : raced[u] => raced'[u],
         NEW p, \A q \in Procs \ {p} : Same(q),
         p \in Procs => \/ pc'[p] \notin FigurePc
                        \/ /\ pc[p] \in AdjustPc /\ pc'[p] \in AdjustPc
                           /\ cur'[p] = cur[p] /\ snap'[p] = snap[p]
  PROVE  FigureInv'
<1>1. SameBase'
  BY DEF FigureInv, SameBase, SameFigures
<1>2. SettledFresh'
  BY DEF FigureInv, SettledFresh, SameFigures
<1>3. AttendanceSeen'
  BY DEF FigureInv, AttendanceSeen, AttendanceInFlight, FigurePc, AdjustPc, Same
<1>4. RecordSeen'
  BY DEF FigureInv, RecordSeen, RecordInFlight, FigurePc, AdjustPc, Same, SameFigures
<1> QED BY <1>1, <1>2, <1>3, <1>4 DEF FigureInv

\* A request writes new figures into a row, and marks the row as raced when
\* another request holds older ones.
LEMMA FigureWrite ==
  ASSUME TypeInv, FigureInv, UNCHANGED att, NEW p \in Procs, NEW u \in Users,
         raced' = RacedBy(p, u), \A q \in Procs \ {p} : Same(q), pc'[p] \notin FigurePc,
         \A w \in Users \ {u} : rec'[w] = rec[w],
         rec'[u].gross.att = rec'[u].base.att, rec'[u].gross.rate = rec'[u].base.rate,
         ~raced[u] /\ Settled(u)' => rec'[u].base.att \in {Manual, att[u]}
  PROVE  FigureInv'
<1>1. /\ \A w \in Users : raced[w] => raced'[w]
      /\ ~raced'[u] => \A q \in Procs \ {p} : ~RecordInFlight(q, u)
  BY DEF RacedBy, TypeInv, TypeOK
<1>2. SameBase'
  BY <1>1 DEF FigureInv, SameBase
<1>3. SettledFresh'
  BY <1>1 DEF FigureInv, SettledFresh, Settled, Finalizable
<1>4. AttendanceSeen'
  BY <1>1 DEF FigureInv, AttendanceSeen, AttendanceInFlight, FigurePc, AdjustPc, Same
<1>5. RecordSeen'
  BY <1>1 DEF FigureInv, RecordSeen, RecordInFlight, FigurePc, AdjustPc, Same
<1> QED BY <1>2, <1>3, <1>4, <1>5 DEF FigureInv

LEMMA ComputedFigures ==
  ASSUME NEW p \in Procs, NEW u \in Users, NEW by
  PROVE  /\ Computed(p, u, by).base.att = seenAtt[p]
         /\ Computed(p, u, by).base.rate = seenRate[p][u]
         /\ Computed(p, u, by).gross.att = seenAtt[p]
         /\ Computed(p, u, by).gross.rate = seenRate[p][u]
  BY DEF Computed, GrossOf

LEMMA AdjustedFigures ==
  ASSUME NEW old \in Record, NEW row \in Record, NEW v
  PROVE  /\ Adjusted(old, row, v).base.rate = row.base.rate
         /\ Adjusted(old, row, v).base.att \in {Manual, row.base.att}
         /\ Adjusted(old, row, v).gross.att = Adjusted(old, row, v).base.att
         /\ Adjusted(old, row, v).gross.rate = Adjusted(old, row, v).base.rate
         /\ Adjusted(old, row, v).status = old.status
         /\ Adjusted(old, row, v).stale = old.stale
<1>1. PICK base : base = IF v = None THEN [row.base EXCEPT !.att = Manual] ELSE row.base
  OBVIOUS
<1>2. base.rate = row.base.rate /\ base.att \in {Manual, row.base.att}
  BY <1>1 DEF Record, Base
<1>3. /\ Adjusted(old, row, v).base = base
      /\ Adjusted(old, row, v).gross = GrossOf(base, IF v = None THEN row.adj ELSE v)
      /\ Adjusted(old, row, v).status = old.status /\ Adjusted(old, row, v).stale = old.stale
  BY <1>1 DEF Adjusted, Record
<1> QED BY <1>2, <1>3 DEF GrossOf

LEMMA FigureStep ==
  ASSUME TypeInv, FigureInv, [Next]_vars
  PROVE  FigureInv'
<1>u. CASE UNCHANGED vars
  BY <1>u DEF vars, dbVars, locVars, FigureInv, SameBase, SettledFresh, Settled, Finalizable,
              AttendanceSeen, AttendanceInFlight, RecordSeen, RecordInFlight
<1>r. rec \in [Users -> Record] /\ snap \in [Procs -> [Users -> Record]]
  BY DEF TypeInv, TypeOK
<1>s. ASSUME UNCHANGED rec PROVE SameFigures
  BY <1>s DEF SameFigures, Settled, Finalizable
<1>1. ASSUME NEW p \in Procs, Quiet(p), \A q \in Procs \ {p} : Same(q) PROVE FigureInv'
  <2>1. SameFigures /\ UNCHANGED <<att, raced>>
    BY <1>1, <1>s DEF Quiet, dbVars
  <2>2. \/ pc'[p] \notin FigurePc
        \/ /\ pc[p] \in AdjustPc /\ pc'[p] \in AdjustPc
           /\ cur'[p] = cur[p] /\ snap'[p] = snap[p]
    BY <1>1 DEF Quiet, ReadPc, FigurePc, AdjustPc
  <2> QED BY <1>1, <2>1, <2>2, FigureKeeps
<1>2. ASSUME NEW p \in Procs, Touches(p), \A q \in Procs \ {p} : Same(q) PROVE FigureInv'
  <2>k. ASSUME SameFigures, UNCHANGED <<att, raced>>, pc'[p] \notin FigurePc PROVE FigureInv'
    BY <1>2, <2>k, FigureKeeps
  <2>1. CASE GenerateLoad(p)
    BY <2>1, <1>s, <2>k DEF GenerateLoad, dbVars, TypeInv, TypeOK, FigurePc, AdjustPc
  <2>r. ASSUME NEW label \in {"gen_write", "auto_write"}, NEW from, ReadAttendance(p, from, label)
        PROVE  FigureInv'
    <3>1. PICK u \in todo[p] : /\ cur' = [cur EXCEPT ![p] = u]
                               /\ seenAtt' = [seenAtt EXCEPT ![p] = att[u]]
                               /\ pc' = [pc EXCEPT ![p] = label] /\ UNCHANGED <<dbVars, raced>>
      BY <2>r DEF ReadAttendance
    <3>2. /\ cur'[p] = u /\ seenAtt'[p] = att[u] /\ pc'[p] = label
          /\ UNCHANGED <<rec, att, raced>>
      BY <3>1 DEF dbVars, TypeInv, TypeOK
    <3>3. AttendanceSeen'
      BY <3>2, <1>2 DEF FigureInv, AttendanceSeen, AttendanceInFlight, Same
    <3>4. RecordSeen'
      BY <3>2, <2>r, <1>2 DEF FigureInv, RecordSeen, RecordInFlight, Same, AdjustPc
    <3>5. SameBase' /\ SettledFresh'
      BY <3>2 DEF FigureInv, SameBase, SettledFresh, Settled, Finalizable
    <3> QED BY <3>3, <3>4, <3>5 DEF FigureInv
  <2>2. CASE GenerateRead(p)
    BY <2>2, <2>r DEF GenerateRead
  <2>3. CASE GenerateWrite(p)
    <3>1. /\ cur[p] \in Users /\ pc'[p] \notin FigurePc /\ raced' = RacedBy(p, cur[p])
          /\ UNCHANGED att /\ pc[p] = "gen_write"
      BY <2>3 DEF GenerateWrite, Visited, TypeInv, TypeOK, Locals, FigurePc, AdjustPc
    <3>2. PICK u \in Users : u = cur[p]
      BY <3>1
    <3>3. rec'[u] = Computed(p, u, actor[p]) /\ \A w \in Users \ {u} : rec'[w] = rec[w]
      BY <2>3, <3>2, <1>r DEF GenerateWrite
    <3>4. ~raced[u] => seenAtt[p] = att[u]
      BY <3>1, <3>2 DEF FigureInv, AttendanceSeen, AttendanceInFlight
    <3>5. /\ rec'[u].gross.att = rec'[u].base.att /\ rec'[u].gross.rate = rec'[u].base.rate
          /\ ~raced[u] => rec'[u].base.att \in {Manual, att[u]}
      <4>1. PICK row : row = Computed(p, u, actor[p])
        OBVIOUS
      <4>2. /\ row.base.att = seenAtt[p] /\ row.gross.att = seenAtt[p]
            /\ row.base.rate = seenRate[p][u] /\ row.gross.rate = seenRate[p][u]
        BY <4>1, ComputedFigures
      <4> QED BY <3>3, <3>4, <4>1, <4>2
    <3> QED BY <1>2, <3>1, <3>2, <3>3, <3>5, FigureWrite
  <2>4. CASE AutoGenerateStart(p)
    BY <2>4, <1>s, <2>k DEF AutoGenerateStart, dbVars, TypeInv, TypeOK, FigurePc, AdjustPc
  <2>5. CASE AutoGenerateRead(p)
    BY <2>5, <2>r DEF AutoGenerateRead
  <2>6. CASE AutoGenerateWrite(p)
    <3>1. cur[p] \in Users /\ pc'[p] \notin FigurePc /\ raced' = RacedBy(p, cur[p]) /\ UNCHANGED att
      BY <2>6 DEF AutoGenerateWrite, Visited, TypeInv, TypeOK, Locals, FigurePc, AdjustPc
    <3>2. CASE Exists(cur[p])
      <4>1. SameFigures
        BY <2>6, <3>2, <1>s DEF AutoGenerateWrite
      <4>2. \A u \in Users : raced[u] => raced'[u]
        BY <3>1 DEF RacedBy, TypeInv, TypeOK
      <4> QED BY <1>2, <3>1, <4>1, <4>2, FigureKeeps
    <3>3. CASE ~Exists(cur[p])
      <4>1. PICK u \in Users : u = cur[p]
        BY <3>1
      <4>2. rec'[u] = Computed(p, u, None) /\ \A w \in Users \ {u} : rec'[w] = rec[w]
        BY <2>6, <3>3, <4>1, <1>r DEF AutoGenerateWrite
      <4>3. ~raced[u] => seenAtt[p] = att[u]
        BY <2>6, <4>1 DEF AutoGenerateWrite, FigureInv, AttendanceSeen, AttendanceInFlight
      <4>4. /\ rec'[u].gross.att = rec'[u].base.att /\ rec'[u].gross.rate = rec'[u].base.rate
            /\ ~raced[u] => rec'[u].base.att \in {Manual, att[u]}
        <5>1. PICK row : row = Computed(p, u, None)
          OBVIOUS
        <5>2. /\ row.base.att = seenAtt[p] /\ row.gross.att = seenAtt[p]
              /\ row.base.rate = seenRate[p][u] /\ row.gross.rate = seenRate[p][u]
          BY <5>1, ComputedFigures
        <5> QED BY <4>2, <4>3, <5>1, <5>2
      <4> QED BY <1>2, <3>1, <4>1, <4>2, <4>4, FigureWrite
    <3> QED BY <3>2, <3>3
  <2>7. ASSUME NEW a \in Makers, NEW u \in Users, NEW v \in AdjustValues \cup {None},
               AdjustRead(p, a, u, v)
        PROVE  FigureInv'
    <3>1. /\ cur'[p] = u /\ snap'[p][u] = rec[u] /\ pc'[p] = "adj_lease"
          /\ UNCHANGED <<rec, att, raced>>
      BY <2>7, <1>r DEF AdjustRead, dbVars, TypeInv, TypeOK
    <3>2. AttendanceSeen'
      BY <3>1, <1>2 DEF FigureInv, AttendanceSeen, AttendanceInFlight, Same
    <3>3. RecordSeen'
      BY <3>1, <1>2 DEF FigureInv, RecordSeen, RecordInFlight, Same
    <3>4. SameBase' /\ SettledFresh'
      BY <3>1 DEF FigureInv, SameBase, SettledFresh, Settled, Finalizable
    <3> QED BY <3>2, <3>3, <3>4 DEF FigureInv
  <2>8. CASE AdjustWrite(p)
    <3>1. cur[p] \in Users /\ UNCHANGED att /\ pc[p] = "adj_write"
      BY <2>8 DEF AdjustWrite, TypeInv, TypeOK, Locals, AdjustPc
    <3>2. pc'[p] \notin FigurePc
      BY <2>8, ForgetSame DEF AdjustWrite, Finish, FigurePc, AdjustPc
    <3>3. CASE snap[p][cur[p]].status = "processed"
      BY <2>8, <3>1, <3>2, <3>3, <1>s, <2>k DEF AdjustWrite
    <3>4. CASE snap[p][cur[p]].status # "processed"
      <4>1. PICK u \in Users : u = cur[p]
        BY <3>1
      <4>2. PICK row \in Record : row = snap[p][u]
        BY <4>1, <1>r
      <4>3. /\ raced' = RacedBy(p, u) /\ rec'[u] = Adjusted(rec[u], row, arg[p])
            /\ \A w \in Users \ {u} : rec'[w] = rec[w]
        BY <2>8, <3>4, <4>1, <4>2, <1>r DEF AdjustWrite
      <4>4. ~raced[u] => row.base = rec[u].base
        BY <3>1, <4>1, <4>2 DEF FigureInv, RecordSeen, RecordInFlight, AdjustPc
      <4>5. /\ rec'[u].gross.att = rec'[u].base.att /\ rec'[u].gross.rate = rec'[u].base.rate
            /\ rec'[u].base.att \in {Manual, row.base.att}
            /\ rec'[u].status = rec[u].status /\ rec'[u].stale = rec[u].stale
        BY <4>3, <1>r, AdjustedFigures
      <4>6. ~raced[u] /\ Settled(u)' => rec'[u].base.att \in {Manual, att[u]}
        <5>1. Settled(u)' => Settled(u)
          BY <4>5 DEF Settled, Finalizable
        <5> QED BY <5>1, <4>4, <4>5 DEF FigureInv, SettledFresh
      <4> QED BY <1>2, <3>1, <3>2, <4>3, <4>5, <4>6, FigureWrite
    <3> QED BY <3>3, <3>4
  <2>9. ASSUME NEW a \in Checkers, NEW u \in Users, RecallRead(p, a, u) PROVE FigureInv'
    BY <2>9, <1>s, <2>k DEF RecallRead, dbVars, TypeInv, TypeOK, FigurePc, AdjustPc
  <2>10. CASE RecallWrite(p)
    <3>1. SameFigures
      BY <2>10, <1>r DEF RecallWrite, SameFigures, Settled, Finalizable, Record
    <3> QED BY <2>10, <3>1, <2>k, ForgetSame DEF RecallWrite, FigurePc, AdjustPc
  <2>11. CASE ProcessLoad(p) /\ pc'[p] = "proc_pick"
    BY <2>11, <1>s, <2>k DEF ProcessLoad, dbVars, FigurePc, AdjustPc
  <2>12. CASE ProcessUpload(p)
    BY <2>12, <1>s, <2>k DEF ProcessUpload, TypeInv, TypeOK, FigurePc, AdjustPc
  <2>13. CASE ProcessUploadFails(p)
    BY <2>13, <1>s, <2>k DEF ProcessUploadFails, dbVars, FigurePc, AdjustPc
  <2>14. CASE ProcessFinalize(p)
    <3>1. cur[p] \in Users /\ Finalizable(cur[p])
      BY <2>14 DEF ProcessFinalize, TypeInv, TypeOK, Locals
    <3>2. \A u \in Users : /\ rec'[u].base = rec[u].base /\ rec'[u].gross = rec[u].gross
                           /\ u # cur[p] => rec'[u] = rec[u]
      BY <2>14, <1>r DEF ProcessFinalize, Record
    <3>3. SameFigures
      BY <3>1, <3>2 DEF SameFigures, Settled, Finalizable
    <3> QED BY <2>14, <3>3, <2>k DEF ProcessFinalize, Visited, TypeInv, TypeOK, FigurePc, AdjustPc
  <2>15. CASE ProcessRejected(p)
    BY <2>15, <1>s, <2>k DEF ProcessRejected, Visited, TypeInv, TypeOK, FigurePc, AdjustPc
  <2>15c. CASE ProcessCleanup(p)
    BY <2>15c, <1>s, <2>k DEF ProcessCleanup, TypeInv, TypeOK, FigurePc, AdjustPc
  <2>16. ASSUME NEW c \in Claims, ReimburseStart(p, c) PROVE FigureInv'
    BY <2>16, <1>s, <2>k DEF ReimburseStart, dbVars, TypeInv, TypeOK, FigurePc, AdjustPc
  <2>17. CASE ReimburseRead(p) /\ pc'[p] = "reimb_write"
    <3>1. /\ snap' = [snap EXCEPT ![p][cur[p]] = rec[cur[p]]] /\ UNCHANGED <<cur, rec, att, raced>>
          /\ pc[p] = "reimb_read"
      BY <2>17, ForgetSame DEF ReimburseRead, dbVars
    <3>2. cur[p] \in Users /\ snap'[p][cur[p]] = rec[cur[p]]
      BY <3>1, <1>r DEF TypeInv, Locals
    <3>3. AttendanceSeen'
      BY <3>1, <2>17, <1>2 DEF FigureInv, AttendanceSeen, AttendanceInFlight, Same
    <3>4. RecordSeen'
      BY <3>1, <3>2, <1>2 DEF FigureInv, RecordSeen, RecordInFlight, Same
    <3>5. SameBase' /\ SettledFresh'
      BY <3>1 DEF FigureInv, SameBase, SettledFresh, Settled, Finalizable
    <3> QED BY <3>3, <3>4, <3>5 DEF FigureInv
  <2>18. CASE ReimburseWrite(p)
    <3>1. cur[p] \in Users /\ pc[p] = "reimb_write"
      BY <2>18 DEF ReimburseWrite, TypeInv, TypeOK, Locals
    <3>2. /\ rec'[cur[p]].gross = GrossOf(snap[p][cur[p]].base, snap[p][cur[p]].adj + 1)
          /\ rec'[cur[p]].base = rec[cur[p]].base /\ rec'[cur[p]].status = rec[cur[p]].status
          /\ rec'[cur[p]].stale = rec[cur[p]].stale
          /\ \A w \in Users \ {cur[p]} : rec'[w] = rec[w]
      BY <2>18, <3>1, <1>r DEF ReimburseWrite, Record
    <3>3. ~raced[cur[p]] => snap[p][cur[p]].base = rec[cur[p]].base
      BY <3>1 DEF FigureInv, RecordSeen, RecordInFlight
    <3>4. ~raced[cur[p]] => /\ rec'[cur[p]].gross.att = rec[cur[p]].gross.att
                            /\ rec'[cur[p]].gross.rate = rec[cur[p]].gross.rate
      BY <3>1, <3>2, <3>3 DEF FigureInv, SameBase, GrossOf
    <3>5. SameFigures
      BY <3>2, <3>4 DEF SameFigures, Settled, Finalizable
    <3> QED BY <2>18, <3>5, <2>k, ForgetSame DEF ReimburseWrite, FigurePc, AdjustPc
  <2>19. CASE RateWrite(p)
    <3>1. SameFigures
      BY <2>19, <1>r DEF RateWrite, NewRates, SameFigures, Settled, Finalizable, Record
    <3>2. pc'[p] \notin FigurePc /\ UNCHANGED att
      BY <2>19, ForgetSame DEF RateWrite, Finish, FigurePc, AdjustPc
    <3>3. \A u \in Users : raced[u] => raced'[u]
      BY <2>19 DEF RateWrite
    <3> QED BY <1>2, <3>1, <3>2, <3>3, FigureKeeps
  <2> QED
    BY <1>2, <2>1, <2>2, <2>3, <2>4, <2>5, <2>6, <2>7, <2>8, <2>9, <2>10, <2>11, <2>12,
       <2>13, <2>14, <2>15, <2>15c, <2>16, <2>17, <2>18, <2>19 DEF Touches
<1>3. ASSUME NEW u \in Users, AttendanceWrite(u) PROVE FigureInv'
  <2>1. /\ \A w \in Users \ {u} : rec'[w] = rec[w] /\ att'[w] = att[w] /\ raced'[w] = raced[w]
        /\ rec'[u].base = rec[u].base /\ rec'[u].gross = rec[u].gross
        /\ UNCHANGED <<pc, cur, snap, seenAtt>>
    BY <1>3, <1>r DEF AttendanceWrite, locVars, Record, TypeInv, TypeOK
  <2>2. ~Settled(u)'
    BY <1>3, <1>r DEF AttendanceWrite, Settled, Finalizable, Record
  <2>3. /\ raced[u] => raced'[u]
        /\ ~raced'[u] => \A p \in Procs : ~AttendanceInFlight(p, u)
    BY <1>3 DEF AttendanceWrite, TypeInv, TypeOK
  <2>4. SameBase'
    BY <2>1, <2>3 DEF FigureInv, SameBase
  <2>5. SettledFresh'
    BY <2>1, <2>2 DEF FigureInv, SettledFresh, Settled, Finalizable
  <2>6. AttendanceSeen'
    BY <2>1, <2>3 DEF FigureInv, AttendanceSeen, AttendanceInFlight
  <2>7. RecordSeen'
    BY <2>1, <2>3 DEF FigureInv, RecordSeen, RecordInFlight
  <2> QED BY <2>4, <2>5, <2>6, <2>7 DEF FigureInv
<1>4. ASSUME NEW u \in Users, UserRateWrite(u) PROVE FigureInv'
  <2>1. SameFigures
    BY <1>4, <1>r DEF UserRateWrite, NewRates, SameFigures, Settled, Finalizable, Record
  <2>2. UNCHANGED att /\ (\A w \in Users : raced[w] => raced'[w]) /\ \A q \in Procs : Same(q)
    BY <1>4 DEF UserRateWrite, TypeInv, TypeOK, locVars, Same
  <2> QED BY <2>1, <2>2, FigureKeeps, ConstantsAssumption
<1>5. ASSUME NEW l \in Leases, Expire(l) PROVE FigureInv'
  <2>1. SameFigures /\ UNCHANGED <<att, raced>> /\ \A q \in Procs : Same(q)
    BY <1>5, <1>s DEF Expire, dbVars, locVars, Same
  <2> QED BY <2>1, FigureKeeps, ConstantsAssumption
<1> QED
  BY <1>u, <1>1, <1>2, <1>3, <1>4, <1>5, StepKinds

LEMMA FigureInit == Init => FigureInv
  BY DEF Init, FigureInv, SameBase, SettledFresh, AttendanceSeen, RecordSeen, NoRecord, NoBase,
         GrossOf, Settled, Finalizable, AttendanceInFlight, RecordInFlight, AdjustPc

\* The pay of a processed record was computed from the attendance rows as they
\* are, or from hours typed in by hand, unless figures were in flight when their
\* source changed: for every endpoint, any number of requests and cron runs, and
\* even when a live holder loses its lease.
THEOREM FreshUnlessRacedHolds == Spec => []FreshUnlessRaced
<1>1. FigureInv => FreshUnlessRaced
  BY DEF FigureInv, SameBase, SettledFresh, Settled, FreshUnlessRaced, Processed
<1> QED
  BY <1>1, FigureInit, TypeInit, TypeStep, FigureStep, PTL DEF Spec

-----------------------------------------------------------------------------
(* Pay rules *)

\* No step takes the configuration lease from another request.
LEMMA ConfigStep ==
  ASSUME ~LeaseMayBeLost, TypeInv, ConfigExclusive, [Next]_vars
  PROVE  ConfigExclusive'
<1>u. CASE UNCHANGED vars
  BY <1>u DEF vars, locVars, ConfigExclusive
<1>c. pc \in [Procs -> Labels] /\ lease \in [Leases -> Procs \cup {None, "dead"}]
  BY DEF TypeInv, TypeOK
<1>f. ASSUME NEW p \in Procs, Forget(p),
             \A q \in Procs \ {p} : lease["config"] = q => lease'["config"] = q
      PROVE  ConfigExclusive'
  <2>1. pc'[p] = "idle" /\ \A q \in Procs \ {p} : pc'[q] = pc[q]
    BY <1>f, ForgetSame DEF Same
  <2> QED BY <2>1, <1>f DEF ConfigExclusive, ConfigPc, PeriodPc, GenPc, AdjustPc, ProcessPc
<1>n. ASSUME NEW p \in Procs, Finish(p) PROVE ConfigExclusive'
  <2>1. \A q \in Procs \ {p} : lease["config"] = q => lease'["config"] = q
    BY <1>n DEF Finish, Freed, Held, Leases
  <2> QED BY <1>n, <2>1, <1>f DEF Finish
<1>k. ASSUME NEW p \in Procs, UNCHANGED lease, \A q \in Procs \ {p} : pc'[q] = pc[q],
             pc'[p] \in ConfigPc => pc[p] \in ConfigPc
      PROVE  ConfigExclusive'
  BY <1>k DEF ConfigExclusive
<1>p. ASSUME NEW p \in Procs, NEW label, Take(p, "period"), pc' = [pc EXCEPT ![p] = label],
             label \notin ConfigPc
      PROVE  ConfigExclusive'
  BY <1>p, <1>c DEF Take, Leases, ConfigExclusive
<1>t. ASSUME NEW p \in Procs, NEW label, Take(p, "config"), pc' = [pc EXCEPT ![p] = label],
             lease["config"] = None
      PROVE  ConfigExclusive'
  BY <1>t, <1>c, ConstantsAssumption DEF Take, Leases, ConfigExclusive
<1>g. ASSUME NEW p \in Procs, NEW from, NEW label, TakeConfig(p, from, label)
      PROVE  ConfigExclusive'
  BY <1>g, <1>n, <1>t DEF TakeConfig
<1>1. ASSUME NEW p \in Procs, Generate(p) PROVE ConfigExclusive'
  <2>1. ASSUME NEW a \in Makers, GenerateStart(p, a) PROVE ConfigExclusive'
    BY <2>1, <1>p DEF GenerateStart, TakePeriod, ConfigPc, PeriodPc, GenPc, AdjustPc, ProcessPc
  <2>2. CASE GenerateLoad(p)
    BY <2>2, <1>c, <1>k DEF GenerateLoad, ConfigPc, PeriodPc, GenPc, AdjustPc, ProcessPc
  <2>3. CASE GenerateRead(p)
    BY <2>3, <1>c, <1>k DEF GenerateRead, ReadAttendance, ConfigPc, PeriodPc, GenPc, AdjustPc, ProcessPc
  <2>4. CASE GenerateWrite(p)
    BY <2>4, <1>c, <1>k DEF GenerateWrite, Visited, ConfigPc, PeriodPc, GenPc, AdjustPc, ProcessPc
  <2> QED BY <1>1, <1>g, <1>n, <2>1, <2>2, <2>3, <2>4 DEF Generate, GenerateConfig, GenerateEnd
<1>2. ASSUME NEW p \in Procs, AutoGenerate(p) PROVE ConfigExclusive'
  <2>1. CASE AutoGenerateStart(p)
    BY <2>1, <1>c, <1>k DEF AutoGenerateStart, ConfigPc, PeriodPc, GenPc, AdjustPc, ProcessPc
  <2>2. CASE AutoGenerateRead(p)
    BY <2>2, <1>c, <1>k DEF AutoGenerateRead, ReadAttendance, ConfigPc, PeriodPc, GenPc, AdjustPc, ProcessPc
  <2>3. CASE AutoGenerateWrite(p)
    BY <2>3, <1>c, <1>k DEF AutoGenerateWrite, Visited, ConfigPc, PeriodPc, GenPc, AdjustPc, ProcessPc
  <2>4. CASE AutoGenerateEnd(p)
    BY <2>4, <1>f DEF AutoGenerateEnd
  <2> QED BY <1>2, <2>1, <2>2, <2>3, <2>4 DEF AutoGenerate
<1>3. ASSUME NEW p \in Procs, Adjust(p) PROVE ConfigExclusive'
  <2>1. ASSUME NEW a \in Makers, NEW u \in Users, NEW v \in AdjustValues \cup {None},
               AdjustRead(p, a, u, v)
        PROVE  ConfigExclusive'
    BY <2>1, <1>c, <1>k DEF AdjustRead, ConfigPc, PeriodPc, GenPc, AdjustPc, ProcessPc
  <2>2. CASE AdjustPeriod(p)
    BY <2>2, <1>n, <1>p DEF AdjustPeriod, ConfigPc, PeriodPc, GenPc, AdjustPc, ProcessPc
  <2> QED BY <1>3, <1>g, <1>n, <2>1, <2>2 DEF Adjust, AdjustConfig, AdjustWrite
<1>4. ASSUME NEW p \in Procs, Recall(p) PROVE ConfigExclusive'
  <2>1. ASSUME NEW a \in Checkers, NEW u \in Users, RecallRead(p, a, u) PROVE ConfigExclusive'
    BY <2>1, <1>c, <1>k DEF RecallRead, ConfigPc, PeriodPc, GenPc, AdjustPc, ProcessPc
  <2> QED BY <1>4, <1>f, <2>1 DEF Recall, RecallWrite
<1>5. ASSUME NEW p \in Procs, Process(p) PROVE ConfigExclusive'
  <2>1. ASSUME NEW a \in Checkers, ProcessStart(p, a) PROVE ConfigExclusive'
    BY <2>1, <1>p DEF ProcessStart, TakePeriod, ConfigPc, PeriodPc, GenPc, AdjustPc, ProcessPc
  <2>2. CASE ProcessCheck(p)
    <3>1. CASE Finish(p)
      BY <3>1, <1>n
    <3>2. CASE ~Finish(p)
      BY <2>2, <3>2, <1>c, <1>k DEF ProcessCheck, ConfigPc, PeriodPc, GenPc, AdjustPc, ProcessPc
    <3> QED BY <3>1, <3>2
  <2>3. CASE ProcessLoad(p)
    <3>1. CASE Finish(p)
      BY <3>1, <1>n
    <3>2. CASE ~Finish(p)
      BY <2>3, <3>2, <1>c, <1>k DEF ProcessLoad, ConfigPc, PeriodPc, GenPc, AdjustPc, ProcessPc
    <3> QED BY <3>1, <3>2
  <2>4. CASE ProcessUpload(p)
    BY <2>4, <1>c, <1>k DEF ProcessUpload, ConfigPc, PeriodPc, GenPc, AdjustPc, ProcessPc
  <2>5. CASE ProcessUploadFails(p)
    BY <2>5, <1>c, <1>k DEF ProcessUploadFails
  <2>6. CASE ProcessFinalize(p)
    BY <2>6, <1>c, <1>k DEF ProcessFinalize, Visited, ConfigPc, PeriodPc, GenPc, AdjustPc, ProcessPc
  <2>7. CASE ProcessRejected(p)
    BY <2>7, <1>c, <1>k DEF ProcessRejected, Visited, ConfigPc, PeriodPc, GenPc, AdjustPc, ProcessPc
  <2>8. CASE ProcessCleanup(p)
    BY <2>8, <1>c, <1>k DEF ProcessCleanup, ConfigPc, PeriodPc, GenPc, AdjustPc, ProcessPc
  <2> QED BY <1>5, <1>g, <1>n, <2>1, <2>2, <2>3, <2>4, <2>5, <2>6, <2>7, <2>8 DEF Process, ProcessConfig, ProcessEnd
<1>6. ASSUME NEW p \in Procs, Reimburse(p) PROVE ConfigExclusive'
  <2>1. ASSUME NEW c \in Claims, ReimburseStart(p, c) PROVE ConfigExclusive'
    BY <2>1, <1>c, <1>k DEF ReimburseStart, ConfigPc, PeriodPc, GenPc, AdjustPc, ProcessPc
  <2>2. CASE ReimburseRead(p)
    <3>1. CASE Forget(p)
      BY <2>2, <3>1, <1>f DEF ReimburseRead
    <3>2. CASE ~Forget(p)
      BY <2>2, <3>2, <1>c, <1>k DEF ReimburseRead, ConfigPc, PeriodPc, GenPc, AdjustPc, ProcessPc
    <3> QED BY <3>1, <3>2
  <2> QED BY <1>6, <1>f, <2>1, <2>2 DEF Reimburse, ReimburseWrite
<1>7. ASSUME NEW p \in Procs, ChangeRates(p) PROVE ConfigExclusive'
  BY <1>7, <1>t, <1>n DEF ChangeRates, RateStart, RateWrite
<1>8. ASSUME NEW p \in Procs, Crash(p) PROVE ConfigExclusive'
  <2>1. \A q \in Procs \ {p} : lease["config"] = q => lease'["config"] = q
    BY <1>8 DEF Crash, Leases
  <2> QED BY <1>8, <2>1, <1>f DEF Crash
<1>9. ASSUME NEW u \in Users, AttendanceWrite(u) \/ UserRateWrite(u) PROVE ConfigExclusive'
  BY <1>9 DEF AttendanceWrite, UserRateWrite, ConfigExclusive
<1>10. ASSUME NEW l \in Leases, Expire(l) PROVE ConfigExclusive'
  BY <1>10, <1>c, ConstantsAssumption DEF Expire, ConfigExclusive, Leases
<1> QED
  BY <1>u, <1>n, <1>1, <1>2, <1>3, <1>4, <1>5, <1>6, <1>7, <1>8, <1>9, <1>10 DEF Next, Abort

\* The labels at which a request has read the pay rules.
RatePc == {"gen_pick", "gen_write", "auto_pick", "auto_write"}

\* A step that leaves the pay rules behind the figures alone and readies no draft.
SameRules == \A u \in Users : ~raced[u] =>
  rec'[u].base.rate = rec[u].base.rate /\ (Finalizable(u)' => Finalizable(u))

LEMMA RateKeeps ==
  ASSUME TypeInv, RateInv, SameRules, UNCHANGED rate, \A u \in Users : raced[u] => raced'[u],
         NEW p, \A q \in Procs \ {p} : Same(q),
         p \in Procs => \/ pc'[p] \notin RatePc
                        \/ /\ pc[p] \in RatePc /\ pc'[p] \in RatePc
                           /\ todo'[p] \subseteq todo[p] /\ seenRate'[p] = seenRate[p]
  PROVE  RateInv'
<1>1. RateSeen'
  BY DEF RateInv, RateSeen, RateInFlight, RatePc, Same
<1>2. DraftRate'
  BY DEF RateInv, DraftRate, SameRules
<1> QED BY <1>1, <1>2 DEF RateInv

\* A request writes figures computed from the pay rules that it has read.
LEMMA RateFigures ==
  ASSUME TypeInv, RateInv, UNCHANGED rate, NEW p \in Procs, NEW u \in Users,
         raced' = RacedBy(p, u), \A q \in Procs \ {p} : Same(q),
         RateInFlight(p, u), pc'[p] \in RatePc,
         todo'[p] \subseteq todo[p], seenRate'[p] = seenRate[p],
         \A w \in Users \ {u} : rec'[w] = rec[w],
         rec'[u].base.rate = seenRate[p][u]
  PROVE  RateInv'
<1>1. \A w \in Users : raced[w] => raced'[w]
  BY DEF RacedBy, TypeInv, TypeOK
<1>2. RateSeen'
  BY <1>1 DEF RateInv, RateSeen, RateInFlight, RatePc, Same
<1>3. ~raced[u] => rec'[u].base.rate = rate[u]
  BY DEF RateInv, RateSeen
<1>4. DraftRate'
  BY <1>1, <1>3 DEF RateInv, DraftRate, Finalizable
<1> QED BY <1>2, <1>4 DEF RateInv

LEMMA RateStep ==
  ASSUME ~LeaseMayBeLost, TypeInv, FigureInv, ConfigExclusive, RateInv, [Next]_vars
  PROVE  RateInv'
<1>u. CASE UNCHANGED vars
  BY <1>u DEF vars, dbVars, locVars, RateInv, RateSeen, RateInFlight, DraftRate, Finalizable
<1>r. rec \in [Users -> Record] /\ snap \in [Procs -> [Users -> Record]]
  BY DEF TypeInv, TypeOK
<1>s. ASSUME UNCHANGED rec PROVE SameRules
  BY <1>s DEF SameRules, Finalizable
<1>1. ASSUME NEW p \in Procs, Quiet(p), \A q \in Procs \ {p} : Same(q) PROVE RateInv'
  <2>1. SameRules /\ UNCHANGED <<rate, raced>>
    BY <1>1, <1>s DEF Quiet, dbVars
  <2>2. pc'[p] \notin RatePc
    BY <1>1 DEF Quiet, ReadPc, RatePc, AdjustPc
  <2> QED BY <1>1, <2>1, <2>2, RateKeeps
<1>2. ASSUME NEW p \in Procs, Touches(p), \A q \in Procs \ {p} : Same(q) PROVE RateInv'
  <2>k. ASSUME SameRules, UNCHANGED <<rate, raced>>, pc'[p] \notin RatePc PROVE RateInv'
    BY <1>2, <2>k, RateKeeps
  <2>l. ASSUME UNCHANGED <<rec, rate, raced>>, seenRate'[p] = rate PROVE RateInv'
    <3>1. RateSeen'
      BY <1>2, <2>l DEF RateInv, RateSeen, RateInFlight, Same
    <3> QED BY <2>l, <3>1 DEF RateInv, DraftRate, Finalizable
  <2>r. ASSUME NEW from \in {"gen_pick", "auto_pick"}, NEW label \in {"gen_write", "auto_write"},
               ReadAttendance(p, from, label)
        PROVE  RateInv'
    <3>1. /\ pc[p] \in RatePc /\ pc'[p] \in RatePc /\ UNCHANGED <<todo, seenRate, rec, rate, raced>>
      BY <2>r DEF ReadAttendance, dbVars, TypeInv, TypeOK, RatePc
    <3> QED BY <1>2, <3>1, <1>s, RateKeeps
  <2>1. CASE GenerateLoad(p)
    BY <2>1, <2>l DEF GenerateLoad, dbVars, TypeInv, TypeOK
  <2>2. CASE GenerateRead(p)
    BY <2>2, <2>r DEF GenerateRead
  <2>3. CASE GenerateWrite(p)
    <3>1. /\ cur[p] \in Users /\ raced' = RacedBy(p, cur[p]) /\ UNCHANGED <<rate, seenRate>>
          /\ pc'[p] \in RatePc /\ todo'[p] \subseteq todo[p] /\ RateInFlight(p, cur[p])
      BY <2>3 DEF GenerateWrite, Visited, TypeInv, TypeOK, Locals, RatePc, RateInFlight
    <3>2. PICK u \in Users : u = cur[p]
      BY <3>1
    <3>3. rec'[u] = Computed(p, u, actor[p]) /\ \A w \in Users \ {u} : rec'[w] = rec[w]
      BY <2>3, <3>2, <1>r DEF GenerateWrite
    <3>4. PICK row : row = Computed(p, u, actor[p])
      OBVIOUS
    <3>5. row.base.rate = seenRate[p][u]
      BY <3>4, ComputedFigures
    <3> QED BY <1>2, <3>1, <3>2, <3>3, <3>4, <3>5, RateFigures
  <2>4. CASE AutoGenerateStart(p)
    BY <2>4, <2>l DEF AutoGenerateStart, dbVars, TypeInv, TypeOK
  <2>5. CASE AutoGenerateRead(p)
    BY <2>5, <2>r DEF AutoGenerateRead
  <2>6. CASE AutoGenerateWrite(p)
    <3>1. /\ cur[p] \in Users /\ raced' = RacedBy(p, cur[p]) /\ UNCHANGED <<rate, seenRate>>
          /\ pc[p] \in RatePc /\ pc'[p] \in RatePc
          /\ todo'[p] \subseteq todo[p] /\ RateInFlight(p, cur[p])
      BY <2>6 DEF AutoGenerateWrite, Visited, TypeInv, TypeOK, Locals, RatePc, RateInFlight
    <3>2. CASE Exists(cur[p])
      <4>1. SameRules
        BY <2>6, <3>2, <1>s DEF AutoGenerateWrite
      <4>2. \A u \in Users : raced[u] => raced'[u]
        BY <3>1 DEF RacedBy, TypeInv, TypeOK
      <4> QED BY <1>2, <3>1, <4>1, <4>2, RateKeeps
    <3>3. CASE ~Exists(cur[p])
      <4>1. PICK u \in Users : u = cur[p]
        BY <3>1
      <4>2. rec'[u] = Computed(p, u, None) /\ \A w \in Users \ {u} : rec'[w] = rec[w]
        BY <2>6, <3>3, <4>1, <1>r DEF AutoGenerateWrite
      <4>3. PICK row : row = Computed(p, u, None)
        OBVIOUS
      <4>4. row.base.rate = seenRate[p][u]
        BY <4>3, ComputedFigures
      <4> QED BY <1>2, <3>1, <4>1, <4>2, <4>3, <4>4, RateFigures
    <3> QED BY <3>2, <3>3
  <2>7. ASSUME NEW a \in Makers, NEW u \in Users, NEW v \in AdjustValues \cup {None},
               AdjustRead(p, a, u, v)
        PROVE  RateInv'
    BY <2>7, <1>s, <2>k DEF AdjustRead, dbVars, TypeInv, TypeOK, RatePc
  <2>8. CASE AdjustWrite(p)
    <3>1. cur[p] \in Users /\ UNCHANGED rate /\ pc[p] = "adj_write"
      BY <2>8 DEF AdjustWrite, TypeInv, TypeOK, Locals, AdjustPc
    <3>2. pc'[p] \notin RatePc
      BY <2>8, ForgetSame DEF AdjustWrite, Finish, RatePc
    <3>3. CASE snap[p][cur[p]].status = "processed"
      BY <2>8, <3>1, <3>2, <3>3, <1>s, <2>k DEF AdjustWrite
    <3>4. CASE snap[p][cur[p]].status # "processed"
      <4>1. PICK u \in Users : u = cur[p]
        BY <3>1
      <4>2. PICK row \in Record : row = snap[p][u]
        BY <4>1, <1>r
      <4>3. /\ raced' = RacedBy(p, u) /\ rec'[u] = Adjusted(rec[u], row, arg[p])
            /\ \A w \in Users \ {u} : rec'[w] = rec[w]
        BY <2>8, <3>4, <4>1, <4>2, <1>r DEF AdjustWrite
      <4>4. ~raced[u] => row.base = rec[u].base
        BY <3>1, <4>1, <4>2 DEF FigureInv, RecordSeen, RecordInFlight, AdjustPc
      <4>5. /\ rec'[u].base.rate = row.base.rate
            /\ rec'[u].status = rec[u].status /\ rec'[u].stale = rec[u].stale
        BY <4>3, <1>r, AdjustedFigures
      <4>6. SameRules
        BY <4>3, <4>4, <4>5 DEF SameRules, Finalizable
      <4>7. \A w \in Users : raced[w] => raced'[w]
        BY <4>3 DEF RacedBy, TypeInv, TypeOK
      <4> QED BY <1>2, <3>1, <3>2, <4>6, <4>7, RateKeeps
    <3> QED BY <3>3, <3>4
  <2>9. ASSUME NEW a \in Checkers, NEW u \in Users, RecallRead(p, a, u) PROVE RateInv'
    BY <2>9, <1>s, <2>k DEF RecallRead, dbVars, TypeInv, TypeOK, RatePc
  <2>10. CASE RecallWrite(p)
    <3>1. SameRules
      BY <2>10, <1>r DEF RecallWrite, SameRules, Finalizable, Record
    <3> QED BY <2>10, <3>1, <2>k, ForgetSame DEF RecallWrite, RatePc
  <2>11. CASE ProcessLoad(p) /\ pc'[p] = "proc_pick"
    BY <2>11, <1>s, <2>k DEF ProcessLoad, dbVars, RatePc
  <2>12. CASE ProcessUpload(p)
    BY <2>12, <1>s, <2>k DEF ProcessUpload, TypeInv, TypeOK, RatePc
  <2>13. CASE ProcessUploadFails(p)
    BY <2>13, <1>s, <2>k DEF ProcessUploadFails, dbVars, RatePc
  <2>14. CASE ProcessFinalize(p)
    <3>1. SameRules
      BY <2>14, <1>r DEF ProcessFinalize, SameRules, Finalizable, Record
    <3> QED BY <2>14, <3>1, <2>k DEF ProcessFinalize, Visited, TypeInv, TypeOK, RatePc
  <2>15. CASE ProcessRejected(p)
    BY <2>15, <1>s, <2>k DEF ProcessRejected, Visited, TypeInv, TypeOK, RatePc
  <2>15c. CASE ProcessCleanup(p)
    BY <2>15c, <1>s, <2>k DEF ProcessCleanup, TypeInv, TypeOK, RatePc
  <2>16. ASSUME NEW c \in Claims, ReimburseStart(p, c) PROVE RateInv'
    BY <2>16, <1>s, <2>k DEF ReimburseStart, dbVars, TypeInv, TypeOK, RatePc
  <2>17. CASE ReimburseRead(p) /\ pc'[p] = "reimb_write"
    BY <2>17, <1>s, <2>k DEF ReimburseRead, dbVars, RatePc
  <2>18. CASE ReimburseWrite(p)
    <3>1. \E a, g : rec' = [rec EXCEPT ![cur[p]].adj = a, ![cur[p]].gross = g]
      BY <2>18 DEF ReimburseWrite
    <3>2. SameRules
      BY <3>1, <1>r DEF SameRules, Finalizable, Record
    <3> QED BY <2>18, <3>2, <2>k, ForgetSame DEF ReimburseWrite, RatePc
  <2>19. CASE RateWrite(p)
    <3>1. pc[p] = "rate_write" /\ todo[p] \subseteq Users /\ NewRates(todo[p])
      BY <2>19 DEF RateWrite, TypeInv, TypeOK
    <3>2. /\ \A u \in Users : raced[u] => raced'[u]
          /\ \A u \in todo[p] : ~raced'[u] =>
               \A q \in Procs : ~(RateInFlight(q, u) /\ pc[q] \in AutoPc)
      BY <2>19, <3>1 DEF RateWrite
    <3>3. \A q \in Procs \ {p} : pc[q] \notin {"gen_pick", "gen_write"}
      BY <3>1 DEF ConfigExclusive, ConfigPc, PeriodPc, GenPc
    <3>4. pc'[p] \notin RatePc
      BY <2>19, ForgetSame DEF RateWrite, Finish, RatePc
    <3>5. \A u \in Users \ todo[p] : rate'[u] = rate[u]
      BY <3>1 DEF NewRates
    <3>6. RateSeen'
      <4>1. \A q \in Procs, u \in todo[p] : RateInFlight(q, u)' => q # p /\ RateInFlight(q, u)
        BY <3>4, <1>2 DEF RateInFlight, Same, RatePc
      <4>2. \A q \in Procs, u \in todo[p] : ~raced'[u] => ~RateInFlight(q, u)'
        BY <4>1, <3>2, <3>3 DEF RateInFlight, AutoPc
      <4>3. \A q \in Procs, u \in Users \ todo[p] :
              ~raced'[u] /\ RateInFlight(q, u)' => seenRate'[q][u] = rate'[u]
        BY <3>2, <3>4, <3>5, <1>2 DEF RateInv, RateSeen, RateInFlight, Same, RatePc
      <4> QED BY <4>2, <4>3 DEF RateSeen
    <3>7. /\ \A u \in todo[p] : ~Finalizable(u)'
          /\ \A u \in Users \ todo[p] : rec'[u] = rec[u]
      BY <3>1, <1>r DEF NewRates, Finalizable, Record
    <3>8. DraftRate'
      BY <3>2, <3>5, <3>7 DEF RateInv, DraftRate, Finalizable
    <3> QED BY <3>6, <3>8 DEF RateInv
  <2> QED
    BY <1>2, <2>1, <2>2, <2>3, <2>4, <2>5, <2>6, <2>7, <2>8, <2>9, <2>10, <2>11, <2>12,
       <2>13, <2>14, <2>15, <2>15c, <2>16, <2>17, <2>18, <2>19 DEF Touches
<1>3. ASSUME NEW u \in Users, AttendanceWrite(u) PROVE RateInv'
  <2>1. SameRules
    BY <1>3, <1>r DEF AttendanceWrite, SameRules, Finalizable, Record
  <2>2. UNCHANGED rate /\ (\A w \in Users : raced[w] => raced'[w]) /\ \A q \in Procs : Same(q)
    BY <1>3 DEF AttendanceWrite, TypeInv, TypeOK, locVars, Same
  <2> QED BY <2>1, <2>2, RateKeeps, ConstantsAssumption
<1>4. ASSUME NEW u \in Users, UserRateWrite(u) PROVE RateInv'
  <2>1. /\ UNCHANGED <<pc, todo, seenRate>>
        /\ \A w \in Users : raced[w] => raced'[w]
        /\ ~raced'[u] => \A q \in Procs : ~RateInFlight(q, u)
    BY <1>4 DEF UserRateWrite, TypeInv, TypeOK, locVars
  <2>2. /\ ~Finalizable(u)'
        /\ \A w \in Users \ {u} : rec'[w] = rec[w] /\ rate'[w] = rate[w]
    BY <1>4, <1>r DEF UserRateWrite, NewRates, Finalizable, Record
  <2>3. RateSeen'
    BY <2>1, <2>2 DEF RateInv, RateSeen, RateInFlight
  <2>4. DraftRate'
    BY <2>1, <2>2 DEF RateInv, DraftRate, Finalizable
  <2> QED BY <2>3, <2>4 DEF RateInv
<1>5. ASSUME NEW l \in Leases, Expire(l) PROVE RateInv'
  <2>1. SameRules /\ UNCHANGED <<rate, raced>> /\ \A q \in Procs : Same(q)
    BY <1>5, <1>s DEF Expire, dbVars, locVars, Same
  <2> QED BY <2>1, RateKeeps, ConstantsAssumption
<1> QED
  BY <1>u, <1>1, <1>2, <1>3, <1>4, <1>5, StepKinds

\* Only a draft that can be finalized is, and with the pay that it had.
LEMMA FinalizeStep ==
  ASSUME TypeInv, [Next]_vars, NEW u \in Users, Finalizes(u)
  PROVE  Finalizable(u) /\ rec'[u].gross = rec[u].gross
<1>r. rec \in [Users -> Record]
  BY DEF TypeInv, TypeOK
<1>1. ~Calm
  BY DEF Calm, SameStatus, Finalizes, Processed
<1>2. PICK p \in Procs : Transits(p)
  BY <1>1, StatusStep
<1>3. ~(RecallWrite(p) \/ \E a \in Checkers, w \in Users : RecallRead(p, a, w))
  BY <1>r DEF RecallWrite, RecallRead, dbVars, Finalizes, Processed, Record
<1>4. ProcessFinalize(p)
  BY <1>2, <1>3 DEF Transits
<1>5. u = cur[p]
  BY <1>4, <1>r DEF ProcessFinalize, Finalizes, Processed
<1>6. rec'[u].gross = rec[u].gross
  BY <1>4, <1>r DEF ProcessFinalize, Record
<1> QED BY <1>4, <1>5, <1>6 DEF ProcessFinalize

\* A record is finalized with pay computed from the pay rules in force, unless
\* they changed under figures in flight: for every endpoint and any number of
\* requests, as long as no live holder loses its lease.
THEOREM RateFreshHolds == ASSUME ~LeaseMayBeLost PROVE Spec => RateFreshWhenFinalized
<1>1. Init => ConfigExclusive /\ RateInv
  BY DEF Init, ConfigExclusive, RateInv, RateSeen, RateInFlight, DraftRate, Finalizable, NoRecord,
         ConfigPc, PeriodPc, GenPc, AdjustPc, ProcessPc
<1>2. TypeInv /\ FigureInv /\ RateInv /\ [Next]_vars =>
        [\A u \in Users : Finalizes(u) /\ ~raced[u] => rec'[u].gross.rate = rate[u]]_vars
  BY FinalizeStep DEF FigureInv, SameBase, RateInv, DraftRate
<1>3. TypeInv /\ FigureInv /\ ConfigExclusive /\ RateInv /\ [Next]_vars =>
        TypeInv' /\ FigureInv' /\ ConfigExclusive' /\ RateInv'
  BY TypeStep, FigureStep, ConfigStep, RateStep
<1> QED
  BY <1>1, <1>2, <1>3, TypeInit, FigureInit, PTL DEF Spec, RateFreshWhenFinalized

-----------------------------------------------------------------------------
(* Payslip objects, and the pay of processed records *)

\* Without these two endpoints nothing but generate writes pay that was computed
\* from a row read before; both may write to a record that has been processed
\* since, and its payslip then shows other pay.
NoEdits == "adjust" \notin Operations /\ "reimburse" \notin Operations
NoEditor == \A p \in Procs : pc[p] \notin AdjustPc \cup {"reimb_read", "reimb_write"}

LEMMA NoEditorStep ==
  ASSUME NoEdits, TypeInv, NoEditor, [Next]_vars
  PROVE  NoEditor'
<1>c. pc \in [Procs -> Labels]
  BY DEF TypeInv, TypeOK
<1>1. ASSUME NEW p \in Procs, Quiet(p) \/ Touches(p), \A q \in Procs \ {p} : Same(q)
      PROVE  NoEditor'
  <2>1. CASE Quiet(p)
    BY <1>1, <2>1 DEF Quiet, ReadPc, NoEditor, Same
  <2>2. CASE Touches(p)
    <3> SUFFICES pc'[p] \notin AdjustPc \cup {"reimb_read", "reimb_write"}
      BY <1>1 DEF NoEditor, Same
    <3>1. CASE GenerateLoad(p)
      BY <3>1, <1>c DEF GenerateLoad, AdjustPc
    <3>2. CASE GenerateRead(p) \/ AutoGenerateRead(p)
      BY <3>2, <1>c DEF GenerateRead, AutoGenerateRead, ReadAttendance, AdjustPc
    <3>3. CASE GenerateWrite(p) \/ AutoGenerateWrite(p)
      BY <3>3, <1>c DEF GenerateWrite, AutoGenerateWrite, Visited, AdjustPc
    <3>4. CASE AutoGenerateStart(p)
      BY <3>4, <1>c DEF AutoGenerateStart, AdjustPc
    <3>5. ~\E a \in Makers, u \in Users, v \in AdjustValues \cup {None} : AdjustRead(p, a, u, v)
      BY DEF AdjustRead, NoEdits
    <3>6. ~AdjustWrite(p) /\ ~ReimburseWrite(p) /\ ~ReimburseRead(p)
      BY DEF AdjustWrite, ReimburseWrite, ReimburseRead, NoEditor, AdjustPc
    <3>7. ~\E c \in Claims : ReimburseStart(p, c)
      BY DEF ReimburseStart, NoEdits
    <3>8. ASSUME NEW a \in Checkers, NEW u \in Users, RecallRead(p, a, u)
          PROVE  pc'[p] \notin AdjustPc \cup {"reimb_read", "reimb_write"}
      BY <3>8, <1>c DEF RecallRead, AdjustPc
    <3>9. CASE RecallWrite(p)
      BY <3>9, ForgetSame DEF RecallWrite, AdjustPc
    <3>10. CASE ProcessLoad(p) /\ pc'[p] = "proc_pick"
      BY <3>10 DEF AdjustPc
    <3>11. CASE ProcessUpload(p) \/ ProcessUploadFails(p)
      BY <3>11, <1>c DEF ProcessUpload, ProcessUploadFails, AdjustPc
    <3>12. CASE ProcessFinalize(p) \/ ProcessRejected(p) \/ ProcessCleanup(p)
      BY <3>12, <1>c DEF ProcessFinalize, ProcessRejected, ProcessCleanup, Visited, AdjustPc
    <3>13. CASE RateWrite(p)
      BY <3>13, ForgetSame DEF RateWrite, Finish, AdjustPc
    <3> QED
      BY <2>2, <3>1, <3>2, <3>3, <3>4, <3>5, <3>6, <3>7, <3>8, <3>9, <3>10, <3>11, <3>12, <3>13
      DEF Touches
  <2> QED BY <1>1, <2>1, <2>2
<1>2. ASSUME UNCHANGED pc PROVE NoEditor'
  BY <1>2 DEF NoEditor
<1>3. ASSUME NEW u \in Users, AttendanceWrite(u) \/ UserRateWrite(u) PROVE NoEditor'
  BY <1>2, <1>3 DEF AttendanceWrite, UserRateWrite
<1>4. ASSUME NEW l \in Leases, Expire(l) PROVE NoEditor'
  BY <1>2, <1>4 DEF Expire
<1>5. CASE UNCHANGED vars
  BY <1>2, <1>5 DEF vars
<1> QED
  BY <1>1, <1>3, <1>4, <1>5, StepKinds

\* A step that leaves all pay alone, and no record newly processed or reopened.
SamePay == \A u \in Users :
  /\ rec'[u].gross = rec[u].gross
  /\ rec'[u].status = rec[u].status \/ rec'[u].status = "recalled"

LEMMA PayslipKeeps ==
  ASSUME TypeInv, PayslipInv, SamePay, UNCHANGED payslip,
         NEW p, \A q \in Procs \ {p} : Same(q),
         p \in Procs => pc'[p] \notin {"proc_pick", "proc_final", "proc_clean"}
  PROVE  PayslipInv'
<1>0. /\ todo \in [Procs -> SUBSET Users]
      /\ \A q \in Procs : pc[q] = "proc_final" => cur[q] \in Users
  BY DEF TypeInv, TypeOK, Locals
<1>1. LoadedOpen'
  BY <1>0 DEF PayslipInv, LoadedOpen, SamePay, Same
<1>2. UploadedCurrent'
  BY <1>0 DEF PayslipInv, UploadedCurrent, Same
<1>3. PayslipMatchesRecord'
  BY DEF PayslipInv, PayslipMatchesRecord, Processed, SamePay
<1> QED BY <1>1, <1>2, <1>3 DEF PayslipInv

LEMMA PayslipStep ==
  ASSUME TypeInv, MakerInv, NoEditor, PayslipInv, [Next]_vars
  PROVE  PayslipInv'
<1>u. CASE UNCHANGED vars
  BY <1>u DEF vars, dbVars, locVars, PayslipInv, LoadedOpen, UploadedCurrent,
              PayslipMatchesRecord, Processed
<1>r. /\ rec \in [Users -> Record] /\ pc \in [Procs -> Labels] /\ todo \in [Procs -> SUBSET Users]
      /\ payslip \in [Users -> Gross \cup {NoPdf, DeletedPdf}] /\ snap \in [Procs -> [Users -> Record]]
      /\ cur \in [Procs -> Users \cup {None}]
  BY DEF TypeInv, TypeOK
<1>s. ASSUME UNCHANGED rec PROVE SamePay
  BY <1>s DEF SamePay
<1>1. ASSUME NEW p \in Procs, Quiet(p), \A q \in Procs \ {p} : Same(q) PROVE PayslipInv'
  <2>1. SamePay /\ UNCHANGED payslip
    BY <1>1, <1>s DEF Quiet, dbVars
  <2>2. pc'[p] \notin {"proc_pick", "proc_final", "proc_clean"}
    BY <1>1 DEF Quiet, ReadPc, AdjustPc
  <2> QED BY <1>1, <2>1, <2>2, PayslipKeeps
<1>2. ASSUME NEW p \in Procs, Touches(p), \A q \in Procs \ {p} : Same(q) PROVE PayslipInv'
  <2>k. ASSUME SamePay, UNCHANGED payslip, pc'[p] \notin {"proc_pick", "proc_final", "proc_clean"}
        PROVE  PayslipInv'
    BY <1>2, <2>k, PayslipKeeps
  <2>x. ASSUME pc[p] \in PeriodPc, NEW q \in Procs \ {p}
        PROVE  pc'[q] \notin {"proc_pick", "proc_final", "proc_clean"}
    BY <1>2, <2>x DEF MakerInv, Exclusive, Same, PeriodPc, ProcessPc
  <2>1. CASE GenerateLoad(p) \/ AutoGenerateStart(p)
    BY <2>1, <1>s, <2>k, <1>r DEF GenerateLoad, AutoGenerateStart, dbVars
  <2>2. CASE GenerateRead(p) \/ AutoGenerateRead(p)
    BY <2>2, <1>s, <2>k, <1>r DEF GenerateRead, AutoGenerateRead, ReadAttendance, dbVars
  <2>3. CASE GenerateWrite(p)
    <3>1. /\ cur[p] \in todo[p] /\ cur[p] \in Users /\ pc[p] = "gen_write"
          /\ pc'[p] = "gen_pick" /\ UNCHANGED payslip
      BY <2>3, <1>r DEF GenerateWrite, Visited, TypeInv, Locals
    <3>2. \A q \in Procs : pc'[q] \notin {"proc_pick", "proc_final", "proc_clean"}
      BY <3>1, <2>x DEF PeriodPc, GenPc
    <3>3. rec[cur[p]].status # "processed"
      BY <3>1 DEF MakerInv, GenerateOpen
    <3>4. \A u \in Users : rec'[u] = rec[u] \/ rec'[u].status # "processed"
      BY <2>3, <3>1, <3>3, <1>r, ComputedStatus DEF GenerateWrite
    <3> QED BY <3>1, <3>2, <3>4
            DEF PayslipInv, LoadedOpen, UploadedCurrent, PayslipMatchesRecord, Processed
  <2>4. CASE AutoGenerateWrite(p)
    <3>1. cur[p] \in Users /\ pc'[p] = "auto_pick" /\ UNCHANGED payslip
      BY <2>4, <1>r DEF AutoGenerateWrite, Visited, TypeInv, Locals
    <3>2. CASE Exists(cur[p])
      BY <2>4, <3>1, <3>2, <1>s, <2>k DEF AutoGenerateWrite
    <3>3. CASE ~Exists(cur[p])
      <4>1. \A u \in Users : \/ rec'[u] = rec[u]
                             \/ rec[u].status = "none" /\ rec'[u].status = "draft"
        BY <2>4, <3>1, <3>3, <1>r, ComputedStatus DEF AutoGenerateWrite, Exists
      <4>2. LoadedOpen'
        <5> SUFFICES ASSUME NEW q \in Procs, NEW u \in todo'[q], pc'[q] \in {"proc_pick", "proc_final", "proc_clean"}
                     PROVE  /\ rec'[u].status \in {"draft", "recalled"}
                            /\ rec'[u].status = "draft" => snap'[q][u].gross = rec'[u].gross
          BY DEF LoadedOpen
        <5>1. q # p /\ u \in todo[q] /\ u \in Users /\ snap'[q] = snap[q] /\ pc'[q] = pc[q]
          BY <1>2, <1>r, <3>1 DEF Same
        <5>2. rec'[u] = rec[u]
          BY <4>1, <5>1 DEF PayslipInv, LoadedOpen
        <5> QED BY <5>1, <5>2 DEF PayslipInv, LoadedOpen
      <4>3. UploadedCurrent'
        BY <1>2, <3>1 DEF PayslipInv, UploadedCurrent, Same
      <4>4. PayslipMatchesRecord'
        BY <3>1, <4>1 DEF PayslipInv, PayslipMatchesRecord, Processed
      <4> QED BY <4>2, <4>3, <4>4 DEF PayslipInv
    <3> QED BY <3>2, <3>3
  <2>6. ASSUME NEW a \in Makers, NEW u \in Users, NEW v \in AdjustValues \cup {None},
               AdjustRead(p, a, u, v)
        PROVE  PayslipInv'
    BY <2>6, <1>s, <2>k, <1>r DEF AdjustRead, dbVars
  <2>7. ~AdjustWrite(p) /\ ~ReimburseWrite(p) /\ ~ReimburseRead(p)
    BY DEF AdjustWrite, ReimburseWrite, ReimburseRead, NoEditor, AdjustPc
  <2>8. ASSUME NEW a \in Checkers, NEW u \in Users, RecallRead(p, a, u) PROVE PayslipInv'
    BY <2>8, <1>s, <2>k, <1>r DEF RecallRead, dbVars
  <2>9. CASE RecallWrite(p)
    <3>1. SamePay
      BY <2>9, <1>r DEF RecallWrite, SamePay, Record
    <3> QED BY <2>9, <3>1, <2>k, ForgetSame DEF RecallWrite
  <2>10. CASE ProcessLoad(p) /\ pc'[p] = "proc_pick"
    <3>1. ~Finish(p)
      BY <2>10, ForgetSame DEF Finish
    <3>2. /\ pc[p] = "proc_load" /\ UNCHANGED <<rec, payslip>> /\ snap'[p] = rec
          /\ todo'[p] = {u \in Users : rec[u].status \in {"draft", "recalled"}}
      BY <2>10, <3>1, <1>r DEF ProcessLoad, dbVars
    <3>3. \A q \in Procs \ {p} : pc'[q] \notin {"proc_pick", "proc_final", "proc_clean"}
      BY <3>2, <2>x DEF PeriodPc, ProcessPc
    <3>4. LoadedOpen'
      BY <3>2, <3>3 DEF LoadedOpen
    <3>5. UploadedCurrent'
      BY <2>10, <3>3 DEF UploadedCurrent
    <3> QED BY <3>2, <3>4, <3>5 DEF PayslipInv, PayslipMatchesRecord, Processed
  <2>11. CASE ProcessUpload(p)
    <3>1. PICK u \in todo[p] :
            /\ pc[p] = "proc_pick" /\ payslip' = [payslip EXCEPT ![u] = snap[p][u].gross]
            /\ cur' = [cur EXCEPT ![p] = u] /\ pc' = [pc EXCEPT ![p] = "proc_final"]
            /\ UNCHANGED <<rec, todo, snap>>
      BY <2>11 DEF ProcessUpload
    <3>2. /\ u \in Users /\ pc'[p] = "proc_final" /\ cur'[p] = u
          /\ payslip'[u] = snap[p][u].gross
          /\ \A w \in Users \ {u} : payslip'[w] = payslip[w]
      BY <3>1, <1>r
    <3>3. \A q \in Procs \ {p} : pc'[q] \notin {"proc_pick", "proc_final", "proc_clean"}
      BY <3>1, <2>x DEF PeriodPc, ProcessPc
    <3>4. rec[u].status # "processed"
      BY <3>1 DEF PayslipInv, LoadedOpen
    <3>5. LoadedOpen'
      BY <3>1, <3>3 DEF PayslipInv, LoadedOpen
    <3>6. UploadedCurrent'
      BY <3>1, <3>2, <3>3 DEF UploadedCurrent
    <3>7. PayslipMatchesRecord'
      BY <3>1, <3>2, <3>4 DEF PayslipInv, PayslipMatchesRecord, Processed
    <3> QED BY <3>5, <3>6, <3>7 DEF PayslipInv
  <2>12. CASE ProcessUploadFails(p)
    <3>1. PICK u \in todo[p] : /\ pc[p] = "proc_pick" /\ todo'[p] \subseteq todo[p]
                               /\ UNCHANGED <<rec, pc, cur, snap>>
                               /\ \A w \in Users \ {u} : payslip'[w] = payslip[w]
      BY <2>12, <1>r DEF ProcessUploadFails
    <3>2. \A q \in Procs \ {p} : pc'[q] \notin {"proc_pick", "proc_final", "proc_clean"}
      BY <3>1, <2>x DEF PeriodPc, ProcessPc
    <3>3. LoadedOpen'
      BY <3>1, <3>2 DEF PayslipInv, LoadedOpen
    <3>4. UploadedCurrent'
      BY <3>1, <3>2 DEF UploadedCurrent
    <3>5. rec[u].status # "processed"
      BY <3>1 DEF PayslipInv, LoadedOpen
    <3> QED BY <3>1, <3>3, <3>4, <3>5 DEF PayslipInv, PayslipMatchesRecord, Processed
  <2>13. CASE ProcessFinalize(p)
    <3>1. /\ cur[p] \in todo[p] /\ cur[p] \in Users /\ pc[p] = "proc_final"
          /\ rec[cur[p]].status = "draft" /\ pc'[p] \in {"proc_pick", "proc_clean"}
          /\ todo'[p] = todo[p] \ {cur[p]} /\ UNCHANGED <<payslip, snap>>
      BY <2>13, <1>r DEF ProcessFinalize, Finalizable, Visited, TypeInv, Locals
    <3>2. /\ \A u \in Users \ {cur[p]} : rec'[u] = rec[u]
          /\ rec'[cur[p]].gross = rec[cur[p]].gross
      BY <2>13, <3>1, <1>r DEF ProcessFinalize, Record
    <3>3. \A q \in Procs \ {p} : pc'[q] \notin {"proc_pick", "proc_final", "proc_clean"}
      BY <3>1, <2>x DEF PeriodPc, ProcessPc
    <3>4. payslip[cur[p]] = rec[cur[p]].gross
      BY <3>1 DEF PayslipInv, LoadedOpen, UploadedCurrent
    <3>5. LoadedOpen'
      BY <3>1, <3>2, <3>3, <1>r DEF PayslipInv, LoadedOpen
    <3>6. UploadedCurrent'
      BY <3>1, <3>3 DEF UploadedCurrent
    <3>7. PayslipMatchesRecord'
      BY <3>1, <3>2, <3>4 DEF PayslipInv, PayslipMatchesRecord, Processed
    <3> QED BY <3>5, <3>6, <3>7 DEF PayslipInv
  <2>14. CASE ProcessRejected(p)
    <3>1. /\ cur[p] \in todo[p] /\ cur[p] \in Users /\ pc[p] = "proc_final"
          /\ pc'[p] = "proc_pick" /\ todo'[p] \subseteq todo[p] /\ UNCHANGED <<rec, snap>>
      BY <2>14, <1>r DEF ProcessRejected, Visited, TypeInv, Locals
    <3>2. \A u \in Users \ {cur[p]} : payslip'[u] = payslip[u]
      BY <2>14, <3>1, <1>r DEF ProcessRejected
    <3>3. \A q \in Procs \ {p} : pc'[q] \notin {"proc_pick", "proc_final", "proc_clean"}
      BY <3>1, <2>x DEF PeriodPc, ProcessPc
    <3>4. rec[cur[p]].status # "processed"
      BY <3>1 DEF PayslipInv, LoadedOpen
    <3>5. LoadedOpen'
      BY <3>1, <3>3 DEF PayslipInv, LoadedOpen
    <3>6. UploadedCurrent'
      BY <3>1, <3>3 DEF UploadedCurrent
    <3>7. PayslipMatchesRecord'
      BY <3>1, <3>2, <3>4 DEF PayslipInv, PayslipMatchesRecord, Processed
    <3> QED BY <3>5, <3>6, <3>7 DEF PayslipInv
  <2>14c. CASE ProcessCleanup(p)
    <3>1. /\ cur[p] \in Users /\ pc[p] = "proc_clean" /\ pc'[p] = "proc_pick"
          /\ UNCHANGED <<rec, todo, snap>>
      BY <2>14c, <1>r DEF ProcessCleanup, locVars, TypeInv, Locals
    <3>2. \A u \in Users : payslip'[u] \in {payslip[u], DeletedPdf}
      BY <2>14c, <3>1, <1>r DEF ProcessCleanup
    <3>3. \A q \in Procs \ {p} : pc'[q] \notin {"proc_pick", "proc_final", "proc_clean"}
      BY <3>1, <2>x DEF PeriodPc, ProcessPc
    <3>4. LoadedOpen'
      BY <3>1, <3>3 DEF PayslipInv, LoadedOpen
    <3>5. UploadedCurrent'
      BY <3>1, <3>3 DEF UploadedCurrent
    <3>6. PayslipMatchesRecord'
      BY <3>1, <3>2 DEF PayslipInv, PayslipMatchesRecord, Processed
    <3> QED BY <3>4, <3>5, <3>6 DEF PayslipInv
  <2>15. ASSUME NEW c \in Claims, ReimburseStart(p, c) PROVE PayslipInv'
    BY <2>15, <1>s, <2>k, <1>r DEF ReimburseStart, dbVars
  <2>16. CASE RateWrite(p)
    <3>1. SamePay
      BY <2>16, <1>r DEF RateWrite, NewRates, SamePay, Record
    <3> QED BY <2>16, <3>1, <2>k, ForgetSame DEF RateWrite, Finish
  <2> QED
    BY <1>2, <2>1, <2>2, <2>3, <2>4, <2>6, <2>7, <2>8, <2>9, <2>10, <2>11, <2>12,
       <2>13, <2>14, <2>14c, <2>15, <2>16 DEF Touches
<1>3. ASSUME NEW u \in Users, AttendanceWrite(u) \/ UserRateWrite(u) PROVE PayslipInv'
  <2>a. ASSUME AttendanceWrite(u) PROVE SamePay
    BY <2>a, <1>r DEF AttendanceWrite, SamePay, Record
  <2>b. ASSUME UserRateWrite(u) PROVE SamePay
    BY <2>b, <1>r DEF UserRateWrite, NewRates, SamePay, Record
  <2>1. SamePay
    BY <1>3, <2>a, <2>b
  <2>2. UNCHANGED payslip /\ \A q \in Procs : Same(q)
    BY <1>3 DEF AttendanceWrite, UserRateWrite, locVars, Same
  <2> QED BY <2>1, <2>2, PayslipKeeps, ConstantsAssumption
<1>4. ASSUME NEW l \in Leases, Expire(l) PROVE PayslipInv'
  <2>1. SamePay /\ UNCHANGED payslip /\ \A q \in Procs : Same(q)
    BY <1>4, <1>s DEF Expire, dbVars, locVars, Same
  <2> QED BY <2>1, PayslipKeeps, ConstantsAssumption
<1> QED
  BY <1>u, <1>1, <1>2, <1>3, <1>4, StepKinds

LEMMA PayslipInit == Init => NoEditor /\ PayslipInv
  BY DEF Init, NoEditor, AdjustPc, PayslipInv, LoadedOpen, UploadedCurrent,
         PayslipMatchesRecord, Processed, NoRecord

\* The payslip object of a processed record shows the pay of that record, unless
\* the run that finalized it got no answer and deleted it: for any number of generate, process-full and recall requests that overlap, fail half
\* way or die, as long as no live holder loses its lease.
THEOREM PayslipMatchesHolds ==
  ASSUME ~LeaseMayBeLost, NoEdits PROVE Spec => []PayslipMatchesRecord
<1>1. TypeInv /\ MakerInv /\ NoEditor /\ PayslipInv /\ [Next]_vars =>
        TypeInv' /\ MakerInv' /\ NoEditor' /\ PayslipInv'
  BY TypeStep, MakerStep, NoEditorStep, PayslipStep
<1>2. PayslipInv => PayslipMatchesRecord
  BY DEF PayslipInv
<1> QED
  BY <1>1, <1>2, TypeInit, MakerInit, PayslipInit, PTL DEF Spec

\* No step changes a processed record.
LEMMA FrozenStep ==
  ASSUME TypeInv, MakerInv, NoEditor, [Next]_vars,
         NEW u \in Users, Processed(u), Processed(u)'
  PROVE  rec'[u] = rec[u]
<1>u. CASE UNCHANGED vars
  BY <1>u DEF vars, dbVars
<1>r. rec \in [Users -> Record]
  BY DEF TypeInv, TypeOK
<1>p. rec[u].status = "processed" /\ rec'[u].status = "processed"
  BY DEF Processed
<1>1. ASSUME NEW p \in Procs, Quiet(p) PROVE rec'[u] = rec[u]
  BY <1>1 DEF Quiet, dbVars
<1>2. ASSUME NEW p \in Procs, Touches(p) PROVE rec'[u] = rec[u]
  <2>1. CASE GenerateWrite(p)
    <3>1. u # cur[p]
      BY <2>1, <1>p DEF GenerateWrite, TypeInv, Locals, MakerInv, GenerateOpen
    <3> QED BY <2>1, <3>1, <1>r DEF GenerateWrite
  <2>2. CASE AutoGenerateWrite(p)
    BY <2>2, <1>p, <1>r DEF AutoGenerateWrite, Exists
  <2>3. ~AdjustWrite(p) /\ ~ReimburseWrite(p) /\ ~ReimburseRead(p)
    BY DEF AdjustWrite, ReimburseWrite, ReimburseRead, NoEditor, AdjustPc
  <2>4. CASE RecallWrite(p)
    BY <2>4, <1>p, <1>r DEF RecallWrite, Record
  <2>5. CASE ProcessFinalize(p)
    BY <2>5, <1>p, <1>r DEF ProcessFinalize, Finalizable
  <2>6. CASE RateWrite(p)
    BY <2>6, <1>p, <1>r DEF RateWrite, NewRates
  <2>7. CASE GenerateLoad(p) \/ AutoGenerateStart(p)
    BY <2>7 DEF GenerateLoad, AutoGenerateStart, dbVars
  <2>8. CASE GenerateRead(p) \/ AutoGenerateRead(p)
    BY <2>8 DEF GenerateRead, AutoGenerateRead, ReadAttendance, dbVars
  <2>9. CASE \/ ProcessLoad(p) \/ ProcessUpload(p) \/ ProcessUploadFails(p)
             \/ ProcessRejected(p) \/ ProcessCleanup(p)
    BY <2>9 DEF ProcessLoad, ProcessUpload, ProcessUploadFails, ProcessRejected, ProcessCleanup, dbVars
  <2>10. CASE \/ \E a \in Makers, w \in Users, v \in AdjustValues \cup {None} : AdjustRead(p, a, w, v)
              \/ \E a \in Checkers, w \in Users : RecallRead(p, a, w)
              \/ \E c \in Claims : ReimburseStart(p, c)
    BY <2>10 DEF AdjustRead, RecallRead, ReimburseStart, dbVars
  <2> QED
    BY <1>2, <2>1, <2>2, <2>3, <2>4, <2>5, <2>6, <2>7, <2>8, <2>9, <2>10 DEF Touches
<1>3. ASSUME NEW w \in Users, AttendanceWrite(w) PROVE rec'[u] = rec[u]
  BY <1>3, <1>p, <1>r DEF AttendanceWrite
<1>4. ASSUME NEW w \in Users, UserRateWrite(w) PROVE rec'[u] = rec[u]
  BY <1>4, <1>p, <1>r DEF UserRateWrite, NewRates
<1>5. ASSUME NEW l \in Leases, Expire(l) PROVE rec'[u] = rec[u]
  BY <1>5 DEF Expire, dbVars
<1> QED
  BY <1>u, <1>1, <1>2, <1>3, <1>4, <1>5, StepKinds

\* Finalized pay changes only through a recall, under the same conditions.
THEOREM ProcessedFrozenHolds ==
  ASSUME ~LeaseMayBeLost, NoEdits PROVE Spec => ProcessedIsFrozen
<1>1. TypeInv /\ MakerInv /\ NoEditor /\ [Next]_vars => TypeInv' /\ MakerInv' /\ NoEditor'
  BY TypeStep, MakerStep, NoEditorStep
<1>2. TypeInv /\ MakerInv /\ NoEditor /\ [Next]_vars =>
        [\A u \in Users : Processed(u) /\ Processed(u)' => rec'[u] = rec[u]]_vars
  BY FrozenStep
<1> QED
  BY <1>1, <1>2, TypeInit, MakerInit, PayslipInit, PTL DEF Spec, ProcessedIsFrozen

-----------------------------------------------------------------------------
(* Adjustments and reimbursements, when requests do not overlap *)

\* One request at a time.
Serial == \A p, q \in Procs : p = q

\* A step that leaves the manual adjustments and their share of the pay alone.
SameAdjustment == \A u \in Users :
  rec'[u].adj = rec[u].adj /\ rec'[u].gross.adj = rec[u].gross.adj

LEMMA SerialKeeps ==
  ASSUME Serial, TypeInv, SerialInv, SameAdjustment, NEW p \in Procs,
         \/ pc'[p] \notin ReadPc \ {"recall_write", "reimb_read", "proc_pick", "proc_final", "proc_clean"}
         \/ pc[p] \in RatePc /\ pc'[p] \in RatePc /\ todo'[p] \subseteq todo[p] /\ snap'[p] = snap[p]
         \/ /\ pc[p] \in AdjustPc /\ pc'[p] \in AdjustPc
            /\ cur'[p] = cur[p] /\ snap'[p] = snap[p]
         \/ pc'[p] \in RatePc /\ snap'[p] = rec
  PROVE  SerialInv'
<1>1. GrossIncludesAdjustment'
  BY DEF SerialInv, GrossIncludesAdjustment, SameAdjustment
<1>2. \A q \in Procs : q = p
  BY DEF Serial
<1>3. AdjustmentSeen'
  BY <1>2 DEF SerialInv, AdjustmentSeen, SameAdjustment, ReadPc, RatePc, AdjustPc
<1> QED BY <1>1, <1>3 DEF SerialInv

LEMMA SerialEnd ==
  ASSUME Serial, NEW p \in Procs, pc'[p] = "idle", GrossIncludesAdjustment'
  PROVE  SerialInv'
<1>1. \A q \in Procs : pc'[q] = "idle"
  BY DEF Serial
<1>2. AdjustmentSeen'
  BY <1>1 DEF AdjustmentSeen, AdjustPc
<1> QED BY <1>2 DEF SerialInv

LEMMA ComputedAdjustment ==
  ASSUME NEW p \in Procs, NEW u \in Users, NEW by
  PROVE  /\ Computed(p, u, by).adj = rec[u].adj
         /\ Computed(p, u, by).gross.adj = snap[p][u].adj
  BY DEF Computed, GrossOf

LEMMA AdjustedAdjustment ==
  ASSUME NEW old \in Record, NEW row \in Record, NEW v
  PROVE  /\ v = None => /\ Adjusted(old, row, v).adj = old.adj
                        /\ Adjusted(old, row, v).gross.adj = row.adj
         /\ v # None => Adjusted(old, row, v).gross.adj = Adjusted(old, row, v).adj
  BY DEF Adjusted, GrossOf, Record

LEMMA SerialStep ==
  ASSUME Serial, TypeInv, SerialInv, [Next]_vars
  PROVE  SerialInv'
<1>u. CASE UNCHANGED vars
  BY <1>u DEF vars, dbVars, locVars, SerialInv, AdjustmentSeen, GrossIncludesAdjustment
<1>r. /\ rec \in [Users -> Record] /\ pc \in [Procs -> Labels] /\ todo \in [Procs -> SUBSET Users]
      /\ snap \in [Procs -> [Users -> Record]] /\ cur \in [Procs -> Users \cup {None}]
  BY DEF TypeInv, TypeOK
<1>s. ASSUME UNCHANGED rec PROVE SameAdjustment
  BY <1>s DEF SameAdjustment
<1>1. ASSUME NEW p \in Procs, Quiet(p) PROVE SerialInv'
  <2>1. SameAdjustment
    BY <1>1, <1>s DEF Quiet, dbVars
  <2>2. CASE pc'[p] \notin ReadPc
    BY <2>1, <2>2, SerialKeeps
  <2>3. CASE pc'[p] \in ReadPc
    BY <1>1, <2>1, <2>3, SerialKeeps DEF Quiet
  <2> QED BY <2>2, <2>3
<1>2. ASSUME NEW p \in Procs, Touches(p) PROVE SerialInv'
  <2>k. ASSUME SameAdjustment,
               pc'[p] \in {"idle", "recall_write", "reimb_read", "proc_pick", "proc_final", "proc_clean"}
        PROVE  SerialInv'
    BY <2>k, SerialKeeps DEF ReadPc, AdjustPc
  <2>l. ASSUME UNCHANGED rec, pc'[p] \in RatePc, snap'[p] = rec PROVE SerialInv'
    BY <2>l, <1>s, SerialKeeps
  <2>r. ASSUME NEW from \in RatePc, NEW label \in RatePc, ReadAttendance(p, from, label)
        PROVE  SerialInv'
    BY <2>r, <1>s, <1>r, SerialKeeps DEF ReadAttendance, dbVars
  <2>w. ASSUME NEW u \in Users, NEW by, rec' = [rec EXCEPT ![u] = Computed(p, u, by)],
               u \in todo[p], pc[p] \in RatePc
        PROVE  SameAdjustment
    <3>1. rec[u].adj = snap[p][u].adj /\ rec[u].gross.adj = rec[u].adj
      BY <2>w DEF SerialInv, AdjustmentSeen, GrossIncludesAdjustment, RatePc
    <3>2. PICK row : row = Computed(p, u, by)
      OBVIOUS
    <3>3. row.adj = rec[u].adj /\ row.gross.adj = snap[p][u].adj
      BY <3>2, ComputedAdjustment
    <3>4. rec'[u] = row /\ \A w \in Users \ {u} : rec'[w] = rec[w]
      BY <2>w, <3>2, <1>r
    <3> QED BY <3>1, <3>3, <3>4 DEF SameAdjustment
  <2>1. CASE GenerateLoad(p) \/ AutoGenerateStart(p)
    BY <2>1, <2>l, <1>r DEF GenerateLoad, AutoGenerateStart, dbVars, RatePc
  <2>2. CASE GenerateRead(p) \/ AutoGenerateRead(p)
    BY <2>2, <2>r DEF GenerateRead, AutoGenerateRead, RatePc
  <2>3. CASE GenerateWrite(p)
    <3>1. /\ cur[p] \in todo[p] /\ cur[p] \in Users /\ pc[p] \in RatePc /\ pc'[p] \in RatePc
          /\ todo'[p] \subseteq todo[p] /\ UNCHANGED snap
      BY <2>3, <1>r DEF GenerateWrite, Visited, TypeInv, Locals, RatePc
    <3>2. SameAdjustment
      BY <2>3, <3>1, <2>w DEF GenerateWrite
    <3> QED BY <3>1, <3>2, SerialKeeps
  <2>4. CASE AutoGenerateWrite(p)
    <3>1. /\ cur[p] \in todo[p] /\ cur[p] \in Users /\ pc[p] \in RatePc /\ pc'[p] \in RatePc
          /\ todo'[p] \subseteq todo[p] /\ UNCHANGED snap
      BY <2>4, <1>r DEF AutoGenerateWrite, Visited, TypeInv, Locals, RatePc
    <3>2. SameAdjustment
      BY <2>4, <3>1, <2>w, <1>s DEF AutoGenerateWrite
    <3> QED BY <3>1, <3>2, SerialKeeps
  <2>5. ASSUME NEW a \in Makers, NEW u \in Users, NEW v \in AdjustValues \cup {None},
               AdjustRead(p, a, u, v)
        PROVE  SerialInv'
    <3>1. /\ pc'[p] = "adj_lease" /\ cur'[p] = u /\ snap'[p][u] = rec[u] /\ UNCHANGED rec
      BY <2>5, <1>r DEF AdjustRead, dbVars
    <3>2. \A q \in Procs : q = p
      BY DEF Serial
    <3>3. AdjustmentSeen'
      BY <3>1, <3>2 DEF AdjustmentSeen
    <3> QED BY <3>1, <3>3 DEF SerialInv, GrossIncludesAdjustment
  <2>6. CASE AdjustWrite(p)
    <3>1. cur[p] \in Users /\ pc[p] = "adj_write" /\ pc'[p] = "idle"
      BY <2>6, ForgetSame DEF AdjustWrite, Finish, TypeInv, Locals, AdjustPc
    <3>2. CASE snap[p][cur[p]].status = "processed"
      BY <2>6, <3>1, <3>2, <1>s, <2>k DEF AdjustWrite
    <3>3. CASE snap[p][cur[p]].status # "processed"
      <4>1. PICK u \in Users : u = cur[p]
        BY <3>1
      <4>2. PICK row \in Record : row = snap[p][u]
        BY <4>1, <1>r
      <4>3. /\ rec'[u] = Adjusted(rec[u], row, arg[p])
            /\ \A w \in Users \ {u} : rec'[w] = rec[w]
        BY <2>6, <3>3, <4>1, <4>2, <1>r DEF AdjustWrite
      <4>4. row.adj = rec[u].adj
        BY <3>1, <4>1, <4>2 DEF SerialInv, AdjustmentSeen, AdjustPc
      <4>5. rec'[u].gross.adj = rec'[u].adj
        <5>1. PICK new : new = Adjusted(rec[u], row, arg[p])
          OBVIOUS
        <5>2. new.gross.adj = new.adj
          BY <5>1, <4>4, <1>r, AdjustedAdjustment
        <5> QED BY <5>1, <5>2, <4>3
      <4>6. GrossIncludesAdjustment'
        BY <4>3, <4>5 DEF SerialInv, GrossIncludesAdjustment
      <4> QED BY <3>1, <4>6, SerialEnd
    <3> QED BY <3>2, <3>3
  <2>7. ASSUME NEW a \in Checkers, NEW u \in Users, RecallRead(p, a, u) PROVE SerialInv'
    BY <2>7, <1>s, <2>k, <1>r DEF RecallRead, dbVars
  <2>8. CASE RecallWrite(p)
    <3>1. SameAdjustment
      BY <2>8, <1>r DEF RecallWrite, SameAdjustment, Record
    <3> QED BY <2>8, <3>1, <2>k, ForgetSame DEF RecallWrite
  <2>9. CASE ProcessLoad(p) /\ pc'[p] = "proc_pick"
    BY <2>9, <1>s, <2>k DEF ProcessLoad, dbVars
  <2>10. CASE ProcessUpload(p)
    BY <2>10, <1>s, <2>k, <1>r DEF ProcessUpload
  <2>11. CASE ProcessUploadFails(p)
    BY <2>11, <1>s, <2>k, <1>r DEF ProcessUploadFails
  <2>12. CASE ProcessFinalize(p)
    <3>1. SameAdjustment
      BY <2>12, <1>r DEF ProcessFinalize, SameAdjustment, Record
    <3> QED BY <2>12, <3>1, <2>k, <1>r DEF ProcessFinalize, Visited
  <2>13. CASE ProcessRejected(p)
    BY <2>13, <1>s, <2>k, <1>r DEF ProcessRejected, Visited
  <2>13c. CASE ProcessCleanup(p)
    BY <2>13c, <1>s, <2>k, <1>r DEF ProcessCleanup
  <2>14. ASSUME NEW c \in Claims, ReimburseStart(p, c) PROVE SerialInv'
    BY <2>14, <1>s, <2>k, <1>r DEF ReimburseStart, dbVars
  <2>15. CASE ReimburseRead(p) /\ pc'[p] = "reimb_write"
    <3>1. /\ snap' = [snap EXCEPT ![p][cur[p]] = rec[cur[p]]] /\ UNCHANGED <<cur, rec>>
          /\ pc[p] = "reimb_read"
      BY <2>15, ForgetSame DEF ReimburseRead, dbVars
    <3>2. cur[p] \in Users /\ snap'[p][cur[p]] = rec[cur[p]]
      BY <3>1, <1>r DEF TypeInv, Locals
    <3>3. \A q \in Procs : q = p
      BY DEF Serial
    <3>4. AdjustmentSeen'
      BY <2>15, <3>1, <3>2, <3>3 DEF AdjustmentSeen, AdjustPc
    <3> QED BY <3>1, <3>4 DEF SerialInv, GrossIncludesAdjustment
  <2>16. CASE ReimburseWrite(p)
    <3>1. cur[p] \in Users /\ pc'[p] = "idle"
      BY <2>16, ForgetSame DEF ReimburseWrite, TypeInv, Locals
    <3>2. /\ rec'[cur[p]].adj = snap[p][cur[p]].adj + 1
          /\ rec'[cur[p]].gross = GrossOf(snap[p][cur[p]].base, snap[p][cur[p]].adj + 1)
          /\ \A w \in Users \ {cur[p]} : rec'[w] = rec[w]
      BY <2>16, <3>1, <1>r DEF ReimburseWrite, Record
    <3>3. rec'[cur[p]].gross.adj = rec'[cur[p]].adj
      BY <3>2 DEF GrossOf
    <3>4. GrossIncludesAdjustment'
      BY <3>2, <3>3 DEF SerialInv, GrossIncludesAdjustment
    <3> QED BY <3>1, <3>4, SerialEnd
  <2>17. CASE RateWrite(p)
    <3>1. SameAdjustment
      BY <2>17, <1>r DEF RateWrite, NewRates, SameAdjustment, Record
    <3> QED BY <2>17, <3>1, <2>k, ForgetSame DEF RateWrite, Finish
  <2> QED
    BY <1>2, <2>1, <2>2, <2>3, <2>4, <2>5, <2>6, <2>7, <2>8, <2>9, <2>10, <2>11, <2>12,
       <2>13, <2>13c, <2>14, <2>15, <2>16, <2>17 DEF Touches
<1>k. ASSUME SameAdjustment, UNCHANGED <<pc, todo, cur, snap>> PROVE SerialInv'
  BY <1>k, <1>r DEF SerialInv, AdjustmentSeen, GrossIncludesAdjustment, SameAdjustment
<1>3. ASSUME NEW u \in Users, AttendanceWrite(u) PROVE SerialInv'
  <2>1. SameAdjustment
    BY <1>3, <1>r DEF AttendanceWrite, SameAdjustment, Record
  <2> QED BY <1>3, <2>1, <1>k DEF AttendanceWrite, locVars
<1>4. ASSUME NEW u \in Users, UserRateWrite(u) PROVE SerialInv'
  <2>1. SameAdjustment
    BY <1>4, <1>r DEF UserRateWrite, NewRates, SameAdjustment, Record
  <2> QED BY <1>4, <2>1, <1>k DEF UserRateWrite, locVars
<1>5. ASSUME NEW l \in Leases, Expire(l) PROVE SerialInv'
  BY <1>5, <1>s, <1>k DEF Expire, dbVars, locVars
<1> QED
  BY <1>u, <1>1, <1>2, <1>3, <1>4, <1>5, StepKinds

LEMMA SerialInit == Init => SerialInv
  BY DEF Init, SerialInv, AdjustmentSeen, GrossIncludesAdjustment, NoRecord, GrossOf, AdjustPc

\* The gross pay of a record includes its whole manual adjustment, for any number
\* of employees, claims and adjustments, when requests do not overlap.
THEOREM GrossIncludesAdjustmentHolds ==
  ASSUME Serial PROVE Spec => []GrossIncludesAdjustment
<1>1. SerialInv => GrossIncludesAdjustment
  BY DEF SerialInv
<1> QED
  BY <1>1, TypeInit, TypeStep, SerialInit, SerialStep, PTL DEF Spec

\* What is reimbursed is counted with the claims of an employee.
Reimbursed(u) == {c \in Claims : ClaimUser[c] = u /\ claim[c] = "reimbursed"}

LEMMA ClaimKeeps ==
  ASSUME Serial, TypeInv, ClaimInv, UNCHANGED claim, \A u \in Users : rec'[u].adj = rec[u].adj,
         NEW p \in Procs,
         \/ pc'[p] \notin {"reimb_read", "reimb_write"}
         \/ pc[p] \in {"reimb_read", "reimb_write"} /\ UNCHANGED <<arg, cur>>
  PROVE  ClaimInv'
<1>1. \A q \in Procs : q = p
  BY DEF Serial
<1>2. ClaimOpen'
  BY <1>1 DEF ClaimInv, ClaimOpen
<1>3. ReimbursedOnce'
  BY DEF ClaimInv, ReimbursedOnce
<1> QED BY <1>2, <1>3 DEF ClaimInv

\* Every step but a reimbursement leaves the adjustments and the claims alone.
LEMMA ClaimStep ==
  ASSUME Serial, AdjustValues = {}, IsFiniteSet(Claims),
         TypeInv, SerialInv, ClaimInv, [Next]_vars
  PROVE  ClaimInv'
<1>u. CASE UNCHANGED vars
  BY <1>u DEF vars, dbVars, locVars, ClaimInv, ClaimOpen, ReimbursedOnce
<1>r. /\ rec \in [Users -> Record] /\ pc \in [Procs -> Labels] /\ arg \in [Procs -> Claims \cup AdjustValues \cup {None}]
      /\ snap \in [Procs -> [Users -> Record]] /\ cur \in [Procs -> Users \cup {None}]
      /\ claim \in [Claims -> {"approved", "reimbursed"}]
  BY DEF TypeInv, TypeOK
<1>1. ASSUME NEW p \in Procs, Quiet(p) PROVE ClaimInv'
  BY <1>1, ClaimKeeps DEF Quiet, dbVars, ReadPc, AdjustPc
<1>2. ASSUME NEW p \in Procs, Touches(p) PROVE ClaimInv'
  <2>k. ASSUME UNCHANGED claim, \A u \in Users : rec'[u].adj = rec[u].adj,
               pc'[p] \notin {"reimb_read", "reimb_write"}
        PROVE  ClaimInv'
    BY <2>k, ClaimKeeps
  <2>w. ASSUME NEW u \in Users, NEW by, rec' = [rec EXCEPT ![u] = Computed(p, u, by)]
        PROVE  \A w \in Users : rec'[w].adj = rec[w].adj
    <3>1. PICK row : row = Computed(p, u, by)
      OBVIOUS
    <3>2. row.adj = rec[u].adj
      BY <3>1, ComputedAdjustment
    <3> QED BY <2>w, <3>1, <3>2, <1>r
  <2>1. CASE GenerateLoad(p) \/ AutoGenerateStart(p)
    BY <2>1, <2>k, <1>r DEF GenerateLoad, AutoGenerateStart, dbVars
  <2>2. CASE GenerateRead(p) \/ AutoGenerateRead(p)
    BY <2>2, <2>k, <1>r DEF GenerateRead, AutoGenerateRead, ReadAttendance, dbVars
  <2>3. CASE GenerateWrite(p)
    <3>1. cur[p] \in Users
      BY <2>3 DEF GenerateWrite, TypeInv, TypeOK, Locals
    <3>2. \A w \in Users : rec'[w].adj = rec[w].adj
      BY <2>3, <3>1, <2>w DEF GenerateWrite
    <3> QED BY <2>3, <3>2, <2>k, <1>r DEF GenerateWrite, Visited
  <2>4. CASE AutoGenerateWrite(p)
    <3>1. cur[p] \in Users
      BY <2>4 DEF AutoGenerateWrite, TypeInv, TypeOK, Locals
    <3>2. \A w \in Users : rec'[w].adj = rec[w].adj
      BY <2>4, <3>1, <2>w DEF AutoGenerateWrite
    <3> QED BY <2>4, <3>2, <2>k, <1>r DEF AutoGenerateWrite, Visited
  <2>5. ASSUME NEW a \in Makers, NEW u \in Users, NEW v \in AdjustValues \cup {None},
               AdjustRead(p, a, u, v)
        PROVE  ClaimInv'
    BY <2>5, <2>k, <1>r DEF AdjustRead, dbVars
  <2>6. CASE AdjustWrite(p)
    <3>1. cur[p] \in Users /\ arg[p] = None /\ pc'[p] = "idle" /\ UNCHANGED claim
      BY <2>6, ForgetSame DEF AdjustWrite, Finish, TypeInv, Locals, AdjustPc
    <3>2. \A old \in Record : \A row : Adjusted(old, row, None).adj = old.adj
      BY DEF Adjusted, Record
    <3>3. \A w \in Users : rec'[w].adj = rec[w].adj
      BY <2>6, <3>1, <3>2, <1>r DEF AdjustWrite
    <3> QED BY <3>1, <3>3, <2>k
  <2>7. ASSUME NEW a \in Checkers, NEW u \in Users, RecallRead(p, a, u) PROVE ClaimInv'
    BY <2>7, <2>k, <1>r DEF RecallRead, dbVars
  <2>8. CASE RecallWrite(p)
    <3>1. \A w \in Users : rec'[w].adj = rec[w].adj
      BY <2>8, <1>r DEF RecallWrite, Record
    <3> QED BY <2>8, <3>1, <2>k, ForgetSame DEF RecallWrite
  <2>9. CASE ProcessLoad(p) /\ pc'[p] = "proc_pick"
    BY <2>9, <2>k DEF ProcessLoad, dbVars
  <2>10. CASE ProcessUpload(p)
    BY <2>10, <2>k, <1>r DEF ProcessUpload
  <2>11. CASE ProcessUploadFails(p)
    BY <2>11, <2>k, <1>r DEF ProcessUploadFails
  <2>12. CASE ProcessFinalize(p)
    <3>1. \A w \in Users : rec'[w].adj = rec[w].adj
      BY <2>12, <1>r DEF ProcessFinalize, Record
    <3> QED BY <2>12, <3>1, <2>k, <1>r DEF ProcessFinalize, Visited
  <2>13. CASE ProcessRejected(p)
    BY <2>13, <2>k, <1>r DEF ProcessRejected, Visited
  <2>13c. CASE ProcessCleanup(p)
    BY <2>13c, <2>k, <1>r DEF ProcessCleanup, locVars
  <2>14. ASSUME NEW c \in Claims, ReimburseStart(p, c) PROVE ClaimInv'
    <3>1. /\ pc'[p] = "reimb_read" /\ arg'[p] = c /\ cur'[p] = ClaimUser[c]
          /\ claim[c] = "approved" /\ UNCHANGED <<rec, claim>>
      BY <2>14, <1>r DEF ReimburseStart, dbVars
    <3>2. ClaimOpen'
      BY <3>1 DEF ClaimOpen, Serial
    <3> QED BY <3>1, <3>2 DEF ClaimInv, ReimbursedOnce
  <2>15. CASE ReimburseRead(p) /\ pc'[p] = "reimb_write"
    <3>1. /\ pc[p] = "reimb_read" /\ UNCHANGED <<rec, claim, arg, cur>>
      BY <2>15, ForgetSame DEF ReimburseRead, dbVars
    <3> QED BY <3>1, ClaimKeeps
  <2>16. CASE ReimburseWrite(p)
    <3>1. /\ cur[p] \in Users /\ arg[p] \in Claims /\ pc[p] = "reimb_write" /\ pc'[p] = "idle"
          /\ claim' = [claim EXCEPT ![arg[p]] = "reimbursed"]
      BY <2>16, ForgetSame DEF ReimburseWrite, TypeInv, Locals
    <3>2. PICK u \in Users, c \in Claims : u = cur[p] /\ c = arg[p]
      BY <3>1
    <3>3. rec'[u].adj = snap[p][u].adj + 1 /\ \A w \in Users \ {u} : rec'[w] = rec[w]
      BY <2>16, <3>2, <1>r DEF ReimburseWrite, Record
    <3>4. snap[p][u].adj = rec[u].adj
      BY <3>1, <3>2 DEF SerialInv, AdjustmentSeen
    <3>5. claim[c] = "approved" /\ ClaimUser[c] = u
      BY <3>1, <3>2 DEF ClaimInv, ClaimOpen
    <3>6. /\ Reimbursed(u)' = Reimbursed(u) \cup {c} /\ c \notin Reimbursed(u)
          /\ \A w \in Users \ {u} : Reimbursed(w)' = Reimbursed(w)
      BY <3>1, <3>2, <3>5, <1>r DEF Reimbursed
    <3>7. Reimbursed(u) \in SUBSET Claims
      BY DEF Reimbursed
    <3>8. IsFiniteSet(Reimbursed(u))
      BY <3>7, FS_Subset
    <3>9. Cardinality(Reimbursed(u) \cup {c}) = Cardinality(Reimbursed(u)) + 1
      BY <3>6, <3>8, FS_AddElement
    <3>10. \A w \in Users : rec[w].adj = Cardinality(Reimbursed(w))
      BY DEF ClaimInv, ReimbursedOnce, Reimbursed
    <3>11. \A w \in Users : rec'[w].adj = Cardinality(Reimbursed(w)')
      BY <3>3, <3>4, <3>6, <3>9, <3>10
    <3>12. ReimbursedOnce'
      BY <3>11 DEF ReimbursedOnce, Reimbursed
    <3>13. ClaimOpen'
      BY <3>1 DEF ClaimOpen, Serial
    <3> QED BY <3>12, <3>13 DEF ClaimInv
  <2>17. CASE RateWrite(p)
    <3>1. \A w \in Users : rec'[w].adj = rec[w].adj
      BY <2>17, <1>r DEF RateWrite, NewRates, Record
    <3> QED BY <2>17, <3>1, <2>k, ForgetSame DEF RateWrite, Finish
  <2> QED
    BY <1>2, <2>1, <2>2, <2>3, <2>4, <2>5, <2>6, <2>7, <2>8, <2>9, <2>10, <2>11, <2>12,
       <2>13, <2>13c, <2>14, <2>15, <2>16, <2>17 DEF Touches
<1>k. ASSUME \A w \in Users : rec'[w].adj = rec[w].adj, UNCHANGED <<claim, pc, arg, cur>>
      PROVE  ClaimInv'
  BY <1>k DEF ClaimInv, ClaimOpen, ReimbursedOnce
<1>3. ASSUME NEW u \in Users, AttendanceWrite(u) PROVE ClaimInv'
  <2>1. \A w \in Users : rec'[w].adj = rec[w].adj
    BY <1>3, <1>r DEF AttendanceWrite, Record
  <2> QED BY <1>3, <2>1, <1>k DEF AttendanceWrite, locVars
<1>4. ASSUME NEW u \in Users, UserRateWrite(u) PROVE ClaimInv'
  <2>1. \A w \in Users : rec'[w].adj = rec[w].adj
    BY <1>4, <1>r DEF UserRateWrite, NewRates, Record
  <2> QED BY <1>4, <2>1, <1>k DEF UserRateWrite, locVars
<1>5. ASSUME NEW l \in Leases, Expire(l) PROVE ClaimInv'
  BY <1>5, <1>k DEF Expire, dbVars, locVars
<1> QED
  BY <1>u, <1>1, <1>2, <1>3, <1>4, <1>5, StepKinds

\* Reimbursed claims are paid once each, for any number of employees and claims,
\* when requests do not overlap and nothing else sets the adjustment, whatever is
\* generated, processed, recalled, aborted or crashed in between.
THEOREM ReimbursedOnceHolds ==
  ASSUME Serial, AdjustValues = {}, IsFiniteSet(Claims) PROVE Spec => []ReimbursedOnce
<1>1. Init => ClaimInv
  <2> SUFFICES ASSUME Init PROVE ClaimInv
    OBVIOUS
  <2>1. \A u \in Users : {c \in Claims : ClaimUser[c] = u /\ claim[c] = "reimbursed"} = {}
    BY DEF Init
  <2>2. Cardinality({}) = 0
    BY FS_EmptySet
  <2>3. \A u \in Users : rec[u].adj = 0
    BY DEF Init, NoRecord
  <2>4. ReimbursedOnce
    BY <2>1, <2>2, <2>3 DEF ReimbursedOnce
  <2> QED BY <2>4 DEF Init, ClaimInv, ClaimOpen
<1>2. ClaimInv => ReimbursedOnce
  BY DEF ClaimInv
<1>3. TypeInv /\ SerialInv /\ ClaimInv /\ [Next]_vars => TypeInv' /\ SerialInv' /\ ClaimInv'
  BY TypeStep, SerialStep, ClaimStep
<1> QED
  BY <1>1, <1>2, <1>3, TypeInit, SerialInit, PTL DEF Spec

=============================================================================
