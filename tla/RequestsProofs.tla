--------------------------- MODULE RequestsProofs ---------------------------
(***************************************************************************)
(* Proofs about the requests that somebody decides: the weekly timesheets    *)
(* and the locks of their time entries (Timesheets), overtime, expenses,     *)
(* remote work, late notices, corrections and availability (Approvals), and  *)
(* leave with its balances, accrual and attendance rows (LeaveRequests).     *)
(***************************************************************************)
EXTENDS Approvals, Timesheets, FiniteSetTheorems, TLAPS

-----------------------------------------------------------------------------
(* Time entries and timesheets *)

SheetSpec == SheetInit /\ [][SheetNext]_sheetVars

LEMMA SheetNumbers == LastInstant \in Nat /\ WeekEnd \in Nat /\ Running = LastInstant + 1 /\ Instants = 0 .. LastInstant
  BY TimesheetAssumption DEF Running, Instants

LEMMA EntryFields ==
  ASSUME SheetTypeOK, NEW e \in Entries
  PROVE  /\ entry[e] \in Entry /\ entry[e].start \in Instants /\ entry[e].end \in 0 .. Running
         /\ entry[e].start \in Nat /\ entry[e].end \in Nat
         /\ entry[e].status \in {"none", "draft", "submitted", "locked", "rejected"}
<1>1. entry[e] \in Entry BY DEF SheetTypeOK
<1> QED BY <1>1, SheetNumbers DEF Entry

LEMMA SheetInvInit == SheetInit => TimesheetsSafe
<1> SUFFICES ASSUME SheetInit PROVE TimesheetsSafe OBVIOUS
<1>1. NoEntry \in Entry BY SheetNumbers DEF NoEntry, Entry
<1>2. SheetTypeOK BY <1>1, SheetNumbers DEF SheetInit, SheetTypeOK
<1>3. Kept = {} BY DEF SheetInit, Kept, NoEntry
<1> QED BY <1>2, <1>3 DEF TimesheetsSafe, EntriesDisjoint, EntryFollowsSheet

\* One entry becomes the interval of a draft that overlaps no other, whatever
\* it was before: a timer or a manual entry that begins, or one that is moved.
LEMMA DraftPlaced ==
  ASSUME TimesheetsSafe, NEW e \in Entries, NEW start \in Instants, NEW end \in 0 .. Running,
         UNCHANGED <<now, sheet, looking>>,
         entry' = [entry EXCEPT ![e] = [start |-> start, end |-> end, status |-> "draft"]],
         \A f \in Kept \ {e} : entry[f].end <= start \/ end <= entry[f].start
  PROVE  TimesheetsSafe'
<1> USE DEF TimesheetsSafe
<1> DEFINE r == [start |-> start, end |-> end, status |-> "draft"]
<1>1. r \in Entry /\ r.start = start /\ r.end = end /\ r.status = "draft" BY DEF Entry
<1>2. entry' = [entry EXCEPT ![e] = r] OBVIOUS
<1> HIDE DEF r
<1>3. entry'[e] = r /\ (\A f \in Entries \ {e} : entry'[f] = entry[f]) /\ SheetTypeOK' BY <1>1, <1>2 DEF SheetTypeOK
<1>4. \A f \in Kept' : f = e \/ (f \in Kept \ {e} /\ entry'[f] = entry[f]) BY <1>3 DEF Kept
<1>5. EntriesDisjoint' BY <1>1, <1>3, <1>4 DEF EntriesDisjoint
<1>6. EntryFollowsSheet' BY <1>1, <1>3, <1>4 DEF EntryFollowsSheet, IsRunning
<1> QED BY <1>3, <1>5, <1>6

LEMMA StartTimerSheet == ASSUME TimesheetsSafe, StartTimer PROVE TimesheetsSafe'
<1>1. PICK e \in Entries \ Kept : entry' = [entry EXCEPT ![e] = [start |-> now, end |-> Running, status |-> "draft"]]
  BY DEF StartTimer
<1>2. now \in Instants /\ Running \in 0 .. Running BY SheetNumbers DEF TimesheetsSafe, SheetTypeOK
<1>3. \A f \in Kept : entry[f].end <= now BY DEF StartTimer, MayStart
<1> QED BY <1>1, <1>2, <1>3, DraftPlaced DEF StartTimer

\* What does not overlap is disjoint, a running timer included.
LEMMA NotOverlapping ==
  ASSUME SheetTypeOK, NEW start \in Instants, NEW end \in Instants, NEW S, Overlapping(start, end, S) = {}
  PROVE  end \in 0 .. Running /\ \A f \in Kept \ S : entry[f].end <= start \/ end <= entry[f].start
<1>1. end \in 0 .. Running /\ start \in Nat /\ end \in Nat BY SheetNumbers
<1>2. ASSUME NEW f \in Kept \ S PROVE entry[f].end <= start \/ end <= entry[f].start
  <2>1. ~(entry[f].start < end /\ (IsRunning(f) \/ entry[f].end > start)) BY <1>2 DEF Overlapping
  <2>2. entry[f].start \in Nat /\ entry[f].end \in Nat BY EntryFields DEF Kept
  <2> QED BY <1>1, <2>1, <2>2
<1> QED BY <1>1, <1>2

LEMMA CreateEntrySheet ==
  ASSUME TimesheetsSafe, NEW start \in Instants, NEW end \in Instants, CreateEntry(start, end) PROVE TimesheetsSafe'
<1>1. PICK e \in Entries \ Kept : entry' = [entry EXCEPT ![e] = [start |-> start, end |-> end, status |-> "draft"]]
  BY DEF CreateEntry
<1>2. end \in 0 .. Running /\ \A f \in Kept \ {} : entry[f].end <= start \/ end <= entry[f].start
  BY NotOverlapping DEF CreateEntry, TimesheetsSafe
<1> QED BY <1>1, <1>2, DraftPlaced DEF CreateEntry

LEMMA EditEntrySheet ==
  ASSUME TimesheetsSafe, NEW e \in Entries, NEW start \in Instants, NEW end \in Instants, EditEntry(e, start, end)
  PROVE  TimesheetsSafe'
<1>1. end \in 0 .. Running /\ \A f \in Kept \ {e} : entry[f].end <= start \/ end <= entry[f].start
  BY NotOverlapping DEF EditEntry, TimesheetsSafe
<1> QED BY <1>1, DraftPlaced DEF EditEntry

LEMMA StopTimerSheet == ASSUME TimesheetsSafe, StopTimer PROVE TimesheetsSafe'
<1> USE DEF TimesheetsSafe
<1>1. PICK e \in Kept : IsRunning(e) /\ entry[e].status = "draft" /\ entry' = [entry EXCEPT ![e].end = now]
  BY DEF StopTimer
<1> DEFINE r == [entry[e] EXCEPT !.end = now]
<1>2. now \in Nat /\ now \in 0 .. Running /\ now <= Running BY SheetNumbers DEF SheetTypeOK
<1>3. e \in Entries /\ r \in Entry /\ r.start = entry[e].start /\ r.end = now /\ r.status = "draft"
  BY <1>1, <1>2, EntryFields DEF Entry, Kept
<1>4. entry' = [entry EXCEPT ![e] = r] BY <1>1
<1> HIDE DEF r
<1>5. entry'[e] = r /\ (\A f \in Entries \ {e} : entry'[f] = entry[f]) /\ entry' \in [Entries -> Entry]
  BY <1>3, <1>4 DEF SheetTypeOK
<1>6. SheetTypeOK' /\ UNCHANGED <<now, sheet, looking>> BY <1>5 DEF SheetTypeOK, StopTimer
<1>7. Kept' = Kept BY <1>1, <1>3, <1>5 DEF Kept
<1>8. EntriesDisjoint'
  <2> SUFFICES ASSUME NEW f \in Kept, NEW g \in Kept, f # g
               PROVE  entry'[f].end <= entry'[g].start \/ entry'[g].end <= entry'[f].start
    BY <1>7 DEF EntriesDisjoint
  <2>1. f \in Entries /\ g \in Entries BY DEF Kept
  <2>2. \A h \in Entries : entry'[h].start = entry[h].start /\ entry'[h].end <= entry[h].end /\ entry'[h].end \in Nat
    BY <1>1, <1>2, <1>3, <1>5, EntryFields DEF IsRunning
  <2>3. entry[f].end <= entry[g].start \/ entry[g].end <= entry[f].start BY DEF EntriesDisjoint
  <2> QED BY <2>1, <2>2, <2>3, EntryFields
<1>9. EntryFollowsSheet' BY <1>3, <1>5, <1>6, <1>7 DEF EntryFollowsSheet, IsRunning, Kept
<1> QED BY <1>6, <1>8, <1>9

\* The entries keep their intervals and some change their status.
LEMMA StatusSet ==
  ASSUME TimesheetsSafe, NEW S \in SUBSET Kept, NEW s \in {"submitted", "locked", "rejected"},
         entry' = [e \in Entries |-> IF e \in S THEN [entry[e] EXCEPT !.status = s] ELSE entry[e]]
  PROVE  /\ entry' \in [Entries -> Entry] /\ Kept' = Kept
         /\ \A e \in Entries : /\ entry'[e].start = entry[e].start /\ entry'[e].end = entry[e].end
                               /\ entry'[e].status = IF e \in S THEN s ELSE entry[e].status
                               /\ e \notin S => entry'[e] = entry[e]
         /\ EntriesDisjoint'
<1> USE DEF TimesheetsSafe
<1>1. ASSUME NEW e \in Entries
      PROVE  /\ entry'[e] \in Entry /\ entry'[e].start = entry[e].start /\ entry'[e].end = entry[e].end
             /\ entry'[e].status = IF e \in S THEN s ELSE entry[e].status
             /\ e \notin S => entry'[e] = entry[e]
  BY EntryFields DEF Entry
<1>2. entry' \in [Entries -> Entry] BY <1>1
<1>3. Kept' = Kept BY <1>1 DEF Kept
<1>4. EntriesDisjoint' BY <1>1, <1>3 DEF EntriesDisjoint, Kept
<1> QED BY <1>1, <1>2, <1>3, <1>4

LEMMA SubmitSheet == ASSUME TimesheetsSafe, NEW k \in Weeks, Submit(k) PROVE TimesheetsSafe'
<1> USE DEF TimesheetsSafe
<1> DEFINE S == {e \in InWeek(k) : Editable(e)}
<1>1. /\ sheet[k] \in {"none", "rejected"} /\ sheet' = [sheet EXCEPT ![k] = "submitted"] /\ UNCHANGED <<now, looking>>
      /\ entry' = [e \in Entries |-> IF e \in S THEN [entry[e] EXCEPT !.status = "submitted"] ELSE entry[e]]
  BY DEF Submit, MaySubmit
<1>2. S \subseteq Kept BY DEF InWeek
<1>3. /\ entry' \in [Entries -> Entry] /\ Kept' = Kept /\ EntriesDisjoint'
      /\ \A e \in Entries : /\ entry'[e].start = entry[e].start /\ entry'[e].end = entry[e].end
                            /\ entry'[e].status = IF e \in S THEN "submitted" ELSE entry[e].status
  BY <1>1, <1>2, StatusSet
<1>4. SheetTypeOK' BY <1>1, <1>3 DEF SheetTypeOK
<1>5. sheet'[k] = "submitted" /\ \A j \in Weeks \ {k} : sheet'[j] = sheet[j] BY <1>1 DEF SheetTypeOK
<1>6. EntryFollowsSheet'
  <2> SUFFICES ASSUME NEW e \in Kept
               PROVE  /\ entry'[e].status = "submitted" => sheet'[WeekOf(entry'[e].start)] = "submitted"
                      /\ entry'[e].status = "locked" => sheet'[WeekOf(entry'[e].start)] = "locked"
                      /\ entry'[e].status # "draft" => entry'[e].end # Running
    BY <1>3 DEF EntryFollowsSheet, IsRunning, WeekOf
  <2>1. e \in Entries /\ WeekOf(entry[e].start) \in Weeks BY DEF Kept, WeekOf, Weeks
  <2>2. WeekOf(entry'[e].start) = WeekOf(entry[e].start) BY <1>3, <2>1
  <2>3. CASE e \in S BY <2>1, <2>2, <2>3, <1>3, <1>5 DEF InWeek, Editable, IsRunning
  <2>4. CASE e \notin S BY <2>1, <2>2, <2>4, <1>1, <1>3, <1>5 DEF EntryFollowsSheet, IsRunning
  <2> QED BY <2>3, <2>4
<1> QED BY <1>3, <1>4, <1>6

LEMMA ReviewSheet == ASSUME TimesheetsSafe, NEW v \in Reviewers, Review(v) PROVE TimesheetsSafe'
<1> USE DEF TimesheetsSafe
<1>1. PICK k, target : k = looking[v].week /\ target = IF looking[v].action = "approve" THEN "locked" ELSE "rejected"
  OBVIOUS
<1>2. k \in Weeks /\ target \in {"locked", "rejected"} BY <1>1 DEF SheetTypeOK, Review
<1>3. looking' \in [Reviewers -> [week : Weeks, action : {"approve", "reject"}] \cup {NotLooking}] /\ UNCHANGED now
  BY DEF Review, SheetTypeOK
<1>4. CASE sheet[k] = "submitted"
  <2>0. PICK S : S = {e \in Entries : Reviewed(e, k)} OBVIOUS
  <2>1. /\ sheet' = [sheet EXCEPT ![k] = target]
        /\ entry' = [e \in Entries |-> IF Reviewed(e, k) THEN [entry[e] EXCEPT !.status = target] ELSE entry[e]]
    BY <1>1, <1>4 DEF Review
  <2>2. entry' = [e \in Entries |-> IF e \in S THEN [entry[e] EXCEPT !.status = target] ELSE entry[e]] BY <2>0, <2>1
  <2>3. S \subseteq Kept BY <2>0 DEF Reviewed, InWeek
  <2>4. /\ entry' \in [Entries -> Entry] /\ Kept' = Kept /\ EntriesDisjoint'
        /\ \A e \in Entries : /\ entry'[e].start = entry[e].start /\ entry'[e].end = entry[e].end
                              /\ entry'[e].status = IF e \in S THEN target ELSE entry[e].status
    <3> HIDE DEF TimesheetsSafe
    <3>1. CASE target = "locked"
      <4>1. entry' = [e \in Entries |-> IF e \in S THEN [entry[e] EXCEPT !.status = "locked"] ELSE entry[e]] BY <2>2, <3>1
      <4>2. /\ entry' \in [Entries -> Entry] /\ Kept' = Kept /\ EntriesDisjoint'
            /\ \A e \in Entries : /\ entry'[e].start = entry[e].start /\ entry'[e].end = entry[e].end
                                  /\ entry'[e].status = IF e \in S THEN "locked" ELSE entry[e].status
        BY <2>3, <4>1, StatusSet
      <4> QED BY <3>1, <4>2
    <3>2. CASE target = "rejected" BY <2>2, <2>3, <3>2, StatusSet
    <3> QED BY <1>2, <3>1, <3>2
  <2>5. SheetTypeOK' BY <1>2, <1>3, <2>1, <2>4 DEF SheetTypeOK
  <2>6. sheet'[k] = target /\ \A j \in Weeks \ {k} : sheet'[j] = sheet[j] BY <1>2, <2>1 DEF SheetTypeOK
  <2>7. EntryFollowsSheet'
    <3> SUFFICES ASSUME NEW e \in Kept
                 PROVE  /\ entry'[e].status = "submitted" => sheet'[WeekOf(entry'[e].start)] = "submitted"
                        /\ entry'[e].status = "locked" => sheet'[WeekOf(entry'[e].start)] = "locked"
                        /\ entry'[e].status # "draft" => entry'[e].end # Running
      BY <2>4 DEF EntryFollowsSheet, IsRunning, WeekOf
    <3>1. e \in Entries /\ WeekOf(entry[e].start) \in Weeks BY DEF Kept, WeekOf, Weeks
    <3>2. WeekOf(entry'[e].start) = WeekOf(entry[e].start) BY <2>4, <3>1
    <3>3. CASE e \in S BY <1>2, <2>0, <3>1, <3>2, <3>3, <2>4, <2>6 DEF Reviewed, InWeek, EntryFollowsSheet, IsRunning
    <3>4. CASE e \notin S BY <1>4, <2>0, <3>1, <3>2, <3>4, <2>4, <2>6 DEF Reviewed, InWeek, EntryFollowsSheet, IsRunning
    <3> QED BY <3>3, <3>4
  <2> QED BY <2>4, <2>5, <2>7
<1>5. CASE sheet[k] # "submitted"
  <2>1. UNCHANGED <<entry, sheet>> BY <1>1, <1>5 DEF Review
  <2> QED BY <1>3, <2>1 DEF SheetTypeOK, EntriesDisjoint, EntryFollowsSheet, Kept, IsRunning, WeekOf
<1> QED BY <1>4, <1>5

LEMMA SheetNextInv == TimesheetsSafe /\ [SheetNext]_sheetVars => TimesheetsSafe'
<1> SUFFICES ASSUME TimesheetsSafe, [SheetNext]_sheetVars PROVE TimesheetsSafe' OBVIOUS
<1>1. ASSUME UNCHANGED <<entry, sheet>>, now' \in Instants,
             looking' \in [Reviewers -> [week : Weeks, action : {"approve", "reject"}] \cup {NotLooking}]
      PROVE  TimesheetsSafe'
  BY <1>1 DEF TimesheetsSafe, SheetTypeOK, EntriesDisjoint, EntryFollowsSheet, Kept, IsRunning, WeekOf
<1>2. CASE UNCHANGED sheetVars BY <1>1, <1>2 DEF sheetVars, TimesheetsSafe, SheetTypeOK
<1>3. CASE SheetTick
  <2>1. now' \in Instants BY <1>3, SheetNumbers DEF SheetTick, TimesheetsSafe, SheetTypeOK
  <2> QED BY <1>1, <1>3, <2>1 DEF SheetTick, TimesheetsSafe, SheetTypeOK
<1>4. ASSUME NEW v \in Reviewers, NEW k \in Weeks, NEW action \in {"approve", "reject"}, Look(v, k, action) PROVE TimesheetsSafe'
  BY <1>1, <1>4 DEF Look, TimesheetsSafe, SheetTypeOK
<1> QED BY <1>2, <1>3, <1>4, StartTimerSheet, StopTimerSheet, CreateEntrySheet, EditEntrySheet, SubmitSheet, ReviewSheet DEF SheetNext

\* In any interleaving of timers, manual entries, edits, submissions, check-outs
\* and reviews, for any number of entries and reviewers, no instant is counted
\* twice and no entry falls behind the timesheet of its week: the lock of the
\* employee and the conditional updates suffice (routes/time-tracking.ts).
THEOREM TimesheetsHold == SheetSpec => []TimesheetsSafe
<1>1. SheetInit => TimesheetsSafe BY SheetInvInit
<1>2. TimesheetsSafe /\ [SheetNext]_sheetVars => TimesheetsSafe' BY SheetNextInv
<1> QED BY <1>1, <1>2, PTL DEF SheetSpec

\* A timesheet that was locked stays locked, the entries locked with it never
\* change again, and one under review changes only by the review.
THEOREM LocksHold == SheetSpec => LockedStands
<1> DEFINE Stands == /\ \A k \in Weeks : sheet[k] = "locked" => sheet'[k] = "locked"
                     /\ \A e \in Entries : entry[e].status = "locked" => entry'[e] = entry[e]
                     /\ \A e \in Entries : entry[e].status = "submitted" =>
                          entry'[e].start = entry[e].start /\ entry'[e].end = entry[e].end
<1>1. TimesheetsSafe /\ [SheetNext]_sheetVars => [Stands]_sheetVars
  <2> SUFFICES ASSUME TimesheetsSafe, SheetNext PROVE Stands OBVIOUS
  <2>0. SheetTypeOK BY DEF TimesheetsSafe
  <2>1. ASSUME UNCHANGED sheet, NEW e \in Entries, NEW r, entry' = [entry EXCEPT ![e] = r],
               entry[e].status \notin {"locked", "submitted"} PROVE Stands
    BY <2>0, <2>1 DEF SheetTypeOK
  <2>2. CASE StartTimer BY <2>1, <2>2 DEF StartTimer, Kept
  <2>3. CASE StopTimer
    <3>1. PICK e \in Kept : entry[e].status = "draft" /\ entry' = [entry EXCEPT ![e].end = now] BY <2>3 DEF StopTimer
    <3> QED BY <3>1, <2>1, <2>3 DEF StopTimer, Kept
  <2>4. ASSUME NEW start \in Instants, NEW end \in Instants, CreateEntry(start, end) PROVE Stands
    BY <2>1, <2>4 DEF CreateEntry, Kept
  <2>5. ASSUME NEW e \in Entries, NEW start \in Instants, NEW end \in Instants, EditEntry(e, start, end) PROVE Stands
    BY <2>1, <2>5 DEF EditEntry, Editable
  <2>6. ASSUME NEW k \in Weeks, Submit(k) PROVE Stands
    <3> DEFINE S == {e \in InWeek(k) : Editable(e)}
    <3>1. /\ sheet[k] \in {"none", "rejected"} /\ sheet' = [sheet EXCEPT ![k] = "submitted"]
          /\ entry' = [e \in Entries |-> IF e \in S THEN [entry[e] EXCEPT !.status = "submitted"] ELSE entry[e]]
      BY <2>6 DEF Submit, MaySubmit
    <3>2. \A e \in S : entry[e].status \in {"draft", "rejected"} BY DEF Editable
    <3> HIDE DEF S
    <3> QED BY <2>0, <3>1, <3>2 DEF SheetTypeOK
  <2>7. ASSUME NEW v \in Reviewers, Review(v) PROVE Stands
    <3>1. PICK k, target : k = looking[v].week /\ target = IF looking[v].action = "approve" THEN "locked" ELSE "rejected"
      OBVIOUS
    <3>2. CASE sheet[k] = "submitted"
      <4> DEFINE S == {e \in Entries : Reviewed(e, k)}
      <4>1. /\ sheet' = [sheet EXCEPT ![k] = target]
            /\ entry' = [e \in Entries |-> IF e \in S THEN [entry[e] EXCEPT !.status = target] ELSE entry[e]]
        BY <2>7, <3>1, <3>2 DEF Review
      <4>2. \A e \in S : entry[e].status = "submitted" BY DEF Reviewed
      <4>3. S \subseteq Kept BY DEF Reviewed, InWeek
      <4>4. target \in {"locked", "rejected"} BY <3>1
      <4>5. \A e \in Entries : /\ entry'[e].start = entry[e].start /\ entry'[e].end = entry[e].end
                               /\ e \notin S => entry'[e] = entry[e]
        BY <4>1, <4>3, <4>4, StatusSet
      <4> HIDE DEF S
      <4> QED BY <2>0, <3>2, <4>1, <4>2, <4>5 DEF SheetTypeOK
    <3>3. CASE sheet[k] # "submitted" BY <2>7, <3>1, <3>3 DEF Review
    <3> QED BY <3>2, <3>3
  <2>8. CASE SheetTick BY <2>8 DEF SheetTick
  <2>9. ASSUME NEW v \in Reviewers, NEW k \in Weeks, NEW action \in {"approve", "reject"}, Look(v, k, action) PROVE Stands
    BY <2>9 DEF Look
  <2> QED BY <2>2, <2>3, <2>4, <2>5, <2>6, <2>7, <2>8, <2>9 DEF SheetNext
<1> QED BY <1>1, TimesheetsHold, PTL DEF SheetSpec, LockedStands
-----------------------------------------------------------------------------
(* Approvals *)

ApprovalSpec == ApprovalInit /\ [][ApprovalNext]_approvalVars

\* What a decision in progress has read.
Decision == [op : {"inbox", "page"}, i : Items, approve : BOOLEAN, extra : 0 .. MaxWorked, minutes : 0 .. MaxWorked]
Reviews == Decision \cup [op : {"delete", "cancel"}, i : Items] \cup [op : {"overtime"}, minutes : 0 .. MaxWorked]
             \cup [op : {"correction"}] \cup {NoReview}
ReviewsTyped == review \in [Desks -> Reviews]

\* A request keeps its kind while somebody decides it; only availability is deleted.
KindsKnown ==
  \A w \in Desks : \A i \in Items : review[w].op \in {"inbox", "page", "delete", "cancel"} /\ review[w].i = i =>
    /\ review[w].op = "inbox" => i \in Filed /\ item[i].kind \in Inbox
    /\ review[w].op = "page" /\ i \in Filed => item[i].kind \in Direct
    /\ review[w].op = "delete" /\ i \in Filed => item[i].kind = "availability"
    /\ review[w].op = "cancel" => i \in Filed /\ item[i].kind = "late_notice"

\* A pending request is not decided, an approved one has its effect.
DecidedAsStatus ==
  \A i \in Filed : ~item[i].raced =>
    /\ item[i].decided <= (IF item[i].status = "pending" THEN 0 ELSE 1)
    /\ item[i].applied = IF item[i].status = "approved" THEN 1 ELSE 0

\* All minutes are minutes of the row; it has one overtime request.
MinutesWorked ==
  /\ \A i \in Filed : item[i].minutes <= day.worked
  /\ \A w \in Desks : /\ review[w].op \in {"inbox", "page"} => review[w].minutes <= day.worked /\ review[w].extra <= day.worked
                      /\ review[w].op = "overtime" => review[w].minutes <= day.worked
OneOvertime == \A i, j \in OfKind("overtime") : i = j

\* Until overtime is approved all minutes are extra, and a decision that is not
\* stale has read them.
NothingCredited == day.overtime = 0 /\ day.extra = day.worked
AllExtra ==
  /\ OfKind("overtime") = {} => NothingCredited
  /\ \A i \in OfKind("overtime") : ~item[i].raced /\ item[i].status # "approved" =>
       /\ NothingCredited
       /\ ~item[i].stale => \A w \in Desks : review[w].op \in {"inbox", "page"} /\ review[w].i = i =>
            review[w].minutes = item[i].minutes /\ review[w].extra = day.extra

ApprovalInv ==
  /\ ApprovalTypeOK /\ ReviewsTyped /\ KindsKnown /\ DecidedAsStatus /\ MinutesWorked /\ OneOvertime /\ AllExtra
  /\ NotCountedTwice /\ ApprovedOvertimeStands /\ CorrectionAnnounced /\ PaidAttendanceStands

LEMMA ReviewShape ==
  ASSUME ReviewsTyped, NEW w \in Desks
  PROVE  /\ review[w].op \in {"none", "inbox", "page", "delete", "cancel", "overtime", "correction"}
         /\ review[w].op \in {"inbox", "page"} =>
              /\ review[w] \in Decision /\ review[w].i \in Items /\ review[w].approve \in BOOLEAN
              /\ review[w].extra \in 0 .. MaxWorked /\ review[w].minutes \in 0 .. MaxWorked
         /\ review[w].op \in {"delete", "cancel"} => review[w].i \in Items
         /\ review[w].op = "overtime" => review[w].minutes \in 0 .. MaxWorked
<1>1. review[w] \in Reviews BY DEF ReviewsTyped
<1> QED BY <1>1 DEF Reviews, Decision, NoReview

LEMMA NoReviewType == NoReview \in Reviews /\ NoReview.op = "none"
  BY DEF NoReview, Reviews

LEMMA ItemFields ==
  ASSUME ApprovalTypeOK, NEW i \in Filed
  PROVE  /\ i \in Items /\ item[i] \in Item /\ item[i].kind \in Kinds
         /\ item[i].status \in {"pending", "approved", "rejected", "cancelled"} /\ item[i].minutes \in 0 .. MaxWorked
         /\ item[i].decided \in 0 .. 3 /\ item[i].applied \in 0 .. 2 /\ item[i].told \in 0 .. 2
         /\ item[i].raced \in BOOLEAN /\ item[i].stale \in BOOLEAN
<1>1. i \in Items /\ item[i] \in Item BY DEF ApprovalTypeOK, Filed
<1> QED BY <1>1 DEF Item

LEMMA DayFields ==
  ASSUME ApprovalTypeOK
  PROVE  /\ day \in Day /\ day.worked \in 0 .. MaxWorked /\ day.extra \in 0 .. MaxWorked /\ day.overtime \in 0 .. MaxWorked
         /\ day.in \in BOOLEAN /\ day.edits \in 0 .. 2 /\ payroll \in Day \cup {None}
         /\ day.worked \in Nat /\ day.extra \in Nat /\ day.overtime \in Nat /\ MaxWorked \in Nat
<1>1. day \in Day /\ payroll \in Day \cup {None} /\ MaxWorked \in Nat BY ApprovalsAssumption DEF ApprovalTypeOK
<1> QED BY <1>1 DEF Day

LEMMA ApprovalInvInit == ApprovalInit => ApprovalInv
<1> SUFFICES ASSUME ApprovalInit PROVE ApprovalInv OBVIOUS
<1>1. Filed = {} /\ \A k : OfKind(k) = {} BY DEF ApprovalInit, Filed, OfKind
<1>2. \A w \in Desks : review[w] = NoReview /\ review[w].op = "none" BY NoReviewType DEF ApprovalInit
<1>3. ReviewsTyped BY NoReviewType DEF ApprovalInit, ReviewsTyped
<1>4. ApprovalTypeOK
  <2>1. 0 \in 0 .. MaxWorked BY ApprovalsAssumption
  <2>2. day \in Day BY <2>1 DEF ApprovalInit, Day
  <2>3. item \in [Items -> Item \cup {None}] BY DEF ApprovalInit
  <2>4. payroll \in Day \cup {None} BY DEF ApprovalInit
  <2> QED BY <1>2, <2>2, <2>3, <2>4 DEF ApprovalTypeOK
<1>5. NotCountedTwice /\ NothingCredited /\ PaidAttendanceStands
  BY DEF ApprovalInit, NotCountedTwice, NothingCredited, PaidAttendanceStands
<1>6. KindsKnown BY <1>1, <1>2 DEF KindsKnown
<1>7. DecidedAsStatus /\ MinutesWorked /\ OneOvertime /\ AllExtra
  BY <1>1, <1>2, <1>5 DEF DecidedAsStatus, MinutesWorked, OneOvertime, AllExtra
<1>8. ApprovedOvertimeStands /\ CorrectionAnnounced
  BY <1>1, <1>5 DEF ApprovedOvertimeStands, CorrectionAnnounced
<1> QED BY <1>3, <1>4, <1>5, <1>6, <1>7, <1>8 DEF ApprovalInv

LEMMA ApprovalInvImplies == ApprovalInv => ApprovalsSafe
<1> SUFFICES ASSUME ApprovalInv PROVE ApprovalsSafe OBVIOUS
<1>1. DecidedOnce BY ItemFields DEF ApprovalInv, DecidedAsStatus, DecidedOnce
<1> QED BY <1>1 DEF ApprovalInv, ApprovalsSafe

-----------------------------------------------------------------------------
\* A desk reads a request, or the row of the day.
LEMMA DeskReads ==
  ASSUME ApprovalInv, NEW w \in Desks, NEW r \in Reviews, Read(w, r), r.op # "none",
         r.op \in {"inbox", "page", "delete", "cancel"} => r.i \in Filed,
         r.op = "inbox" => item[r.i].kind \in Inbox,
         r.op = "page" => item[r.i].kind \in Direct,
         r.op = "delete" => item[r.i].kind = "availability",
         r.op = "cancel" => item[r.i].kind = "late_notice",
         r.op \in {"inbox", "page"} => r.minutes = item[r.i].minutes /\ r.extra = day.extra,
         r.op = "overtime" => r.minutes = day.extra
  PROVE  ApprovalInv'
<1> USE DEF ApprovalInv
<1>1. UNCHANGED <<item, day, payroll>> /\ review' = [review EXCEPT ![w] = r] BY DEF Read
<1>2. ReviewsTyped' /\ review'[w] = r /\ \A v \in Desks \ {w} : review'[v] = review[v] BY <1>1 DEF ReviewsTyped
<1>3. ApprovalTypeOK'
  <2>1. \A v \in Desks : review'[v].op \in {"none", "inbox", "page", "delete", "cancel", "overtime", "correction"}
    <3>1. r.op \in {"inbox", "page", "delete", "cancel", "overtime", "correction"} BY DEF Reviews, Decision, NoReview
    <3>2. \A v \in Desks : review[v].op \in {"none", "inbox", "page", "delete", "cancel", "overtime", "correction"}
      BY DEF ApprovalTypeOK
    <3> QED BY <1>2, <3>1, <3>2
  <2> QED BY <1>1, <2>1 DEF ApprovalTypeOK
<1>4. Filed' = Filed /\ \A k : OfKind(k)' = OfKind(k) BY <1>1 DEF Filed, OfKind
<1>5. KindsKnown' BY <1>1, <1>2, <1>4 DEF KindsKnown
<1>6. day.extra <= day.worked BY DayFields DEF NotCountedTwice
<1>7. MinutesWorked'
  <2>1. r.op \in {"inbox", "page"} => r.minutes <= day.worked /\ r.extra <= day.worked BY <1>6 DEF MinutesWorked
  <2>2. r.op = "overtime" => r.minutes <= day.worked BY <1>6
  <2> QED BY <1>1, <1>2, <1>4, <2>1, <2>2 DEF MinutesWorked
<1>8. AllExtra' BY <1>1, <1>2, <1>4 DEF AllExtra, NothingCredited
<1>9. DecidedAsStatus' /\ OneOvertime' /\ NotCountedTwice' BY <1>1, <1>4 DEF DecidedAsStatus, OneOvertime, NotCountedTwice
<1>10. ApprovedOvertimeStands' /\ CorrectionAnnounced' /\ PaidAttendanceStands'
  BY <1>1, <1>4 DEF ApprovedOvertimeStands, CorrectionAnnounced, PaidAttendanceStands
<1> QED BY <1>2, <1>3, <1>5, <1>7, <1>8, <1>9, <1>10

\* Desks that are done, the others as they were.
Leaving == review' \in [Desks -> Reviews] /\ \A w \in Desks : review'[w] = review[w] \/ review'[w] = NoReview

LEMMA DoneLeaves == ASSUME ReviewsTyped, NEW w \in Desks, Done(w) PROVE Leaving /\ review'[w] = NoReview
  BY NoReviewType DEF Done, ReviewsTyped, Leaving

LEMMA LeavingKeeps ==
  ASSUME ApprovalInv, Leaving
  PROVE  /\ ReviewsTyped'
         /\ \A w \in Desks : review'[w].op \in {"none", "inbox", "page", "delete", "cancel", "overtime", "correction"}
         /\ \A w \in Desks : review'[w].op # "none" => review'[w] = review[w]
<1>1. ReviewsTyped' BY DEF Leaving, ReviewsTyped
<1>2. \A w \in Desks : review'[w].op \in {"none", "inbox", "page", "delete", "cancel", "overtime", "correction"}
  BY ReviewShape, NoReviewType DEF Leaving, ApprovalInv
<1> QED BY <1>1, <1>2, NoReviewType DEF Leaving

\* One row changes, or is new, while the payroll and the minutes of the day stay.
LEMMA RowChangesWithDay ==
  ASSUME ApprovalInv, Leaving, UNCHANGED payroll, day' \in Day, day' = day \/ RowUnlocked,
         day'.worked = day.worked, day'.extra = day.extra, day'.overtime = day.overtime,
         NEW i \in Items, NEW x \in Item, item' = [item EXCEPT ![i] = x],
         i \in Filed => x.kind = item[i].kind,
         i \notin Filed => ~InReview(i) /\ (x.kind = "overtime" => OfKind("overtime") = {}),
         x.minutes <= day.worked,
         ~x.raced => /\ x.decided <= (IF x.status = "pending" THEN 0 ELSE 1)
                     /\ x.applied = IF x.status = "approved" THEN 1 ELSE 0,
         x.kind = "overtime" => x.status # "approved",
         x.kind = "overtime" /\ ~x.raced =>
           /\ NothingCredited
           /\ ~x.stale => \A w \in Desks : review'[w].op \in {"inbox", "page"} /\ review'[w].i = i =>
                            review'[w].minutes = x.minutes /\ review'[w].extra = day.extra,
         x.kind = "correction" =>
           x.told = IF x.status \in {"approved", "rejected"} THEN 1 ELSE 0
  PROVE  ApprovalInv'
<1> USE DEF ApprovalInv
<1>1. ReviewsTyped' /\ \A w \in Desks : review'[w].op # "none" => review'[w] = review[w] BY LeavingKeeps
<1>2. item'[i] = x /\ (\A j \in Items \ {i} : item'[j] = item[j]) /\ x # None BY ApprovalsAssumption DEF ApprovalTypeOK
<1>3. ApprovalTypeOK' BY LeavingKeeps DEF ApprovalTypeOK
<1>4. Filed' = Filed \cup {i} BY <1>2 DEF Filed
<1>5. \A k : OfKind(k)' = (OfKind(k) \ {i}) \cup (IF x.kind = k THEN {i} ELSE {}) BY <1>2, <1>4 DEF OfKind, Filed
<1>6. KindsKnown'
  <2> SUFFICES ASSUME NEW w \in Desks, NEW j \in Items, review'[w].op \in {"inbox", "page", "delete", "cancel"}, review'[w].i = j
               PROVE  /\ review'[w].op = "inbox" => j \in Filed' /\ item'[j].kind \in Inbox
                      /\ review'[w].op = "page" /\ j \in Filed' => item'[j].kind \in Direct
                      /\ review'[w].op = "delete" /\ j \in Filed' => item'[j].kind = "availability"
                      /\ review'[w].op = "cancel" => j \in Filed' /\ item'[j].kind = "late_notice"
    BY DEF KindsKnown
  <2>1. review'[w] = review[w] BY <1>1
  <2>2. CASE j = i
    <3>1. i \in Filed BY <2>1, <2>2 DEF InReview
    <3> QED BY <2>1, <2>2, <3>1, <1>2, <1>4 DEF KindsKnown
  <2>3. CASE j # i BY <2>1, <2>3, <1>2, <1>4 DEF KindsKnown
  <2> QED BY <2>2, <2>3
<1>7. DecidedAsStatus' BY <1>2, <1>4 DEF DecidedAsStatus, Filed
<1>8. MinutesWorked' BY <1>1, <1>2, <1>4 DEF MinutesWorked, Filed
<1>9. OneOvertime'
  <2>1. CASE x.kind = "overtime" /\ i \in Filed
    <3>1. i \in OfKind("overtime") BY <2>1 DEF OfKind
    <3>2. OfKind("overtime")' = OfKind("overtime") BY <2>1, <3>1, <1>5
    <3> QED BY <3>2 DEF OneOvertime
  <2>2. CASE x.kind = "overtime" /\ i \notin Filed BY <2>2, <1>5 DEF OneOvertime
  <2>3. CASE x.kind # "overtime" BY <2>3, <1>5 DEF OneOvertime
  <2> QED BY <2>1, <2>2, <2>3
<1>10. AllExtra'
  <2>1. NothingCredited' <=> NothingCredited BY DEF NothingCredited
  <2>2. OfKind("overtime")' = {} => OfKind("overtime") = {}
    <3>1. i \in OfKind("overtime") => x.kind = "overtime" BY DEF OfKind
    <3> QED BY <1>5, <3>1
  <2>3. ASSUME NEW j \in OfKind("overtime")', ~item'[j].raced, item'[j].status # "approved"
        PROVE  /\ NothingCredited
               /\ ~item'[j].stale => \A w \in Desks : review'[w].op \in {"inbox", "page"} /\ review'[w].i = j =>
                    review'[w].minutes = item'[j].minutes /\ review'[w].extra = day.extra
    <3>1. CASE j = i BY <2>3, <3>1, <1>2, <1>5
    <3>2. CASE j # i
      <4>1. j \in OfKind("overtime") /\ item'[j] = item[j] BY <3>2, <1>2, <1>5 DEF OfKind, Filed
      <4> QED BY <4>1, <2>3, <1>1 DEF AllExtra
    <3> QED BY <3>1, <3>2
  <2> QED BY <2>1, <2>2, <2>3 DEF AllExtra
<1>12. NotCountedTwice' BY DEF NotCountedTwice
<1>13. ApprovedOvertimeStands' BY <1>2, <1>5 DEF ApprovedOvertimeStands, OfKind, Filed
<1>14. CorrectionAnnounced' BY <1>2, <1>5 DEF CorrectionAnnounced, OfKind, Filed
<1>15. PaidAttendanceStands' BY DEF PaidAttendanceStands, RowUnlocked
<1> QED BY <1>1, <1>3, <1>6, <1>7, <1>8, <1>9, <1>10, <1>12, <1>13, <1>14, <1>15

\* The same with the whole day as it was.
LEMMA RowChanges ==
  ASSUME ApprovalInv, Leaving, UNCHANGED <<day, payroll>>, NEW i \in Items, NEW x \in Item, item' = [item EXCEPT ![i] = x],
         i \in Filed => x.kind = item[i].kind,
         i \notin Filed => ~InReview(i) /\ (x.kind = "overtime" => OfKind("overtime") = {}),
         x.minutes <= day.worked,
         ~x.raced => /\ x.decided <= (IF x.status = "pending" THEN 0 ELSE 1)
                     /\ x.applied = IF x.status = "approved" THEN 1 ELSE 0,
         x.kind = "overtime" => x.status # "approved",
         x.kind = "overtime" /\ ~x.raced =>
           /\ NothingCredited
           /\ ~x.stale => \A w \in Desks : review'[w].op \in {"inbox", "page"} /\ review'[w].i = i =>
                            review'[w].minutes = x.minutes /\ review'[w].extra = day.extra,
         x.kind = "correction" =>
           x.told = IF x.status \in {"approved", "rejected"} THEN 1 ELSE 0
  PROVE  ApprovalInv'
<1>1. day' \in Day /\ day'.worked = day.worked /\ day'.extra = day.extra /\ day'.overtime = day.overtime
  BY DEF ApprovalInv, ApprovalTypeOK
<1> QED BY <1>1, RowChangesWithDay

-----------------------------------------------------------------------------
\* A row is inserted, or the desk that inserts one is done.
LEMMA NewRow ==
  ASSUME ApprovalInv, NEW k \in Kinds, NEW n \in 0 .. MaxWorked
  PROVE  /\ NewItem(k, n) \in Item /\ NewItem(k, n).kind = k /\ NewItem(k, n).minutes = n
         /\ NewItem(k, n).status = "pending" /\ NewItem(k, n).decided = 0 /\ NewItem(k, n).applied = 0
         /\ NewItem(k, n).told = 0 /\ NewItem(k, n).raced = FALSE
  BY DEF NewItem, Item

LEMMA NobodyMoves == ASSUME ApprovalInv, review' = review PROVE Leaving
  BY DEF ApprovalInv, ReviewsTyped, Leaving

LEMMA Inserts ==
  ASSUME ApprovalInv, Leaving, UNCHANGED <<day, payroll>>, NEW i \in Free, NEW k \in Kinds, NEW n \in 0 .. MaxWorked,
         n <= day.worked, k = "overtime" => OfKind("overtime") = {},
         item' = [item EXCEPT ![i] = NewItem(k, n)]
  PROVE  ApprovalInv'
<1>1. i \in Items /\ i \notin Filed /\ ~InReview(i) BY DEF Free
<1>2. PICK x \in Item : x = NewItem(k, n) BY NewRow
<1>3. /\ x.kind = k /\ x.minutes = n /\ x.status = "pending" /\ x.decided = 0 /\ x.applied = 0 /\ x.told = 0
      /\ x.raced = FALSE
  BY <1>2, NewRow
<1>4. item' = [item EXCEPT ![i] = x] BY <1>2
<1>5. \A w \in Desks : ~(review'[w].op \in {"inbox", "page"} /\ review'[w].i = i)
  BY <1>1, LeavingKeeps DEF InReview
<1>6. x.kind = "overtime" => NothingCredited BY <1>3 DEF ApprovalInv, AllExtra
<1>7. /\ x.decided <= (IF x.status = "pending" THEN 0 ELSE 1)
      /\ x.applied = IF x.status = "approved" THEN 1 ELSE 0
  BY <1>3
<1> QED BY <1>1, <1>3, <1>4, <1>5, <1>6, <1>7, RowChanges

LEMMA Refiles ==
  ASSUME ApprovalInv, Leaving, UNCHANGED <<day, payroll>>, NEW k \in {"late_notice", "overtime"}, NEW i \in OfKind(k),
         NEW n \in 0 .. MaxWorked, n <= day.worked,
         item' = [item EXCEPT ![i] = [NewItem(k, n) EXCEPT
           !.raced = item[i].raced \/ item[i].status \in {"pending", "approved"} \/ InReview(i)]]
  PROVE  ApprovalInv'
<1>1. i \in Items /\ i \in Filed /\ item[i].kind = k /\ k \in Kinds BY DEF OfKind, Filed, Kinds
<1>2. PICK b \in BOOLEAN : b = (item[i].raced \/ item[i].status \in {"pending", "approved"} \/ InReview(i)) OBVIOUS
<1>3. PICK x \in Item : x = [NewItem(k, n) EXCEPT !.raced = b]
  <2>1. PICK y \in Item : y = NewItem(k, n) BY <1>1, NewRow
  <2>2. [y EXCEPT !.raced = b] \in Item BY DEF Item
  <2> QED BY <2>1, <2>2
<1>4. /\ x.kind = k /\ x.minutes = n /\ x.status = "pending" /\ x.decided = 0 /\ x.applied = 0
      /\ x.raced = b
  BY <1>3 DEF NewItem
<1>5. item' = [item EXCEPT ![i] = x] BY <1>2, <1>3
<1>6. ~b => \A w \in Desks : ~(review'[w].op \in {"inbox", "page"} /\ review'[w].i = i)
  BY <1>2, LeavingKeeps DEF InReview
<1>7. x.kind = "overtime" /\ ~x.raced => NothingCredited
  <2> SUFFICES ASSUME k = "overtime", ~b PROVE NothingCredited BY <1>4
  <2>1. i \in OfKind("overtime") /\ ~item[i].raced /\ item[i].status # "approved" BY <1>2
  <2> QED BY <2>1 DEF ApprovalInv, AllExtra
<1>8. x.kind # "correction" /\ x.kind = item[i].kind /\ x.minutes <= day.worked /\ x.status # "approved" BY <1>1, <1>4
<1>9. /\ x.decided <= (IF x.status = "pending" THEN 0 ELSE 1)
      /\ x.applied = IF x.status = "approved" THEN 1 ELSE 0
  BY <1>4
<1>10. ~x.raced => \A w \in Desks : review'[w].op \in {"inbox", "page"} /\ review'[w].i = i =>
                            review'[w].minutes = x.minutes /\ review'[w].extra = day.extra
  BY <1>4, <1>6
<1> QED BY <1>1, <1>5, <1>7, <1>8, <1>9, <1>10, RowChanges

LEMMA Upserts ==
  ASSUME ApprovalInv, Leaving, UNCHANGED <<day, payroll>>, NEW k \in {"late_notice", "overtime"},
         NEW n \in 0 .. MaxWorked, n <= day.worked, Upsert(k, n)
  PROVE  ApprovalInv'
<1>1. ASSUME NEW i \in OfKind(k), item' = [item EXCEPT ![i] = [NewItem(k, n) EXCEPT
               !.raced = item[i].raced \/ item[i].status \in {"pending", "approved"} \/ InReview(i)]]
      PROVE  ApprovalInv'
  BY <1>1, Refiles
<1>2. ASSUME OfKind(k) = {}, NEW i \in Free, item' = [item EXCEPT ![i] = NewItem(k, n)] PROVE ApprovalInv'
  <2>1. k \in Kinds BY DEF Kinds
  <2> QED BY <1>2, <2>1, Inserts
<1> QED BY <1>1, <1>2 DEF Upsert

LEMMA ApprovalFile == ASSUME ApprovalInv, NEW i \in Items, NEW k \in Kinds, File(i, k) PROVE ApprovalInv'
<1>1. Leaving BY NobodyMoves DEF File
<1>2. 0 \in 0 .. MaxWorked /\ 0 <= day.worked BY DayFields DEF ApprovalInv
<1>3. i \in Free /\ k # "overtime" /\ item' = [item EXCEPT ![i] = NewItem(k, 0)] /\ UNCHANGED <<day, payroll>> BY DEF File
<1> QED BY <1>1, <1>2, <1>3, Inserts

LEMMA ApprovalNotice == ASSUME ApprovalInv, Notice PROVE ApprovalInv'
<1>1. Leaving BY NobodyMoves DEF Notice
<1>2. 0 \in 0 .. MaxWorked /\ 0 <= day.worked BY DayFields DEF ApprovalInv
<1>3. Upsert("late_notice", 0) /\ UNCHANGED <<day, payroll>> BY DEF Notice
<1> QED BY <1>1, <1>2, <1>3, Upserts

LEMMA ApprovalOvertimeWrite == ASSUME ApprovalInv, NEW w \in Desks, OvertimeWrite(w) PROVE ApprovalInv'
<1>1. Leaving BY DoneLeaves DEF OvertimeWrite, ApprovalInv
<1>2. review[w].minutes \in 0 .. MaxWorked BY ReviewShape DEF ApprovalInv, OvertimeWrite
<1>3. review[w].minutes <= day.worked BY DEF ApprovalInv, MinutesWorked, OvertimeWrite
<1>4. Upsert("overtime", review[w].minutes) /\ UNCHANGED <<day, payroll>> BY DEF OvertimeWrite
<1> QED BY <1>1, <1>2, <1>3, <1>4, Upserts

LEMMA ApprovalCorrectionWrite == ASSUME ApprovalInv, NEW w \in Desks, CorrectionWrite(w) PROVE ApprovalInv'
<1>1. Leaving BY DoneLeaves DEF CorrectionWrite, ApprovalInv
<1>2. 0 \in 0 .. MaxWorked /\ 0 <= day.worked BY DayFields DEF ApprovalInv
<1>3. PICK i \in Free : item' = [item EXCEPT ![i] = NewItem("correction", 0)] BY DEF CorrectionWrite
<1>4. "correction" \in Kinds /\ UNCHANGED <<day, payroll>> BY DEF Kinds, CorrectionWrite
<1> QED BY <1>1, <1>2, <1>3, <1>4, Inserts

-----------------------------------------------------------------------------
\* The reads.
LEMMA ApprovalOvertimeRead == ASSUME ApprovalInv, NEW w \in Desks, OvertimeRead(w) PROVE ApprovalInv'
<1>1. PICK r : r = [op |-> "overtime", minutes |-> day.extra] OBVIOUS
<1>2. day.extra \in 0 .. MaxWorked BY DayFields DEF ApprovalInv
<1>3. r \in Reviews /\ r.op = "overtime" /\ r.minutes = day.extra BY <1>1, <1>2 DEF Reviews
<1>4. Read(w, r) BY <1>1 DEF OvertimeRead
<1> QED BY <1>3, <1>4, DeskReads

LEMMA ApprovalCorrectionRead == ASSUME ApprovalInv, NEW w \in Desks, CorrectionRead(w) PROVE ApprovalInv'
<1>1. PICK r : r = [op |-> "correction"] OBVIOUS
<1>2. r \in Reviews /\ r.op = "correction" BY <1>1 DEF Reviews
<1>3. Read(w, r) BY <1>1 DEF CorrectionRead
<1> QED BY <1>2, <1>3, DeskReads

LEMMA DecisionRecord ==
  ASSUME ApprovalInv, NEW i \in Filed, NEW approve \in BOOLEAN, NEW op \in {"inbox", "page"}, NEW r,
         r = [op |-> op, i |-> i, approve |-> approve, extra |-> day.extra, minutes |-> item[i].minutes]
  PROVE  /\ r \in Reviews /\ r.op = op /\ r.i = i /\ r.approve = approve /\ r.extra = day.extra
         /\ r.minutes = item[i].minutes
<1>1. i \in Items /\ item[i].minutes \in 0 .. MaxWorked /\ day.extra \in 0 .. MaxWorked
  BY ItemFields, DayFields DEF ApprovalInv
<1>2. r \in Decision BY <1>1 DEF Decision
<1> QED BY <1>2 DEF Reviews

LEMMA ApprovalInboxReviewRead ==
  ASSUME ApprovalInv, NEW w \in Desks, NEW i \in Items, NEW approve \in BOOLEAN, InboxReviewRead(w, i, approve)
  PROVE  ApprovalInv'
<1>1. PICK r : r = [op |-> "inbox", i |-> i, approve |-> approve, extra |-> day.extra, minutes |-> item[i].minutes]
  OBVIOUS
<1>2. i \in Filed /\ item[i].kind \in Inbox /\ Read(w, r) BY <1>1 DEF InboxReviewRead
<1>3. /\ r \in Reviews /\ r.op = "inbox" /\ r.i = i /\ r.approve = approve /\ r.extra = day.extra
      /\ r.minutes = item[i].minutes
  BY <1>1, <1>2, DecisionRecord
<1> QED BY <1>2, <1>3, DeskReads

LEMMA ApprovalPageRead ==
  ASSUME ApprovalInv, NEW w \in Desks, NEW i \in Items, NEW approve \in BOOLEAN, PageRead(w, i, approve)
  PROVE  ApprovalInv'
<1>1. PICK r : r = [op |-> "page", i |-> i, approve |-> approve, extra |-> day.extra, minutes |-> item[i].minutes]
  OBVIOUS
<1>2. i \in Filed /\ item[i].kind \in Direct /\ Read(w, r) BY <1>1 DEF PageRead
<1>3. /\ r \in Reviews /\ r.op = "page" /\ r.i = i /\ r.approve = approve /\ r.extra = day.extra
      /\ r.minutes = item[i].minutes
  BY <1>1, <1>2, DecisionRecord
<1> QED BY <1>2, <1>3, DeskReads

LEMMA ApprovalDeleteRead ==
  ASSUME ApprovalInv, NEW w \in Desks, NEW i \in Items, DeleteRead(w, i)
  PROVE  ApprovalInv'
<1>1. PICK r : r = [op |-> "delete", i |-> i] OBVIOUS
<1>2. r \in Reviews /\ r.op = "delete" /\ r.i = i BY <1>1 DEF Reviews
<1>3. i \in Filed /\ item[i].kind = "availability" /\ Read(w, r) BY <1>1 DEF DeleteRead, OfKind
<1> QED BY <1>2, <1>3, DeskReads

LEMMA ApprovalNoticeCancelRead ==
  ASSUME ApprovalInv, NEW w \in Desks, NEW i \in Items, NoticeCancelRead(w, i)
  PROVE  ApprovalInv'
<1>1. PICK r : r = [op |-> "cancel", i |-> i] OBVIOUS
<1>2. r \in Reviews /\ r.op = "cancel" /\ r.i = i BY <1>1 DEF Reviews
<1>3. i \in Filed /\ item[i].kind = "late_notice" /\ Read(w, r) BY <1>1 DEF NoticeCancelRead, OfKind
<1> QED BY <1>2, <1>3, DeskReads

-----------------------------------------------------------------------------
\* A request is withdrawn.
LEMMA ApprovalCancelOwn == ASSUME ApprovalInv, NEW i \in Items, CancelOwn(i) PROVE ApprovalInv'
<1>1. i \in Filed /\ item[i].status = "pending" /\ UNCHANGED <<day, payroll>> BY DEF CancelOwn
<1>2. Leaving BY NobodyMoves DEF CancelOwn
<1>3. PICK x \in Item : x = [item[i] EXCEPT !.status = "cancelled"]
  <2>1. item[i] \in Item BY <1>1, ItemFields DEF ApprovalInv
  <2> QED BY <2>1 DEF Item
<1>4. /\ x.status = "cancelled" /\ x.kind = item[i].kind /\ x.minutes = item[i].minutes /\ x.raced = item[i].raced
      /\ x.decided = item[i].decided /\ x.applied = item[i].applied /\ x.stale = item[i].stale
      /\ x.told = item[i].told
  BY <1>1, <1>3, ItemFields DEF ApprovalInv, Item
<1>5. item' = [item EXCEPT ![i] = x] BY <1>3 DEF CancelOwn
<1>6. x.minutes <= day.worked BY <1>1, <1>4 DEF ApprovalInv, MinutesWorked
<1>7. ~x.raced => /\ x.decided <= (IF x.status = "pending" THEN 0 ELSE 1)
                  /\ x.applied = IF x.status = "approved" THEN 1 ELSE 0
  BY <1>1, <1>4, ItemFields DEF ApprovalInv, DecidedAsStatus
<1>8. x.kind = "overtime" /\ ~x.raced =>
           /\ NothingCredited
           /\ ~x.stale => \A w \in Desks : review'[w].op \in {"inbox", "page"} /\ review'[w].i = i =>
                            review'[w].minutes = x.minutes /\ review'[w].extra = day.extra
  BY <1>1, <1>4 DEF ApprovalInv, AllExtra, OfKind, CancelOwn
<1>9. x.kind = "correction" =>
           x.told = IF x.status \in {"approved", "rejected"} THEN 1 ELSE 0
  BY <1>1, <1>4 DEF ApprovalInv, CorrectionAnnounced, OfKind
<1>10. x.status # "approved" /\ item[i].status # "approved" BY <1>1, <1>4
<1> QED BY <1>1, <1>2, <1>4, <1>5, <1>6, <1>7, <1>8, <1>9, <1>10, RowChanges

LEMMA ApprovalNoticeCancelWrite == ASSUME ApprovalInv, NEW w \in Desks, NoticeCancelWrite(w) PROVE ApprovalInv'
<1>1. review[w].i \in Items BY ReviewShape DEF NoticeCancelWrite, ApprovalInv
<1>2. PICK i \in Items : i = review[w].i BY <1>1
<1>3. i \in Filed /\ item[i].kind = "late_notice" BY <1>2 DEF NoticeCancelWrite, ApprovalInv, KindsKnown
<1>4. Leaving /\ UNCHANGED <<day, payroll>> BY DoneLeaves DEF NoticeCancelWrite, ApprovalInv
<1>5. item[i] \in Item /\ item[i].raced \in BOOLEAN BY <1>3, ItemFields DEF ApprovalInv
<1>6. PICK b \in BOOLEAN : b = (item[i].raced \/ item[i].status = "approved") BY <1>5
<1>7. PICK x \in Item : x = [item[i] EXCEPT !.status = "cancelled", !.raced = b]
  <2>1. [item[i] EXCEPT !.status = "cancelled", !.raced = b] \in Item BY <1>5 DEF Item
  <2> QED BY <2>1
<1>8. /\ x.status = "cancelled" /\ x.kind = item[i].kind /\ x.minutes = item[i].minutes /\ x.raced = b
      /\ x.decided = item[i].decided /\ x.applied = item[i].applied
  BY <1>5, <1>7 DEF Item
<1>9. item' = [item EXCEPT ![i] = x] BY <1>2, <1>5, <1>6, <1>7 DEF NoticeCancelWrite, ApprovalInv, ApprovalTypeOK
<1>10. x.minutes <= day.worked BY <1>3, <1>8 DEF ApprovalInv, MinutesWorked
<1>11. ~x.raced => /\ x.decided <= (IF x.status = "pending" THEN 0 ELSE 1)
                   /\ x.applied = IF x.status = "approved" THEN 1 ELSE 0
  <2>1. item[i].decided \in Nat BY <1>3, ItemFields DEF ApprovalInv
  <2>2. ~item[i].raced /\ item[i].status # "approved" => item[i].decided <= 1 /\ item[i].applied = 0
    BY <1>3, <2>1 DEF ApprovalInv, DecidedAsStatus
  <2> QED BY <2>2, <1>6, <1>8
<1>12. x.kind # "overtime" /\ x.kind # "correction" BY <1>3, <1>8
<1> QED BY <1>3, <1>4, <1>8, <1>9, <1>10, <1>11, <1>12, RowChanges

\* Nothing but the desks changes.
LEMMA OnlyLeaves == ASSUME ApprovalInv, Leaving, UNCHANGED <<item, day, payroll>> PROVE ApprovalInv'
<1> USE DEF ApprovalInv
<1>1. ReviewsTyped' /\ \A w \in Desks : review'[w].op # "none" => review'[w] = review[w] BY LeavingKeeps
<1>2. ApprovalTypeOK' BY LeavingKeeps DEF ApprovalTypeOK
<1>3. Filed' = Filed /\ \A k : OfKind(k)' = OfKind(k) BY DEF Filed, OfKind
<1>4. KindsKnown' BY <1>1, <1>3 DEF KindsKnown
<1>5. MinutesWorked' BY <1>1, <1>3 DEF MinutesWorked
<1>6. AllExtra' BY <1>1, <1>3 DEF AllExtra, NothingCredited
<1>7. DecidedAsStatus' /\ OneOvertime' /\ NotCountedTwice' BY <1>3 DEF DecidedAsStatus, OneOvertime, NotCountedTwice
<1>8. ApprovedOvertimeStands' /\ CorrectionAnnounced' /\ PaidAttendanceStands'
  BY <1>3 DEF ApprovedOvertimeStands, CorrectionAnnounced, PaidAttendanceStands
<1> QED BY <1>1, <1>2, <1>4, <1>5, <1>6, <1>7, <1>8

LEMMA ApprovalDeleteWrite == ASSUME ApprovalInv, NEW w \in Desks, DeleteWrite(w) PROVE ApprovalInv'
<1> USE DEF ApprovalInv
<1>1. review[w].i \in Items BY ReviewShape DEF DeleteWrite
<1>2. PICK i \in Items : i = review[w].i BY <1>1
<1>3. i \in Filed => item[i].kind = "availability" BY <1>2 DEF DeleteWrite, KindsKnown
<1>4. Leaving /\ UNCHANGED <<day, payroll>> /\ item' = [item EXCEPT ![i] = None] BY <1>2, DoneLeaves DEF DeleteWrite
<1>5. ReviewsTyped' /\ \A v \in Desks : review'[v].op # "none" => review'[v] = review[v] BY <1>4, LeavingKeeps
<1>6. item'[i] = None /\ \A j \in Items \ {i} : item'[j] = item[j] BY <1>4 DEF ApprovalTypeOK
<1>7. Filed' = Filed \ {i} BY <1>6 DEF Filed
<1>8. \A j \in Filed' : item'[j] = item[j] /\ j \in Filed BY <1>6, <1>7 DEF Filed
<1>9. \A k : OfKind(k)' = OfKind(k) \ {i} BY <1>7, <1>8 DEF OfKind
<1>10. \A k : k # "availability" => OfKind(k)' = OfKind(k) BY <1>3, <1>9 DEF OfKind
<1>11. ApprovalTypeOK' BY <1>4, LeavingKeeps DEF ApprovalTypeOK
<1>12. KindsKnown'
  <2> SUFFICES ASSUME NEW v \in Desks, NEW j \in Items, review'[v].op \in {"inbox", "page", "delete", "cancel"}, review'[v].i = j
               PROVE  /\ review'[v].op = "inbox" => j \in Filed' /\ item'[j].kind \in Inbox
                      /\ review'[v].op = "page" /\ j \in Filed' => item'[j].kind \in Direct
                      /\ review'[v].op = "delete" /\ j \in Filed' => item'[j].kind = "availability"
                      /\ review'[v].op = "cancel" => j \in Filed' /\ item'[j].kind = "late_notice"
    BY DEF KindsKnown
  <2>1. review'[v] = review[v] BY <1>5
  <2>2. review[v].op \in {"inbox", "cancel"} => j # i BY <1>3, <2>1 DEF KindsKnown, Inbox
  <2> QED BY <1>7, <1>8, <2>1, <2>2 DEF KindsKnown
<1>13. \A j \in OfKind("overtime") \cup OfKind("correction") : item'[j] = item[j] BY <1>8, <1>10 DEF OfKind
<1>14. MinutesWorked' BY <1>4, <1>5, <1>8 DEF MinutesWorked
<1>15. OneOvertime' BY <1>10 DEF OneOvertime
<1>16. AllExtra' BY <1>4, <1>5, <1>10, <1>13 DEF AllExtra, NothingCredited
<1>17. DecidedAsStatus' /\ NotCountedTwice' BY <1>4, <1>8 DEF DecidedAsStatus, NotCountedTwice
<1>18. ApprovedOvertimeStands' /\ CorrectionAnnounced' /\ PaidAttendanceStands'
  BY <1>4, <1>10, <1>13 DEF ApprovedOvertimeStands, CorrectionAnnounced, PaidAttendanceStands
<1> QED BY <1>5, <1>11, <1>12, <1>14, <1>15, <1>16, <1>17, <1>18

-----------------------------------------------------------------------------
\* A decision: the row of the request, and the row of the day.
LEMMA DecidedFields ==
  ASSUME ApprovalInv, NEW r \in Decision, r.i \in Filed, NEW raced \in BOOLEAN, NEW x, x = DecidedRow(r, raced)
  PROVE  /\ x \in Item /\ x.kind = item[r.i].kind /\ x.minutes = item[r.i].minutes /\ x.stale = item[r.i].stale
         /\ x.status = (IF r.approve THEN "approved" ELSE "rejected")
         /\ x.raced = (item[r.i].raced \/ raced)
         /\ x.decided = (IF item[r.i].decided < 3 THEN item[r.i].decided + 1 ELSE item[r.i].decided)
         /\ x.applied = (IF r.approve THEN Bump(item[r.i].applied) ELSE item[r.i].applied)
         /\ x.told = (IF x.kind = "correction" THEN Bump(item[r.i].told) ELSE item[r.i].told)
<1>1. PICK y \in Item : y = item[r.i] BY ItemFields DEF ApprovalInv
<1>2. /\ y.status \in {"pending", "approved", "rejected", "cancelled"} /\ y.decided \in 0 .. 3 /\ y.applied \in 0 .. 2
      /\ y.told \in 0 .. 2 /\ y.raced \in BOOLEAN /\ r.approve \in BOOLEAN
  BY DEF Item, Decision
<1>3. PICK st \in {"approved", "rejected"} : st = (IF r.approve THEN "approved" ELSE "rejected") OBVIOUS
<1>4. PICK de \in 0 .. 3 : de = (IF y.decided < 3 THEN y.decided + 1 ELSE y.decided) BY <1>2
<1>5. PICK ap \in 0 .. 2 : ap = (IF r.approve THEN Bump(y.applied) ELSE y.applied) BY <1>2 DEF Bump
<1>6. PICK te \in 0 .. 2 : te = (IF y.kind = "correction" THEN Bump(y.told) ELSE y.told) BY <1>2 DEF Bump
<1>7. PICK ra \in BOOLEAN : ra = (y.raced \/ raced) BY <1>2
<1>8. x = [y EXCEPT !.status = st, !.decided = de, !.applied = ap, !.told = te, !.raced = ra]
  BY <1>1, <1>3, <1>4, <1>5, <1>6, <1>7 DEF DecidedRow, Announces, Item
<1>9. /\ x \in Item /\ x.kind = y.kind /\ x.minutes = y.minutes /\ x.stale = y.stale /\ x.status = st /\ x.decided = de
      /\ x.applied = ap /\ x.told = te /\ x.raced = ra
  BY <1>8 DEF Item
<1> QED BY <1>1, <1>3, <1>4, <1>5, <1>6, <1>7, <1>9

LEMMA EffectFields ==
  ASSUME ApprovalInv, NEW r \in Decision, r.i \in Filed, Effect(r)
  PROVE  /\ day' \in Day /\ day'.worked = day.worked
         /\ day'.overtime = (IF item[r.i].kind = "overtime" /\ r.approve THEN r.minutes ELSE day.overtime)
         /\ day'.extra = (IF item[r.i].kind = "overtime" /\ r.approve THEN Left(r) ELSE day.extra)
         /\ ~(r.approve /\ item[r.i].kind \in {"overtime", "correction"}) => day' = day
         /\ Left(r) \in 0 .. MaxWorked
<1>1. day \in Day /\ day.in \in BOOLEAN /\ day.edits \in 0 .. 2 /\ day.extra \in 0 .. MaxWorked
      /\ day.overtime \in 0 .. MaxWorked /\ MaxWorked \in Nat
  BY DayFields DEF ApprovalInv
<1>2. r.minutes \in 0 .. MaxWorked /\ r.extra \in 0 .. MaxWorked /\ r.approve \in BOOLEAN BY DEF Decision
<1>3. Left(r) \in 0 .. MaxWorked BY <1>1, <1>2 DEF Left
<1>4. PICK ov \in 0 .. MaxWorked : ov = (IF item[r.i].kind = "overtime" /\ r.approve THEN r.minutes ELSE day.overtime)
  BY <1>1, <1>2
<1>5. PICK ex \in 0 .. MaxWorked : ex = (IF item[r.i].kind = "overtime" /\ r.approve THEN Left(r) ELSE day.extra)
  BY <1>1, <1>3
<1>6. PICK ed \in 0 .. 2 : ed = (IF item[r.i].kind = "correction" /\ r.approve THEN Bump(day.edits) ELSE day.edits)
  BY <1>1 DEF Bump
<1>7. PICK in \in BOOLEAN : in = (day.in \/ (item[r.i].kind = "correction" /\ r.approve)) BY <1>1
<1>8. day' = [day EXCEPT !.overtime = ov, !.extra = ex, !.in = in, !.edits = ed]
  BY <1>1, <1>4, <1>5, <1>6, <1>7 DEF Effect, Credited, Day
<1>9. day' \in Day /\ day'.worked = day.worked /\ day'.overtime = ov /\ day'.extra = ex
  BY <1>1, <1>8 DEF Day
<1>10. ASSUME ~(r.approve /\ item[r.i].kind \in {"overtime", "correction"}) PROVE day' = day
  <2>1. ov = day.overtime /\ ex = day.extra /\ in = day.in /\ ed = day.edits BY <1>1, <1>4, <1>5, <1>6, <1>7, <1>10
  <2> QED BY <1>1, <1>8, <2>1 DEF Day
<1> QED BY <1>3, <1>4, <1>5, <1>9, <1>10

\* Approved overtime: what was asked for, and what is left.
LEMMA OvertimeApproved ==
  ASSUME ApprovalInv, Leaving, UNCHANGED payroll, NEW r \in Decision, NEW w \in Desks, review[w] = r, r.op \in {"inbox", "page"},
         r.i \in Filed, item[r.i].kind = "overtime", r.approve, RowUnlocked, Effect(r), NEW x \in Item, item' = [item EXCEPT ![r.i] = x],
         x.kind = "overtime", x.status = "approved", x.minutes = item[r.i].minutes, x.stale = item[r.i].stale,
         x.raced \in BOOLEAN, ~x.raced => ~item[r.i].raced /\ item[r.i].status = "pending" /\ x.decided = 1 /\ x.applied = 1
  PROVE  ApprovalInv'
<1> USE DEF ApprovalInv
<1>1. PICK i \in OfKind("overtime") : i = r.i BY DEF OfKind
<1>2. i \in Items /\ i \in Filed BY <1>1 DEF OfKind, Filed
<1>3. ReviewsTyped' /\ \A v \in Desks : review'[v].op # "none" => review'[v] = review[v] BY LeavingKeeps
<1>4. item'[i] = x /\ (\A j \in Items \ {i} : item'[j] = item[j]) /\ x # None
  BY <1>1, <1>2, ApprovalsAssumption DEF ApprovalTypeOK
<1>5. Filed' = Filed BY <1>2, <1>4 DEF Filed
<1>6. \A k : OfKind(k)' = OfKind(k) BY <1>1, <1>2, <1>4, <1>5 DEF OfKind, Filed
<1>7. day' \in Day /\ day'.worked = day.worked /\ day'.overtime = r.minutes /\ day'.extra = Left(r)
  BY EffectFields
<1>8. /\ r.minutes \in Nat /\ r.extra \in Nat /\ day.worked \in Nat /\ r.minutes <= day.worked /\ r.extra <= day.worked
  <2>1. r.minutes \in 0 .. MaxWorked /\ r.extra \in 0 .. MaxWorked /\ MaxWorked \in Nat BY DayFields DEF Decision
  <2>2. r.minutes <= day.worked /\ r.extra <= day.worked BY DEF MinutesWorked
  <2> QED BY <2>1, <2>2, DayFields
<1>9. ApprovalTypeOK' BY <1>1, <1>2, <1>7, LeavingKeeps DEF ApprovalTypeOK
<1>10. KindsKnown'
  <2>1. \A j \in Filed : item'[j].kind = item[j].kind BY <1>1, <1>4 DEF Filed
  <2> QED BY <1>3, <1>5, <2>1 DEF KindsKnown
<1>11. DecidedAsStatus' BY <1>1, <1>4, <1>5 DEF DecidedAsStatus, Filed
<1>12. MinutesWorked' BY <1>1, <1>3, <1>4, <1>5, <1>7 DEF MinutesWorked, Filed
<1>13. OneOvertime' BY <1>6 DEF OneOvertime
<1>14. \A j \in OfKind("overtime") : j = i BY <1>1 DEF OneOvertime
<1>15. AllExtra' BY <1>1, <1>4, <1>6, <1>14 DEF AllExtra
<1>16. \A j \in OfKind("correction") : item'[j] = item[j] BY <1>1, <1>4 DEF OfKind, Filed
<1>17. PaidAttendanceStands' BY DEF PaidAttendanceStands, RowUnlocked
<1>18. NotCountedTwice' BY <1>7, <1>8 DEF NotCountedTwice, Left
<1>19. ApprovedOvertimeStands'
  <2> SUFFICES ASSUME ~x.raced, ~x.stale PROVE day'.overtime = x.minutes /\ day'.overtime + day'.extra = day'.worked
    BY <1>4, <1>6, <1>14 DEF ApprovedOvertimeStands
  <2>1. NothingCredited /\ r.minutes = item[i].minutes /\ r.extra = day.extra BY <1>1 DEF AllExtra
  <2>2. r.extra = day.worked BY <2>1 DEF NothingCredited
  <2> QED BY <1>1, <1>7, <1>8, <2>1, <2>2 DEF Left
<1>20. CorrectionAnnounced' BY <1>6, <1>16 DEF CorrectionAnnounced
<1> QED BY <1>3, <1>9, <1>10, <1>11, <1>12, <1>13, <1>15, <1>17, <1>18, <1>19, <1>20

\* A decision on a pending request, or by id; raced says which.
LEMMA Decides ==
  ASSUME ApprovalInv, NEW w \in Desks, Done(w), UNCHANGED payroll, review[w].op \in {"inbox", "page"}, review[w].i \in Filed,
         NEW raced \in BOOLEAN, ~raced => item[review[w].i].status = "pending",
         review[w].op = "page" => item[review[w].i].kind \in Direct,
         review[w].op = "inbox" => ~raced, ~Refused(review[w]),
         item' = [item EXCEPT ![review[w].i] = DecidedRow(review[w], raced)], Effect(review[w])
  PROVE  ApprovalInv'
<1>1. PICK r \in Decision : r = review[w] BY ReviewShape DEF ApprovalInv
<1>2. r.i \in Filed /\ r.i \in Items /\ item[r.i] \in Item BY <1>1, ItemFields DEF ApprovalInv
<1>3. PICK x \in Item : x = DecidedRow(r, raced) BY <1>2, DecidedFields
<1>4. /\ x.kind = item[r.i].kind /\ x.minutes = item[r.i].minutes /\ x.stale = item[r.i].stale
      /\ x.status = (IF r.approve THEN "approved" ELSE "rejected")
      /\ x.raced = (item[r.i].raced \/ raced)
      /\ x.decided = (IF item[r.i].decided < 3 THEN item[r.i].decided + 1 ELSE item[r.i].decided)
      /\ x.applied = (IF r.approve THEN Bump(item[r.i].applied) ELSE item[r.i].applied)
      /\ x.told = (IF x.kind = "correction" THEN Bump(item[r.i].told) ELSE item[r.i].told)
  BY <1>2, <1>3, DecidedFields
<1>5. Leaving BY DoneLeaves DEF ApprovalInv
<1>6. item' = [item EXCEPT ![r.i] = x] BY <1>1, <1>3
<1>7. Effect(r) /\ (RowUnlocked \/ ~(r.approve /\ item[r.i].kind \in {"overtime", "correction"})) BY <1>1 DEF Refused
<1>8. x.raced \in BOOLEAN /\ r.approve \in BOOLEAN BY DEF Item, Decision
<1>9. ~x.raced => /\ ~item[r.i].raced /\ item[r.i].status = "pending" /\ x.decided = 1
                  /\ x.applied = (IF r.approve THEN 1 ELSE 0)
  <2> SUFFICES ASSUME ~x.raced PROVE /\ ~item[r.i].raced /\ item[r.i].status = "pending" /\ x.decided = 1
                                     /\ x.applied = (IF r.approve THEN 1 ELSE 0)
    OBVIOUS
  <2>1. ~item[r.i].raced /\ item[r.i].status = "pending" BY <1>1, <1>4
  <2>2. item[r.i].decided \in Nat /\ item[r.i].decided <= 0 /\ item[r.i].applied = 0
    BY <1>2, <2>1, ItemFields DEF ApprovalInv, DecidedAsStatus
  <2>3. item[r.i].decided = 0 BY <2>2
  <2> QED BY <1>4, <2>1, <2>2, <2>3 DEF Bump
<1>10. CASE x.kind = "overtime" /\ r.approve
  BY <1>1, <1>2, <1>4, <1>5, <1>6, <1>7, <1>8, <1>9, <1>10, OvertimeApproved
<1>11. CASE ~(x.kind = "overtime" /\ r.approve)
  <2>1. /\ day' \in Day /\ day'.worked = day.worked /\ day'.extra = day.extra /\ day'.overtime = day.overtime
        /\ day' = day \/ RowUnlocked
    BY <1>2, <1>4, <1>7, <1>11, EffectFields
  <2>2. x.minutes <= day.worked BY <1>2, <1>4 DEF ApprovalInv, MinutesWorked
  <2>3. ~x.raced => /\ x.decided <= (IF x.status = "pending" THEN 0 ELSE 1)
                    /\ x.applied = IF x.status = "approved" THEN 1 ELSE 0
    BY <1>4, <1>9
  <2>4. x.kind = "overtime" => x.status # "approved" BY <1>4, <1>11
  <2>5. ASSUME x.kind = "overtime", ~x.raced
        PROVE  /\ NothingCredited
               /\ ~x.stale => \A v \in Desks : review'[v].op \in {"inbox", "page"} /\ review'[v].i = r.i =>
                    review'[v].minutes = x.minutes /\ review'[v].extra = day.extra
    <3>1. r.i \in OfKind("overtime") /\ ~item[r.i].raced /\ item[r.i].status # "approved"
      BY <1>2, <1>4, <1>9, <2>5 DEF OfKind
    <3>2. \A v \in Desks : review'[v].op # "none" => review'[v] = review[v] BY <1>5, LeavingKeeps
    <3> QED BY <1>4, <3>1, <3>2 DEF ApprovalInv, AllExtra
  <2>6. ASSUME x.kind = "correction"
        PROVE  item[r.i].status = "pending" /\ item[r.i].told = 0
    <3>1. r.op = "inbox" BY <1>1, <1>4, <2>6 DEF Direct
    <3>2. item[r.i].status = "pending" BY <1>1, <3>1
    <3>3. r.i \in OfKind("correction") BY <1>2, <1>4, <2>6 DEF OfKind
    <3> QED BY <3>2, <3>3 DEF ApprovalInv, CorrectionAnnounced
  <2>7. ASSUME x.kind = "correction"
        PROVE  x.told = IF x.status \in {"approved", "rejected"} THEN 1 ELSE 0
    <3>1. x.told = 1 BY <1>4, <2>6, <2>7 DEF Bump
    <3>2. x.status \in {"approved", "rejected"} BY <1>4
    <3> QED BY <3>1, <3>2
  <2> QED BY <1>2, <1>4, <1>5, <1>6, <2>1, <2>2, <2>3, <2>4, <2>5, <2>7, RowChangesWithDay
<1> QED BY <1>10, <1>11

LEMMA ApprovalInboxReviewWrite == ASSUME ApprovalInv, NEW w \in Desks, InboxReviewWrite(w) PROVE ApprovalInv'
<1>1. review[w].op = "inbox" /\ Done(w) /\ UNCHANGED payroll BY DEF InboxReviewWrite
<1>2. CASE /\ review[w].i \in Filed /\ InboxClaims(review[w].i) /\ ~Refused(review[w])
           /\ item' = [item EXCEPT ![review[w].i] = DecidedRow(review[w], FALSE)]
           /\ Effect(review[w])
  BY <1>1, <1>2, Decides DEF InboxClaims
<1>3. CASE UNCHANGED <<item, day>>
  <2>1. Leaving BY <1>1, DoneLeaves DEF ApprovalInv
  <2> QED BY <1>1, <1>3, <2>1, OnlyLeaves
<1> QED BY <1>2, <1>3 DEF InboxReviewWrite

LEMMA ApprovalPageWrite == ASSUME ApprovalInv, NEW w \in Desks, PageWrite(w) PROVE ApprovalInv'
<1>1. review[w].op = "page" /\ Done(w) /\ UNCHANGED payroll BY DEF PageWrite
<1>2. CASE /\ review[w].i \in Filed /\ ~Refused(review[w])
           /\ item' = [item EXCEPT ![review[w].i] = DecidedRow(review[w], item[review[w].i].status # "pending")]
           /\ Effect(review[w])
  <2>1. PICK raced \in BOOLEAN : raced = (item[review[w].i].status # "pending") OBVIOUS
  <2>2. item' = [item EXCEPT ![review[w].i] = DecidedRow(review[w], raced)] BY <1>2, <2>1
  <2>3. review[w].i \in Items /\ item[review[w].i].kind \in Direct BY <1>1, <1>2 DEF ApprovalInv, KindsKnown, Filed
  <2> QED BY <1>1, <1>2, <2>1, <2>2, <2>3, Decides
<1>3. CASE UNCHANGED <<item, day>>
  <2>1. Leaving BY <1>1, DoneLeaves DEF ApprovalInv
  <2> QED BY <1>1, <1>3, <2>1, OnlyLeaves
<1> QED BY <1>2, <1>3 DEF PageWrite

-----------------------------------------------------------------------------
\* What else writes the row of the day, and the payroll.
\* A check-in and an override leave the minutes.
LEMMA DayWritten ==
  ASSUME ApprovalInv, UNCHANGED <<item, payroll, review>>, RowUnlocked, day' \in Day,
         day'.worked = day.worked, day'.extra = day.extra, day'.overtime = day.overtime
  PROVE  ApprovalInv'
<1> USE DEF ApprovalInv
<1>1. Filed' = Filed /\ \A k : OfKind(k)' = OfKind(k) BY DEF Filed, OfKind
<1>2. ApprovalTypeOK' /\ ReviewsTyped' BY DEF ApprovalTypeOK, ReviewsTyped
<1>3. KindsKnown' /\ DecidedAsStatus' /\ OneOvertime' BY <1>1 DEF KindsKnown, DecidedAsStatus, OneOvertime
<1>4. MinutesWorked' /\ AllExtra' BY <1>1 DEF MinutesWorked, AllExtra, NothingCredited
<1>5. NotCountedTwice' /\ ApprovedOvertimeStands' BY <1>1 DEF NotCountedTwice, ApprovedOvertimeStands
<1>6. CorrectionAnnounced' /\ PaidAttendanceStands'
  BY <1>1 DEF CorrectionAnnounced, PaidAttendanceStands, RowUnlocked
<1> QED BY <1>2, <1>3, <1>4, <1>5, <1>6

LEMMA ApprovalCheckIn == ASSUME ApprovalInv, CheckIn PROVE ApprovalInv'
<1>1. day' \in Day /\ day'.worked = day.worked /\ day'.extra = day.extra /\ day'.overtime = day.overtime
  BY DayFields DEF ApprovalInv, CheckIn, Day
<1> QED BY <1>1, DayWritten DEF CheckIn

LEMMA ApprovalOverride == ASSUME ApprovalInv, Override PROVE ApprovalInv'
<1>1. PICK n \in 0 .. 2 : n = day.edits + 1 BY DayFields DEF ApprovalInv, Override
<1>2. day' = [day EXCEPT !.in = TRUE, !.edits = n] BY <1>1 DEF Override
<1>3. day' \in Day /\ day'.worked = day.worked /\ day'.extra = day.extra /\ day'.overtime = day.overtime
  BY <1>2, DayFields DEF ApprovalInv, Day
<1> QED BY <1>3, DayWritten DEF Override

\* Requests become stale; nothing else of them changes.
LEMMA Stales ==
  ASSUME ApprovalInv, NEW S \in SUBSET Filed, UNCHANGED review,
         item' = [i \in Items |-> IF i \in S THEN [item[i] EXCEPT !.stale = TRUE] ELSE item[i]]
  PROVE  /\ item' \in [Items -> Item \cup {None}] /\ Filed' = Filed /\ \A k : OfKind(k)' = OfKind(k)
         /\ \A i \in Filed : /\ item'[i].kind = item[i].kind /\ item'[i].status = item[i].status
                             /\ item'[i].minutes = item[i].minutes /\ item'[i].decided = item[i].decided
                             /\ item'[i].applied = item[i].applied /\ item'[i].told = item[i].told
                             /\ item'[i].raced = item[i].raced
                             /\ item'[i].stale = (item[i].stale \/ i \in S)
         /\ KindsKnown' /\ DecidedAsStatus' /\ OneOvertime' /\ CorrectionAnnounced'
<1> USE DEF ApprovalInv
<1>1. ASSUME NEW i \in Filed
      PROVE  /\ item'[i] \in Item
             /\ item'[i].kind = item[i].kind /\ item'[i].status = item[i].status
             /\ item'[i].minutes = item[i].minutes /\ item'[i].decided = item[i].decided
             /\ item'[i].applied = item[i].applied /\ item'[i].told = item[i].told
             /\ item'[i].raced = item[i].raced
             /\ item'[i].stale = (item[i].stale \/ i \in S)
  <2>1. i \in Items /\ item[i] \in Item /\ item[i].stale \in BOOLEAN BY ItemFields
  <2>2. CASE i \in S
    <3>1. item'[i] = [item[i] EXCEPT !.stale = TRUE] BY <2>1, <2>2
    <3> QED BY <2>1, <2>2, <3>1 DEF Item
  <2>3. CASE i \notin S
    <3>1. item'[i] = item[i] BY <2>1, <2>3
    <3> QED BY <2>1, <2>3, <3>1
  <2> QED BY <2>2, <2>3
<1>2. \A i \in Items \ Filed : item'[i] = None BY DEF Filed
<1>3. item' \in [Items -> Item \cup {None}]
  <2>1. \A i \in Items : item'[i] \in Item \cup {None} BY <1>1, <1>2
  <2> QED BY <2>1
<1>4. Filed' = Filed
  <2>1. \A i \in Items : item'[i] # None <=> item[i] # None BY <1>1, <1>2, ApprovalsAssumption DEF Filed
  <2> QED BY <2>1 DEF Filed
<1>5. \A k : OfKind(k)' = OfKind(k) BY <1>1, <1>4 DEF OfKind
<1>6. KindsKnown' BY <1>1, <1>4 DEF KindsKnown
<1>7. DecidedAsStatus'
  <2>1. \A i \in Filed : ~item[i].raced =>
          /\ item[i].decided <= (IF item[i].status = "pending" THEN 0 ELSE 1)
          /\ item[i].applied = IF item[i].status = "approved" THEN 1 ELSE 0
    BY DEF DecidedAsStatus
  <2>2. \A i \in Filed : /\ item'[i].status = item[i].status /\ item'[i].decided = item[i].decided
                         /\ item'[i].applied = item[i].applied /\ item'[i].raced = item[i].raced
    BY <1>1
  <2> SUFFICES ASSUME NEW i \in Filed, ~item'[i].raced
               PROVE  /\ item'[i].decided <= (IF item'[i].status = "pending" THEN 0 ELSE 1)
                      /\ item'[i].applied = IF item'[i].status = "approved" THEN 1 ELSE 0
    BY <1>4 DEF DecidedAsStatus
  <2> QED BY <2>1, <2>2
<1>8. OneOvertime' BY <1>5 DEF OneOvertime
<1>9. \A k : OfKind(k) \subseteq Filed BY DEF OfKind
<1>10. CorrectionAnnounced' BY <1>1, <1>5, <1>9 DEF CorrectionAnnounced
<1> QED BY <1>1, <1>3, <1>4, <1>5, <1>6, <1>7, <1>8, <1>10

LEMMA ApprovalCheckOut == ASSUME ApprovalInv, NEW n \in 1 .. MaxWorked, CheckOut(n) PROVE ApprovalInv'
<1>1. PICK S \in SUBSET Filed : S = OfKind("overtime") BY DEF OfKind
<1>2. UNCHANGED payroll /\ UNCHANGED review BY DEF CheckOut
<1>3. item' = [i \in Items |-> IF i \in S THEN [item[i] EXCEPT !.stale = TRUE] ELSE item[i]] BY <1>1 DEF CheckOut
<1>4. /\ item' \in [Items -> Item \cup {None}] /\ Filed' = Filed /\ \A k : OfKind(k)' = OfKind(k)
      /\ \A i \in Filed : /\ item'[i].kind = item[i].kind /\ item'[i].status = item[i].status
                          /\ item'[i].minutes = item[i].minutes /\ item'[i].decided = item[i].decided
                          /\ item'[i].applied = item[i].applied /\ item'[i].told = item[i].told
                          /\ item'[i].raced = item[i].raced
                          /\ item'[i].stale = (item[i].stale \/ i \in S)
      /\ KindsKnown' /\ DecidedAsStatus' /\ OneOvertime' /\ CorrectionAnnounced'
  BY <1>2, <1>3, Stales
<1> USE DEF ApprovalInv
<1>5. MaxWorked \in Nat /\ day.worked \in Nat /\ n \in 0 .. MaxWorked /\ n > day.worked /\ day \in Day BY DayFields DEF CheckOut
<1>6. day' \in Day /\ day'.worked = n /\ day'.extra = n /\ day'.overtime = 0
  <2>1. 0 \in 0 .. MaxWorked BY <1>5
  <2>2. day' = [day EXCEPT !.worked = n, !.extra = n, !.overtime = 0] BY DEF CheckOut
  <2>3. day' \in Day BY <1>5, <2>1, <2>2 DEF Day
  <2> QED BY <1>5, <2>2, <2>3 DEF Day
<1>7. ApprovalTypeOK' /\ ReviewsTyped' BY <1>2, <1>4, <1>6 DEF ApprovalTypeOK, ReviewsTyped
<1>8. MinutesWorked'
  <2>1. \A i \in Filed : item[i].minutes \in Nat /\ item[i].minutes <= day.worked BY ItemFields DEF MinutesWorked
  <2>2. \A w \in Desks : review[w].op \in {"inbox", "page"} =>
          /\ review[w].minutes \in Nat /\ review[w].minutes <= day.worked
          /\ review[w].extra \in Nat /\ review[w].extra <= day.worked
    BY ReviewShape DEF MinutesWorked
  <2>3. \A w \in Desks : review[w].op = "overtime" => review[w].minutes \in Nat /\ review[w].minutes <= day.worked
    BY ReviewShape DEF MinutesWorked
  <2> QED BY <1>2, <1>4, <1>5, <1>6, <2>1, <2>2, <2>3 DEF MinutesWorked
<1>9. NothingCredited' BY <1>6 DEF NothingCredited
<1>10. \A i \in OfKind("overtime") : i \in Filed /\ item'[i].stale BY <1>1, <1>4 DEF OfKind
<1>11. AllExtra' BY <1>4, <1>9, <1>10 DEF AllExtra
<1>13. NotCountedTwice' BY <1>5, <1>6 DEF NotCountedTwice
<1>14. ApprovedOvertimeStands' BY <1>4, <1>10 DEF ApprovedOvertimeStands
<1>15. PaidAttendanceStands' BY DEF CheckOut, PaidAttendanceStands, RowUnlocked
<1> QED BY <1>4, <1>7, <1>8, <1>11, <1>13, <1>14, <1>15

LEMMA ApprovalProcessPayroll == ASSUME ApprovalInv, ProcessPayroll \/ RecallPayroll PROVE ApprovalInv'
<1> USE DEF ApprovalInv
<1>1. UNCHANGED <<item, day, review>> /\ payroll' \in {day, None} BY DEF ProcessPayroll, RecallPayroll
<1>2. Filed' = Filed /\ \A k : OfKind(k)' = OfKind(k) BY <1>1 DEF Filed, OfKind
<1>3. ApprovalTypeOK' /\ ReviewsTyped' BY <1>1 DEF ApprovalTypeOK, ReviewsTyped
<1>4. KindsKnown' /\ DecidedAsStatus' /\ OneOvertime' BY <1>1, <1>2 DEF KindsKnown, DecidedAsStatus, OneOvertime
<1>5. MinutesWorked' /\ AllExtra' BY <1>1, <1>2 DEF MinutesWorked, AllExtra, NothingCredited
<1>6. NotCountedTwice' /\ ApprovedOvertimeStands' BY <1>1, <1>2 DEF NotCountedTwice, ApprovedOvertimeStands
<1>7. CorrectionAnnounced' /\ PaidAttendanceStands' BY <1>1, <1>2 DEF CorrectionAnnounced, PaidAttendanceStands
<1> QED BY <1>3, <1>4, <1>5, <1>6, <1>7

LEMMA ApprovalNextInv == ApprovalInv /\ [ApprovalNext]_approvalVars => ApprovalInv'
<1> SUFFICES ASSUME ApprovalInv, [ApprovalNext]_approvalVars PROVE ApprovalInv' OBVIOUS
<1>1. CASE ApprovalNext
  <2>1. ASSUME NEW i \in Items, NEW k \in Kinds, File(i, k) PROVE ApprovalInv' BY <2>1, ApprovalFile
  <2>2. CASE Notice BY <2>2, ApprovalNotice
  <2>3. ASSUME NEW i \in Items, CancelOwn(i) PROVE ApprovalInv' BY <2>3, ApprovalCancelOwn
  <2>4. ASSUME NEW w \in Desks, OvertimeRead(w) \/ OvertimeWrite(w) \/ CorrectionRead(w) \/ CorrectionWrite(w)
        PROVE  ApprovalInv'
    BY <2>4, ApprovalOvertimeRead, ApprovalOvertimeWrite, ApprovalCorrectionRead, ApprovalCorrectionWrite
  <2>5. ASSUME NEW w \in Desks, NEW i \in Items, NEW approve \in BOOLEAN,
               InboxReviewRead(w, i, approve) \/ PageRead(w, i, approve)
        PROVE  ApprovalInv'
    BY <2>5, ApprovalInboxReviewRead, ApprovalPageRead
  <2>6. ASSUME NEW w \in Desks, NEW i \in Items, DeleteRead(w, i) \/ NoticeCancelRead(w, i) PROVE ApprovalInv'
    BY <2>6, ApprovalDeleteRead, ApprovalNoticeCancelRead
  <2>7. ASSUME NEW w \in Desks, InboxReviewWrite(w) \/ PageWrite(w) \/ DeleteWrite(w) \/ NoticeCancelWrite(w)
        PROVE  ApprovalInv'
    BY <2>7, ApprovalInboxReviewWrite, ApprovalPageWrite, ApprovalDeleteWrite, ApprovalNoticeCancelWrite
  <2>8. CASE CheckIn BY <2>8, ApprovalCheckIn
  <2>9. CASE ProcessPayroll \/ RecallPayroll BY <2>9, ApprovalProcessPayroll
  <2>10. CASE Override BY <2>10, ApprovalOverride
  <2>11. ASSUME NEW n \in 1 .. MaxWorked, CheckOut(n) PROVE ApprovalInv' BY <2>11, ApprovalCheckOut
  <2> QED BY <1>1, <2>1, <2>2, <2>3, <2>4, <2>5, <2>6, <2>7, <2>8, <2>9, <2>10, <2>11 DEF ApprovalNext
<1>2. CASE UNCHANGED approvalVars
  <2>1. UNCHANGED <<item, day, payroll, review>> BY <1>2 DEF approvalVars
  <2>2. Leaving BY <2>1, NobodyMoves
  <2> QED BY <2>1, <2>2, OnlyLeaves
<1> QED BY <1>1, <1>2

\* Whatever desks decide at once, in the inbox and on the pages, with check-ins,
\* check-outs and payroll between a decision's read and its write: a request is
\* decided, applied and announced once, office time is never paid and kept,
\* approved overtime is what the attendance row holds, and the attendance of a
\* processed payroll stands, but for the overlaps each part names.
THEOREM ApprovalsHold == ApprovalSpec => []ApprovalsSafe
<1>1. ApprovalSpec => []ApprovalInv
  BY ApprovalInvInit, ApprovalNextInv, PTL DEF ApprovalSpec
<1> QED BY <1>1, ApprovalInvImplies, PTL

-----------------------------------------------------------------------------
(* Leave *)

LeaveSpec == LeaveInit /\ [][LeaveNext]_leaveVars

\* What an HTTP request in progress has read.
DeskRecord == {Idle} \cup [op : {"submit"}, from : Days, to : Days, twin : {"none", "pending", "unlimited"}]
                     \cup [op : {"cancel", "reject", "inbox"}, r : Requests]

\* The year may be overdrawn.
Excused(y) == cut \/ \E r \in Sent : YearOf(req[r].from) = y /\ req[r].twin # "none"
\* The balance of its year still covers a request.
Fits(from, to) ==
  \/ Excused(YearOf(from))
  \/ balance[YearOf(from)] # None /\ balance[YearOf(from)].used + Cost(from, to) <= balance[YearOf(from)].total

\* A submission in progress overlaps no other, and has its days if no request
\* is pending.
DeskKnows(w) ==
  /\ at[w].op \in {"cancel", "reject", "inbox"} => at[w].r \in Sent
  /\ at[w].op = "submit" =>
       \A x \in Sent : Live(x) /\ Overlaps(x, at[w].from, at[w].to) => req[x].twin = "submitted"
  /\ at[w].op = "submit" /\ at[w].twin = "none" =>
       Fits(at[w].from, at[w].to) /\ \A x \in Waiting : req[x].twin # "none"
DesksKnow == at \in [Desks -> DeskRecord] /\ \A w \in Desks : DeskKnows(w)

\* A pending request has cost nothing; one that never met another is the only
\* one, and has its days.
PendingFits ==
  \A r \in Waiting : /\ req[r].taken = 0
                     /\ req[r].twin = "none" => Fits(req[r].from, req[r].to) /\ \A x \in Waiting : x = r

\* A year without a balance: only the second, and nothing was booked on it.
Unopened ==
  /\ balance[1] # None
  /\ balance[2] = None => carried = 0 /\ adjusted[2] = 0 /\ DaysCharged(2) = {} /\ \A g \in grants : g[1] # 2

LeaveInv ==
  /\ LeaveTypeOK /\ DesksKnow /\ PendingFits /\ Unopened /\ DeductedOnce /\ UsedAddsUp /\ NoDoubleBooking
  /\ WithinBalance /\ AccruedOnce /\ LeaveDaysWereApproved

LEMMA LeaveNumbers ==
  /\ Increment \in Nat /\ CarryCap \in Nat /\ Opening \in Nat /\ MaxTotal \in Nat /\ NewYear \in Nat /\ Opening <= MaxTotal
  /\ Days \subseteq Nat /\ Working \subseteq Days /\ IsFiniteSet(Requests) /\ IsFiniteSet(Days) /\ IsFiniteSet(Working)
  /\ Years = {1, 2} /\ LastMonth = 4 /\ \A d : YearOf(d) \in Years
<1>1. /\ Increment \in Nat /\ CarryCap \in Nat /\ Opening \in Nat /\ MaxTotal \in Nat /\ NewYear \in Nat /\ Opening <= MaxTotal
      /\ Days \subseteq Nat /\ Working \subseteq Days /\ IsFiniteSet(Requests) /\ IsFiniteSet(Days)
  BY LeaveAssumption
<1>2. IsFiniteSet(Working) BY <1>1, FS_Subset
<1>3. Years = {1, 2} /\ LastMonth = 4 /\ \A d : YearOf(d) \in Years BY DEF Years, LastMonth, YearOf
<1> QED BY <1>1, <1>2, <1>3

LEMMA CostType ==
  ASSUME NEW from, NEW to
  PROVE  Cost(from, to) \in Nat /\ IsFiniteSet(Period(from, to) \cap Working)
<1>1. Period(from, to) \cap Working \subseteq Days BY DEF Period
<1>2. IsFiniteSet(Period(from, to) \cap Working) BY <1>1, LeaveNumbers, FS_Subset
<1> QED BY <1>2, FS_CardinalityType DEF Cost

LEMMA LeaveRowFields ==
  ASSUME LeaveTypeOK, NEW r \in Sent
  PROVE  /\ r \in Requests /\ req[r] \in LeaveRequest /\ req[r] # None /\ req[r].from \in Days /\ req[r].to \in Days
         /\ req[r].status \in {"pending", "approved", "rejected", "cancelled"} /\ req[r].taken \in 0 .. 2
         /\ req[r].free \in BOOLEAN /\ req[r].raced \in BOOLEAN /\ req[r].twin \in {"none", "pending", "submitted", "unlimited"}
<1>1. r \in Requests /\ req[r] \in LeaveRequest /\ req[r] # None BY DEF LeaveTypeOK, Sent
<1> QED BY <1>1 DEF LeaveRequest

LEMMA BalanceFields ==
  ASSUME LeaveTypeOK, NEW y \in Years, balance[y] # None
  PROVE  /\ balance[y] \in Balance /\ balance[y].total \in Int /\ balance[y].total \in (0 - MaxTotal) .. MaxTotal
         /\ balance[y].used \in Nat /\ balance[y].used \in 0 .. Cardinality(Requests) * Cardinality(Days)
<1>1. balance[y] \in Balance BY DEF LeaveTypeOK
<1>2. Cardinality(Requests) \in Nat /\ Cardinality(Days) \in Nat BY LeaveNumbers, FS_CardinalityType
<1>3. PICK n : n = Cardinality(Requests) * Cardinality(Days) OBVIOUS
<1>4. balance[y].total \in (0 - MaxTotal) .. MaxTotal /\ balance[y].used \in 0 .. n BY <1>1, <1>3 DEF Balance
<1>5. n \in Nat BY <1>2, <1>3
<1> QED BY <1>1, <1>3, <1>4, <1>5, LeaveNumbers

\* The working days that are charged to a year.
LEMMA ChargedType ==
  ASSUME NEW y
  PROVE  /\ IsFiniteSet(DaysCharged(y)) /\ Cardinality(DaysCharged(y)) \in 0 .. Cardinality(Requests) * Cardinality(Days)
         /\ IsFiniteSet(DaysCharged(y)') /\ Cardinality(DaysCharged(y)') \in 0 .. Cardinality(Requests) * Cardinality(Days)
<1>1. IsFiniteSet(Requests \X Days) /\ Cardinality(Requests \X Days) = Cardinality(Requests) * Cardinality(Days) BY LeaveNumbers, FS_Product
<1>2. ASSUME NEW S \in SUBSET (Requests \X Days) PROVE IsFiniteSet(S) /\ Cardinality(S) \in 0 .. Cardinality(Requests) * Cardinality(Days)
  <2>1. IsFiniteSet(S) /\ Cardinality(S) <= Cardinality(Requests \X Days) BY <1>1, FS_Subset
  <2>2. Cardinality(S) \in Nat /\ Cardinality(Requests \X Days) \in Nat BY <1>1, <2>1, FS_CardinalityType
  <2> QED BY <1>1, <2>1, <2>2
<1>3. DaysCharged(y) \in SUBSET (Requests \X Days) /\ DaysCharged(y)' \in SUBSET (Requests \X Days) BY DEF DaysCharged, Sent
<1> QED BY <1>2, <1>3

\* A request stays, and may meet another.
RowKept(r) ==
  /\ req'[r] # None /\ req'[r].from = req[r].from /\ req'[r].to = req[r].to
  /\ req'[r].twin = req[r].twin \/ (req[r].twin = "none" /\ req'[r].twin = "pending")
RowsKept == \A r \in Sent : RowKept(r)
\* The days that are left do not become fewer.
BalanceKept(y) ==
  balance[y] # None => balance'[y] # None /\ balance[y].total + balance'[y].used <= balance'[y].total + balance[y].used

LEMMA RowsKeptSent == ASSUME RowsKept PROVE Sent \subseteq Sent' BY DEF RowsKept, RowKept, Sent

LEMMA ExcusedKept ==
  ASSUME RowsKept, cut => cut', NEW y
  PROVE  Excused(y) => Excused(y)'
<1> SUFFICES ASSUME Excused(y) PROVE Excused(y)' OBVIOUS
<1>1. CASE cut BY <1>1 DEF Excused
<1>2. CASE \E r \in Sent : YearOf(req[r].from) = y /\ req[r].twin # "none"
  <2>1. PICK r \in Sent : YearOf(req[r].from) = y /\ req[r].twin # "none" BY <1>2
  <2>2. r \in Sent' /\ YearOf(req'[r].from) = y /\ req'[r].twin # "none" BY <2>1, RowsKeptSent DEF RowsKept, RowKept, YearOf
  <2> QED BY <2>2 DEF Excused, YearOf
<1> QED BY <1>1, <1>2 DEF Excused

LEMMA FitsKept ==
  ASSUME LeaveTypeOK, LeaveTypeOK', RowsKept, cut => cut', NEW from, NEW to, BalanceKept(YearOf(from)) \/ Excused(YearOf(from))'
  PROVE  Fits(from, to) => Fits(from, to)'
<1>1. PICK y : y = YearOf(from) OBVIOUS
<1>2. y \in Years /\ YearOf(from)' = y BY <1>1, LeaveNumbers DEF YearOf
<1>3. CASE Excused(y)' BY <1>1, <1>3 DEF Fits, YearOf, Excused
<1>4. CASE BalanceKept(y) /\ balance[y] # None /\ balance[y].used + Cost(from, to) <= balance[y].total
  <2>1. balance'[y] # None /\ balance[y].total + balance'[y].used <= balance'[y].total + balance[y].used BY <1>4 DEF BalanceKept
  <2>2. balance[y].used \in Nat /\ balance[y].total \in Int /\ Cost(from, to) \in Nat BY <1>2, <1>4, BalanceFields, CostType
  <2>3. balance'[y].used \in Int /\ balance'[y].total \in Int
    <3>1. balance'[y] \in Balance BY <1>2, <2>1 DEF LeaveTypeOK
    <3> QED BY <3>1 DEF Balance
  <2>4. balance'[y].used + Cost(from, to) <= balance'[y].total BY <1>4, <2>1, <2>2, <2>3
  <2> QED BY <1>1, <2>1, <2>4 DEF Fits, YearOf, Cost, Period
<1>5. Excused(y) => Excused(y)' BY ExcusedKept
<1> QED BY <1>1, <1>3, <1>4, <1>5 DEF Fits

LEMMA LeaveInvInit == LeaveInit => LeaveInv
<1> SUFFICES ASSUME LeaveInit PROVE LeaveInv OBVIOUS
<1>1. Sent = {} /\ Waiting = {} BY DEF LeaveInit, Sent, Waiting
<1>2. \A w \in Desks : at[w] = Idle /\ at[w].op = "none" BY DEF LeaveInit, Idle
<1>3. PICK full : full = [total |-> Opening, used |-> 0] OBVIOUS
<1>4. Cardinality(Requests) \in Nat /\ Cardinality(Days) \in Nat BY LeaveNumbers, FS_CardinalityType
<1>5. 0 \in 0 .. Cardinality(Requests) * Cardinality(Days)
  <2>1. Cardinality(Requests) * Cardinality(Days) \in Nat BY <1>4
  <2> QED BY <2>1
<1>6. full \in Balance /\ full # None /\ full.total = Opening /\ full.used = 0
  <2>1. Opening \in (0 - MaxTotal) .. MaxTotal BY LeaveNumbers
  <2> QED BY <1>3, <1>5, <2>1, LeaveRowsAssumption DEF Balance
<1>7. balance = [y \in Years |-> IF y = 1 THEN full ELSE None] BY <1>3 DEF LeaveInit
<1>8. balance[1] = full /\ balance[2] = None BY <1>7, LeaveNumbers
<1>9. LeaveTypeOK
  <2>1. balance \in [Years -> Balance \cup {None}] BY <1>6, <1>7
  <2>2. month \in 1 .. LastMonth /\ carried \in 0 .. CarryCap BY LeaveNumbers DEF LeaveInit
  <2>3. adjusted \in [Years -> Int] BY DEF LeaveInit
  <2> QED BY <1>2, <2>1, <2>2, <2>3 DEF LeaveInit, LeaveTypeOK
<1>10. at \in [Desks -> DeskRecord] /\ \A w \in Desks : DeskKnows(w) BY <1>2 DEF LeaveInit, DeskRecord, DeskKnows
<1>11. \A y : DaysCharged(y) = {} BY <1>1 DEF DaysCharged
<1>12. grants = {} /\ carried = 0 /\ \A y \in Years : adjusted[y] = 0 BY DEF LeaveInit
<1>13. Unopened BY <1>6, <1>8, <1>11, <1>12, LeaveNumbers DEF Unopened
<1>14. \A y \in Years : balance[y] # None => y = 1 BY <1>7
<1>15. UsedAddsUp
  <2>1. Cardinality(DaysCharged(1)) = 0 BY <1>11, FS_EmptySet
  <2> QED BY <1>6, <1>8, <1>14, <2>1 DEF UsedAddsUp
<1>16. WithinBalance BY <1>6, <1>8, <1>14, LeaveNumbers DEF WithinBalance
<1>17. AccruedOnce
  <2>1. {g \in grants : g[1] = 1} = {} BY <1>12
  <2>2. Cardinality({g \in grants : g[1] = 1}) = 0 BY <2>1, FS_EmptySet
  <2>3. adjusted[1] = 0 BY <1>12, LeaveNumbers
  <2>4. Opening = Opening + 0 + Increment * 0 BY LeaveNumbers
  <2> QED BY <1>6, <1>8, <1>14, <2>2, <2>3, <2>4 DEF AccruedOnce
<1>18. LeaveDaysWereApproved BY <1>1 DEF LeaveInit, LeaveDaysWereApproved, ApprovedOff
<1>19. PendingFits /\ DeductedOnce /\ NoDoubleBooking BY <1>1 DEF PendingFits, DeductedOnce, NoDoubleBooking
<1> QED BY <1>9, <1>10, <1>13, <1>15, <1>16, <1>17, <1>18, <1>19 DEF LeaveInv, DesksKnow

LEMMA LeaveInvImplies == LeaveInv => LeaveSafe
  BY DEF LeaveInv, LeaveSafe

\* What was taken for a request does not change, and a new request has cost nothing.
TakenKept ==
  /\ \A r \in Sent : req'[r].taken = req[r].taken /\ req'[r].free = req[r].free
  /\ \A r \in Sent' \ Sent : req'[r].taken = 0

LEMMA ChargedKept ==
  ASSUME LeaveTypeOK, RowsKept, TakenKept, NEW y
  PROVE  DaysCharged(y)' = DaysCharged(y)
<1>1. ASSUME NEW r \in Sent PROVE (Charged(r, y)' <=> Charged(r, y)) /\ \A d \in Days : Marked(d, r)' <=> Marked(d, r)
  BY DEF RowsKept, RowKept, TakenKept, Charged, Marked, YearOf, Period
<1>2. ASSUME NEW r \in Sent' \ Sent PROVE ~Charged(r, y)' BY DEF TakenKept, Charged
<1>3. Sent \subseteq Sent' BY RowsKeptSent
<1>4. ASSUME NEW p \in Sent' \X Days PROVE p \in DaysCharged(y)' <=> p \in DaysCharged(y)
  <2>1. p[1] \in Sent' /\ p[2] \in Days OBVIOUS
  <2>2. CASE p[1] \in Sent
    <3>1. p \in Sent \X Days BY <2>2
    <3>2. (Charged(p[1], y)' <=> Charged(p[1], y)) /\ (Marked(p[2], p[1])' <=> Marked(p[2], p[1])) BY <1>1, <2>1, <2>2
    <3> QED BY <3>1, <3>2 DEF DaysCharged
  <2>3. CASE p[1] \notin Sent
    <3>1. ~Charged(p[1], y)' BY <1>2, <2>1, <2>3
    <3> QED BY <2>3, <3>1 DEF DaysCharged
  <2> QED BY <2>2, <2>3
<1>5. DaysCharged(y)' \subseteq Sent' \X Days /\ DaysCharged(y) \subseteq Sent' \X Days BY <1>3 DEF DaysCharged
<1> QED BY <1>4, <1>5

\* Requests come and go without touching the balances.
LEMMA MoneyKept ==
  ASSUME LeaveInv, RowsKept, TakenKept, UNCHANGED <<balance, grants, carried, adjusted, cut, att>>
  PROVE  Unopened' /\ UsedAddsUp' /\ WithinBalance' /\ AccruedOnce' /\ LeaveDaysWereApproved'
<1>0. LeaveTypeOK BY DEF LeaveInv
<1>1. \A y : DaysCharged(y)' = DaysCharged(y) BY <1>0, ChargedKept
<1>2. Unopened' BY <1>1 DEF LeaveInv, Unopened
<1>3. UsedAddsUp' BY <1>1 DEF LeaveInv, UsedAddsUp
<1>4. WithinBalance'
  <2> SUFFICES ASSUME NEW y \in Years, balance[y] # None, balance[y].used > balance[y].total PROVE Excused(y)'
    BY DEF WithinBalance, Excused
  <2>1. Excused(y) BY DEF LeaveInv, WithinBalance, Excused
  <2> QED BY <2>1, ExcusedKept
<1>5. AccruedOnce' BY DEF LeaveInv, AccruedOnce
<1>6. LeaveDaysWereApproved'
  <2> SUFFICES ASSUME NEW d \in Days PROVE ApprovedOff(d)' <=> ApprovedOff(d)
    BY DEF LeaveInv, LeaveDaysWereApproved
  <2>1. \A r \in Sent' : r \in Sent \/ ~(req'[r].taken > 0) BY DEF TakenKept
  <2>2. \A r \in Sent : r \in Sent' /\ req'[r].taken = req[r].taken /\ (Marked(d, r)' <=> Marked(d, r))
    BY RowsKeptSent DEF RowsKept, RowKept, TakenKept, Marked, Period
  <2> QED BY <2>1, <2>2 DEF ApprovedOff
<1> QED BY <1>2, <1>3, <1>4, <1>5, <1>6

\* Requests read and decide without touching the balances.
LEMMA DecidedInv ==
  ASSUME LeaveInv, UNCHANGED <<balance, grants, carried, adjusted, cut, att>>, month' \in 1 .. LastMonth, shifts' \subseteq Days,
         req' \in [Requests -> LeaveRequest \cup {None}], Sent' = Sent, at' \in [Desks -> DeskRecord],
         \A r \in Sent : /\ req'[r].from = req[r].from /\ req'[r].to = req[r].to /\ req'[r].taken = req[r].taken
                         /\ req'[r].free = req[r].free /\ req'[r].twin = req[r].twin /\ (req[r].raced => req'[r].raced)
                         /\ \/ req'[r].status = req[r].status
                            \/ req'[r].status \in {"cancelled", "rejected"} /\ (req[r].taken = 1 => req'[r].raced),
         \A w \in Desks : at'[w] = at[w] \/ DeskKnows(w)'
  PROVE  LeaveInv'
<1>0. LeaveTypeOK BY DEF LeaveInv
<1>1. RowsKept /\ TakenKept BY DEF RowsKept, RowKept, TakenKept, Sent
<1>2. Unopened' /\ UsedAddsUp' /\ WithinBalance' /\ AccruedOnce' /\ LeaveDaysWereApproved' BY <1>1, MoneyKept
<1>3. \A w \in Desks : at'[w].op \in {"none", "submit", "cancel", "reject", "inbox"}
  <2>1. \A w \in Desks : at'[w] \in DeskRecord OBVIOUS
  <2> QED BY <2>1 DEF DeskRecord, Idle
<1>4. LeaveTypeOK' BY <1>0, <1>3 DEF LeaveTypeOK
<1>5. \A r \in Sent : /\ Live(r)' => Live(r)
                      /\ req'[r].status = "pending" => req[r].status = "pending"
  BY DEF Live
<1>6. Waiting' \subseteq Waiting BY <1>5 DEF Waiting
<1>7. \A from, to : Fits(from, to) => Fits(from, to)'
  <2>1. \A y \in Years : BalanceKept(y)
    <3> SUFFICES ASSUME NEW y \in Years, balance[y] # None
                 PROVE  balance[y].total + balance[y].used <= balance[y].total + balance[y].used
      BY DEF BalanceKept
    <3> QED BY <1>0, BalanceFields
  <2>2. \A from : BalanceKept(YearOf(from)) BY <2>1, LeaveNumbers
  <2> QED BY <1>0, <1>1, <1>4, <2>2, FitsKept
<1>8. DesksKnow'
  <2> SUFFICES ASSUME NEW w \in Desks PROVE DeskKnows(w)' BY DEF DesksKnow
  <2>1. DeskKnows(w) BY DEF LeaveInv, DesksKnow
  <2>2. CASE at'[w] = at[w]
    <3>1. at[w].op \in {"cancel", "reject", "inbox"} => at[w].r \in Sent' BY <2>1 DEF DeskKnows
    <3>2. ASSUME at[w].op = "submit", NEW x \in Sent', Live(x)', Overlaps(x, at[w].from, at[w].to)' PROVE req'[x].twin = "submitted"
      <4>1. x \in Sent /\ Live(x) /\ Overlaps(x, at[w].from, at[w].to) BY <1>5, <2>2, <3>2 DEF Overlaps
      <4> QED BY <2>1, <3>2, <4>1 DEF DeskKnows
    <3>3. ASSUME at[w].op = "submit", at[w].twin = "none"
          PROVE  Fits(at[w].from, at[w].to)' /\ \A x \in Waiting' : req'[x].twin # "none"
      <4>1. Fits(at[w].from, at[w].to) /\ \A x \in Waiting : req[x].twin # "none" BY <2>1, <3>3 DEF DeskKnows
      <4>2. \A x \in Waiting' : x \in Sent BY <1>6 DEF Waiting
      <4>3. PICK from, to : from = at[w].from /\ to = at[w].to OBVIOUS
      <4>4. Fits(from, to)' BY <1>7, <4>1, <4>3
      <4>5. Fits(at[w].from, at[w].to)' BY <2>2, <4>3, <4>4 DEF Fits, Excused, Cost, Period, YearOf
      <4> QED BY <1>6, <4>1, <4>2, <4>5
    <3> QED BY <2>2, <3>1, <3>2, <3>3 DEF DeskKnows
  <2>3. CASE DeskKnows(w)' BY <2>3
  <2> QED BY <2>2, <2>3
<1>9. PendingFits'
  <2> SUFFICES ASSUME NEW r \in Waiting'
               PROVE  /\ req'[r].taken = 0
                      /\ req'[r].twin = "none" => Fits(req[r].from, req[r].to)' /\ \A x \in Waiting' : x = r
    BY DEF PendingFits
  <2>1. r \in Waiting /\ r \in Sent BY <1>6 DEF Waiting
  <2>2. /\ req[r].taken = 0
        /\ req[r].twin = "none" => Fits(req[r].from, req[r].to) /\ \A x \in Waiting : x = r
    BY <2>1 DEF LeaveInv, PendingFits
  <2>3. PICK from, to : from = req[r].from /\ to = req[r].to OBVIOUS
  <2>4. req'[r].from = from /\ req'[r].to = to BY <2>1, <2>3
  <2>5. Fits(req[r].from, req[r].to) => Fits(from, to)' BY <1>7, <2>3
  <2>6. Fits(from, to)' => Fits(req[r].from, req[r].to)' BY <2>4 DEF Fits, Excused, Cost, Period, YearOf
  <2> QED BY <1>6, <2>1, <2>2, <2>5, <2>6
<1>10. DeductedOnce'
  <2> SUFFICES ASSUME NEW r \in Sent
               PROVE  /\ req'[r].taken <= 1
                      /\ req'[r].status = "approved" => req'[r].taken = 1
                      /\ req'[r].taken = 1 /\ req'[r].status # "approved" => req'[r].raced
    BY DEF DeductedOnce
  <2>1. /\ req[r].taken <= 1
        /\ req[r].status = "approved" => req[r].taken = 1
        /\ req[r].taken = 1 /\ req[r].status # "approved" => req[r].raced
    BY DEF LeaveInv, DeductedOnce
  <2> QED BY <2>1
<1>11. NoDoubleBooking'
  <2> SUFFICES ASSUME NEW r \in Sent, NEW x \in Sent, r # x, Live(r)', Live(x)', Overlaps(r, req[x].from, req[x].to)'
               PROVE  "submitted" \in {req'[r].twin, req'[x].twin}
    BY DEF NoDoubleBooking
  <2>1. Live(r) /\ Live(x) BY <1>5
  <2>2. Overlaps(r, req[x].from, req[x].to) BY DEF Overlaps
  <2>3. "submitted" \in {req[r].twin, req[x].twin} BY <2>1, <2>2 DEF LeaveInv, NoDoubleBooking
  <2> QED BY <2>3
<1> QED BY <1>2, <1>4, <1>8, <1>9, <1>10, <1>11 DEF LeaveInv

LEMMA DeskShape ==
  ASSUME LeaveInv, NEW w \in Desks
  PROVE  /\ at[w] \in DeskRecord /\ at[w].op \in {"none", "submit", "cancel", "reject", "inbox"}
         /\ at[w].op = "submit" => at[w].from \in Days /\ at[w].to \in Days /\ at[w].twin \in {"none", "pending", "unlimited"}
         /\ at[w].op \in {"cancel", "reject", "inbox"} => at[w].r \in Requests /\ at[w].r \in Sent
         /\ DeskKnows(w)
<1>1. at[w] \in DeskRecord /\ DeskKnows(w) BY DEF LeaveInv, DesksKnow
<1>2. at[w].op \in {"cancel", "reject", "inbox"} => at[w].r \in Sent BY <1>1 DEF DeskKnows
<1> QED BY <1>1, <1>2 DEF DeskRecord, Idle

LEMMA IdleKnows == ASSUME NEW w \in Desks, at'[w] = Idle PROVE DeskKnows(w)'
<1>1. at'[w].op = "none" BY DEF Idle
<1> QED BY <1>1 DEF DeskKnows

LEMMA NothingDecided ==
  ASSUME LeaveInv, UNCHANGED <<req, balance, grants, carried, adjusted, cut, att>>, month' \in 1 .. LastMonth, shifts' \subseteq Days,
         at' \in [Desks -> DeskRecord], \A w \in Desks : at'[w] = at[w] \/ DeskKnows(w)'
  PROVE  LeaveInv'
<1>1. req' \in [Requests -> LeaveRequest \cup {None}] BY DEF LeaveInv, LeaveTypeOK
<1>2. Sent' = Sent BY DEF Sent
<1> QED BY <1>1, <1>2, DecidedInv

\* One desk has read something.
LEMMA DeskWrites ==
  ASSUME LeaveInv, NEW w \in Desks, NEW x \in DeskRecord, at' = [at EXCEPT ![w] = x]
  PROVE  at' \in [Desks -> DeskRecord] /\ at'[w] = x /\ \A v \in Desks \ {w} : at'[v] = at[v]
  BY DEF LeaveInv, DesksKnow

LEMMA IdleRecord == Idle \in DeskRecord BY DEF DeskRecord

LEMMA SubmitReadInv ==
  ASSUME LeaveInv, NEW w \in Desks, NEW from \in Days, NEW to \in Days, SubmitRead(w, from, to)
  PROVE  LeaveInv'
<1>0. LeaveTypeOK BY DEF LeaveInv
<1>1. /\ Cost(from, to) > 0 /\ ~Blocked(from, to) /\ Covered(from, to)
      /\ UNCHANGED <<req, balance, accrualVars, att, shifts>>
  BY DEF SubmitRead
<1>2. UNCHANGED <<month, grants, carried, adjusted, cut>> BY <1>1 DEF accrualVars
<1>3. PICK twin \in {"none", "pending", "unlimited"} :
        twin = IF Unlimited(YearOf(from)) THEN "unlimited" ELSE IF Waiting # {} THEN "pending" ELSE "none"
  OBVIOUS
<1>4. PICK x : x = [op |-> "submit", from |-> from, to |-> to, twin |-> twin] OBVIOUS
<1>5. x \in DeskRecord /\ x.op = "submit" /\ x.from = from /\ x.to = to /\ x.twin = twin BY <1>4 DEF DeskRecord
<1>6. at' = [at EXCEPT ![w] = x] BY <1>3, <1>4 DEF SubmitRead
<1>7. at' \in [Desks -> DeskRecord] /\ at'[w] = x /\ \A v \in Desks \ {w} : at'[v] = at[v] BY <1>5, <1>6, DeskWrites
<1>8. Sent' = Sent /\ Waiting' = Waiting BY <1>1 DEF Sent, Waiting
<1>9. \A y \in Sent' : ~(Live(y)' /\ Overlaps(y, at[w].from, at[w].to)') BY <1>1, <1>5, <1>7, <1>8 DEF Blocked, Live, Overlaps
<1>10. ASSUME twin = "none" PROVE Fits(at[w].from, at[w].to)' /\ \A y \in Waiting' : req'[y].twin # "none"
  <2>1. Waiting = {} /\ ~Unlimited(YearOf(from)) /\ balance[YearOf(from)] # None BY <1>3, <1>10 DEF Unlimited
  <2>2. PICK y \in Years : y = YearOf(from) BY LeaveNumbers
  <2>3. balance[y].total \in Int /\ balance[y].used \in Nat /\ Cost(from, to) \in Nat BY <1>0, <2>1, <2>2, BalanceFields, CostType
  <2>4. Cost(from, to) <= Available(y) BY <1>1, <2>1, <2>2 DEF Covered
  <2>5. balance[y].used + Cost(from, to) <= balance[y].total BY <1>1, <2>3, <2>4 DEF Available
  <2>6. Fits(from, to) BY <2>1, <2>2, <2>5 DEF Fits
  <2>7. at'[w].from = from /\ at'[w].to = to BY <1>5, <1>7
  <2>8. Fits(at[w].from, at[w].to)' BY <1>1, <1>2, <2>6, <2>7 DEF Fits, Excused, Cost, Period, YearOf, Sent
  <2> QED BY <1>8, <2>1, <2>8
<1>11. DeskKnows(w)' BY <1>5, <1>7, <1>9, <1>10 DEF DeskKnows
<1>12. month' \in 1 .. LastMonth /\ shifts' \subseteq Days BY <1>0, <1>1, <1>2 DEF LeaveTypeOK
<1> QED BY <1>1, <1>2, <1>7, <1>11, <1>12, NothingDecided

\* A request has been read to be cancelled, rejected or approved.
LEMMA DeskReadsInv ==
  ASSUME LeaveInv, NEW w \in Desks, NEW r \in Sent, NEW op \in {"cancel", "reject", "inbox"},
         at' = [at EXCEPT ![w] = [op |-> op, r |-> r]], UNCHANGED <<req, balance, accrualVars, att, shifts>>
  PROVE  LeaveInv'
<1>0. LeaveTypeOK BY DEF LeaveInv
<1>1. UNCHANGED <<month, grants, carried, adjusted, cut>> BY DEF accrualVars
<1>2. PICK x : x = [op |-> op, r |-> r] OBVIOUS
<1>3. r \in Requests BY DEF Sent
<1>4. x \in DeskRecord /\ x.op = op /\ x.r = r BY <1>2, <1>3 DEF DeskRecord
<1>5. at' \in [Desks -> DeskRecord] /\ at'[w] = x /\ \A v \in Desks \ {w} : at'[v] = at[v] BY <1>2, <1>4, DeskWrites
<1>6. Sent' = Sent BY DEF Sent
<1>7. DeskKnows(w)' BY <1>4, <1>5, <1>6 DEF DeskKnows
<1>8. month' \in 1 .. LastMonth /\ shifts' \subseteq Days BY <1>0, <1>1 DEF LeaveTypeOK
<1> QED BY <1>1, <1>5, <1>7, <1>8, NothingDecided

\* Time passes, a shift is assigned, or a desk gives up.
LEMMA AsideInv ==
  ASSUME LeaveInv, UNCHANGED <<req, balance, grants, carried, adjusted, cut, att>>,
         Tick \/ (\E d \in Days : Schedule(d)) \/ UNCHANGED <<month, shifts>>,
         UNCHANGED at \/ \E w \in Desks : at' = [at EXCEPT ![w] = Idle]
  PROVE  LeaveInv'
<1>0. LeaveTypeOK BY DEF LeaveInv
<1>1. month' \in 1 .. LastMonth
  <2>1. month \in 1 .. LastMonth BY <1>0 DEF LeaveTypeOK
  <2> QED BY <2>1, LeaveNumbers DEF Tick, Schedule, accrualVars
<1>2. shifts' \subseteq Days BY <1>0 DEF LeaveTypeOK, Tick, Schedule
<1>3. at' \in [Desks -> DeskRecord] /\ \A w \in Desks : at'[w] = at[w] \/ DeskKnows(w)'
  <2>1. CASE UNCHANGED at BY <2>1 DEF LeaveInv, DesksKnow
  <2>2. ASSUME NEW w \in Desks, at' = [at EXCEPT ![w] = Idle]
        PROVE  at' \in [Desks -> DeskRecord] /\ \A v \in Desks : at'[v] = at[v] \/ DeskKnows(v)'
    <3>1. at' \in [Desks -> DeskRecord] /\ at'[w] = Idle /\ \A v \in Desks \ {w} : at'[v] = at[v] BY <2>2, IdleRecord, DeskWrites
    <3>2. DeskKnows(w)' BY <3>1, IdleKnows
    <3> QED BY <3>1, <3>2
  <2> QED BY <2>1, <2>2
<1> QED BY <1>1, <1>2, <1>3, NothingDecided

\* A request is cancelled or rejected.
LEMMA RowDecidedInv ==
  ASSUME LeaveInv, NEW r \in Sent, NEW status \in {"cancelled", "rejected"}, NEW raced \in BOOLEAN,
         req' = [req EXCEPT ![r].status = status, ![r].raced = raced], req[r].raced => raced, req[r].taken = 1 => raced,
         UNCHANGED <<balance, accrualVars, att, shifts>>, UNCHANGED at \/ \E w \in Desks : at' = [at EXCEPT ![w] = Idle]
  PROVE  LeaveInv'
<1>0. LeaveTypeOK BY DEF LeaveInv
<1>1. UNCHANGED <<month, grants, carried, adjusted, cut>> BY DEF accrualVars
<1>2. /\ req \in [Requests -> LeaveRequest \cup {None}] /\ r \in Requests /\ req[r] \in LeaveRequest BY <1>0, LeaveRowFields DEF LeaveTypeOK
<1>3. PICK x : x = [req[r] EXCEPT !.status = status, !.raced = raced] OBVIOUS
<1>4. /\ x \in LeaveRequest /\ x.from = req[r].from /\ x.to = req[r].to /\ x.taken = req[r].taken /\ x.free = req[r].free
      /\ x.twin = req[r].twin /\ x.status = status /\ x.raced = raced
  BY <1>2, <1>3 DEF LeaveRequest
<1>5. x # None BY <1>4, LeaveRowsAssumption
<1>6. req' = [req EXCEPT ![r] = x] BY <1>2, <1>3
<1>7. req' \in [Requests -> LeaveRequest \cup {None}] /\ req'[r] = x /\ \A y \in Requests \ {r} : req'[y] = req[y] BY <1>2, <1>4, <1>6
<1>8. Sent' = Sent BY <1>2, <1>5, <1>7 DEF Sent
<1>9. \A y \in Sent : y = r \/ y \in Requests \ {r} BY DEF Sent
<1>10. \A y \in Sent : /\ req'[y].from = req[y].from /\ req'[y].to = req[y].to /\ req'[y].taken = req[y].taken
                       /\ req'[y].free = req[y].free /\ req'[y].twin = req[y].twin /\ (req[y].raced => req'[y].raced)
                       /\ \/ req'[y].status = req[y].status
                          \/ req'[y].status \in {"cancelled", "rejected"} /\ (req[y].taken = 1 => req'[y].raced)
  BY <1>4, <1>7, <1>9
<1>11. at' \in [Desks -> DeskRecord] /\ \A w \in Desks : at'[w] = at[w] \/ DeskKnows(w)'
  <2>1. CASE UNCHANGED at BY <2>1 DEF LeaveInv, DesksKnow
  <2>2. ASSUME NEW w \in Desks, at' = [at EXCEPT ![w] = Idle]
        PROVE  at' \in [Desks -> DeskRecord] /\ \A v \in Desks : at'[v] = at[v] \/ DeskKnows(v)'
    <3>1. at' \in [Desks -> DeskRecord] /\ at'[w] = Idle /\ \A v \in Desks \ {w} : at'[v] = at[v] BY <2>2, IdleRecord, DeskWrites
    <3>2. DeskKnows(w)' BY <3>1, IdleKnows
    <3> QED BY <3>1, <3>2
  <2> QED BY <2>1, <2>2
<1>12. month' \in 1 .. LastMonth /\ shifts' \subseteq Days BY <1>0, <1>1 DEF LeaveTypeOK
<1> QED BY <1>1, <1>7, <1>8, <1>10, <1>11, <1>12, DecidedInv

LEMMA ByIdWriteInv ==
  ASSUME LeaveInv, NEW w \in Desks, NEW op \in {"cancel", "reject"}, NEW status \in {"cancelled", "rejected"}, ByIdWrite(w, op, status)
  PROVE  LeaveInv'
<1>0. LeaveTypeOK BY DEF LeaveInv
<1>1. PICK r : r = at[w].r OBVIOUS
<1>2. at[w].op = op /\ at' = [at EXCEPT ![w] = Idle] /\ UNCHANGED <<balance, accrualVars, att, shifts>> BY DEF ByIdWrite
<1>3. r \in Sent /\ r \in Requests BY <1>1, <1>2, DeskShape
<1>4. PICK raced \in BOOLEAN : raced = (req[r].raced \/ req[r].status # "pending") OBVIOUS
<1>5. req' = [req EXCEPT ![r].status = status, ![r].raced = raced]
  <2>1. req' = [req EXCEPT ![r].status = status, ![r].raced = @ \/ req[r].status # "pending"] BY <1>1 DEF ByIdWrite
  <2>2. req \in [Requests -> LeaveRequest \cup {None}] /\ req[r] \in LeaveRequest BY <1>0, <1>3, LeaveRowFields DEF LeaveTypeOK
  <2> QED BY <1>3, <1>4, <2>1, <2>2 DEF LeaveRequest
<1>6. raced \in BOOLEAN /\ (req[r].raced => raced) BY <1>4
<1>7. req[r].taken = 1 => raced
  <2>1. req[r].status = "pending" => req[r].taken = 0 BY <1>3 DEF LeaveInv, PendingFits, Waiting
  <2>2. req[r].status # "pending" => raced BY <1>4
  <2> QED BY <2>1, <2>2
<1> QED BY <1>2, <1>3, <1>5, <1>6, <1>7, RowDecidedInv

LEMMA WaitingDecidedInv ==
  ASSUME LeaveInv, NEW r \in Waiting, NEW status \in {"cancelled", "rejected"}, req' = [req EXCEPT ![r].status = status],
         UNCHANGED <<balance, accrualVars, att, shifts, at>>
  PROVE  LeaveInv'
<1>0. LeaveTypeOK BY DEF LeaveInv
<1>1. r \in Sent /\ req[r].taken = 0 BY DEF LeaveInv, PendingFits, Waiting
<1>2. PICK raced : raced = req[r].raced OBVIOUS
<1>3. req[r] \in LeaveRequest /\ r \in Requests /\ req \in [Requests -> LeaveRequest \cup {None}] /\ raced \in BOOLEAN
  BY <1>0, <1>1, <1>2, LeaveRowFields DEF LeaveTypeOK
<1>4. req' = [req EXCEPT ![r].status = status, ![r].raced = raced]
  <2>1. [req[r] EXCEPT !.status = status, !.raced = raced] = [req[r] EXCEPT !.status = status] BY <1>2, <1>3 DEF LeaveRequest
  <2> QED BY <1>3, <2>1
<1>5. (req[r].raced => raced) /\ (req[r].taken = 1 => raced) BY <1>1, <1>2
<1> QED BY <1>1, <1>3, <1>4, <1>5, RowDecidedInv

LEMMA BalanceStays == ASSUME LeaveTypeOK, UNCHANGED balance, NEW y \in Years PROVE BalanceKept(y)
<1> SUFFICES ASSUME balance[y] # None PROVE balance[y].total + balance[y].used <= balance[y].total + balance[y].used
  BY DEF BalanceKept
<1> QED BY BalanceFields

\* A submission writes its row.
LEMMA SubmitWriteInv ==
  ASSUME LeaveInv, NEW w \in Desks, SubmitWrite(w)
  PROVE  LeaveInv'
<1>0. LeaveTypeOK BY DEF LeaveInv
<1>1. at[w].op = "submit" /\ UNCHANGED <<balance, accrualVars, att, shifts>> /\ at' = [v \in Desks |-> IF v = w THEN Idle ELSE at[v]]
  BY DEF SubmitWrite
<1>2. UNCHANGED <<month, grants, carried, adjusted, cut>> BY <1>1 DEF accrualVars
<1>3. PICK from \in Days, to \in Days : from = at[w].from /\ to = at[w].to BY <1>1, DeskShape
<1>4. PICK twin : twin = IF Submitting(w) THEN "submitted" ELSE IF at[w].twin = "none" /\ Waiting # {} THEN "pending" ELSE at[w].twin OBVIOUS
<1>5. PICK x : x = [from |-> from, to |-> to, status |-> "pending", taken |-> 0, free |-> FALSE, raced |-> FALSE, twin |-> twin] OBVIOUS
<1>6. PICK r \in Requests \ Sent :
        req' = [z \in Requests |-> IF z = r THEN x
                                   ELSE IF z \in Waiting /\ req[z].twin = "none" THEN [req[z] EXCEPT !.twin = "pending"] ELSE req[z]]
  BY <1>3, <1>4, <1>5 DEF SubmitWrite
<1>7. twin \in {"none", "pending", "submitted", "unlimited"} BY <1>1, <1>4, DeskShape
<1>8. /\ x \in LeaveRequest /\ x.from = from /\ x.to = to /\ x.status = "pending" /\ x.taken = 0 /\ x.twin = twin
  BY <1>5, <1>7 DEF LeaveRequest
<1>9. x # None BY <1>8, LeaveRowsAssumption
<1>10. req'[r] = x BY <1>6
<1>11. ASSUME NEW z \in Sent
       PROVE  /\ z # r /\ req'[z] \in LeaveRequest /\ req'[z].from = req[z].from /\ req'[z].to = req[z].to
              /\ req'[z].status = req[z].status /\ req'[z].taken = req[z].taken
              /\ req'[z].free = req[z].free /\ req'[z].raced = req[z].raced
              /\ req'[z].twin = req[z].twin \/ (req[z].twin = "none" /\ req'[z].twin = "pending")
              /\ z \in Waiting => req'[z].twin # "none"
  <2>1. z \in Requests /\ req[z] \in LeaveRequest BY <1>0, LeaveRowFields
  <2>2. z # r BY <1>6
  <2>3. CASE z \in Waiting /\ req[z].twin = "none"
    <3>1. PICK n : n = [req[z] EXCEPT !.twin = "pending"] OBVIOUS
    <3>2. /\ n \in LeaveRequest /\ n.from = req[z].from /\ n.to = req[z].to /\ n.status = req[z].status /\ n.taken = req[z].taken
          /\ n.free = req[z].free /\ n.raced = req[z].raced /\ n.twin = "pending"
      BY <2>1, <3>1 DEF LeaveRequest
    <3>3. req'[z] = n BY <1>6, <2>1, <2>2, <2>3, <3>1
    <3> QED BY <2>2, <2>3, <3>2, <3>3
  <2>4. CASE ~(z \in Waiting /\ req[z].twin = "none")
    <3>1. req'[z] = req[z] BY <1>6, <2>1, <2>2, <2>4
    <3> QED BY <2>1, <2>2, <2>4, <3>1
  <2> QED BY <2>3, <2>4
<1>12. \A z \in Requests \ (Sent \cup {r}) : req'[z] = None
  <2>1. \A z \in Requests \ Sent : req[z] = None /\ z \notin Waiting BY DEF Sent, Waiting
  <2> QED BY <1>6, <2>1
<1>13. \A z \in Sent : req'[z] # None BY <1>11, LeaveRowsAssumption
<1>14. Sent' = Sent \cup {r}
  <2>1. Sent' = {z \in Requests : req'[z] # None} /\ Sent \subseteq Requests BY DEF Sent
  <2> QED BY <1>6, <1>9, <1>10, <1>12, <1>13, <2>1
<1>15. req' \in [Requests -> LeaveRequest \cup {None}]
  <2>1. req' = [z \in Requests |-> req'[z]] BY <1>6
  <2>2. ASSUME NEW z \in Requests PROVE req'[z] \in LeaveRequest \cup {None} BY <1>8, <1>10, <1>11, <1>12
  <2> QED BY <2>1, <2>2
<1>16. at'[w] = Idle /\ \A v \in Desks \ {w} : at'[v] = at[v] BY <1>1
<1>17. at' \in [Desks -> DeskRecord]
  <2>1. \A v \in Desks : at'[v] \in DeskRecord BY <1>16, IdleRecord, DeskShape
  <2>2. at' = [v \in Desks |-> at'[v]] BY <1>1
  <2> QED BY <2>1, <2>2
<1>18. LeaveTypeOK'
  <2>1. \A v \in Desks : at'[v].op \in {"none", "submit", "cancel", "reject", "inbox"}
    <3>1. \A v \in Desks : at'[v] \in DeskRecord BY <1>17
    <3> QED BY <3>1 DEF DeskRecord, Idle
  <2> QED BY <1>0, <1>1, <1>2, <1>15, <2>1 DEF LeaveTypeOK
<1>19. RowsKept /\ TakenKept BY <1>8, <1>10, <1>11, <1>13, <1>14 DEF RowsKept, RowKept, TakenKept
<1>20. Unopened' /\ UsedAddsUp' /\ WithinBalance' /\ AccruedOnce' /\ LeaveDaysWereApproved' BY <1>1, <1>2, <1>19, MoneyKept
<1>21. \A a, b : Fits(a, b) => Fits(a, b)'
  <2>1. \A a : BalanceKept(YearOf(a)) BY <1>0, <1>1, BalanceStays, LeaveNumbers
  <2> QED BY <1>0, <1>2, <1>18, <1>19, <2>1, FitsKept
<1>22. /\ \A z \in Sent : z # r /\ (Live(z)' <=> Live(z)) /\ (req[z].twin = "submitted" => req'[z].twin = "submitted")
       /\ \A z \in Waiting' : z = r \/ (z \in Waiting /\ z \in Sent)
       /\ r \in Waiting'
  <2>1. \A z \in Sent : z # r /\ (Live(z)' <=> Live(z)) /\ (req[z].twin = "submitted" => req'[z].twin = "submitted") BY <1>11 DEF Live
  <2> QED BY <1>8, <1>10, <1>11, <1>14, <2>1 DEF Waiting
<1>23. DesksKnow'
  <2> SUFFICES ASSUME NEW v \in Desks PROVE DeskKnows(v)' BY <1>17 DEF DesksKnow
  <2>1. CASE v = w BY <1>16, <2>1, IdleKnows
  <2>2. CASE v # w
    <3>0. at'[v] = at[v] /\ DeskKnows(v) BY <1>16, <2>2, DeskShape
    <3>1. at[v].op \in {"cancel", "reject", "inbox"} => at[v].r \in Sent' BY <1>14, <3>0 DEF DeskKnows
    <3>2. at[v].op = "submit" => twin = "submitted" BY <1>4, <2>2 DEF Submitting
    <3>3. ASSUME at[v].op = "submit", NEW z \in Sent', Live(z)', Overlaps(z, at[v].from, at[v].to)' PROVE req'[z].twin = "submitted"
      <4>1. CASE z = r BY <1>8, <1>10, <3>2, <3>3, <4>1
      <4>2. CASE z \in Sent
        <5>1. Live(z) /\ Overlaps(z, at[v].from, at[v].to) BY <1>11, <1>22, <3>0, <3>3, <4>2 DEF Overlaps
        <5> QED BY <1>22, <3>0, <3>3, <4>2, <5>1 DEF DeskKnows
      <4> QED BY <1>14, <4>1, <4>2
    <3>4. ASSUME at[v].op = "submit", at[v].twin = "none"
          PROVE  Fits(at[v].from, at[v].to)' /\ \A z \in Waiting' : req'[z].twin # "none"
      <4>1. Fits(at[v].from, at[v].to) BY <3>0, <3>4 DEF DeskKnows
      <4>2. PICK a, b : a = at[v].from /\ b = at[v].to OBVIOUS
      <4>3. Fits(a, b)' BY <1>21, <4>1, <4>2
      <4>4. Fits(at[v].from, at[v].to)' BY <3>0, <4>2, <4>3 DEF Fits, Excused, Cost, Period, YearOf
      <4>5. \A z \in Waiting' : req'[z].twin # "none" BY <1>8, <1>10, <1>11, <1>22, <3>2, <3>4
      <4> QED BY <4>4, <4>5
    <3> QED BY <3>0, <3>1, <3>3, <3>4 DEF DeskKnows
  <2> QED BY <2>1, <2>2
<1>24. PendingFits'
  <2> SUFFICES ASSUME NEW z \in Waiting'
               PROVE  /\ req'[z].taken = 0
                      /\ req'[z].twin = "none" => Fits(req[z].from, req[z].to)' /\ \A y \in Waiting' : y = z
    BY DEF PendingFits
  <2>1. CASE z = r
    <3>1. ASSUME twin = "none" PROVE Fits(req[z].from, req[z].to)' /\ \A y \in Waiting' : y = z
      <4>1. at[w].twin = "none" /\ Waiting = {} BY <1>4, <3>1
      <4>2. Fits(from, to) BY <1>1, <1>3, <4>1, DeskShape DEF DeskKnows
      <4>3. Fits(from, to)' BY <1>21, <4>2
      <4>4. req'[z].from = from /\ req'[z].to = to BY <1>8, <1>10, <2>1
      <4>5. Fits(req[z].from, req[z].to)' BY <4>3, <4>4 DEF Fits, Excused, Cost, Period, YearOf
      <4> QED BY <1>22, <2>1, <4>1, <4>5
    <3> QED BY <1>8, <1>10, <2>1, <3>1
  <2>2. CASE z \in Waiting /\ z \in Sent
    <3>1. req[z].taken = 0 BY <2>2 DEF LeaveInv, PendingFits
    <3> QED BY <1>11, <2>2, <3>1
  <2> QED BY <1>22, <2>1, <2>2
<1>25. DeductedOnce'
  <2> SUFFICES ASSUME NEW z \in Sent'
               PROVE  /\ req'[z].taken <= 1
                      /\ req'[z].status = "approved" => req'[z].taken = 1
                      /\ req'[z].taken = 1 /\ req'[z].status # "approved" => req'[z].raced
    BY DEF DeductedOnce
  <2>1. CASE z = r BY <1>8, <1>10, <2>1
  <2>2. CASE z \in Sent BY <1>11, <2>2 DEF LeaveInv, DeductedOnce
  <2> QED BY <1>14, <2>1, <2>2
<1>26. \A z \in Sent : Live(z) /\ Overlaps(z, from, to) => "submitted" \in {twin, req'[z].twin}
  <2>1. \A z \in Sent : Live(z) /\ Overlaps(z, from, to) => req[z].twin = "submitted" BY <1>1, <1>3, DeskShape DEF DeskKnows
  <2> QED BY <1>22, <2>1
<1>27. NoDoubleBooking'
  <2> SUFFICES ASSUME NEW y \in Sent', NEW z \in Sent', y # z, Live(y)', Live(z)', Overlaps(y, req[z].from, req[z].to)'
               PROVE  "submitted" \in {req'[y].twin, req'[z].twin}
    BY DEF NoDoubleBooking
  <2>0. req'[y].from <= req'[z].to /\ req'[y].to >= req'[z].from BY DEF Overlaps
  <2>1. CASE y \in Sent /\ z \in Sent
    <3>1. Live(y) /\ Live(z) /\ Overlaps(y, req[z].from, req[z].to) BY <1>11, <1>22, <2>0, <2>1 DEF Overlaps
    <3>2. "submitted" \in {req[y].twin, req[z].twin} BY <2>1, <3>1 DEF LeaveInv, NoDoubleBooking
    <3> QED BY <1>22, <2>1, <3>2
  <2>2. CASE y \in Sent /\ z = r
    <3>1. Live(y) /\ Overlaps(y, from, to) BY <1>8, <1>10, <1>11, <1>22, <2>0, <2>2 DEF Overlaps
    <3>2. "submitted" \in {twin, req'[y].twin} BY <1>26, <2>2, <3>1
    <3> QED BY <1>8, <1>10, <2>2, <3>2
  <2>3. CASE z \in Sent /\ y = r
    <3>1. Live(z) BY <1>22, <2>3
    <3>2. req[z].from \in Nat /\ req[z].to \in Nat /\ from \in Nat /\ to \in Nat BY <1>0, <2>3, LeaveRowFields, LeaveNumbers
    <3>3. from <= req[z].to /\ to >= req[z].from BY <1>8, <1>10, <1>11, <2>0, <2>3
    <3>4. Overlaps(z, from, to) BY <3>2, <3>3 DEF Overlaps
    <3>5. "submitted" \in {twin, req'[z].twin} BY <1>26, <2>3, <3>1, <3>4
    <3> QED BY <1>8, <1>10, <2>3, <3>5
  <2> QED BY <1>14, <2>1, <2>2, <2>3
<1> QED BY <1>18, <1>20, <1>23, <1>24, <1>25, <1>27 DEF LeaveInv

\* An approval: what it writes, and what it charges.
ApprovedRow(r, free, x) ==
  /\ x \in LeaveRequest /\ x # None /\ x.from = req[r].from /\ x.to = req[r].to /\ x.status = "approved" /\ x.taken = 1
  /\ x.free = free /\ x.raced = req[r].raced /\ x.twin = req[r].twin
  /\ req'[r] = x /\ \A z \in Requests \ {r} : req'[z] = req[z]

AsApproved(old, free) == [old EXCEPT !.status = "approved", !.taken = 1, !.free = free]

LEMMA ApprovedFields ==
  ASSUME NEW old \in LeaveRequest, NEW free \in BOOLEAN, NEW x, x = AsApproved(old, free)
  PROVE  /\ x \in LeaveRequest /\ x # None /\ x.from = old.from /\ x.to = old.to /\ x.status = "approved" /\ x.taken = 1
         /\ x.free = free /\ x.raced = old.raced /\ x.twin = old.twin
<1>0. x = [from |-> old.from, to |-> old.to, status |-> "approved", taken |-> 1, free |-> free, raced |-> old.raced, twin |-> old.twin]
  BY DEF LeaveRequest, AsApproved
<1>1. x \in LeaveRequest
  <2>1. /\ old.from \in Days /\ old.to \in Days /\ 1 \in 0 .. 2 /\ old.raced \in BOOLEAN
        /\ old.twin \in {"none", "pending", "submitted", "unlimited"}
    BY DEF LeaveRequest
  <2> QED BY <1>0, <2>1 DEF LeaveRequest
<1>2. x.from = old.from /\ x.to = old.to /\ x.status = "approved" /\ x.taken = 1 BY <1>0
<1>3. x.free = free /\ x.raced = old.raced /\ x.twin = old.twin BY <1>0
<1>4. x # None BY <1>1, LeaveRowsAssumption
<1> QED BY <1>1, <1>2, <1>3, <1>4

IsFree(r, free) == free = (balance[YearOf(req[r].from)] = None)

LEMMA ApproveWrites ==
  ASSUME LeaveInv, NEW r, Approve(r), NEW free \in BOOLEAN, IsFree(r, free)
  PROVE  /\ r \in Waiting /\ r \in Sent /\ r \in Requests /\ req[r].taken = 0
         /\ \E x : ApprovedRow(r, free, x)
         /\ req' \in [Requests -> LeaveRequest \cup {None}] /\ Sent' = Sent
<1>0. LeaveTypeOK BY DEF LeaveInv
<1>1. r \in Waiting /\ r \in Sent BY DEF Approve, Claims, Waiting
<1>2. req[r].taken = 0 BY <1>1 DEF LeaveInv, PendingFits
<1>3. req \in [Requests -> LeaveRequest \cup {None}] /\ r \in Requests /\ req[r] \in LeaveRequest BY <1>0, <1>1, LeaveRowFields DEF LeaveTypeOK
<1>4. PICK x : x = AsApproved(req[r], free) OBVIOUS
<1>5. /\ x \in LeaveRequest /\ x # None /\ x.from = req[r].from /\ x.to = req[r].to /\ x.status = "approved" /\ x.taken = 1
      /\ x.free = free /\ x.raced = req[r].raced /\ x.twin = req[r].twin
  BY <1>3, <1>4, ApprovedFields
<1>7. req' = [req EXCEPT ![r] = x]
  <2>1. req' = [req EXCEPT ![r].status = "approved", ![r].taken = IF @ < 2 THEN @ + 1 ELSE @, ![r].free = balance[YearOf(req[r].from)] = None]
    BY DEF Approve
  <2>2. PICK taken : taken = IF req[r].taken < 2 THEN req[r].taken + 1 ELSE req[r].taken OBVIOUS
  <2>3. taken = 1 BY <1>2, <2>2
  <2>4. req' = [req EXCEPT ![r] = [req[r] EXCEPT !.status = "approved", !.taken = taken, !.free = free]]
    BY <1>3, <2>1, <2>2 DEF LeaveRequest, IsFree
  <2> QED BY <1>4, <2>3, <2>4 DEF AsApproved
<1>8. req'[r] = x /\ \A z \in Requests \ {r} : req'[z] = req[z] BY <1>3, <1>7
<1>9. req' \in [Requests -> LeaveRequest \cup {None}] BY <1>3, <1>5, <1>7
<1>10. Sent' = Sent BY <1>1, <1>5, <1>8 DEF Sent
<1>11. ApprovedRow(r, free, x) BY <1>5, <1>8 DEF ApprovedRow
<1> QED BY <1>1, <1>2, <1>3, <1>9, <1>10, <1>11

\* The days of the request are charged to its year, if that has a balance.
LEMMA ApproveCharges ==
  ASSUME LeaveInv, NEW r \in Sent, req[r].taken = 0, Sent' = Sent, NEW free \in BOOLEAN, NEW x, ApprovedRow(r, free, x)
  PROVE  \A z : /\ free \/ z # YearOf(req[r].from) => DaysCharged(z)' = DaysCharged(z)
                /\ ~free /\ z = YearOf(req[r].from) =>
                     Cardinality(DaysCharged(z)') = Cardinality(DaysCharged(z)) + Cost(req[r].from, req[r].to)
<1> SUFFICES ASSUME NEW z
             PROVE  /\ free \/ z # YearOf(req[r].from) => DaysCharged(z)' = DaysCharged(z)
                    /\ ~free /\ z = YearOf(req[r].from) =>
                         Cardinality(DaysCharged(z)') = Cardinality(DaysCharged(z)) + Cost(req[r].from, req[r].to)
  OBVIOUS
<1>0. Sent \subseteq Requests BY DEF Sent
<1>1. PICK P : P = Period(req[r].from, req[r].to) \cap Working OBVIOUS
<1>2. P \subseteq Days /\ IsFiniteSet(P) /\ Cardinality(P) = Cost(req[r].from, req[r].to) BY <1>1, CostType DEF Cost, Period
<1>3. PICK charge \in BOOLEAN : charge = (~free /\ z = YearOf(req[r].from)) OBVIOUS
<1>4. ASSUME NEW q \in Sent \ {r}, NEW d \in Days
      PROVE  <<q, d>> \in DaysCharged(z)' <=> <<q, d>> \in DaysCharged(z)
  <2>1. req'[q] = req[q] BY <1>0 DEF ApprovedRow
  <2>2. Charged(q, z)' <=> Charged(q, z) BY <2>1 DEF Charged, YearOf
  <2>3. Marked(d, q)' <=> Marked(d, q) BY <2>1 DEF Marked, Period
  <2> QED BY <2>2, <2>3 DEF DaysCharged
<1>5. ASSUME NEW d \in Days
      PROVE  <<r, d>> \notin DaysCharged(z) /\ (<<r, d>> \in DaysCharged(z)' <=> charge /\ d \in P)
  <2>1. ~Charged(r, z) BY DEF Charged
  <2>2. req'[r].taken = 1 /\ req'[r].free = free /\ req'[r].from = req[r].from /\ req'[r].to = req[r].to BY DEF ApprovedRow
  <2>3. Charged(r, z)' <=> charge
    <3>1. Charged(r, z)' <=> YearOf(req[r].from) = z /\ ~req'[r].free BY <2>2 DEF Charged, YearOf
    <3>2. CASE free BY <1>3, <2>2, <3>1, <3>2
    <3>3. CASE ~free BY <1>3, <2>2, <3>1, <3>3
    <3> QED BY <3>2, <3>3
  <2>4. Marked(d, r)' <=> d \in P BY <1>1, <2>2 DEF Marked, Period
  <2> QED BY <2>1, <2>3, <2>4 DEF DaysCharged
<1>6. DaysCharged(z) \subseteq Sent \X Days /\ DaysCharged(z)' \subseteq Sent \X Days BY DEF DaysCharged
<1>7. CASE ~charge
  <2>1. \A q \in Sent, d \in Days : <<q, d>> \in DaysCharged(z)' <=> <<q, d>> \in DaysCharged(z) BY <1>4, <1>5, <1>7
  <2>2. DaysCharged(z)' = DaysCharged(z) BY <1>6, <2>1
  <2> QED BY <1>3, <1>7, <2>2
<1>8. CASE charge
  <2>1. PICK S : S = DaysCharged(z) OBVIOUS
  <2>2. PICK T : T = {r} \X P OBVIOUS
  <2>3. T \subseteq Sent \X Days BY <1>2, <2>2
  <2>4. \A q \in Sent, d \in Days : <<q, d>> \in T <=> q = r /\ d \in P BY <2>2
  <2>5. \A q \in Sent, d \in Days : <<q, d>> \in DaysCharged(z)' <=> <<q, d>> \in S \cup T BY <1>4, <1>5, <1>8, <2>1, <2>4
  <2>6. DaysCharged(z)' = S \cup T BY <1>6, <2>1, <2>3, <2>5
  <2>7. S \cap T = {} BY <1>5, <1>6, <2>1, <2>2, <2>3, <2>4
  <2>8. IsFiniteSet(S) /\ Cardinality(S) \in Nat BY <2>1, ChargedType, FS_CardinalityType
  <2>9. IsFiniteSet({r}) /\ Cardinality({r}) = 1 BY FS_Singleton
  <2>10. IsFiniteSet(T) /\ Cardinality(T) = Cardinality({r}) * Cardinality(P) BY <1>2, <2>2, <2>9, FS_Product
  <2>11. Cardinality(S \cup T) = Cardinality(S) + Cardinality(T) - Cardinality(S \cap T) BY <2>8, <2>10, FS_Union
  <2>12. Cardinality(S \cap T) = 0 BY <2>7, FS_EmptySet
  <2>13. Cost(req[r].from, req[r].to) \in Nat BY CostType
  <2>14. Cardinality(T) = Cost(req[r].from, req[r].to) BY <1>2, <2>9, <2>10, <2>13
  <2>15. Cardinality(S \cup T) = Cardinality(S) + Cost(req[r].from, req[r].to) BY <2>8, <2>11, <2>12, <2>13, <2>14
  <2> QED BY <1>3, <1>8, <2>1, <2>6, <2>15
<1> QED BY <1>7, <1>8

\* What an approval does to the balances.
LEMMA ApproveBalances ==
  ASSUME LeaveInv, NEW r, Approve(r), NEW free \in BOOLEAN, IsFree(r, free), NEW y, y = YearOf(req[r].from)
  PROVE  /\ UNCHANGED <<month, grants, carried, adjusted, cut, shifts>> /\ y \in Years
         /\ balance' \in [Years -> Balance \cup {None}]
         /\ \A z \in Years : /\ balance'[z] = None <=> balance[z] = None
                             /\ free \/ z # y => balance'[z] = balance[z]
                             /\ balance[z] # None => balance'[z].total = balance[z].total
         /\ ~free => balance[y] # None /\ balance'[y].used = balance[y].used + Cost(req[r].from, req[r].to)
         /\ \A z \in Years : /\ free \/ z # y => DaysCharged(z)' = DaysCharged(z)
                             /\ z = 2 /\ balance[z] = None => DaysCharged(z)' = DaysCharged(z)
         /\ UsedAddsUp'
<1>0. LeaveTypeOK BY DEF LeaveInv
<1>1. UNCHANGED <<month, grants, carried, adjusted, cut, shifts>> BY DEF Approve, accrualVars
<1>2. y \in Years BY LeaveNumbers
<1>3. r \in Waiting /\ r \in Sent /\ req[r].taken = 0 /\ Sent' = Sent BY ApproveWrites
<1>4. PICK x : ApprovedRow(r, free, x) BY ApproveWrites
<1>5. \A z : /\ free \/ z # YearOf(req[r].from) => DaysCharged(z)' = DaysCharged(z)
             /\ ~free /\ z = YearOf(req[r].from) =>
                  Cardinality(DaysCharged(z)') = Cardinality(DaysCharged(z)) + Cost(req[r].from, req[r].to)
  BY <1>3, <1>4, ApproveCharges
<1>6. balance' = IF balance[YearOf(req[r].from)] = None THEN balance
                 ELSE [balance EXCEPT ![YearOf(req[r].from)].used = @ + Deduction(r)]
  BY DEF Approve
<1>7. free <=> balance[y] = None
  <2>1. free = (balance[YearOf(req[r].from)] = None) BY DEF IsFree
  <2> QED BY <2>1
<1>8. CASE free
  <2>1. balance' = balance BY <1>6, <1>7, <1>8
  <2>2. UsedAddsUp' BY <1>5, <1>8, <2>1 DEF LeaveInv, UsedAddsUp
  <2>3. balance' \in [Years -> Balance \cup {None}] BY <1>0, <2>1 DEF LeaveTypeOK
  <2> QED BY <1>1, <1>2, <1>5, <1>8, <2>1, <2>2, <2>3
<1>9. CASE ~free
  <2>1. PICK c : c = Cost(req[r].from, req[r].to) OBVIOUS
  <2>2. c \in Nat /\ c = Deduction(r) BY <2>1, CostType DEF Deduction
  <2>3. balance[y] # None BY <1>7, <1>9
  <2>4. balance[y] \in Balance /\ balance[y].used \in Nat /\ balance[y].used = Cardinality(DaysCharged(y))
    BY <1>0, <1>2, <2>3, BalanceFields DEF LeaveInv, UsedAddsUp
  <2>5. PICK u : u = balance[y].used + c OBVIOUS
  <2>6. Cardinality(DaysCharged(y)') = u BY <1>5, <1>9, <2>1, <2>4, <2>5
  <2>7. u \in 0 .. Cardinality(Requests) * Cardinality(Days) BY <2>6, ChargedType
  <2>8. PICK b : b = [balance[y] EXCEPT !.used = u] OBVIOUS
  <2>9. b \in Balance /\ b.total = balance[y].total /\ b.used = u BY <2>4, <2>7, <2>8 DEF Balance
  <2>10. b # None BY <2>9, LeaveRowsAssumption
  <2>11. balance' = [balance EXCEPT ![y] = b]
    <3>1. balance' = [balance EXCEPT ![y].used = @ + Deduction(r)] BY <1>6, <2>3
    <3>2. balance' = [balance EXCEPT ![y] = [balance[y] EXCEPT !.used = balance[y].used + c]] BY <2>2, <3>1
    <3> QED BY <2>5, <2>8, <3>2
  <2>12. balance \in [Years -> Balance \cup {None}] BY <1>0 DEF LeaveTypeOK
  <2>13. balance'[y] = b /\ \A z \in Years \ {y} : balance'[z] = balance[z] BY <1>2, <2>11, <2>12
  <2>14. balance' \in [Years -> Balance \cup {None}] BY <2>9, <2>11, <2>12
  <2>15. UsedAddsUp'
    <3> SUFFICES ASSUME NEW z \in Years, balance'[z] # None PROVE balance'[z].used = Cardinality(DaysCharged(z)')
      BY DEF UsedAddsUp
    <3>1. CASE z = y BY <2>6, <2>9, <2>13, <3>1
    <3>2. CASE z # y
      <4>1. balance'[z] = balance[z] /\ DaysCharged(z)' = DaysCharged(z) BY <1>5, <2>13, <3>2
      <4> QED BY <4>1 DEF LeaveInv, UsedAddsUp
    <3> QED BY <3>1, <3>2
  <2>16. \A z \in Years : /\ balance'[z] = None <=> balance[z] = None
                          /\ free \/ z # y => balance'[z] = balance[z]
                          /\ balance[z] # None => balance'[z].total = balance[z].total
    BY <1>9, <2>3, <2>9, <2>10, <2>13
  <2>17. balance'[y].used = balance[y].used + Cost(req[r].from, req[r].to) BY <2>1, <2>5, <2>9, <2>13
  <2>18. \A z \in Years : z # y => DaysCharged(z)' = DaysCharged(z) BY <1>5
  <2>19. \A z \in Years : z = 2 /\ balance[z] = None => DaysCharged(z)' = DaysCharged(z) BY <2>3, <2>18
  <2> QED BY <1>1, <1>2, <1>9, <2>3, <2>14, <2>15, <2>16, <2>17, <2>18, <2>19
<1> QED BY <1>8, <1>9

\* An approval, and the attendance rows and balances it writes.
LEMMA ApproveInv ==
  ASSUME LeaveInv, NEW r, Approve(r), UNCHANGED at \/ \E w \in Desks : at' = [at EXCEPT ![w] = Idle]
  PROVE  LeaveInv'
<1>0. LeaveTypeOK BY DEF LeaveInv
<1>1. PICK free \in BOOLEAN : IsFree(r, free) BY DEF IsFree
<1>2. PICK y : y = YearOf(req[r].from) OBVIOUS
<1>3. r \in Waiting /\ r \in Sent /\ r \in Requests /\ req[r].taken = 0 /\ Sent' = Sent /\ req' \in [Requests -> LeaveRequest \cup {None}]
  BY <1>1, ApproveWrites
<1>4. PICK x : ApprovedRow(r, free, x) BY <1>1, ApproveWrites
<1>5. /\ UNCHANGED <<month, grants, carried, adjusted, cut, shifts>> /\ y \in Years
      /\ balance' \in [Years -> Balance \cup {None}]
      /\ \A z \in Years : /\ balance'[z] = None <=> balance[z] = None
                          /\ free \/ z # y => balance'[z] = balance[z]
                          /\ balance[z] # None => balance'[z].total = balance[z].total
      /\ ~free => balance[y] # None /\ balance'[y].used = balance[y].used + Cost(req[r].from, req[r].to)
      /\ \A z \in Years : /\ free \/ z # y => DaysCharged(z)' = DaysCharged(z)
                          /\ z = 2 /\ balance[z] = None => DaysCharged(z)' = DaysCharged(z)
      /\ UsedAddsUp'
  BY <1>1, <1>2, ApproveBalances
<1>6. /\ req'[r].from = req[r].from /\ req'[r].to = req[r].to /\ req'[r].status = "approved" /\ req'[r].taken = 1
      /\ req'[r].raced = req[r].raced /\ req'[r].twin = req[r].twin /\ req'[r] # None
      /\ \A z \in Requests \ {r} : req'[z] = req[z]
  BY <1>4 DEF ApprovedRow
<1>7. ASSUME NEW z \in Sent
      PROVE  /\ z \in Requests /\ req'[z] # None /\ req'[z].from = req[z].from /\ req'[z].to = req[z].to /\ req'[z].twin = req[z].twin
             /\ Live(z)' <=> Live(z)
  <2>1. z \in Requests /\ req[z] # None BY DEF Sent
  <2>2. CASE z = r BY <1>3, <1>6, <2>1, <2>2 DEF Live, Waiting
  <2>3. CASE z # r BY <1>6, <2>1, <2>3 DEF Live
  <2> QED BY <2>2, <2>3
<1>8. RowsKept BY <1>7 DEF RowsKept, RowKept
<1>9. att' = [d \in Days |-> IF Marked(d, r) THEN "leave" ELSE att[d]] BY DEF Approve
<1>10. at' \in [Desks -> DeskRecord] /\ \A w \in Desks : at'[w] = at[w] \/ at'[w] = Idle
  <2>1. CASE UNCHANGED at BY <2>1 DEF LeaveInv, DesksKnow
  <2>2. ASSUME NEW w \in Desks, at' = [at EXCEPT ![w] = Idle]
        PROVE  at' \in [Desks -> DeskRecord] /\ \A v \in Desks : at'[v] = at[v] \/ at'[v] = Idle
    BY <2>2, IdleRecord, DeskWrites
  <2> QED BY <2>1, <2>2
<1>11. LeaveTypeOK'
  <2>1. \A v \in Desks : at'[v].op \in {"none", "submit", "cancel", "reject", "inbox"}
    <3>1. \A v \in Desks : at'[v] \in DeskRecord BY <1>10
    <3> QED BY <3>1 DEF DeskRecord, Idle
  <2>2. att' \in [Days -> {"other", "leave", "written"}] BY <1>0, <1>9 DEF LeaveTypeOK
  <2>3. /\ grants' \subseteq Years \X Months /\ carried' \in 0 .. CarryCap /\ adjusted' \in [Years -> Int] /\ cut' \in BOOLEAN
        /\ month' \in 1 .. LastMonth /\ shifts' \subseteq Days
    BY <1>0, <1>5 DEF LeaveTypeOK
  <2> QED BY <1>3, <1>5, <2>1, <2>2, <2>3 DEF LeaveTypeOK
<1>12. \A z : Excused(z) => Excused(z)' BY <1>5, <1>8, ExcusedKept
<1>13. req[r].twin # "none" => Excused(y) BY <1>2, <1>3 DEF Excused
<1>14. ASSUME req[r].twin # "none", NEW a, NEW b PROVE Fits(a, b) => Fits(a, b)'
  <2>1. YearOf(a) \in Years BY LeaveNumbers
  <2>2. CASE YearOf(a) = y
    <3>1. Excused(YearOf(a))' BY <1>12, <1>13, <1>14, <2>2 DEF Excused, YearOf
    <3> QED BY <1>0, <1>5, <1>8, <1>11, <3>1, FitsKept
  <2>3. CASE YearOf(a) # y
    <3>1. PICK z \in Years : z = YearOf(a) BY <2>1
    <3>2. balance'[z] = balance[z] BY <1>5, <2>3, <3>1
    <3>3. BalanceKept(z)
      <4> SUFFICES ASSUME balance[z] # None PROVE balance[z].total + balance[z].used <= balance[z].total + balance[z].used
        BY <3>2 DEF BalanceKept
      <4> QED BY <1>0, BalanceFields
    <3> QED BY <1>0, <1>5, <1>8, <1>11, <3>1, <3>3, FitsKept
  <2> QED BY <2>2, <2>3
<1>15. DesksKnow'
  <2> SUFFICES ASSUME NEW v \in Desks PROVE DeskKnows(v)' BY <1>10 DEF DesksKnow
  <2>1. CASE at'[v] = Idle BY <2>1, IdleKnows
  <2>2. CASE at'[v] = at[v]
    <3>0. DeskKnows(v) BY DeskShape
    <3>1. at[v].op \in {"cancel", "reject", "inbox"} => at[v].r \in Sent' BY <1>3, <3>0 DEF DeskKnows
    <3>3. ASSUME at[v].op = "submit", NEW z \in Sent', Live(z)', Overlaps(z, at[v].from, at[v].to)' PROVE req'[z].twin = "submitted"
      <4>1. z \in Sent /\ Live(z) /\ Overlaps(z, at[v].from, at[v].to) BY <1>3, <1>7, <2>2, <3>3 DEF Overlaps
      <4> QED BY <1>7, <3>0, <3>3, <4>1 DEF DeskKnows
    <3>4. ASSUME at[v].op = "submit", at[v].twin = "none"
          PROVE  Fits(at[v].from, at[v].to)' /\ \A z \in Waiting' : req'[z].twin # "none"
      <4>1. Fits(at[v].from, at[v].to) /\ \A z \in Waiting : req[z].twin # "none" BY <3>0, <3>4 DEF DeskKnows
      <4>2. PICK a, b : a = at[v].from /\ b = at[v].to OBVIOUS
      <4>3. Fits(a, b)' BY <1>3, <1>14, <4>1, <4>2
      <4>4. Fits(at[v].from, at[v].to)' BY <2>2, <4>2, <4>3 DEF Fits, Excused, Cost, Period, YearOf
      <4>5. \A z \in Waiting' : req'[z].twin # "none" BY <1>3, <1>6, <1>7, <4>1 DEF Waiting
      <4> QED BY <4>4, <4>5
    <3> QED BY <2>2, <3>1, <3>3, <3>4 DEF DeskKnows
  <2> QED BY <1>10, <2>1, <2>2
<1>16. PendingFits'
  <2> SUFFICES ASSUME NEW z \in Waiting' PROVE req'[z].taken = 0 /\ req'[z].twin # "none" BY DEF PendingFits
  <2>1. z \in Sent /\ z # r BY <1>3, <1>6 DEF Waiting
  <2>2. req'[z] = req[z] BY <1>6, <1>7, <2>1
  <2>3. z \in Waiting BY <2>1, <2>2 DEF Waiting
  <2>4. req[z].taken = 0 /\ (req[z].twin = "none" => \A q \in Waiting : q = z) BY <2>3 DEF LeaveInv, PendingFits
  <2> QED BY <1>3, <2>1, <2>2, <2>4
<1>17. Unopened'
  <2>1. balance'[1] # None /\ (balance'[2] = None <=> balance[2] = None) BY <1>5, LeaveNumbers DEF LeaveInv, Unopened
  <2>2. balance[2] = None => DaysCharged(2)' = DaysCharged(2) BY <1>5, LeaveNumbers
  <2> QED BY <1>5, <2>1, <2>2 DEF LeaveInv, Unopened
<1>18. DeductedOnce'
  <2> SUFFICES ASSUME NEW z \in Sent
               PROVE  /\ req'[z].taken <= 1
                      /\ req'[z].status = "approved" => req'[z].taken = 1
                      /\ req'[z].taken = 1 /\ req'[z].status # "approved" => req'[z].raced
    BY <1>3 DEF DeductedOnce
  <2>1. CASE z = r BY <1>6, <2>1
  <2>2. CASE z # r
    <3>1. req'[z] = req[z] BY <1>6, <1>7, <2>2
    <3> QED BY <3>1 DEF LeaveInv, DeductedOnce
  <2> QED BY <2>1, <2>2
<1>19. NoDoubleBooking'
  <2> SUFFICES ASSUME NEW q \in Sent, NEW z \in Sent, q # z, Live(q)', Live(z)', Overlaps(q, req[z].from, req[z].to)'
               PROVE  "submitted" \in {req'[q].twin, req'[z].twin}
    BY <1>3 DEF NoDoubleBooking
  <2>1. Live(q) /\ Live(z) /\ Overlaps(q, req[z].from, req[z].to) BY <1>7 DEF Overlaps
  <2>2. "submitted" \in {req[q].twin, req[z].twin} BY <2>1 DEF LeaveInv, NoDoubleBooking
  <2> QED BY <1>7, <2>2
<1>20. WithinBalance'
  <2> SUFFICES ASSUME NEW z \in Years, balance'[z] # None, balance'[z].used > balance'[z].total PROVE Excused(z)'
    BY DEF WithinBalance, Excused
  <2>1. CASE free \/ z # y
    <3>1. balance'[z] = balance[z] BY <1>5, <2>1
    <3>2. Excused(z) BY <3>1 DEF LeaveInv, WithinBalance, Excused
    <3> QED BY <1>12, <3>2
  <2>2. CASE ~free /\ z = y
    <3>1. CASE req[r].twin # "none" BY <1>12, <1>13, <2>2, <3>1
    <3>2. CASE req[r].twin = "none"
      <4>1. Fits(req[r].from, req[r].to) BY <1>3, <3>2 DEF LeaveInv, PendingFits
      <4>2. CASE Excused(y) BY <1>12, <2>2, <4>2
      <4>3. CASE balance[y].used + Cost(req[r].from, req[r].to) <= balance[y].total
        <5>1. balance'[y].total = balance[y].total /\ balance'[y].used = balance[y].used + Cost(req[r].from, req[r].to) BY <1>5, <2>2
        <5>2. balance[y].used \in Nat /\ balance[y].total \in Int /\ Cost(req[r].from, req[r].to) \in Nat
          BY <1>0, <1>5, <2>2, BalanceFields, CostType
        <5> QED BY <2>2, <4>3, <5>1, <5>2
      <4> QED BY <1>2, <4>1, <4>2, <4>3 DEF Fits
    <3> QED BY <3>1, <3>2
  <2> QED BY <2>1, <2>2
<1>21. AccruedOnce'
  <2> SUFFICES ASSUME NEW z \in Years, balance'[z] # None
               PROVE  balance'[z].total = (IF z = 1 THEN Opening ELSE carried) + adjusted[z] + Increment * Cardinality({g \in grants : g[1] = z})
    BY <1>5 DEF AccruedOnce
  <2>1. balance[z] # None /\ balance'[z].total = balance[z].total BY <1>5
  <2> QED BY <2>1 DEF LeaveInv, AccruedOnce
<1>22. LeaveDaysWereApproved'
  <2> SUFFICES ASSUME NEW d \in Days
               PROVE  (att'[d] = "leave" => ApprovedOff(d)') /\ (ApprovedOff(d)' => att'[d] # "other")
    BY DEF LeaveDaysWereApproved
  <2>1. (att[d] = "leave" => ApprovedOff(d)) /\ (ApprovedOff(d) => att[d] # "other") BY DEF LeaveInv, LeaveDaysWereApproved
  <2>2. att'[d] = IF Marked(d, r) THEN "leave" ELSE att[d] BY <1>9
  <2>3. req'[r].taken > 0 /\ (Marked(d, r)' <=> Marked(d, r)) BY <1>6 DEF Marked, Period
  <2>4. \A z \in Sent \ {r} : req'[z] = req[z] /\ (Marked(d, z)' <=> Marked(d, z)) BY <1>6, <1>7 DEF Marked, Period
  <2>5. ~(req[r].taken > 0) BY <1>3
  <2>6. ApprovedOff(d)' <=> Marked(d, r) \/ ApprovedOff(d) BY <1>3, <2>3, <2>4, <2>5 DEF ApprovedOff
  <2> QED BY <2>1, <2>2, <2>6
<1> QED BY <1>5, <1>11, <1>15, <1>16, <1>17, <1>18, <1>19, <1>20, <1>21, <1>22 DEF LeaveInv

\* A balance is opened, adjusted or credited.
LEMMA BalanceStepInv ==
  ASSUME LeaveInv, UNCHANGED <<req, month, att, shifts, at>>, grants' \subseteq Years \X Months, carried' \in 0 .. CarryCap,
         adjusted' \in [Years -> Int], cut' \in BOOLEAN, cut => cut', balance' \in [Years -> Balance \cup {None}],
         \A z \in Years : balance[z] # None => /\ balance'[z] # None /\ balance'[z].used = balance[z].used
                                               /\ cut' \/ balance[z].total <= balance'[z].total,
         \A z \in Years : balance[z] = None /\ balance'[z] # None => balance'[z].used = 0 /\ 0 <= balance'[z].total,
         balance'[2] = None => carried' = carried /\ adjusted'[2] = adjusted[2] /\ \A g \in grants' : g \in grants \/ g[1] # 2,
         AccruedOnce'
  PROVE  LeaveInv'
<1>0. LeaveTypeOK BY DEF LeaveInv
<1>1. LeaveTypeOK' BY <1>0 DEF LeaveTypeOK
<1>2. Sent' = Sent /\ Waiting' = Waiting /\ RowsKept /\ TakenKept
  <2>1. Sent' = Sent BY DEF Sent
  <2>2. \A r \in Sent : req[r] # None BY DEF Sent
  <2> QED BY <2>1, <2>2 DEF Waiting, RowsKept, RowKept, TakenKept
<1>3. \A z : DaysCharged(z)' = DaysCharged(z) BY <1>0, <1>2, ChargedKept
<1>4. \A z : Excused(z) => Excused(z)' BY <1>2, ExcusedKept
<1>5. \A a, b : Fits(a, b) => Fits(a, b)'
  <2> SUFFICES ASSUME NEW a, NEW b PROVE Fits(a, b) => Fits(a, b)' OBVIOUS
  <2>1. PICK z \in Years : z = YearOf(a) BY LeaveNumbers
  <2>2. CASE cut' BY <2>2 DEF Fits, Excused
  <2>3. CASE ~cut'
    <3>1. BalanceKept(z)
      <4> SUFFICES ASSUME balance[z] # None
                   PROVE  balance'[z] # None /\ balance[z].total + balance'[z].used <= balance'[z].total + balance[z].used
        BY DEF BalanceKept
      <4>1. balance'[z] # None /\ balance'[z].used = balance[z].used /\ balance[z].total <= balance'[z].total BY <2>3
      <4>2. balance[z].total \in Int /\ balance[z].used \in Nat BY <1>0, BalanceFields
      <4>3. balance'[z].total \in Int
        <5>1. balance'[z] \in Balance BY <4>1
        <5> QED BY <5>1 DEF Balance
      <4> QED BY <4>1, <4>2, <4>3
    <3> QED BY <1>0, <1>1, <1>2, <2>1, <3>1, FitsKept
  <2> QED BY <2>2, <2>3
<1>6. DesksKnow'
  <2> SUFFICES ASSUME NEW v \in Desks PROVE DeskKnows(v)' BY DEF LeaveInv, DesksKnow
  <2>0. DeskKnows(v) BY DeskShape
  <2>1. at[v].op \in {"cancel", "reject", "inbox"} => at[v].r \in Sent' BY <1>2, <2>0 DEF DeskKnows
  <2>2. ASSUME at[v].op = "submit", NEW z \in Sent', Live(z)', Overlaps(z, at[v].from, at[v].to)' PROVE req'[z].twin = "submitted"
    <3>1. z \in Sent /\ Live(z) /\ Overlaps(z, at[v].from, at[v].to) BY <1>2, <2>2 DEF Overlaps, Live
    <3> QED BY <2>0, <2>2, <3>1 DEF DeskKnows
  <2>3. ASSUME at[v].op = "submit", at[v].twin = "none"
        PROVE  Fits(at[v].from, at[v].to)' /\ \A z \in Waiting' : req'[z].twin # "none"
    <3>1. Fits(at[v].from, at[v].to) /\ \A z \in Waiting : req[z].twin # "none" BY <2>0, <2>3 DEF DeskKnows
    <3>2. PICK a, b : a = at[v].from /\ b = at[v].to OBVIOUS
    <3>3. Fits(a, b)' BY <1>5, <3>1, <3>2
    <3>4. Fits(at[v].from, at[v].to)' BY <3>2, <3>3 DEF Fits, Excused, Cost, Period, YearOf
    <3> QED BY <1>2, <3>1, <3>4
  <2> QED BY <2>1, <2>2, <2>3 DEF DeskKnows
<1>7. PendingFits'
  <2> SUFFICES ASSUME NEW z \in Waiting
               PROVE  /\ req'[z].taken = 0
                      /\ req'[z].twin = "none" => Fits(req[z].from, req[z].to)' /\ \A y \in Waiting' : y = z
    BY <1>2 DEF PendingFits
  <2>1. /\ req[z].taken = 0
        /\ req[z].twin = "none" => Fits(req[z].from, req[z].to) /\ \A y \in Waiting : y = z
    BY DEF LeaveInv, PendingFits
  <2>2. PICK a, b : a = req[z].from /\ b = req[z].to OBVIOUS
  <2>3. Fits(req[z].from, req[z].to) => Fits(a, b)' BY <1>5, <2>2
  <2>4. Fits(a, b)' => Fits(req[z].from, req[z].to)' BY <2>2 DEF Fits, Excused, Cost, Period, YearOf
  <2> QED BY <1>2, <2>1, <2>3, <2>4
<1>8. Unopened'
  <2>1. balance'[1] # None BY LeaveNumbers DEF LeaveInv, Unopened
  <2>2. balance'[2] = None => balance[2] = None BY LeaveNumbers
  <2> QED BY <1>3, <2>1, <2>2 DEF LeaveInv, Unopened
<1>9. DeductedOnce' /\ NoDoubleBooking'
  <2>1. DeductedOnce' BY <1>2 DEF LeaveInv, DeductedOnce
  <2>2. NoDoubleBooking' BY <1>2 DEF LeaveInv, NoDoubleBooking, Live, Overlaps
  <2> QED BY <2>1, <2>2
<1>10. \A z \in Years : balance[z] = None => DaysCharged(z) = {}
  <2>1. \A z \in Years : balance[z] = None => z = 2 BY LeaveNumbers DEF LeaveInv, Unopened
  <2> QED BY <2>1 DEF LeaveInv, Unopened
<1>11. UsedAddsUp'
  <2> SUFFICES ASSUME NEW z \in Years, balance'[z] # None PROVE balance'[z].used = Cardinality(DaysCharged(z)')
    BY DEF UsedAddsUp
  <2>1. CASE balance[z] = None
    <3>1. DaysCharged(z)' = {} BY <1>3, <1>10, <2>1
    <3>2. Cardinality(DaysCharged(z)') = 0 BY <3>1, FS_EmptySet
    <3> QED BY <2>1, <3>2
  <2>2. CASE balance[z] # None BY <1>3, <2>2 DEF LeaveInv, UsedAddsUp
  <2> QED BY <2>1, <2>2
<1>12. WithinBalance'
  <2> SUFFICES ASSUME NEW z \in Years, balance'[z] # None, balance'[z].used > balance'[z].total PROVE Excused(z)'
    BY DEF WithinBalance, Excused
  <2>1. balance'[z].total \in Int /\ balance'[z].used \in Int
    <3>1. balance'[z] \in Balance OBVIOUS
    <3> QED BY <3>1 DEF Balance
  <2>2. balance[z] # None
    <3>1. balance[z] = None => balance'[z].used = 0 /\ 0 <= balance'[z].total OBVIOUS
    <3> QED BY <2>1, <3>1
  <2>3. CASE cut' BY <2>3 DEF Excused
  <2>4. CASE ~cut'
    <3>1. balance'[z].used = balance[z].used /\ balance[z].total <= balance'[z].total BY <2>2, <2>4
    <3>2. balance[z].total \in Int /\ balance[z].used \in Nat BY <1>0, <2>2, BalanceFields
    <3>3. balance[z].used > balance[z].total BY <2>1, <3>1, <3>2
    <3>4. Excused(z) BY <2>2, <3>3 DEF LeaveInv, WithinBalance, Excused
    <3> QED BY <1>4, <3>4
  <2> QED BY <2>3, <2>4
<1>13. LeaveDaysWereApproved' BY <1>2 DEF LeaveInv, LeaveDaysWereApproved, ApprovedOff, Marked, Period
<1> QED BY <1>1, <1>6, <1>7, <1>8, <1>9, <1>11, <1>12, <1>13 DEF LeaveInv

\* The months a year was credited.
LEMMA GrantsOfYear ==
  ASSUME LeaveTypeOK, NEW z, NEW G, G = {g \in grants : g[1] = z}
  PROVE  IsFiniteSet(G) /\ Cardinality(G) \in Nat
<1>1. IsFiniteSet({1, 2})
  <2>1. IsFiniteSet({1} \cup {2}) BY FS_Singleton, FS_AddElement
  <2>2. {1} \cup {2} = {1, 2} OBVIOUS
  <2> QED BY <2>1, <2>2
<1>2. IsFiniteSet(Years \X Months) BY <1>1, FS_Product DEF Years, Months
<1>3. G \subseteq Years \X Months BY DEF LeaveTypeOK
<1> QED BY <1>2, <1>3, FS_Subset, FS_CardinalityType

LEMMA ThisYearType == ThisYear \in Years BY DEF ThisYear, Years

\* PUT /leave/balance/:userId
LEMMA AdjustInv ==
  ASSUME LeaveInv, NEW n \in {-1, 1}, Adjust(n)
  PROVE  LeaveInv'
<1>0. LeaveTypeOK BY DEF LeaveInv
<1>1. PICK y \in Years : y = ThisYear BY ThisYearType
<1>2. /\ balance[y] # None /\ balance[y].total + n \in 0 .. MaxTotal
      /\ balance' = [balance EXCEPT ![y].total = @ + n]
      /\ adjusted' = [adjusted EXCEPT ![y] = @ + n]
      /\ cut' = (cut \/ n < 0)
      /\ UNCHANGED <<req, month, grants, carried, att, shifts, at>>
  BY <1>1 DEF Adjust
<1>3. balance[y] \in Balance /\ balance[y].total \in Int BY <1>0, <1>2, BalanceFields
<1>4. PICK t : t = balance[y].total + n OBVIOUS
<1>5. t \in 0 .. MaxTotal /\ t \in (0 - MaxTotal) .. MaxTotal BY <1>2, <1>4, LeaveNumbers
<1>6. PICK b : b = [balance[y] EXCEPT !.total = t] OBVIOUS
<1>7. b \in Balance /\ b.total = t /\ b.used = balance[y].used BY <1>3, <1>5, <1>6 DEF Balance
<1>8. b # None BY <1>7, LeaveRowsAssumption
<1>9. balance \in [Years -> Balance \cup {None}] /\ adjusted \in [Years -> Int] BY <1>0 DEF LeaveTypeOK
<1>10. balance' = [balance EXCEPT ![y] = b] BY <1>2, <1>4, <1>6, <1>9
<1>11. balance'[y] = b /\ balance' \in [Years -> Balance \cup {None}] /\ \A z \in Years \ {y} : balance'[z] = balance[z]
  BY <1>7, <1>9, <1>10
<1>12. adjusted'[y] = adjusted[y] + n /\ adjusted' \in [Years -> Int] /\ \A z \in Years \ {y} : adjusted'[z] = adjusted[z]
  <2>1. adjusted[y] + n \in Int BY <1>9
  <2> QED BY <1>2, <1>9, <2>1
<1>13. cut' \in BOOLEAN /\ (cut => cut') /\ (n < 0 => cut')
  <2>1. cut \in BOOLEAN BY <1>0 DEF LeaveTypeOK
  <2> QED BY <1>2, <2>1
<1>14. cut' \/ balance[y].total <= t BY <1>3, <1>4, <1>13
<1>15. \A z \in Years : balance[z] # None => /\ balance'[z] # None /\ balance'[z].used = balance[z].used
                                             /\ cut' \/ balance[z].total <= balance'[z].total
  <2> SUFFICES ASSUME NEW z \in Years, balance[z] # None
               PROVE  balance'[z] # None /\ balance'[z].used = balance[z].used /\ (cut' \/ balance[z].total <= balance'[z].total)
    OBVIOUS
  <2>1. CASE z = y BY <1>7, <1>8, <1>11, <1>14, <2>1
  <2>2. CASE z # y
    <3>1. balance'[z] = balance[z] /\ balance[z].total \in Int BY <1>0, <1>11, <2>2, BalanceFields
    <3> QED BY <3>1
  <2> QED BY <2>1, <2>2
<1>16. \A z \in Years : balance[z] = None /\ balance'[z] # None => balance'[z].used = 0 /\ 0 <= balance'[z].total
  BY <1>2, <1>11
<1>17. balance'[2] = None => carried' = carried /\ adjusted'[2] = adjusted[2] /\ \A g \in grants' : g \in grants \/ g[1] # 2
  BY <1>2, <1>8, <1>11, <1>12, LeaveNumbers
<1>18. AccruedOnce'
  <2> SUFFICES ASSUME NEW z \in Years, balance'[z] # None
               PROVE  balance'[z].total = (IF z = 1 THEN Opening ELSE carried) + adjusted'[z] + Increment * Cardinality({g \in grants : g[1] = z})
    BY <1>2 DEF AccruedOnce
  <2>1. balance[z] # None BY <1>2, <1>11
  <2>2. PICK o : o = IF z = 1 THEN Opening ELSE carried OBVIOUS
  <2>3. PICK G : G = {g \in grants : g[1] = z} OBVIOUS
  <2>4. PICK i : i = Increment * Cardinality(G) OBVIOUS
  <2>5. balance[z].total = o + adjusted[z] + i BY <2>1, <2>2, <2>3, <2>4 DEF LeaveInv, AccruedOnce
  <2>6. balance'[z].total = o + adjusted'[z] + i
    <3>1. CASE z = y
      <4>1. o \in Int BY <1>0, <2>2, LeaveNumbers DEF LeaveTypeOK
      <4>2. i \in Int
        <5>1. Cardinality(G) \in Nat BY <1>0, <2>3, GrantsOfYear
        <5> QED BY <2>4, <5>1, LeaveNumbers
      <4>3. adjusted[y] \in Int /\ n \in Int BY <1>9
      <4>4. balance'[y].total = balance[y].total + n BY <1>4, <1>7, <1>11
      <4> QED BY <1>12, <2>5, <3>1, <4>1, <4>2, <4>3, <4>4
    <3>2. CASE z # y BY <1>11, <1>12, <2>5, <3>2
    <3> QED BY <3>1, <3>2
  <2> QED BY <2>2, <2>3, <2>4, <2>6
<1>19. grants' \subseteq Years \X Months /\ carried' \in 0 .. CarryCap BY <1>0, <1>2 DEF LeaveTypeOK
<1> QED BY <1>2, <1>11, <1>12, <1>13, <1>15, <1>16, <1>17, <1>18, <1>19, BalanceStepInv

LEMMA CarryOverType ==
  ASSUME LeaveTypeOK, balance[1] # None
  PROVE  CarryOver \in 0 .. CarryCap
<1>1. balance[1].total \in Int /\ balance[1].used \in Nat BY BalanceFields, LeaveNumbers
<1>2. PICK a : a = Available(1) OBVIOUS
<1>3. a \in Nat BY <1>1, <1>2 DEF Available
<1>4. PICK S : S = {a, CarryCap} OBVIOUS
<1>5. \E x \in S : \A y \in S : x <= y
  <2>1. CASE a <= CarryCap BY <1>3, <1>4, <2>1, LeaveNumbers
  <2>2. CASE CarryCap <= a BY <1>3, <1>4, <2>2, LeaveNumbers
  <2> QED BY <1>3, <2>1, <2>2, LeaveNumbers
<1>6. Min(S) \in S /\ \A y \in S : Min(S) <= y BY <1>5 DEF Min
<1>7. Min(S) \in Nat /\ Min(S) <= CarryCap BY <1>3, <1>4, <1>6, LeaveNumbers
<1>8. CarryOver = Min(S) BY <1>2, <1>4 DEF CarryOver
<1> QED BY <1>7, <1>8, LeaveNumbers

\* The months of a year after one more is credited.
LEMMA GrantsAdded ==
  ASSUME LeaveTypeOK, NEW y, NEW m, <<y, m>> \notin grants, NEW z, NEW G, G = {g \in grants : g[1] = z},
         NEW H, H = {g \in grants \cup {<<y, m>>} : g[1] = z}
  PROVE  Cardinality(H) = IF z = y THEN Cardinality(G) + 1 ELSE Cardinality(G)
<1>1. PICK p : p = <<y, m>> OBVIOUS
<1>2. p[1] = y /\ p \notin grants BY <1>1
<1>3. CASE z = y
  <2>1. H = G \cup {p} /\ p \notin G BY <1>1, <1>2, <1>3
  <2>2. IsFiniteSet(G) BY GrantsOfYear
  <2> QED BY <1>3, <2>1, <2>2, FS_AddElement
<1>4. CASE z # y
  <2>1. H = G BY <1>1, <1>2, <1>4
  <2> QED BY <1>4, <2>1
<1> QED BY <1>3, <1>4

\* runMonthlyAccrual
LEMMA AccrueInv ==
  ASSUME LeaveInv, Accrue
  PROVE  LeaveInv'
<1>0. LeaveTypeOK BY DEF LeaveInv
<1>1. PICK y \in Years : y = ThisYear BY ThisYearType
<1>2. PICK m : m = IF month <= 2 THEN month ELSE month - 2 OBVIOUS
<1>3. PICK carry : carry = IF balance[y] = None /\ m = 1 THEN CarryOver ELSE 0 OBVIOUS
<1>4. PICK base : base = IF balance[y] = None THEN [total |-> carry, used |-> 0] ELSE balance[y] OBVIOUS
<1>5. /\ <<y, m>> \notin grants /\ base.total + Increment <= MaxTotal
      /\ grants' = grants \cup {<<y, m>>}
      /\ balance' = [balance EXCEPT ![y] = [base EXCEPT !.total = @ + Increment]]
      /\ carried' = carried + carry
      /\ UNCHANGED <<req, month, adjusted, cut, att, shifts, at>>
  BY <1>1, <1>2, <1>3, <1>4 DEF Accrue, Grantable
<1>6. m \in Months
  <2>1. month \in 1 .. 4 BY <1>0, LeaveNumbers DEF LeaveTypeOK
  <2> QED BY <1>2, <2>1 DEF Months
<1>7. balance[1] # None /\ carried \in 0 .. CarryCap
      /\ (balance[2] = None => carried = 0 /\ adjusted[2] = 0 /\ \A g \in grants : g[1] # 2)
  BY <1>0 DEF LeaveInv, LeaveTypeOK, Unopened
<1>8. carry \in 0 .. CarryCap /\ (balance[y] # None => carry = 0) BY <1>0, <1>3, <1>7, CarryOverType, LeaveNumbers
<1>9. balance[y] = None => y = 2 BY <1>7, LeaveNumbers
<1>10. carried' \in 0 .. CarryCap
  <2>1. CASE balance[y] = None BY <1>5, <1>7, <1>8, <1>9, <2>1
  <2>2. CASE balance[y] # None BY <1>5, <1>7, <1>8, <2>2
  <2> QED BY <2>1, <2>2
<1>11. PICK t : t = base.total + Increment OBVIOUS
<1>12. PICK b : b = [base EXCEPT !.total = t] OBVIOUS
<1>13. /\ b \in Balance /\ b.total = base.total + Increment /\ b.used = base.used /\ base.total \in Int
       /\ balance[y] = None => base.total = carry /\ base.used = 0
       /\ balance[y] # None => base = balance[y]
  <2>1. /\ base \in [total : Int, used : 0 .. Cardinality(Requests) * Cardinality(Days)] /\ 0 - MaxTotal <= base.total
        /\ balance[y] = None => base.total = carry /\ base.used = 0
        /\ balance[y] # None => base = balance[y]
    <3>1. CASE balance[y] = None
      <4>1. base = [total |-> carry, used |-> 0] BY <1>4, <3>1
      <4>2. 0 \in 0 .. Cardinality(Requests) * Cardinality(Days)
        <5>1. PICK n : n = Cardinality(Requests) * Cardinality(Days) OBVIOUS
        <5>2. Cardinality(DaysCharged(y)) \in 0 .. n BY <5>1, ChargedType
        <5>3. Cardinality(DaysCharged(y)) \in Int /\ 0 <= Cardinality(DaysCharged(y)) /\ Cardinality(DaysCharged(y)) <= n /\ n \in Int
          <6>1. Cardinality(Requests) \in Nat /\ Cardinality(Days) \in Nat BY LeaveNumbers, FS_CardinalityType
          <6>2. n \in Int BY <5>1, <6>1
          <6> QED BY <5>2, <6>2
        <5>4. 0 \in 0 .. n BY <5>3
        <5> QED BY <5>1, <5>4
      <4>3. carry \in Int /\ 0 - MaxTotal <= carry BY <1>8, LeaveNumbers
      <4> QED BY <3>1, <4>1, <4>2, <4>3
    <3>2. CASE balance[y] # None
      <4>1. base = balance[y] /\ balance[y] \in Balance /\ balance[y].total \in Int BY <1>0, <1>4, <3>2, BalanceFields
      <4>2. balance[y].total \in (0 - MaxTotal) .. MaxTotal BY <1>0, <3>2, BalanceFields
      <4>3. 0 - MaxTotal <= base.total BY <4>1, <4>2, LeaveNumbers
      <4> QED BY <3>2, <4>1, <4>3 DEF Balance
    <3> QED BY <3>1, <3>2
  <2>2. base.total \in Int BY <2>1
  <2>3. t \in (0 - MaxTotal) .. MaxTotal BY <1>5, <1>11, <2>1, <2>2, LeaveNumbers
  <2>4. b \in Balance /\ b.total = t /\ b.used = base.used BY <1>12, <2>1, <2>3 DEF Balance
  <2> QED BY <1>11, <2>1, <2>2, <2>4
<1>14. b # None BY <1>13, LeaveRowsAssumption
<1>15. balance \in [Years -> Balance \cup {None}] /\ adjusted \in [Years -> Int] /\ cut \in BOOLEAN BY <1>0 DEF LeaveTypeOK
<1>16. balance' = [balance EXCEPT ![y] = b] BY <1>5, <1>11, <1>12
<1>17. balance'[y] = b /\ balance' \in [Years -> Balance \cup {None}] /\ \A z \in Years \ {y} : balance'[z] = balance[z]
  BY <1>13, <1>15, <1>16
<1>18. \A z \in Years : balance[z] # None => /\ balance'[z] # None /\ balance'[z].used = balance[z].used
                                             /\ cut' \/ balance[z].total <= balance'[z].total
  <2> SUFFICES ASSUME NEW z \in Years, balance[z] # None
               PROVE  balance'[z] # None /\ balance'[z].used = balance[z].used /\ balance[z].total <= balance'[z].total
    OBVIOUS
  <2>1. CASE z = y BY <1>13, <1>14, <1>17, <2>1, LeaveNumbers
  <2>2. CASE z # y
    <3>1. balance'[z] = balance[z] /\ balance[z].total \in Int BY <1>0, <1>17, <2>2, BalanceFields
    <3> QED BY <3>1
  <2> QED BY <2>1, <2>2
<1>19. \A z \in Years : balance[z] = None /\ balance'[z] # None => balance'[z].used = 0 /\ 0 <= balance'[z].total
  BY <1>8, <1>13, <1>17, LeaveNumbers
<1>20. balance'[2] = None => carried' = carried /\ adjusted'[2] = adjusted[2] /\ \A g \in grants' : g \in grants \/ g[1] # 2
  <2> SUFFICES ASSUME balance'[2] = None PROVE carried' = carried /\ \A g \in grants' : g \in grants \/ g[1] # 2 BY <1>5
  <2>1. y = 1 BY <1>14, <1>17, LeaveNumbers
  <2>2. carry = 0 BY <1>7, <1>8, <2>1
  <2> QED BY <1>5, <1>7, <2>1, <2>2
<1>21. grants' \subseteq Years \X Months BY <1>0, <1>5, <1>6 DEF LeaveTypeOK
<1>22. AccruedOnce'
  <2> SUFFICES ASSUME NEW z \in Years, balance'[z] # None
               PROVE  balance'[z].total = (IF z = 1 THEN Opening ELSE carried') + adjusted[z] + Increment * Cardinality({g \in grants' : g[1] = z})
    BY <1>5 DEF AccruedOnce
  <2>1. PICK G : G = {g \in grants : g[1] = z} OBVIOUS
  <2>2. PICK H : H = {g \in grants \cup {<<y, m>>} : g[1] = z} OBVIOUS
  <2>3. H = {g \in grants' : g[1] = z} BY <1>5, <2>2
  <2>4. Cardinality(H) = IF z = y THEN Cardinality(G) + 1 ELSE Cardinality(G) BY <1>0, <1>5, <2>1, <2>2, GrantsAdded
  <2>5. PICK n : n = Cardinality(G) OBVIOUS
  <2>6. n \in Nat BY <1>0, <2>1, <2>5, GrantsOfYear
  <2>7. PICK i : i = Increment * n OBVIOUS
  <2>8. i \in Nat /\ Increment * (n + 1) = i + Increment BY <2>6, <2>7, LeaveNumbers
  <2>9. adjusted[z] \in Int BY <1>15
  <2>10. CASE z = y /\ balance[z] = None
    <3>1. z = 2 /\ carried = 0 /\ adjusted[2] = 0 /\ \A g \in grants : g[1] # 2 BY <1>7, <1>9, <2>10
    <3>2. G = {} BY <2>1, <3>1
    <3>3. n = 0 BY <2>5, <3>2, FS_EmptySet
    <3>4. i = 0 BY <2>7, <3>3, LeaveNumbers
    <3>5. Increment * Cardinality(H) = Increment BY <2>4, <2>5, <2>8, <2>10, <3>4, LeaveNumbers
    <3>6. balance'[z].total = carry + Increment /\ carried' = carry BY <1>5, <1>8, <1>13, <1>17, <2>10, <3>1
    <3> QED BY <1>8, <2>3, <3>1, <3>5, <3>6, LeaveNumbers
  <2>11. CASE z = y /\ balance[z] # None
    <3>1. carried' = carried BY <1>5, <1>7, <1>8, <2>11
    <3>2. PICK o : o = IF z = 1 THEN Opening ELSE carried OBVIOUS
    <3>3. o \in Int BY <1>7, <3>2, LeaveNumbers
    <3>4. balance[z].total = o + adjusted[z] + i BY <2>1, <2>5, <2>7, <2>11, <3>2 DEF LeaveInv, AccruedOnce
    <3>5. balance'[z].total = balance[z].total + Increment BY <1>13, <1>17, <2>11
    <3>6. Increment * Cardinality(H) = i + Increment BY <2>4, <2>5, <2>8, <2>11
    <3>7. balance'[z].total = o + adjusted[z] + (i + Increment) BY <2>8, <2>9, <3>3, <3>4, <3>5, LeaveNumbers
    <3> QED BY <2>3, <3>1, <3>2, <3>6, <3>7
  <2>12. CASE z # y
    <3>1. balance'[z] = balance[z] /\ balance[z] # None BY <1>17, <2>12
    <3>2. balance[z].total = (IF z = 1 THEN Opening ELSE carried) + adjusted[z] + Increment * Cardinality(G)
      BY <2>1, <3>1 DEF LeaveInv, AccruedOnce
    <3>3. Cardinality(H) = Cardinality(G) BY <2>4, <2>12
    <3>4. z = 1 \/ carried' = carried
      <4>1. z = 2 => y = 1 BY <2>12, LeaveNumbers
      <4> QED BY <1>5, <1>7, <1>8, <4>1, LeaveNumbers
    <3> QED BY <2>3, <3>1, <3>2, <3>3, <3>4
  <2> QED BY <2>10, <2>11, <2>12
<1>23. adjusted' \in [Years -> Int] /\ cut' \in BOOLEAN /\ (cut => cut') BY <1>5, <1>15
<1> QED BY <1>5, <1>10, <1>17, <1>18, <1>19, <1>20, <1>21, <1>22, <1>23, BalanceStepInv

\* Another part writes the attendance row of a day.
LEMMA AttendInv ==
  ASSUME LeaveInv, NEW d \in Days, Attend(d)
  PROVE  LeaveInv'
<1>0. LeaveTypeOK BY DEF LeaveInv
<1>1. UNCHANGED <<req, balance, month, grants, carried, adjusted, cut, shifts, at>> BY DEF Attend, accrualVars
<1>2. att' = [att EXCEPT ![d] = "written"] /\ att \in [Days -> {"other", "leave", "written"}] BY <1>0 DEF Attend, LeaveTypeOK
<1>3. LeaveTypeOK' BY <1>0, <1>1, <1>2 DEF LeaveTypeOK
<1>4. Sent' = Sent /\ Waiting' = Waiting BY <1>1 DEF Sent, Waiting
<1>5. \A y : DaysCharged(y)' = DaysCharged(y) BY <1>1, <1>4 DEF DaysCharged, Charged, Marked, Period, YearOf
<1>6. DesksKnow' BY <1>1, <1>4 DEF LeaveInv, DesksKnow, DeskKnows, Live, Overlaps, Fits, Excused, Cost, Period, YearOf
<1>7. PendingFits' BY <1>1, <1>4 DEF LeaveInv, PendingFits, Fits, Excused, Cost, Period, YearOf
<1>8. Unopened' /\ UsedAddsUp' BY <1>1, <1>5 DEF LeaveInv, Unopened, UsedAddsUp
<1>9. DeductedOnce' /\ NoDoubleBooking' BY <1>1, <1>4 DEF LeaveInv, DeductedOnce, NoDoubleBooking, Live, Overlaps
<1>10. WithinBalance' /\ AccruedOnce' BY <1>1, <1>4 DEF LeaveInv, WithinBalance, AccruedOnce, YearOf
<1>11. LeaveDaysWereApproved'
  <2>1. \A e \in Days : ApprovedOff(e)' <=> ApprovedOff(e) BY <1>1, <1>4 DEF ApprovedOff, Marked, Period
  <2>2. \A e \in Days : att'[e] = att[e] \/ att'[e] = "written" BY <1>2
  <2> QED BY <2>1, <2>2 DEF LeaveInv, LeaveDaysWereApproved
<1> QED BY <1>3, <1>6, <1>7, <1>8, <1>9, <1>10, <1>11 DEF LeaveInv

LEMMA LeaveNextInv ==
  ASSUME LeaveInv, [LeaveNext]_leaveVars
  PROVE  LeaveInv'
<1>1. ASSUME NEW w \in Desks, NEW from \in Days, NEW to \in Days, SubmitRead(w, from, to) PROVE LeaveInv'
  BY <1>1, SubmitReadInv
<1>2. ASSUME NEW w \in Desks, SubmitWrite(w) PROVE LeaveInv' BY <1>2, SubmitWriteInv
<1>3. ASSUME NEW w \in Desks, CancelWrite(w) \/ RejectWrite(w) PROVE LeaveInv'
  <2>1. CASE CancelWrite(w)
    <3>1. ByIdWrite(w, "cancel", "cancelled") BY <2>1 DEF CancelWrite
    <3> QED BY <3>1, ByIdWriteInv
  <2>2. CASE RejectWrite(w)
    <3>1. ByIdWrite(w, "reject", "rejected") BY <2>2 DEF RejectWrite
    <3> QED BY <3>1, ByIdWriteInv
  <2> QED BY <1>3, <2>1, <2>2
<1>4. ASSUME NEW w \in Desks, InboxApprove(w) PROVE LeaveInv'
  <2>1. at' = [at EXCEPT ![w] = Idle] BY <1>4 DEF InboxApprove
  <2>2. CASE Approve(at[w].r)
    <3>1. PICK r : r = at[w].r OBVIOUS
    <3>2. Approve(r) BY <2>2, <3>1
    <3> QED BY <2>1, <3>2, ApproveInv
  <2>3. CASE UNCHANGED <<req, balance, accrualVars, att, shifts>>
    <3>1. UNCHANGED <<req, balance, month, grants, carried, adjusted, cut, att, shifts>> BY <2>3 DEF accrualVars
    <3> QED BY <2>1, <3>1, AsideInv
  <2> QED BY <1>4, <2>2, <2>3 DEF InboxApprove
<1>5. ASSUME NEW w \in Desks, NEW r \in Requests, CancelRead(w, r) \/ RejectRead(w, r) \/ InboxRead(w, r) PROVE LeaveInv'
  <2>1. ASSUME NEW op \in {"cancel", "reject"}, ByIdRead(w, r, op) PROVE LeaveInv'
    <3>1. r \in Sent /\ at' = [at EXCEPT ![w] = [op |-> op, r |-> r]] /\ UNCHANGED <<req, balance, accrualVars, att, shifts>>
      BY <2>1 DEF ByIdRead
    <3>2. op \in {"cancel", "reject", "inbox"} BY <2>1
    <3> QED BY <3>1, <3>2, DeskReadsInv
  <2>2. CASE CancelRead(w, r) BY <2>1, <2>2 DEF CancelRead
  <2>3. CASE RejectRead(w, r) BY <2>1, <2>3 DEF RejectRead
  <2>4. CASE InboxRead(w, r)
    <3>1. r \in Sent /\ at' = [at EXCEPT ![w] = [op |-> "inbox", r |-> r]] /\ UNCHANGED <<req, balance, accrualVars, att, shifts>>
      BY <2>4 DEF InboxRead
    <3> QED BY <3>1, DeskReadsInv
  <2> QED BY <1>5, <2>2, <2>3, <2>4
<1>6. ASSUME NEW r \in Requests, ApproveDirect(r) PROVE LeaveInv'
  <2>1. Approve(r) /\ UNCHANGED at BY <1>6 DEF ApproveDirect
  <2> QED BY <2>1, ApproveInv
<1>7. ASSUME NEW r \in Requests, InboxReject(r) PROVE LeaveInv'
  <2>1. r \in Waiting BY <1>7 DEF InboxReject, Claims, Waiting
  <2>2. req' = [req EXCEPT ![r].status = "rejected"] /\ UNCHANGED <<balance, accrualVars, att, shifts, at>> BY <1>7 DEF InboxReject
  <2> QED BY <2>1, <2>2, WaitingDecidedInv
<1>8. ASSUME NEW r \in Requests, CancelOwnLeave(r) PROVE LeaveInv'
  <2>1. r \in Waiting BY <1>8 DEF CancelOwnLeave
  <2>2. req' = [req EXCEPT ![r].status = "cancelled"] /\ UNCHANGED <<balance, accrualVars, att, shifts, at>> BY <1>8 DEF CancelOwnLeave
  <2> QED BY <2>1, <2>2, WaitingDecidedInv
<1>9. CASE RequestNext BY <1>1, <1>2, <1>3, <1>4, <1>5, <1>6, <1>7, <1>8, <1>9 DEF RequestNext
<1>10. CASE BalanceNext
  <2>1. ASSUME NEW n \in {-1, 1}, Adjust(n) PROVE LeaveInv' BY <2>1, AdjustInv
  <2>2. CASE Accrue BY <2>2, AccrueInv
  <2>3. CASE Tick
    <3>1. UNCHANGED <<req, balance, grants, carried, adjusted, cut, att>> /\ UNCHANGED at BY <2>3 DEF Tick
    <3> QED BY <2>3, <3>1, AsideInv
  <2> QED BY <1>10, <2>1, <2>2, <2>3 DEF BalanceNext
<1>11. ASSUME NEW d \in Days, Schedule(d) PROVE LeaveInv'
  <2>1. UNCHANGED <<req, balance, accrualVars, att, at>> BY <1>11 DEF Schedule
  <2>2. UNCHANGED <<req, balance, grants, carried, adjusted, cut, att>> /\ UNCHANGED at BY <2>1 DEF accrualVars
  <2>3. \E e \in Days : Schedule(e) BY <1>11
  <2> QED BY <2>2, <2>3, AsideInv
<1>12. ASSUME NEW d \in Days, Attend(d) PROVE LeaveInv' BY <1>12, AttendInv
<1>13. CASE UNCHANGED leaveVars
  <2>1. UNCHANGED <<req, balance, grants, carried, adjusted, cut, att>> /\ UNCHANGED <<month, shifts>> /\ UNCHANGED at
    BY <1>13 DEF leaveVars, accrualVars
  <2> QED BY <2>1, AsideInv
<1> QED BY <1>9, <1>10, <1>11, <1>12, <1>13 DEF LeaveNext

\* Whatever the managers, the employee, the assistant and the accrual job do, and
\* in whatever order their requests read and write (routes/leave.ts,
\* services/leave-request.ts, leaveAccrual.ts, approval-workflows.ts): a request
\* is deducted, and its days are marked, once and only if it was approved;
\* used_days is what the approved requests cost; every month is credited once
\* and days are carried over once; live requests overlap and balances are
\* overdrawn only where the database was never asked, as the properties say.
THEOREM LeaveHolds == LeaveSpec => []LeaveSafe
<1>1. LeaveInit => LeaveInv BY LeaveInvInit
<1>2. LeaveInv /\ [LeaveNext]_leaveVars => LeaveInv' BY LeaveNextInv
<1>3. LeaveInv => LeaveSafe BY LeaveInvImplies
<1> QED BY <1>1, <1>2, <1>3, PTL DEF LeaveSpec
=============================================================================
