------------------------------ MODULE MCRequests ------------------------------
(***************************************************************************)
(* Leave requests, balances, the other approvals and the timesheets for TLC: *)
(* a behaviour keeps the focus it starts with, so that the run covers the    *)
(* sum of the parts and not their product.                                   *)
(***************************************************************************)
EXTENDS Approvals, Timesheets, TLC

VARIABLE focus

\* The parts share their model values: the first two of Entries are Requests.
MCSymmetry == {r @@ w : r \in Permutations(Requests), w \in Permutations(Desks)}

MCInit ==
  /\ focus \in {"leave", "balances", "overtime", "corrections", "claims", "timesheets"}
  /\ LeaveInit /\ (unpaid => focus = "balances") /\ ApprovalInit /\ SheetInit

\* The balances are explored with one submission at a time, requests that are
\* pending or approved, and one adjustment a year.
OneDesk ==
  /\ \A v, w \in Desks : Idle \in {at[v], at[w]} \/ v = w
  /\ \A w \in Desks : at[w].op \in {"none", "submit"}
  /\ \A r \in Sent : Live(r)
  /\ adjusted \in [Years -> {-1, 0, 1}]

\* The requests of a focus are of these kinds.
Only(kinds) == \A i \in Filed : item[i].kind \in kinds

MCApprovals ==
  /\ ApprovalNext
  /\ \/ focus = "overtime" /\ Only({"overtime"})' /\ day'.edits = 0
     \/ focus = "corrections" /\ Only({"correction", "remote"})' /\ day'.worked = 0
     \/ focus = "claims" /\ Only({"expense", "availability", "late_notice"})' /\ UNCHANGED <<day, payroll>>

MCNext ==
  /\ UNCHANGED focus
  /\ \/ /\ focus = "leave"
        /\ RequestNext \/ Schedule(1) \/ Attend(1)
        /\ UNCHANGED <<approvalVars, sheetVars>>
     \/ focus = "balances" /\ (RequestNext \/ BalanceNext) /\ OneDesk' /\ UNCHANGED <<approvalVars, sheetVars>>
     \/ MCApprovals /\ UNCHANGED <<leaveVars, sheetVars>>
     \/ focus = "timesheets" /\ SheetNext /\ UNCHANGED <<leaveVars, approvalVars>>

MCSpec == MCInit /\ [][MCNext]_<<leaveVars, approvalVars, sheetVars, focus>>
=============================================================================
