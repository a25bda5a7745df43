------------------------------- MODULE MCRoster -------------------------------
(***************************************************************************)
(* Instances of Roster for TLC.  The templates, the publication flow, the    *)
(* swaps, the emergency offers and the plans are explored each with what     *)
(* they work on: a behaviour keeps the focus it starts with, so that one run *)
(* covers the sum of the five and not their product.                         *)
(***************************************************************************)
EXTENDS Roster, TLC

CONSTANTS u1, u2, early, night
VARIABLE focus

MCTooClose == {<<night, early>>}
MCSymmetry == {u @@ a @@ w : u \in Permutations(Users), a \in Permutations(AsgIds), w \in Permutations(Desks)}

MCInit ==
  /\ focus \in {"templates", "publish", "rest", "swaps", "offers", "plans"}
  /\ Init
  /\ focus # "templates" => exists = Shifts

\* The publication flow is explored with one assignment, and with two of one
\* employee under one request at a time.
OneAssignment == Cardinality(Rows) <= 1
OneEmployee ==
  /\ \A a, b \in Rows : asg[a].user = asg[b].user
  /\ \A v, w \in Desks : Idle \in {desk[v], desk[w]} \/ v = w

\* Swaps exchange shifts of the week.
OneDay == \A a \in Rows : asg[a].day \in Week

Rostered == \E u \in Users, s \in Shifts, d \in Days : CreateAssignment(u, s, d)

MCNext ==
  /\ UNCHANGED focus
  /\ \/ focus = "templates" /\ ((TemplateNext /\ UNCHANGED rosterVars) \/ (\E s \in Shifts : DeleteShift(s)))
     \/ focus = "publish" /\ (RosterNext \/ PublishNext) /\ OneAssignment'
     \/ focus = "rest" /\ (RosterNext \/ PublishNext) /\ OneEmployee'
     \/ focus = "swaps" /\ (RosterNext \/ SwapNext) /\ OneDay'
     \/ focus = "offers" /\ (OfferNext \/ Rostered \/ (\E s \in Shifts : DeleteShift(s)))
     \/ focus = "plans" /\ (PlanNext \/ Rostered \/ (\E u \in Users, d \in Days : ApproveLeave(u, d)))

MCSpec == MCInit /\ [][MCNext]_<<vars, focus>>
=============================================================================
