----------------------------- MODULE MCPayroll -----------------------------
(* Small instances of Payroll for TLC. *)
EXTENDS Payroll, TLC

\* Every claim belongs to the same employee.
OneClaimant == [c \in Claims |-> CHOOSE u \in Users : TRUE]

RunOperations  == {"generate", "auto", "process", "recall", "rates"}
AllOperations  == RunOperations \cup {"adjust", "reimburse", "user_rate"}
CoreOperations == {"generate", "process", "recall"}

\* Sound where Makers = Checkers: administrators, like requests, are interchangeable.
Symmetry == Permutations(Procs) \cup Permutations(Admins)
============================================================================
