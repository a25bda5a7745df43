---------------------------- MODULE MCAttendance ----------------------------
(* Instances of Attendance for TLC. *)
EXTENDS Attendance, TLC

MCSymmetry == Permutations(Requests)
=============================================================================
