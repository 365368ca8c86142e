------------------------- MODULE MCAttendanceReports -------------------------
(***************************************************************************)
(* Instances of AttendanceReports for TLC: two students, a subject with up *)
(* to two classes and a subject without classes.                           *)
(***************************************************************************)
EXTENDS AttendanceReports, TLC

CONSTANTS c1, c2, x

MCSubjectOf == c1 :> x @@ c2 :> x

Symmetry == Permutations(Students) \cup Permutations(Classes)
=============================================================================
