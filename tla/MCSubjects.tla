----------------------------- MODULE MCSubjects -----------------------------
(***************************************************************************)
(* Instances of Subjects for TLC: one code of the Intranet snapshot, on    *)
(* which all requests meet.                                                *)
(***************************************************************************)
EXTENDS Subjects, TLC

Symmetry == Permutations(Requests) \cup Permutations(Titles \ {IntranetTitle})
=============================================================================
