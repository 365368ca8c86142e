---------------------------- MODULE MCAssistance ----------------------------
(***************************************************************************)
(* Instances of Assistance for TLC: one professor, who teaches every       *)
(* class, and students who are all enrolled.                               *)
(***************************************************************************)
EXTENDS Assistance, TLC

CONSTANT teacher

MCTaught == [c \in Classes |-> {teacher}]
MCEnrolled == [c \in Classes |-> Students]

Symmetry == Permutations(Editors)
=============================================================================
