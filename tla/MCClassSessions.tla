-------------------------- MODULE MCClassSessions --------------------------
(***************************************************************************)
(* Instances of ClassSessions for TLC: one professor who teaches every     *)
(* class and one who teaches none, so that the teaching check is taken     *)
(* both ways.                                                              *)
(***************************************************************************)
EXTENDS ClassSessions, TLC

CONSTANTS teacher, stranger

MCProfessors == {teacher, stranger}
MCTaught == [c \in Classes |-> {teacher}]

Symmetry == Permutations(Requests)
=============================================================================
