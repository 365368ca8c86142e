--------------------------- MODULE MCQrAttendance ---------------------------
(***************************************************************************)
(* Instances of QrAttendance for TLC.  Every student is enrolled but       *)
(* outsider, who may ask for tokens and gets none.                         *)
(***************************************************************************)
EXTENDS QrAttendance, TLC

CONSTANT outsider

MCEnrolled == [c \in Classes |-> Students \ {outsider}]

Symmetry == Permutations(Nonces) \cup Permutations(Readers)
              \cup Permutations(Editors) \cup Permutations(Students \ {outsider})
=============================================================================
