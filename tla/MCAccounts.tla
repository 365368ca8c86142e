----------------------------- MODULE MCAccounts -----------------------------
(***************************************************************************)
(* Instances of Accounts for TLC: a disabled account of the demo seed, and *)
(* a rut that has no account yet and that the Intranet knows.              *)
(***************************************************************************)
EXTENDS Accounts, TLC

CONSTANTS newRut, disabledRut

MCDemoAccounts == disabledRut :> [role |-> "ESTUDIANTE", status |-> "DISABLED"]
MCSnapshot == newRut :> [role |-> "PROFESOR", password |-> DemoPassword]
MCRoutes == {{"director", "administrador"}, {"estudiante"}}

Symmetry == Permutations(Requests)
=============================================================================
