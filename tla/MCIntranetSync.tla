--------------------------- MODULE MCIntranetSync ---------------------------
(***************************************************************************)
(* An instance of IntranetSync for TLC: a student, whose person but not    *)
(* his account is in the demo seed, and a professor, who is in it; one     *)
(* subject with a class in the snapshot, one in the seed.                  *)
(***************************************************************************)
EXTENDS IntranetSync, TLC

CONSTANTS s, p, k, k0, c, c0

MCRoleOf == s :> "ESTUDIANTE" @@ p :> "PROFESOR"
MCSubjectOf == c :> k @@ c0 :> k0
MCUsers == <<s, p>>
MCSubjects == <<k>>
MCEnrollments == <<<<s, k>>>>
MCTeachings == <<<<p, k>>>>
MCClasses == <<c>>

MCSeedBatches ==
    <<{User(p)}, {Person(s)}, {Person(p)}, {Subject(k0)}, {Teaching(<<p, k0>>)},
      {Class(c0)}, {Enrollment(<<s, k0>>)}>>

MCSeedValue(i) == CASE Table(i) = "users" -> RoleOf[Key(i)]
                    [] Table(i) = "subjects" -> "LOCAL"
                    [] Table(i) = "class_sessions" -> "ENABLED"
                    [] OTHER -> "stored"
=============================================================================
