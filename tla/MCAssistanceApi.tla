-------------------------- MODULE MCAssistanceApi --------------------------
(***************************************************************************)
(* An instance of AssistanceApi for TLC: two subjects, each with a class,  *)
(* a student and a professor of its own.  What is typed as a RUT is one of *)
(* the two RUTs, written with or without dots, or a slip.                  *)
(***************************************************************************)
EXTENDS AssistanceApi, TLC

CONSTANTS s1, s2, p1, p2, x1, x2, c1, c2, c3

MCSubjectOf == c1 :> x1 @@ c2 :> x2 @@ c3 :> x2
MCEnrolled == {<<s1, x1>>, <<s2, x2>>}
MCTeaching == {<<p1, x1>>, <<p2, x2>>}

\* 12345678-5 and 7654321-6
MCRutOf ==
    s1 :> [body |-> <<1, 2, 3, 4, 5, 6, 7, 8>>, verifier |-> 5, plain |-> TRUE]
    @@ s2 :> [body |-> <<7, 6, 5, 4, 3, 2, 1>>, verifier |-> 6, plain |-> TRUE]

MCTexts == UNION {{MCRutOf[s], [MCRutOf[s] EXCEPT !.plain = FALSE]}
                    \cup Slips(MCRutOf[s]) : s \in Students}

Symmetry == Permutations(Nonces)
=============================================================================
