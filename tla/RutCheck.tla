------------------------------ MODULE RutCheck ------------------------------
(***************************************************************************)
(* isValidRut of AssistanceService: the check of a RUT a director types    *)
(* (CU-03).  Dots are removed and the letter is put in upper case before   *)
(* the pattern and the check digit are looked at, so that a text is, for   *)
(* this check, its digits and its verifier.                                *)
(***************************************************************************)
EXTENDS Integers, Sequences

Digit == 0..9
Verifier == 0..10      \* 10 is the letter K

\* A text that has the shape of a RUT.  plain: written without dots and with an
\* upper-case letter, as the RUTs of the tables are.
Text == [body : Seq(Digit), verifier : Verifier, plain : BOOLEAN]

\* One pass of the loop over the body, from its last digit to its first.
Start == [sum |-> 0, multiplier |-> 2]

Pass(state, digit) ==
    [sum |-> state.sum + digit * state.multiplier,
     multiplier |-> IF state.multiplier = 7 THEN 2 ELSE state.multiplier + 1]

Loop(body) ==
    LET n == Len(body)
        after[k \in 0..n] == IF k = 0 THEN Start
                             ELSE Pass(after[k - 1], body[n + 1 - k])
    IN  after[n]

ExpectedVerifier(sum) == IF sum % 11 = 0 THEN 0 ELSE 11 - (sum % 11)

\* Mutant of IsValidRut: the pattern is all that is looked at.
MatchesPattern(text) == Len(text.body) \in 7..8

\* The pattern asks for seven or eight digits.
IsValidRut(text) == /\ Len(text.body) \in 7..8
                    /\ text.verifier = ExpectedVerifier(Loop(text.body).sum)
-----------------------------------------------------------------------------
\* What a slip of the hand makes of a text: one digit, or the verifier, is
\* another one, or two neighbours of the body have changed places.
Replaced(body, i, d) == [body EXCEPT ![i] = d]
Swapped(body, i) == [body EXCEPT ![i] = body[i + 1], ![i + 1] = body[i]]

Slips(text) ==
    {[text EXCEPT !.body = Replaced(text.body, i, d)] :
        i \in DOMAIN text.body, d \in Digit}
    \cup {[text EXCEPT !.body = Swapped(text.body, i)] : i \in 1..Len(text.body) - 1}
    \cup {[text EXCEPT !.verifier = v] : v \in Verifier}
=============================================================================
