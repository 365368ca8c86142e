-------------------------- MODULE AttendanceLedger --------------------------
(***************************************************************************)
(* What QR attendance promises, whatever readers, retries, crashes and     *)
(* failures do: a token is spent at most once, spending it either records  *)
(* its own student as present in its own class, at most once per student   *)
(* and class, or burns it; a recorded attendance is never removed, only    *)
(* amended.  QrAttendance implements this specification.                   *)
(***************************************************************************)
CONSTANTS
    Students, Classes,
    Nonces        \* one per token: the nonce identifies it

VARIABLES
    owner,        \* owner[n]: student and class the token was issued for
    token,        \* token[n]: "unissued", "valid", "recorded" or "burnt"
    attendance    \* attendance[p]: what is on record for student and class p

vars == <<owner, token, attendance>>

Pair == Students \X Classes
NoPair == <<>>

TypeOK == /\ owner \in [Nonces -> Pair \cup {NoPair}]
          /\ token \in [Nonces -> {"unissued", "valid", "recorded", "burnt"}]
          /\ attendance \in [Pair -> {"none", "present", "absent"}]

Init == /\ owner = [n \in Nonces |-> NoPair]
        /\ token = [n \in Nonces |-> "unissued"]
        /\ attendance = [p \in Pair |-> "none"]
-----------------------------------------------------------------------------
Issue(n, p) == /\ token[n] = "unissued"
               /\ token' = [token EXCEPT ![n] = "valid"]
               /\ owner' = [owner EXCEPT ![n] = p]
               /\ UNCHANGED attendance

Record(n) == /\ token[n] = "valid"
             /\ attendance[owner[n]] = "none"
             /\ token' = [token EXCEPT ![n] = "recorded"]
             /\ attendance' = [attendance EXCEPT ![owner[n]] = "present"]
             /\ UNCHANGED owner

\* Scans are cut off, or beaten by another token of the same student.
Burn(N) == /\ \A n \in N : token[n] = "valid"
           /\ token' = [n \in Nonces |-> IF n \in N THEN "burnt" ELSE token[n]]
           /\ UNCHANGED <<owner, attendance>>

Amend(p, what) == /\ attendance[p] # "none"
                  /\ what \in {"present", "absent"}
                  /\ attendance' = [attendance EXCEPT ![p] = what]
                  /\ UNCHANGED <<owner, token>>

Next == \/ \E n \in Nonces : Record(n) \/ \E p \in Pair : Issue(n, p)
        \/ \E N \in SUBSET Nonces : Burn(N)
        \/ \E p \in Pair : \E what \in {"present", "absent"} : Amend(p, what)

Spec == Init /\ [][Next]_vars
-----------------------------------------------------------------------------
\* Attendance on record can be traced to exactly one token.
OneTokenPerAttendance ==
    \A p \in Pair : attendance[p] # "none" =>
        \E n \in Nonces : /\ token[n] = "recorded" /\ owner[n] = p
                          /\ \A m \in Nonces \ {n} :
                               token[m] = "recorded" => owner[m] # p
=============================================================================
