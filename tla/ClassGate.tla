----------------------------- MODULE ClassGate -----------------------------
(***************************************************************************)
(* What the four class-status operations of AssistanceService promise when *)
(* nothing comes between their steps: each one is a single change of the   *)
(* class row.  This is also exactly how they run over the in-memory        *)
(* DataRepository, whose promises are already resolved, so that a handler  *)
(* runs to its end before the next HTTP request is looked at.              *)
(*                                                                         *)
(* A class stops being covered by the promise once it is disturbed: two    *)
(* status requests overlapped on it, one of them was cut off half-way, or  *)
(* the Intranet synchronisation overwrote its row.  From then on its row   *)
(* may do anything.  ClassSessions, which models the steps the operations  *)
(* take over PostgreSQL, implements this specification.                    *)
(***************************************************************************)
CONSTANTS
    Classes,    \* class ids
    NoRow       \* there is no class_sessions row with this id

VARIABLES
    gate,       \* gate[c]: the row of class c, or NoRow
    disturbed   \* the classes the promise no longer covers

vars == <<gate, disturbed>>

Status == {"ENABLED", "DISABLED"}
Column == {"registrationStatus", "editingStatus"}
Row == [Column -> Status]

\* A row as upsertClass, seedClass and the table's defaults create it.
NewRow(status) == [x \in Column |-> IF x = "registrationStatus" THEN status
                                                                ELSE "DISABLED"]

TypeOK == /\ gate \in [Classes -> Row \cup {NoRow}]
          /\ disturbed \subseteq Classes

Init == /\ gate \in [Classes -> {NewRow(s) : s \in Status} \cup {NoRow}]
        /\ disturbed = {}
-----------------------------------------------------------------------------
Covered(c) == c \notin disturbed /\ gate[c] # NoRow

Set(c, row) == /\ gate' = [gate EXCEPT ![c] = row]
               /\ UNCHANGED disturbed

\* disableRegistration: only an open registration is closed.
CloseRegistration(c) ==
    /\ Covered(c)
    /\ gate[c]["registrationStatus"] = "ENABLED"
    /\ Set(c, [gate[c] EXCEPT !["registrationStatus"] = "DISABLED"])

\* enableRegistration: reopening also ends the editing window.
ReopenRegistration(c) ==
    /\ Covered(c)
    /\ gate[c]["registrationStatus"] = "DISABLED"
    /\ Set(c, NewRow("ENABLED"))

\* enableEditing: only for a class whose registration is closed.
OpenEditing(c) ==
    /\ Covered(c)
    /\ gate[c] = NewRow("DISABLED")
    /\ Set(c, [gate[c] EXCEPT !["editingStatus"] = "ENABLED"])

CloseEditing(c) ==
    /\ Covered(c)
    /\ gate[c]["editingStatus"] = "ENABLED"
    /\ Set(c, [gate[c] EXCEPT !["editingStatus"] = "DISABLED"])

\* The Intranet synchronisation creates a class it has not delivered before.
CreateClass(c) ==
    /\ gate[c] = NoRow
    /\ Set(c, NewRow("ENABLED"))

\* Classes leave the promise, and a class outside it may get any row.
Disturb ==
    /\ disturbed \subseteq disturbed'
    /\ disturbed' \subseteq Classes
    /\ gate' \in [Classes -> Row \cup {NoRow}]
    /\ \A c \in Classes \ disturbed' : gate'[c] = gate[c]

Next == \/ \E c \in Classes :
             \/ CloseRegistration(c) \/ ReopenRegistration(c)
             \/ OpenEditing(c) \/ CloseEditing(c)
             \/ CreateClass(c)
        \/ Disturb

Spec == Init /\ [][Next]_vars
-----------------------------------------------------------------------------
\* Registration and editing are never both enabled for a class the promise
\* covers (RegistrationMustBeDisabledException, and the second update of
\* enableRegistration).
Exclusive ==
    \A c \in Classes \ disturbed :
        gate[c] # NoRow => \E x \in Column : gate[c][x] = "DISABLED"
=============================================================================
