----------------------------- MODULE Assistance -----------------------------
(***************************************************************************)
(* The assistance module of the backend as a whole, over PostgreSQL: to    *)
(* the QR scans and corrections of QrAttendance come the status requests   *)
(* and the synchronisation of ClassSessions, over the same class_sessions  *)
(* rows and in one process, which stops for both of them at once.          *)
(***************************************************************************)
EXTENDS QrAttendance

CONSTANTS IntranetClasses, Professors, Taught, Requests, NoJob

VARIABLES job, pc, column, seen, entity, rowImage, held, disturbed

gateVars == <<job, pc, column, seen, entity, rowImage, held, disturbed>>
systemVars == <<vars, gateVars>>

Gates == INSTANCE ClassSessions WITH image <- rowImage

ASSUME GatesAssumption == /\ Taught \in [Classes -> SUBSET Professors]
                          /\ IntranetClasses \subseteq Classes
                          /\ NoRow \notin Row
                          /\ NoJob \notin Gates!Job

\* The seeded rows, and nothing in flight.
SystemInit == Init /\ Gates!Init

\* A step of a status request or of the synchronisation; what it does to the
\* class rows is what the scans and corrections in flight will see.
GateStep == Gates!Operations /\ SessionsChange

QrStep == Operations /\ UNCHANGED gateVars

SystemCrash == Crash /\ Gates!Crash

SystemNext == GateStep \/ QrStep \/ SystemCrash

SystemSpec == SystemInit /\ [][SystemNext]_systemVars
-----------------------------------------------------------------------------
\* Class c has been closed and what was under way then has ended: no status
\* request can reopen it, and no scan is past the check of its status.
Closed(c) == /\ sessions[c] # NoRow
             /\ sessions[c]["registrationStatus"] = "DISABLED"

Reopening(c) == \E r \in Requests : /\ Gates!InFlight(r)
                                    /\ job[r].op = "enableRegistration"
                                    /\ job[r].class = c

Drained(c) == \A q \in Readers :
                 Scanning(q) /\ rpc[q] # "findClass" => TokenOf(q).class # c

Settled(c) == Closed(c) /\ ~Reopening(c) /\ Drained(c)

RowsOf(c) == {i \in Ids : assistances[i].class = c}

\* A close is final: once a class is settled its attendance gets no new row and it
\* stays settled, whatever tokens are still around, until a professor asks to
\* reopen it, or it is disturbed (overlapping status requests, a reopening cut
\* off half-way, the synchronisation).
CloseIsFinal ==
    [][\A c \in Classes \ disturbed : Settled(c) =>
         /\ RowsOf(c)' = RowsOf(c)
         /\ Settled(c)' \/ Reopening(c)' \/ c \in disturbed']_systemVars
=============================================================================
