---------------------------- MODULE QrAttendance ----------------------------
(***************************************************************************)
(* Attendance through QR tokens (CU-06) and its correction by a professor  *)
(* (CU-08), over the PostgreSQL adapter: generateStudentQr,                *)
(* registerAssistanceQR and editAssistance of AssistanceService, and       *)
(* QrTokenService.                                                         *)
(*                                                                         *)
(* One action is what a handler does between two awaits.  Reads of data    *)
(* that this module never changes (students, enrollments, teachings, the   *)
(* subject of a class, the identity of an attendance row) are done in the  *)
(* action of the read next to them.                                        *)
(*                                                                         *)
(* The class rows belong to another component: here SessionsChange lets    *)
(* them take any value at any moment, which is what overlapping status     *)
(* requests and the Intranet synchronisation can bring about.              *)
(***************************************************************************)
EXTENDS Naturals, Sequences

CONSTANTS
    Students, Classes,
    Enrolled,      \* Enrolled[c]: students enrolled in the subject of class c
    Nonces,        \* nonces randomUUID may return; bounds the tokens
    Readers,       \* slots for scans that may be in flight together
    Editors,       \* slots for corrections that may be in flight together
    MaxTime,       \* bound on the wall clock
    Ttl,           \* readTtl, in ticks of the clock
    Skew,          \* the 30 s of verify, in ticks
    NoRow,         \* no class_sessions row
    None           \* no pair, no claims, no nonce, no correction

ASSUME EnrolledAssumption == Enrolled \in [Classes -> SUBSET Students]
ASSUME ClockAssumption == MaxTime \in Nat /\ Ttl \in Nat \ {0} /\ Skew \in Nat

VARIABLES
    sessions,      \* the class_sessions rows
    now,           \* Date.now()
    asked,         \* asked[n]: student and class generateStudentQr has checked
    claims,        \* claims[n]: claims of the issued token with nonce n
    usedNonces,    \* the used_qr_nonces table
    assistances,   \* the assistances table, in the order of its serial ids
    rpc,           \* rpc[q]: the await scan q is suspended at, or its answer
    scanned,       \* scanned[q]: the nonce of the token scan q presented
    epc,           \* epc[e]: the same for correction e
    edit,          \* edit[e]: id of the row and presence asked for
    image,         \* image[e]: the presence save read back
    came,          \* history: came[q], when scan q arrived
    sawOpen,       \* history: scans whose class was open since they arrived
    sawEditing,    \* history: corrections whose window was open since then
    shown          \* history: shown[e], what its row has shown since then

tables == <<asked, claims, usedNonces, assistances>>
scanVars == <<rpc, scanned, came>>
editVars == <<epc, edit, image>>
watchVars == <<sawOpen, sawEditing, shown>>
vars == <<sessions, now, tables, scanVars, editVars, watchVars>>

Status == {"ENABLED", "DISABLED"}
Row == [{"registrationStatus", "editingStatus"} -> Status]
Pair == [student : Students, class : Classes]
Claims == [student : Students, class : Classes,
           issuedAt : Nat, expiresAt : Nat]
ASSUME NoneAssumption == None \notin Claims

\* nonce is history: the table does not say which token a row came from.
Assistance == [student : Students, class : Classes, present : BOOLEAN,
               nonce : Nonces]
Correction == [id : Nat, present : BOOLEAN]

ScanAwaits == {"findClass", "assistanceExists", "consumeQrNonce",
               "insertAssistance"}
ScanAnswers == {"idle", "created", "refused", "duplicate", "alreadyUsed",
                "failed"}
EditAwaits == {"selectRow", "updateRow"}
EditAnswers == {"idle", "ok", "failed"}

Scanning(q) == rpc[q] \in ScanAwaits
Editing(e) == epc[e] \in EditAwaits

TypeOK ==
    /\ sessions \in [Classes -> Row \cup {NoRow}]
    /\ now \in 0..MaxTime
    /\ asked \in [Nonces -> Pair \cup {None}]
    /\ claims \in [Nonces -> Claims \cup {None}]
    /\ usedNonces \subseteq Nonces
    /\ assistances \in Seq(Assistance)
    /\ rpc \in [Readers -> ScanAwaits \cup ScanAnswers]
    /\ scanned \in [Readers -> Nonces \cup {None}]
    /\ epc \in [Editors -> EditAwaits \cup EditAnswers]
    /\ edit \in [Editors -> Correction \cup {None}]
    /\ image \in [Editors -> BOOLEAN]
    /\ came \in [Readers -> Nat]
    /\ sawOpen \subseteq Readers
    /\ sawEditing \subseteq Editors
    /\ shown \in [Editors -> SUBSET BOOLEAN]
-----------------------------------------------------------------------------
Ids == DOMAIN assistances

Enables(row, status) == row # NoRow /\ row[status] = "ENABLED"

Open(c, status) == Enables(sessions[c], status)

\* assistanceExists, and what the unique index of the table is about.
Recorded(student, class) ==
    \E i \in Ids : /\ assistances[i].student = student
                   /\ assistances[i].class = class

\* Mutant of TokenOf: the claims are kept in a field of the service, where a scan
\* finds those of another scan that is in flight.
TokenOfAnother(q) ==
    IF \E p \in Readers \ {q} : Scanning(p)
    THEN claims[scanned[CHOOSE p \in Readers \ {q} : Scanning(p)]]
    ELSE claims[scanned[q]]

TokenOf(q) == claims[scanned[q]]

\* verify, at this moment: signed by us, not expired, not from the future.
Verifies(n) == /\ claims[n] # None
               /\ claims[n].expiresAt > now
               /\ claims[n].issuedAt <= now + Skew

ScanAt(q, next) == /\ rpc' = [rpc EXCEPT ![q] = next]
                   /\ UNCHANGED <<came, sawOpen>>

\* The scan is answered; when it came and what it saw is forgotten.
AnswerScan(q, answer) == /\ rpc' = [rpc EXCEPT ![q] = answer]
                         /\ came' = [came EXCEPT ![q] = 0]
                         /\ sawOpen' = sawOpen \ {q}

AnswerEdit(e, answer) == /\ epc' = [epc EXCEPT ![e] = answer]
                         /\ image' = [image EXCEPT ![e] = FALSE]
                         /\ sawEditing' = sawEditing \ {e}

\* Row i of the table gets this presence, in front of the corrections of it.
SetPresent(i, present) ==
    /\ assistances' = [assistances EXCEPT ![i].present = present]
    /\ shown' = [e \in Editors |-> IF Editing(e) /\ edit[e].id = i
                                   THEN shown[e] \cup {present} ELSE shown[e]]

\* Mutant of AddRow: the table has no unique index.
AddRowNoIndex(q) ==
    assistances' = Append(assistances,
                     [student |-> TokenOf(q).student, class |-> TokenOf(q).class,
                      present |-> TRUE, nonce |-> scanned[q]])

\* Mutant of AddRow: the insert leaves present null.
AddRowNoPresence(q) ==
    /\ ~Recorded(TokenOf(q).student, TokenOf(q).class)
    /\ assistances' = Append(assistances,
                        [student |-> TokenOf(q).student,
                         class |-> TokenOf(q).class,
                         present |-> None, nonce |-> scanned[q]])

\* The row of scan q, unless the unique index has it already.
AddRow(q) ==
    LET s == TokenOf(q).student
        c == TokenOf(q).class IN
    /\ ~Recorded(s, c)
    /\ assistances' = Append(assistances,
                        [student |-> s, class |-> c, present |-> TRUE,
                         nonce |-> scanned[q]])
-----------------------------------------------------------------------------
Init ==
    /\ sessions \in [Classes -> Row \cup {NoRow}]
    /\ now = 0
    /\ asked = [n \in Nonces |-> None]
    /\ claims = [n \in Nonces |-> None]
    /\ usedNonces = {}
    /\ assistances = <<>>
    /\ rpc = [q \in Readers |-> "idle"]
    /\ scanned = [q \in Readers |-> None]
    /\ epc = [e \in Editors |-> "idle"]
    /\ edit = [e \in Editors |-> None]
    /\ image = [e \in Editors |-> FALSE]
    /\ came = [q \in Readers |-> 0]
    /\ sawOpen = {}
    /\ sawEditing = {}
    /\ shown = [e \in Editors |-> {}]

\* generateStudentQr up to its last check: the class was open when it was read.
\* A request that is refused changes nothing.
AskQr(n, p) ==
    /\ asked[n] = None /\ claims[n] = None
    /\ p.student \in Enrolled[p.class]
    /\ Open(p.class, "registrationStatus")
    /\ asked' = [asked EXCEPT ![n] = p]
    /\ UNCHANGED <<sessions, now, claims, usedNonces, assistances,
                   scanVars, editVars, watchVars>>

\* isStudentEnrolled resolves and create signs the token.
IssueQr(n) ==
    /\ asked[n] # None
    /\ asked' = [asked EXCEPT ![n] = None]
    /\ claims' = [claims EXCEPT ![n] =
                    [student |-> asked[n].student, class |-> asked[n].class,
                     issuedAt |-> now, expiresAt |-> now + Ttl]]
    /\ UNCHANGED <<sessions, now, usedNonces, assistances,
                   scanVars, editVars, watchVars>>

\* A reader posts a token and verify accepts it, or answers 400.  Tokens that
\* are not ours are refused in the same way and leave no trace.
Present(q, n) ==
    /\ ~Scanning(q)
    /\ claims[n] # None
    /\ scanned' = [scanned EXCEPT ![q] = n]
    /\ \/ /\ Verifies(n)
          /\ rpc' = [rpc EXCEPT ![q] = "findClass"]
          /\ came' = [came EXCEPT ![q] = now]
          /\ sawOpen' = sawOpen \cup
               {x \in {q} : Open(claims[n].class, "registrationStatus")}
       \/ /\ ~Verifies(n)
          /\ AnswerScan(q, "refused")
    /\ UNCHANGED <<sessions, now, tables, editVars, sawEditing, shown>>

\* Mutant of FindClass: the status is not looked at again.
FindClassAnyStatus(q) ==
    LET c == TokenOf(q).class
        accepted == sessions[c] # NoRow /\ TokenOf(q).student \in Enrolled[c] IN
    /\ rpc[q] = "findClass"
    /\ \/ accepted /\ ScanAt(q, "assistanceExists")
       \/ ~accepted /\ AnswerScan(q, "refused")
    /\ UNCHANGED <<sessions, now, tables, scanned, editVars, sawEditing, shown>>

\* findClass and isStudentEnrolled resolve: 404, 409, 403, or on.
FindClass(q) ==
    LET c == TokenOf(q).class
        accepted == /\ Open(c, "registrationStatus")
                    /\ TokenOf(q).student \in Enrolled[c] IN
    /\ rpc[q] = "findClass"
    /\ \/ accepted /\ ScanAt(q, "assistanceExists")
       \/ ~accepted /\ AnswerScan(q, "refused")
    /\ UNCHANGED <<sessions, now, tables, scanned, editVars, sawEditing, shown>>

\* Mutant of AssistanceExists: a used nonce is taken for a recorded attendance.
NonceExists(q) ==
    /\ rpc[q] = "assistanceExists"
    /\ \/ scanned[q] \in usedNonces /\ AnswerScan(q, "duplicate")
       \/ scanned[q] \notin usedNonces /\ ScanAt(q, "consumeQrNonce")
    /\ UNCHANGED <<sessions, now, tables, scanned, editVars, sawEditing, shown>>

AssistanceExists(q) ==
    LET exists == Recorded(TokenOf(q).student, TokenOf(q).class) IN
    /\ rpc[q] = "assistanceExists"
    /\ \/ exists /\ AnswerScan(q, "duplicate")
       \/ ~exists /\ ScanAt(q, "consumeQrNonce")
    /\ UNCHANGED <<sessions, now, tables, scanned, editVars, sawEditing, shown>>

\* Mutant of ConsumeQrNonce: ON CONFLICT DO NOTHING, and whether a row was
\* inserted is not looked at.
ConsumeQrNonceBlindly(q) ==
    /\ rpc[q] = "consumeQrNonce"
    /\ ScanAt(q, "insertAssistance")
    /\ usedNonces' = usedNonces \cup {scanned[q]}
    /\ UNCHANGED <<sessions, now, asked, claims, assistances, scanned,
                   editVars, sawEditing, shown>>

\* consumeQrNonce: the primary key of used_qr_nonces decides who comes first.
ConsumeQrNonce(q) ==
    /\ rpc[q] = "consumeQrNonce"
    /\ \/ /\ scanned[q] \in usedNonces
          /\ AnswerScan(q, "alreadyUsed")
       \/ /\ scanned[q] \notin usedNonces
          /\ ScanAt(q, "insertAssistance")
    /\ usedNonces' = usedNonces \cup {scanned[q]}
    /\ UNCHANGED <<sessions, now, asked, claims, assistances, scanned,
                   editVars, sawEditing, shown>>

\* insertAssistance: 201, or a unique violation nobody catches: 500.
InsertAssistance(q) ==
    /\ rpc[q] = "insertAssistance"
    /\ \/ /\ Recorded(TokenOf(q).student, TokenOf(q).class)
          /\ AnswerScan(q, "failed")
          /\ UNCHANGED assistances
       \/ /\ AddRow(q)
          /\ AnswerScan(q, "created")
    /\ UNCHANGED <<sessions, now, asked, claims, usedNonces, scanned,
                   editVars, sawEditing, shown>>

\* A round trip fails: 500.  If it was one that writes, what it wrote may have
\* been committed before its answer was lost.
FailScan(q) ==
    /\ Scanning(q)
    /\ AnswerScan(q, "failed")
    /\ \/ UNCHANGED <<usedNonces, assistances>>
       \/ /\ rpc[q] = "consumeQrNonce"
          /\ usedNonces' = usedNonces \cup {scanned[q]}
          /\ UNCHANGED assistances
       \/ /\ rpc[q] = "insertAssistance"
          /\ AddRow(q)
          /\ UNCHANGED usedNonces
    /\ UNCHANGED <<sessions, now, asked, claims, scanned, editVars,
                   sawEditing, shown>>

\* Mutant of BeginEdit: the editing window is not looked at.
BeginEditAnytime(e, d) ==
    /\ ~Editing(e)
    /\ d.id \in Ids
    /\ epc' = [epc EXCEPT ![e] = "selectRow"]
    /\ edit' = [edit EXCEPT ![e] = d]
    /\ sawEditing' = sawEditing \cup
         {x \in {e} : Open(assistances[d.id].class, "editingStatus")}
    /\ shown' = [shown EXCEPT ![e] = {assistances[d.id].present}]
    /\ UNCHANGED <<sessions, now, tables, scanVars, image, sawOpen>>

\* editAssistance up to its checks: the row is there, its class is in its
\* editing window.  A request that is refused changes nothing.
BeginEdit(e, d) ==
    /\ ~Editing(e)
    /\ d.id \in Ids
    /\ Open(assistances[d.id].class, "editingStatus")
    /\ epc' = [epc EXCEPT ![e] = "selectRow"]
    /\ edit' = [edit EXCEPT ![e] = d]
    /\ sawEditing' = sawEditing \cup
         {x \in {e} : Open(assistances[d.id].class, "editingStatus")}
    /\ shown' = [shown EXCEPT ![e] = {assistances[d.id].present}]
    /\ UNCHANGED <<sessions, now, tables, scanVars, image, sawOpen>>

\* Mutant of SelectRow: the row is compared with the object it was assigned to.
SelectRowCached(e) ==
    /\ epc[e] = "selectRow"
    /\ image' = [image EXCEPT ![e] = edit[e].present]
    /\ epc' = [epc EXCEPT ![e] = "updateRow"]
    /\ UNCHANGED <<sessions, now, tables, scanVars, edit, watchVars>>

\* updateAssistancePresence: save reads the row back.
SelectRow(e) ==
    /\ epc[e] = "selectRow"
    /\ image' = [image EXCEPT ![e] = assistances[edit[e].id].present]
    /\ epc' = [epc EXCEPT ![e] = "updateRow"]
    /\ UNCHANGED <<sessions, now, tables, scanVars, edit, watchVars>>

\* save: no statement is sent when the presence is the one read back.
SaveRow(e) ==
    /\ epc[e] = "updateRow"
    /\ \/ /\ edit[e].present # image[e]
          /\ SetPresent(edit[e].id, edit[e].present)
       \/ /\ edit[e].present = image[e]
          /\ UNCHANGED <<assistances, shown>>

UpdateRow(e) ==
    /\ SaveRow(e)
    /\ AnswerEdit(e, "ok")
    /\ UNCHANGED <<sessions, now, asked, claims, usedNonces, scanVars, edit,
                   sawOpen>>

\* A round trip fails, before or after an update was committed.
FailEdit(e) ==
    /\ \/ Editing(e) /\ UNCHANGED <<assistances, shown>>
       \/ SaveRow(e)
    /\ AnswerEdit(e, "failed")
    /\ UNCHANGED <<sessions, now, asked, claims, usedNonces, scanVars, edit,
                   sawOpen>>

\* Mutant of Crash: the used nonces are kept in memory.
CrashForgetsNonces ==
    /\ usedNonces' = {}
    /\ asked' = [n \in Nonces |-> None]
    /\ rpc' = [q \in Readers |-> IF Scanning(q) THEN "failed" ELSE rpc[q]]
    /\ epc' = [e \in Editors |-> IF Editing(e) THEN "failed" ELSE epc[e]]
    /\ image' = [e \in Editors |-> FALSE]
    /\ came' = [q \in Readers |-> 0]
    /\ sawOpen' = {}
    /\ sawEditing' = {}
    /\ UNCHANGED <<sessions, now, claims, assistances, scanned, edit, shown>>

\* The process stops: the tables and the tokens students hold are what is left.
Crash ==
    /\ asked' = [n \in Nonces |-> None]
    /\ rpc' = [q \in Readers |-> IF Scanning(q) THEN "failed" ELSE rpc[q]]
    /\ epc' = [e \in Editors |-> IF Editing(e) THEN "failed" ELSE epc[e]]
    /\ image' = [e \in Editors |-> FALSE]
    /\ came' = [q \in Readers |-> 0]
    /\ sawOpen' = {}
    /\ sawEditing' = {}
    /\ UNCHANGED <<sessions, now, claims, usedNonces, assistances, scanned,
                   edit, shown>>

\* The wall clock advances, or is set.
SetClock(t) ==
    /\ now' = t
    /\ UNCHANGED <<sessions, tables, scanVars, editVars, watchVars>>

\* Another component changes class rows; it never deletes one.
SessionsChange ==
    /\ sessions' \in [Classes -> Row \cup {NoRow}]
    /\ \A c \in Classes : sessions[c] # NoRow => sessions'[c] # NoRow
    /\ sawOpen' = sawOpen \cup
         {q \in Readers : /\ Scanning(q)
                          /\ Enables(sessions'[TokenOf(q).class],
                                     "registrationStatus")}
    /\ sawEditing' = sawEditing \cup
         {e \in Editors : /\ Editing(e)
                          /\ Enables(sessions'[assistances[edit[e].id].class],
                                     "editingStatus")}
    /\ UNCHANGED <<now, tables, scanVars, editVars, shown>>

Scan(q) == \/ \E n \in Nonces : Present(q, n)
           \/ FindClass(q) \/ AssistanceExists(q)
           \/ ConsumeQrNonce(q) \/ InsertAssistance(q) \/ FailScan(q)

Correct(e) == \/ \E i \in Ids, v \in BOOLEAN :
                   BeginEdit(e, [id |-> i, present |-> v])
              \/ SelectRow(e) \/ UpdateRow(e) \/ FailEdit(e)

Operations == \/ \E n \in Nonces : IssueQr(n) \/ \E p \in Pair : AskQr(n, p)
              \/ \E q \in Readers : Scan(q)
              \/ \E e \in Editors : Correct(e)
              \/ \E t \in 0..MaxTime : SetClock(t)

Next == Operations \/ Crash \/ SessionsChange

Spec == Init /\ [][Next]_vars
-----------------------------------------------------------------------------
\* The table holds one row per student and class: two tokens of a student, a
\* token scanned twice, or a scan repeated after a failure never add a second.
OneRecordPerStudentClass ==
    \A i, j \in Ids :
        /\ assistances[i].student = assistances[j].student
        /\ assistances[i].class = assistances[j].class
        => i = j

\* A nonce is spent once: the scans that hold it between consumeQrNonce and
\* insertAssistance and the rows that came from it are together at most one,
\* and it is in used_qr_nonces.
Holds(q, n) == rpc[q] = "insertAssistance" /\ scanned[q] = n

NonceSpentOnce ==
    \A n \in Nonces :
        /\ \A q \in Readers : Holds(q, n) =>
             /\ n \in usedNonces
             /\ \A p \in Readers \ {q} : ~Holds(p, n)
             /\ \A i \in Ids : assistances[i].nonce # n
        /\ \A i \in Ids : assistances[i].nonce = n =>
             /\ n \in usedNonces
             /\ \A j \in Ids \ {i} : assistances[j].nonce # n

\* A row belongs to the student and class its token was signed for, and that
\* student is enrolled.
RecordsMatchTokens ==
    \A i \in Ids :
        LET a == assistances[i] IN
        /\ claims[a.nonce] # None
        /\ a.student = claims[a.nonce].student
        /\ a.class = claims[a.nonce].class
        /\ a.student \in Enrolled[a.class]

\* What a scan was told is true and stays true: after 201, and after the 409 of
\* a duplicate, the student is on record for the class, crash or no crash.
AnswersAreTrue ==
    \A q \in Readers :
        /\ rpc[q] \in {"created", "duplicate"} =>
             Recorded(TokenOf(q).student, TokenOf(q).class)
        /\ rpc[q] \in {"created", "alreadyUsed"} => scanned[q] \in usedNonces

\* A correction that was answered 200 did show in its row, whatever other
\* corrections of the row were in flight.
AckedEditTookEffect ==
    \A e \in Editors : epc[e] = "ok" => edit[e].present \in shown[e]

\* A row appears only for a scan that arrived when its token was valid, and
\* while which its class was open at some moment: no row for a scan that arrived
\* after the close, however long earlier scans take.
InsertionWarranted ==
    [][Len(assistances') > Len(assistances) =>
         \E q \in sawOpen :
             /\ rpc[q] = "insertAssistance"
             /\ scanned[q] = assistances'[Len(assistances')].nonce
             /\ came[q] < TokenOf(q).expiresAt
             /\ came[q] + Skew >= TokenOf(q).issuedAt]_vars

\* A presence changes only by a correction while which the editing window of its
\* class was open at some moment, and becomes what that correction asked for.
EditWarranted ==
    [][\A i \in Ids : assistances'[i].present # assistances[i].present =>
         \E e \in sawEditing :
             /\ epc[e] = "updateRow"
             /\ edit[e] = [id |-> i, present |-> assistances'[i].present]]_vars

\* The tables as the ledger shows them: a token is burnt once its nonce is used,
\* no row came of it and no scan still holds it.
OwnerOf(n) == IF claims[n] = None THEN <<>>
              ELSE <<claims[n].student, claims[n].class>>

TokenState(n) ==
    IF claims[n] = None THEN "unissued"
    ELSE IF \E i \in Ids : assistances[i].nonce = n THEN "recorded"
    ELSE IF n \in usedNonces /\ \A q \in Readers : ~Holds(q, n) THEN "burnt"
    ELSE "valid"

AttendanceOf(s, c) ==
    IF ~Recorded(s, c) THEN "none"
    ELSE IF \E i \in Ids : /\ assistances[i].student = s
                           /\ assistances[i].class = c
                           /\ assistances[i].present
         THEN "present" ELSE "absent"

Ledger == INSTANCE AttendanceLedger WITH
    owner <- [n \in Nonces |-> OwnerOf(n)],
    token <- [n \in Nonces |-> TokenState(n)],
    attendance <- [p \in Students \X Classes |-> AttendanceOf(p[1], p[2])]

\* Scans, corrections, failures and crashes, step by step, do nothing the ledger
\* does not allow: every token is spent at most once, on its own student and
\* class, and nothing on record is lost.
LedgerSpec == Ledger!Spec

\* Said of the program: a duplicate attendance is answered 409 (README.md).
DuplicateIsConflict ==
    [][\A q \in Readers :
         InsertAssistance(q) /\ Recorded(TokenOf(q).student, TokenOf(q).class)
         => rpc'[q] \in {"duplicate", "alreadyUsed"}]_vars
=============================================================================
