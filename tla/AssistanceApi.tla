--------------------------- MODULE AssistanceApi ---------------------------
(***************************************************************************)
(* The endpoints of AssistanceController over the in-memory repository:    *)
(* the guard, the checks of a handler, those of AssistanceService in their *)
(* order, the exception a refusal throws and the HTTP status the handler   *)
(* translates it to.  Endpoints that exist twice, as /me and with a RUT in *)
(* the route, are modelled twice.                                          *)
(*                                                                         *)
(* Without a database every promise a handler awaits is already resolved,  *)
(* so that it runs to its end before the next request is looked at: one    *)
(* request is one step.  A request that is refused changes nothing; what   *)
(* it is answered is the value of its Answer operator.                     *)
(***************************************************************************)
EXTENDS DataRepository, RutCheck

CONSTANTS
    Director, Admin,   \* the other two users of the snapshot
    RutOf,             \* RutOf[s]: the RUT of student s
    Texts,             \* what is typed where CU-03 wants a RUT
    Enrolled, Teaching,  \* the enrollments and teachings of the snapshot
    Nonces,            \* nonces randomUUID may return; bounds the tokens
    MaxTime,           \* bound on the wall clock
    Ttl, Skew,         \* readTtl, and the 30 s of verify, in ticks of the clock
    None               \* no claims, no exception

ASSUME RutAssumption ==
    /\ RutOf \in [Students -> Text]
    /\ \A s, t \in Students : RutOf[s] = RutOf[t] => s = t
    /\ \A s \in Students : IsValidRut(RutOf[s]) /\ RutOf[s].plain
ASSUME SnapshotAssumption == /\ Enrolled \subseteq Students \X Subjects
                             /\ Teaching \subseteq Professors \X Subjects
\* A user has one role: the administrator is neither a student nor a professor.
ASSUME AdminAssumption == Admin \notin Students \cup Professors
ASSUME ClockAssumption == MaxTime \in Nat /\ Ttl \in Nat

VARIABLES
    accounts,   \* users with an active account
    claims,     \* claims[n]: claims of the issued token with nonce n
    now         \* Date.now()

data == <<students, enrollments, teachings, classes, assistances, usedQrNonces>>
vars == <<data, accounts, claims, now>>

Users == Students \cup Professors \cup {Director, Admin}

RoleOf(u) == IF u \in Students THEN "estudiante"
             ELSE IF u \in Professors THEN "profesor"
             ELSE IF u = Director THEN "director" ELSE "administrador"

Claims == [student : Students, class : Classes, issuedAt : Nat, expiresAt : Nat]

\* The exceptions the service throws.
Exceptions ==
    {"StudentNotFound", "ClassNotFound", "StudentNotEnrolled", "RegistrationDisabled",
     "InvalidQR", "DuplicateAssistance", "QRAlreadyUsed", "SubjectNotAssigned",
     "RegistrationAlreadyDisabled", "RegistrationAlreadyEnabled",
     "RegistrationMustBeDisabled", "EditingAlreadyEnabled", "EditingAlreadyDisabled",
     "AssistanceRecordNotFound", "EditingDisabled", "InvalidRut"}

ASSUME NoneAssumption == None \notin Claims \cup Exceptions

TypeOK ==
    /\ students \subseteq Students
    /\ enrollments \subseteq Students \X Subjects
    /\ teachings \subseteq Professors \X Subjects
    /\ classes \in [Classes -> Row \cup {NoRow}]
    /\ assistances \in Seq(Assistance)
    /\ usedQrNonces \subseteq Nonces
    /\ accounts \subseteq Users
    /\ claims \in [Nonces -> Claims \cup {None}]
    /\ now \in 0..MaxTime
-----------------------------------------------------------------------------
\* The services: the exception a call throws, or None.
GenerateStudentQr(s, c) ==
    IF s \notin students THEN "StudentNotFound"
    ELSE IF classes[c] = NoRow THEN "ClassNotFound"
    ELSE IF ~IsStudentEnrolled(s, c) THEN "StudentNotEnrolled"
    ELSE IF ~Has(c, "registrationStatus") THEN "RegistrationDisabled"
    ELSE None

\* Not issued by us, expired, or from the future.
Verifies(n) == /\ claims[n] # None
               /\ claims[n].expiresAt > now
               /\ claims[n].issuedAt <= now + Skew

RegisterAssistanceQR(n) ==
    LET s == claims[n].student
        c == claims[n].class IN
    IF ~Verifies(n) THEN "InvalidQR"
    ELSE IF classes[c] = NoRow THEN "ClassNotFound"
    ELSE IF ~Has(c, "registrationStatus") THEN "RegistrationDisabled"
    ELSE IF ~IsStudentEnrolled(s, c) THEN "StudentNotEnrolled"
    ELSE IF AssistanceExists(s, c) THEN "DuplicateAssistance"
    ELSE IF n \in usedQrNonces THEN "QRAlreadyUsed"
    ELSE None

AssertProfessorOwnsClass(p, c) ==
    IF classes[c] = NoRow THEN "ClassNotFound"
    ELSE IF ~FindTeaching(p, c) THEN "SubjectNotAssigned"
    ELSE None

\* The class is there and the professor's; then the check of the operation.
OnOwnClass(p, c, refused, exception) ==
    LET thrown == AssertProfessorOwnsClass(p, c) IN
    IF thrown # None THEN thrown ELSE IF refused THEN exception ELSE None

DisableRegistration(p, c) ==
    OnOwnClass(p, c, ~Has(c, "registrationStatus"), "RegistrationAlreadyDisabled")

EnableRegistration(p, c) ==
    OnOwnClass(p, c, Has(c, "registrationStatus"), "RegistrationAlreadyEnabled")

EnableEditing(p, c) ==
    IF Has(c, "registrationStatus")
    THEN OnOwnClass(p, c, TRUE, "RegistrationMustBeDisabled")
    ELSE OnOwnClass(p, c, Has(c, "editingStatus"), "EditingAlreadyEnabled")

DisableEditing(p, c) ==
    OnOwnClass(p, c, ~Has(c, "editingStatus"), "EditingAlreadyDisabled")

EditAssistance(p, id) ==
    LET i == FindAssistanceById(id)
        c == assistances[i].class IN
    IF i = 0 THEN "AssistanceRecordNotFound"
    ELSE IF classes[c] = NoRow THEN "ClassNotFound"
    ELSE IF ~FindTeaching(p, c) THEN "SubjectNotAssigned"
    ELSE IF ~Has(c, "editingStatus") THEN "EditingDisabled"
    ELSE None

\* The texts isValidRut lets through.
ValidTexts == {t \in Texts : IsValidRut(t)}

\* Students are looked up with the text as it was typed.
GetStudentAttendanceByRut(text) ==
    IF text \notin ValidTexts THEN "InvalidRut"
    ELSE IF \A s \in students : RutOf[s] # text THEN "StudentNotFound"
    ELSE None

GetStudentAssistance(s) == IF s \notin students THEN "StudentNotFound" ELSE None

GetCurrentStudentSubjectAttendance(s, x) ==
    IF s \notin students THEN "StudentNotFound"
    ELSE IF x \notin DOMAIN FindStudentAttendanceByRut(s) THEN "StudentNotEnrolled"
    ELSE None

GetStudentsAssistanceBySubject(p, x) ==
    IF <<p, x>> \notin teachings THEN "SubjectNotAssigned" ELSE None
-----------------------------------------------------------------------------
\* The translations of exceptions to statuses.  What a handler does not translate
\* becomes 500.
StudentErrors == [StudentNotFound |-> 404]

RutErrors == [InvalidRut |-> 400, StudentNotFound |-> 404]

OwnSubjectErrors == [StudentNotFound |-> 404, StudentNotEnrolled |-> 404]

QrErrors == [StudentNotFound |-> 404, ClassNotFound |-> 404,
             StudentNotEnrolled |-> 403, RegistrationDisabled |-> 409]

\* Mutant of ScanErrors: one catch has been forgotten.
ScanErrorsButDuplicate ==
    [InvalidQR |-> 400, ClassNotFound |-> 404, RegistrationDisabled |-> 409,
     QRAlreadyUsed |-> 409, StudentNotEnrolled |-> 403]

ScanErrors ==
    [InvalidQR |-> 400, ClassNotFound |-> 404, RegistrationDisabled |-> 409,
     DuplicateAssistance |-> 409, QRAlreadyUsed |-> 409, StudentNotEnrolled |-> 403]

SubjectErrors == [SubjectNotAssigned |-> 404]

\* rethrowClassOperationError, and the older copy of it in updateRegistrationStatus.
ClassOperationErrors ==
    [ClassNotFound |-> 404, SubjectNotAssigned |-> 404,
     RegistrationAlreadyDisabled |-> 409, RegistrationAlreadyEnabled |-> 409,
     EditingAlreadyEnabled |-> 409, EditingAlreadyDisabled |-> 409,
     RegistrationMustBeDisabled |-> 409]

RegistrationErrors ==
    [ClassNotFound |-> 404, SubjectNotAssigned |-> 404,
     RegistrationAlreadyDisabled |-> 409, RegistrationAlreadyEnabled |-> 409]

\* Mutant of EditErrors: a closed window is answered as a missing permission.
EditErrorsForbidden ==
    [AssistanceRecordNotFound |-> 404, SubjectNotAssigned |-> 404,
     EditingDisabled |-> 403, ClassNotFound |-> 404]

\* The copy in editAssistance, and rethrowEditError.
EditErrors ==
    [AssistanceRecordNotFound |-> 404, SubjectNotAssigned |-> 404,
     EditingDisabled |-> 409, ClassNotFound |-> 404]

CurrentEditErrors ==
    [AssistanceRecordNotFound |-> 404, ClassNotFound |-> 404,
     SubjectNotAssigned |-> 404, EditingDisabled |-> 409]

Translated(thrown, table, success) ==
    IF thrown = None THEN success
    ELSE IF thrown \in DOMAIN table THEN table[thrown] ELSE 500
-----------------------------------------------------------------------------
\* TokenRolesGuard, for a request with the token of u.
Guarded(u, roles, answer) == IF u \notin accounts THEN 401
                             ELSE IF RoleOf(u) \notin roles THEN 403 ELSE answer

\* Mutant of SameActor: any professor may act for any other.
SameActorOrColleague(u, p) == u = p \/ {u, p} \subseteq Professors

SameActor(u, p) == u = p

\* Mutant of SameActorOrPrivileged: the role is all that is looked at.
KnownRole(u, s) == RoleOf(u) \in {"estudiante", "director", "administrador"}

SameActorOrPrivileged(u, s) == RoleOf(u) = "estudiante" => u = s

\* The endpoints.  u sends the request; a second user, if any, is named in the
\* route.  Bodies with another status or presence than the valid ones are "other".
GetAssistance(u, s) ==
    Guarded(u, {"estudiante", "director", "administrador"},
        IF ~SameActorOrPrivileged(u, s) THEN 403
        ELSE Translated(GetStudentAssistance(s), StudentErrors, 200))

GetAttendanceByRut(u, text) ==
    Guarded(u, {"director", "administrador"},
        Translated(GetStudentAttendanceByRut(text), RutErrors, 200))

GetMyAttendance(u, x) ==
    Guarded(u, {"estudiante"},
        Translated(GetCurrentStudentSubjectAttendance(u, x), OwnSubjectErrors, 200))

PostMyQr(u, c) ==
    Guarded(u, {"estudiante"}, Translated(GenerateStudentQr(u, c), QrErrors, 201))

\* ReaderGuard asks for the key of the readers, not for a token.
PostRegister(keyed, n) ==
    IF ~keyed THEN 401 ELSE Translated(RegisterAssistanceQR(n), ScanErrors, 201)

GetMySubjectAttendance(u, x) ==
    Guarded(u, {"profesor"},
        Translated(GetStudentsAssistanceBySubject(u, x), SubjectErrors, 200))

GetSubjectAssistance(u, p, x) ==
    Guarded(u, {"profesor"},
        IF ~SameActor(u, p) THEN 403
        ELSE Translated(GetStudentsAssistanceBySubject(p, x), SubjectErrors, 200))

PatchMyRegistration(u, c, status) ==
    Guarded(u, {"profesor"},
        IF status # "DISABLED" THEN 400
        ELSE Translated(DisableRegistration(u, c), ClassOperationErrors, 200))

PatchMyEditing(u, c, status) ==
    Guarded(u, {"profesor"},
        IF status \notin Status THEN 400
        ELSE Translated(IF status = "ENABLED" THEN EnableEditing(u, c)
                                              ELSE DisableEditing(u, c),
                        ClassOperationErrors, 200))

PatchRegistration(u, p, c, status) ==
    Guarded(u, {"profesor"},
        IF ~SameActor(u, p) THEN 403
        ELSE IF status \notin Status THEN 400
        ELSE Translated(IF status = "DISABLED" THEN DisableRegistration(p, c)
                                               ELSE EnableRegistration(p, c),
                        RegistrationErrors, 200))

PatchMyAssistance(u, id, presence) ==
    Guarded(u, {"profesor"},
        IF presence \notin Presence THEN 400
        ELSE Translated(EditAssistance(u, id), CurrentEditErrors, 200))

PatchAssistance(u, p, id, presence) ==
    Guarded(u, {"profesor"},
        IF ~SameActor(u, p) THEN 403
        ELSE IF presence \notin Presence THEN 400
        ELSE Translated(EditAssistance(p, id), EditErrors, 200))

PostSync(u) == Guarded(u, {"administrador"}, 201)
-----------------------------------------------------------------------------
\* Only the bootstrap administrator has an account.
Init ==
    /\ students = {} /\ enrollments = {} /\ teachings = {}
    /\ classes = [c \in Classes |-> NoRow]
    /\ assistances = <<>> /\ usedQrNonces = {}
    /\ accounts = {Admin}
    /\ claims = [n \in Nonces |-> None]
    /\ now = 0

GenerateQr(u, c, n) ==
    /\ claims[n] = None
    /\ PostMyQr(u, c) = 201
    /\ claims' = [claims EXCEPT ![n] = [student |-> u, class |-> c,
                                        issuedAt |-> now, expiresAt |-> now + Ttl]]
    /\ UNCHANGED <<data, accounts, now>>

RegisterAssistance(n) ==
    /\ PostRegister(TRUE, n) = 201
    /\ usedQrNonces' = usedQrNonces \cup {n}
    /\ InsertAssistance(claims[n].student, claims[n].class, now)
    /\ UNCHANGED <<students, enrollments, teachings, classes, accounts, claims, now>>

\* Opening the registration closes the editing window.
UpdateRegistration(u, c, status) ==
    /\ \/ PatchMyRegistration(u, c, status) = 200
       \/ \E p \in Users : PatchRegistration(u, p, c, status) = 200
    /\ UpdateClass(c, IF status = "ENABLED" THEN NewRow(c, "ENABLED")
                      ELSE [classes[c] EXCEPT !.registrationStatus = "DISABLED"])
    /\ UNCHANGED <<students, enrollments, teachings, assistances, usedQrNonces,
                   accounts, claims, now>>

UpdateEditing(u, c, status) ==
    /\ PatchMyEditing(u, c, status) = 200
    /\ UpdateClass(c, [classes[c] EXCEPT !.editingStatus = status])
    /\ UNCHANGED <<students, enrollments, teachings, assistances, usedQrNonces,
                   accounts, claims, now>>

Correct(u, id, presence) ==
    /\ \/ PatchMyAssistance(u, id, presence) = 200
       \/ \E p \in Users : PatchAssistance(u, p, id, presence) = 200
    /\ UpdateAssistancePresence(id, presence)
    /\ UNCHANGED <<students, enrollments, teachings, classes, usedQrNonces,
                   accounts, claims, now>>

\* synchronize: rows are added or replaced, none is removed.
Synchronize(u) ==
    /\ PostSync(u) = 201
    /\ accounts' = Users
    /\ students' = Students
    /\ enrollments' = enrollments \cup Enrolled
    /\ teachings' = teachings \cup Teaching
    /\ classes' = [c \in Classes |-> NewRow(c, "ENABLED")]
    /\ UNCHANGED <<assistances, usedQrNonces, claims, now>>

\* The wall clock advances, or is set.
SetClock(t) == now' = t /\ UNCHANGED <<data, accounts, claims>>

\* The process stops and is started again.  Tokens are not kept by it.
Restart ==
    /\ students' = {} /\ enrollments' = {} /\ teachings' = {}
    /\ classes' = [c \in Classes |-> NoRow]
    /\ assistances' = <<>> /\ usedQrNonces' = {}
    /\ accounts' = {Admin}
    /\ UNCHANGED <<claims, now>>

Next == \/ \E u \in Users, c \in Classes, n \in Nonces : GenerateQr(u, c, n)
        \/ \E n \in Nonces : RegisterAssistance(n)
        \/ \E u \in Users, c \in Classes, status \in Status :
             UpdateRegistration(u, c, status) \/ UpdateEditing(u, c, status)
        \/ \E u \in Users, id \in 0..MaxTime, presence \in Presence :
             Correct(u, id, presence)
        \/ \E u \in Users : Synchronize(u)
        \/ \E t \in 0..MaxTime : SetClock(t)
        \/ Restart

Spec == Init /\ [][Next]_vars
-----------------------------------------------------------------------------
\* No refusal of a service is left without translation: whoever asks for whatever,
\* in every state, no endpoint answers 500.  Each handler has a list of catches
\* of its own.
EveryRefusalTranslated ==
    /\ \A keyed \in BOOLEAN, n \in Nonces : PostRegister(keyed, n) # 500
    /\ \A u \in {Director, Admin}, t \in Texts : GetAttendanceByRut(u, t) # 500
    /\ \A u \in Users :
        /\ \A s \in Users : GetAssistance(u, s) # 500
        /\ \A x \in Subjects : /\ GetMyAttendance(u, x) # 500
                               /\ GetMySubjectAttendance(u, x) # 500
                               /\ GetSubjectAssistance(u, u, x) # 500
        /\ \A c \in Classes : /\ PostMyQr(u, c) # 500
                              /\ \A status \in Status :
                                   /\ PatchMyRegistration(u, c, status) # 500
                                   /\ PatchMyEditing(u, c, status) # 500
                                   /\ PatchRegistration(u, u, c, status) # 500
        /\ \A id \in 0..MaxTime, presence \in Presence :
             /\ PatchMyAssistance(u, id, presence) # 500
             /\ PatchAssistance(u, u, id, presence) # 500

AliasesAgree ==
    \A u \in Users :
        /\ \A x \in Subjects :
             GetSubjectAssistance(u, u, x) = GetMySubjectAttendance(u, x)
        /\ \A c \in Classes, status \in {"DISABLED", "other"} :
             PatchRegistration(u, u, c, status) = PatchMyRegistration(u, c, status)
        /\ \A id \in 0..MaxTime, presence \in Presence \cup {"other"} :
             PatchAssistance(u, u, id, presence) = PatchMyAssistance(u, id, presence)

ReadsOwn ==
    \A u \in accounts :
        /\ \A p \in Users, x \in Subjects :
             GetSubjectAssistance(u, p, x) = 200 => <<u, x>> \in Teaching
        /\ \A s \in Users : GetAssistance(u, s) = 200 =>
                              u = s \/ u \in {Director, Admin}

\* The RUT in a route adds nothing to the token.  A route with the caller's own RUT
\* answers what the /me route answers, in every state and to valid and invalid
\* bodies, although the handlers are two copies; with another RUT it shows no
\* subject but to its professors and no other student's attendance to a student.
RouteRutAddsNothing == AliasesAgree /\ ReadsOwn

ActsForItself ==
    [][\A u \in Users, c \in Classes, status \in Status :
         UpdateRegistration(u, c, status) \/ UpdateEditing(u, c, status)
         => <<u, SubjectOf[c]>> \in Teaching]_vars

CorrectionsStayInSubject ==
    [][\A u \in Users, id \in 0..MaxTime, presence \in Presence :
         Correct(u, id, presence) =>
           \A i \in DOMAIN assistances :
             assistances'[i] # assistances[i] =>
               /\ <<u, SubjectOf[assistances[i].class]>> \in Teaching
               /\ Has(assistances[i].class, "editingStatus")]_vars

\* Nobody acts outside his subjects.  A class changes only at the request of a
\* professor of its subject, whoever is named in the route; a presence only by a
\* professor of the subject of that very row, while the editing window of its class
\* is open, although rows inserted in the same millisecond share their id.
OwnSubjectOnly == ActsForItself /\ CorrectionsStayInSubject

Gate == INSTANCE ClassGate WITH gate <- classes, disturbed <- {}

\* The requests do to a class only what ClassGate says, nothing being disturbed;
\* the synchronisation and a restart are the exceptions.
GateSteps == Gate!Init /\ [][Gate!Next \/ (\E u \in Users : Synchronize(u)) \/ Restart]_Gate!vars

Ledger == INSTANCE AttendanceLedger WITH
    owner <- [n \in Nonces |-> IF claims[n] = None THEN <<>>
                               ELSE <<claims[n].student, claims[n].class>>],
    token <- [n \in Nonces |-> IF claims[n] = None THEN "unissued"
                               ELSE IF n \in usedQrNonces THEN "recorded"
                               ELSE "valid"],
    attendance <- [p \in Students \X Classes |->
                     IF ~AssistanceExists(p[1], p[2]) THEN "none"
                     ELSE assistances[CHOOSE i \in DOMAIN assistances :
                            /\ assistances[i].student = p[1]
                            /\ assistances[i].class = p[2]].presence]

\* Between restarts tokens are spent as AttendanceLedger says, each on one
\* attendance of its own student and class, and without a single one burnt.
LedgerSteps ==
    Ledger!Init /\ [][\/ \E n \in Nonces : \/ Ledger!Record(n)
                                           \/ \E p \in Ledger!Pair : Ledger!Issue(n, p)
                      \/ \E p \in Ledger!Pair, what \in Presence : Ledger!Amend(p, what)
                      \/ Restart]_Ledger!vars

\* The three reports of one attendance agree: that of the student and that of the
\* subject, computed twice in the repository, are the same row, and the list of
\* records shows the same attendance out of no more classes.
ReportsAgree ==
    \A s \in students, x \in Subjects :
        <<s, x>> \in enrollments =>
          LET row == FindStudentAttendanceByRut(s)[x]
              own == StudentAssistance(s, x) IN
          /\ FindStudentsAssistanceBySubject(x)[s] = row
          /\ own.attended = row.attended /\ own.total <= row.total
          /\ own.percentage >= row.percentage /\ own.percentage <= 100

Mistyped == (UNION {Slips(RutOf[s]) : s \in Students}) \ {RutOf[s] : s \in Students}

\* A RUT with one wrong digit, or two neighbours swapped, is refused as a RUT: it
\* is never taken for another student, nor for one that is not there.
MistypedIsRefused ==
    \A t \in Texts \cap Mistyped : GetAttendanceByRut(Admin, t) = 400
=============================================================================
