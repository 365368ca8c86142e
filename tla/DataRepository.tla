--------------------------- MODULE DataRepository ---------------------------
(***************************************************************************)
(* The in-memory DataRepository, which the backend uses without DB_HOST:   *)
(* arrays and a set in the memory of the process, with the operations      *)
(* AssistanceService calls.  Nothing here survives a restart.              *)
(*                                                                         *)
(* Rows of classes, enrollments, teachings and students have keys, and the *)
(* upserts keep them unique.  An assistances row has the millisecond of    *)
(* its insertion as its id, and nothing keeps two rows apart.              *)
(***************************************************************************)
EXTENDS Naturals, Sequences, FiniteSets, SequencesExt

CONSTANTS
    Students, Professors, Subjects, Classes,
    SubjectOf,     \* SubjectOf[c]: the subject of class c
    NoRow          \* there is no class with this id

ASSUME SubjectOfAssumption == SubjectOf \in [Classes -> Subjects]
ASSUME ClassesAssumption == IsFiniteSet(Classes)

VARIABLES
    students,      \* the students that are known
    enrollments,   \* pairs of student and subject
    teachings,     \* pairs of professor and subject
    classes,       \* classes[c]: the two statuses of class c, or NoRow
    assistances,   \* the attendance rows, in the order of their insertion
    usedQrNonces

Status == {"ENABLED", "DISABLED"}
Row == [{"registrationStatus", "editingStatus"} -> Status]

ASSUME NoRowAssumption == NoRow \notin Row

Presence == {"present", "absent"}
Assistance == [id : Nat, student : Students, class : Classes, presence : Presence]
-----------------------------------------------------------------------------
\* Mutant of NewRow: the row keeps the editing window of the one it replaces.
NewRowKeepsEditing(c, status) ==
    IF classes[c] = NoRow
    THEN [registrationStatus |-> status, editingStatus |-> "DISABLED"]
    ELSE [classes[c] EXCEPT !.registrationStatus = status]

\* Mutant of NewRow: the status that is missing in the snapshot stays undefined.
NewRowNoDefault(c, status) == [registrationStatus |-> status]

\* What upsertClass stores: the row is replaced as a whole, and editingStatus,
\* which the snapshot does not have, is DISABLED again.
NewRow(c, status) == [registrationStatus |-> status, editingStatus |-> "DISABLED"]

Has(c, column) == classes[c] # NoRow /\ classes[c][column] = "ENABLED"

IsStudentEnrolled(s, c) == <<s, SubjectOf[c]>> \in enrollments

FindTeaching(p, c) == <<p, SubjectOf[c]>> \in teachings

\* Mutant of AssistanceExists: rows of absent students are not looked at.
PresenceExists(s, c) ==
    \E i \in DOMAIN assistances :
        assistances[i].student = s /\ assistances[i].class = c
        /\ assistances[i].presence = "present"

AssistanceExists(s, c) ==
    \E i \in DOMAIN assistances :
        assistances[i].student = s /\ assistances[i].class = c

\* The first row with this id, or 0.
FindAssistanceById(id) == SelectInSeq(assistances, LAMBDA a : a.id = id)

\* Mutant of UpdateAssistancePresence: the last row with this id is changed.
UpdateLastPresence(id, presence) ==
    assistances' = [assistances EXCEPT
        ![SelectLastInSeq(assistances, LAMBDA a : a.id = id)].presence = presence]

\* updateAssistancePresence looks for the row once more.
UpdateAssistancePresence(id, presence) ==
    assistances' = [assistances EXCEPT ![FindAssistanceById(id)].presence = presence]

InsertAssistance(s, c, now) ==
    assistances' = Append(assistances,
        [id |-> now, student |-> s, class |-> c, presence |-> "present"])

UpdateClass(c, row) == classes' = [classes EXCEPT ![c] = row]
-----------------------------------------------------------------------------
\* Reports.  attended and total are numbers of rows and of classes.
RowsOf(s, x) == {i \in DOMAIN assistances : /\ assistances[i].student = s
                                            /\ SubjectOf[assistances[i].class] = x}

PresentRows(s, x) == {i \in RowsOf(s, x) : assistances[i].presence = "present"}

ClassesOf(x) == {c \in Classes : classes[c] # NoRow /\ SubjectOf[c] = x}

\* Math.round(attended / total * 100), or 0 where there is nothing to attend.
Percentage(attended, total) ==
    IF total > 0 THEN (200 * attended + total) \div (2 * total) ELSE 0

Share(attended, total) == [attended |-> attended, total |-> total,
                           percentage |-> Percentage(attended, total)]

\* Mutant of FindStudentAttendanceByRut: absences are counted as well.
FindStudentRowsByRut(s) ==
    [x \in {y \in Subjects : <<s, y>> \in enrollments} |->
        Share(Cardinality(RowsOf(s, x)), Cardinality(ClassesOf(x)))]

\* CU-03 and CU-04: a row for each subject the student is enrolled in.
FindStudentAttendanceByRut(s) ==
    [x \in {y \in Subjects : <<s, y>> \in enrollments} |->
        Share(Cardinality(PresentRows(s, x)), Cardinality(ClassesOf(x)))]

\* CU-05: a row for each student enrolled in the subject.
FindStudentsAssistanceBySubject(x) ==
    [s \in {t \in Students : <<t, x>> \in enrollments} |->
        Share(Cardinality(PresentRows(s, x)), Cardinality(ClassesOf(x)))]

\* getStudentAssistance: the total is the number of rows.
StudentAssistance(s, x) ==
    Share(Cardinality(PresentRows(s, x)), Cardinality(RowsOf(s, x)))
=============================================================================
