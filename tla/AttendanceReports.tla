-------------------------- MODULE AttendanceReports --------------------------
(***************************************************************************)
(* The attendance reports over the PostgreSQL adapter: the report of a     *)
(* student (CU-03, CU-04: findStudentAttendanceByRut) and that of a        *)
(* subject (CU-05: findStudentsAssistanceBySubject).  Each is put together *)
(* from several queries outside any transaction, one query per action,     *)
(* while scans, corrections and the synchronisation change the tables.     *)
(*                                                                         *)
(* Reports only read, so that one report at a time stands for any number.  *)
(* A report that is refused because the student, the teaching or the RUT   *)
(* is unknown reads nothing else and is left out.                          *)
(***************************************************************************)
EXTENDS Naturals, Sequences, FiniteSets

CONSTANTS
    Students, Classes, Subjects,
    SubjectOf,       \* SubjectOf[c]: the subject of class c
    NoReport

ASSUME SubjectOfAssumption == SubjectOf \in [Classes -> Subjects]
ASSUME FiniteAssumption == IsFiniteSet(Students) /\ IsFiniteSet(Classes)

VARIABLES
    enrollments,     \* the enrollments table: pairs of student and subject
    sessions,        \* the classes in class_sessions
    attendance,      \* attendance[p]: the assistances row of a student and class
    report,          \* the report that is being put together
    pc,              \* where it has got to
    rows,            \* rows[p]: the row of pair p of student and subject so far
    ever, always,    \* history: what was present at some moment since the
                     \* report was asked for, and at every moment
    late             \* history: classes created since the report counted them

tables == <<enrollments, sessions, attendance>>
watched == <<ever, always, late>>
vars == <<tables, report, pc, rows, watched>>

Pair == Students \X Subjects
Mark == Students \X Classes
Report == [kind : {"student"}, of : Students] \cup [kind : {"subject"}, of : Subjects]
Entry == [at : {"attended", "total", "done"}, attended : Nat, total : Nat]

ASSUME NoReportAssumption == NoReport \notin Report

TypeOK ==
    /\ enrollments \subseteq Pair
    /\ sessions \subseteq Classes
    /\ attendance \in [Mark -> {"none", "present", "absent"}]
    /\ report \in Report \cup {NoReport}
    /\ pc \in {"idle", "enrollments", "classes", "rows"}
    /\ DOMAIN rows \subseteq Pair /\ \A p \in DOMAIN rows : rows[p] \in Entry
    /\ always \subseteq ever /\ ever \subseteq Mark
    /\ late \subseteq sessions
-----------------------------------------------------------------------------
\* Mutant of ClassesOf: only classes somebody attended are counted.
ClassesHeld(x) ==
    {c \in sessions : SubjectOf[c] = x /\ \E s \in Students : attendance[<<s, c>>] # "none"}

ClassesOf(x) == {c \in sessions : SubjectOf[c] = x}

MarksOf(p) == {m \in Mark : m[1] = p[1] /\ SubjectOf[m[2]] = p[2]}

PresentMarks == {m \in Mark : attendance[m] = "present"}

\* Mutant of Attended: every row counts, present or not.
AttendedOrAbsent(p) == Cardinality({m \in MarksOf(p) : attendance[m] # "none"})

\* What the countBy of assistances returns.
Attended(p) == Cardinality(MarksOf(p) \cap PresentMarks)

\* Mutant of Queries: the classes are counted before the attendances.
QueriesTotalFirst == IF report.kind = "student"
                     THEN <<"total", "attended", "done">> ELSE <<"attended", "done">>

\* The queries of a row, in order; CU-05 has counted the classes by then.
Queries == IF report.kind = "student"
           THEN <<"attended", "total", "done">> ELSE <<"attended", "done">>

After(query) == Queries[1 + CHOOSE i \in DOMAIN Queries : Queries[i] = query]

\* The pairs of student and subject the report has a row for.
Reported == {p \in enrollments :
               report.of = IF report.kind = "student" THEN p[1] ELSE p[2]}

Building == report # NoReport

Answered == pc = "rows" /\ \A p \in DOMAIN rows : rows[p].at = "done"

\* There is no report any more: it has been sent, or answered 500.
Discard == /\ report' = NoReport /\ pc' = "idle" /\ rows' = <<>>
           /\ ever' = {} /\ always' = {} /\ late' = {}

\* A scan, a correction or the synchronisation changes the tables while the
\* report is being built; one that is complete changes no more.
Observe == /\ ~Answered
           /\ ever' = IF Building THEN ever \cup PresentMarks' ELSE {}
           /\ always' = always \cap PresentMarks'
           /\ late' = IF pc = "rows" THEN late \cup (sessions' \ sessions) ELSE {}
           /\ UNCHANGED <<report, pc, rows>>
-----------------------------------------------------------------------------
Init ==
    /\ enrollments \in SUBSET Pair
    /\ sessions \in SUBSET Classes
    /\ attendance = [m \in Mark |-> "none"]
    /\ report = NoReport
    /\ pc = "idle"
    /\ rows = <<>>
    /\ ever = {} /\ always = {} /\ late = {}

\* Mutant of CreateClass: the snapshot replaces the classes that are there.
CreateClassReplacing(c) == /\ c \notin sessions
                           /\ sessions' = {c}
                           /\ UNCHANGED <<enrollments, attendance>>
                           /\ Observe

\* upsertClass and upsertEnrollment of the synchronisation.
CreateClass(c) == /\ c \notin sessions
                  /\ sessions' = sessions \cup {c}
                  /\ UNCHANGED <<enrollments, attendance>>
                  /\ Observe

Enroll(p) == /\ enrollments' = enrollments \cup {p}
             /\ UNCHANGED <<sessions, attendance>>
             /\ Observe

\* registerAssistanceQR inserts the row of an enrolled student.
Insert(m) == /\ attendance[m] = "none"
             /\ m[2] \in sessions
             /\ <<m[1], SubjectOf[m[2]]>> \in enrollments
             /\ attendance' = [attendance EXCEPT ![m] = "present"]
             /\ UNCHANGED <<enrollments, sessions>>
             /\ Observe

\* editAssistance updates a row.
Amend(m, mark) == /\ attendance[m] # "none"
                  /\ attendance' = [attendance EXCEPT ![m] = mark]
                  /\ UNCHANGED <<enrollments, sessions>>
                  /\ Observe

\* getStudentAttendanceByRut, getCurrentStudentSubjectAttendance and
\* getStudentsAssistanceBySubject, up to their checks.
Ask(r) ==
    /\ ~Building
    /\ report' = r
    /\ pc' = "enrollments"
    /\ rows' = <<>>
    /\ ever' = PresentMarks /\ always' = PresentMarks /\ late' = {}
    /\ UNCHANGED tables

\* The enrollments are read; CU-05 counts the classes before its rows.
FindEnrollments ==
    /\ pc = "enrollments"
    /\ rows' = [p \in Reported |-> [at |-> Queries[1], attended |-> 0, total |-> 0]]
    /\ pc' = IF report.kind = "student" THEN "rows" ELSE "classes"
    /\ UNCHANGED <<tables, report, watched>>

CountClasses ==
    /\ pc = "classes"
    /\ rows' = [p \in DOMAIN rows |->
                  [rows[p] EXCEPT !.total = Cardinality(ClassesOf(report.of))]]
    /\ pc' = "rows"
    /\ UNCHANGED <<tables, report, watched>>

\* A row asks for the attendances, and in CU-03 and CU-04 then for the classes;
\* the rows do so side by side.
CountAttended(p) ==
    /\ pc = "rows" /\ rows[p].at = "attended"
    /\ rows' = [rows EXCEPT ![p].attended = Attended(p), ![p].at = After("attended")]
    /\ UNCHANGED <<tables, report, pc, watched>>

CountTotal(p) ==
    /\ pc = "rows" /\ rows[p].at = "total"
    /\ rows' = [rows EXCEPT ![p].total = Cardinality(ClassesOf(p[2])),
                           ![p].at = After("total")]
    /\ UNCHANGED <<tables, report, pc, watched>>

\* The report is sent; or a query failed, or the process stopped.
Send == Answered /\ Discard /\ UNCHANGED tables

Fail == Building /\ ~Answered /\ Discard /\ UNCHANGED tables

Build == \/ FindEnrollments \/ CountClasses \/ Send \/ Fail
         \/ \E p \in DOMAIN rows : CountAttended(p) \/ CountTotal(p)

Next == \/ \E r \in Report : Ask(r)
        \/ Build
        \/ \E c \in Classes : CreateClass(c)
        \/ \E p \in Pair : Enroll(p)
        \/ \E m \in Mark : Insert(m) \/ Amend(m, "present") \/ Amend(m, "absent")

Spec == Init /\ [][Next]_vars
-----------------------------------------------------------------------------
\* The report of a student never shows more attendances than classes, so that no
\* percentage exceeds 100: the attendances are counted first and classes are
\* never deleted, whatever is registered between the two queries.
AttendedWithinTotal ==
    Answered /\ report.kind = "student" =>
      \A p \in DOMAIN rows : rows[p].attended <= rows[p].total

\* The report of a subject counts the classes first, and can show more
\* attendances than classes; but no more than classes were created meanwhile.
ExcessIsNewClasses ==
    Answered /\ report.kind = "subject" =>
      \A p \in DOMAIN rows :
        rows[p].attended <= rows[p].total
                            + Cardinality({c \in late : SubjectOf[c] = p[2]})

\* A row counts every class the student was present at all along, and no class
\* the student was at no moment present at.
CountsWarranted ==
    Answered => \A p \in DOMAIN rows :
                  /\ Cardinality(MarksOf(p) \cap always) <= rows[p].attended
                  /\ rows[p].attended <= Cardinality(MarksOf(p) \cap ever)
=============================================================================
